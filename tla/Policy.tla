------------------------------- MODULE Policy -------------------------------
(***************************************************************************)
(* The telecom policy of the Protected Enforcement Domain, as operators    *)
(* (policy.py, errors.py).  TelecomPolicy.validate is a list of early      *)
(* returns; here it is three lists of checks, in the order of the code,    *)
(* because the middle one reads the shared epochs and an interleaving may  *)
(* come between any two of those reads.                                    *)
(*                                                                         *)
(* A candidate act is a record:                                            *)
(*   act, nonce           candidate_act_id, freshness (nonce, sequence)    *)
(*   created, expires     its window, in ticks of the clock                *)
(*   epochs               the policy_state it was formed under             *)
(*   sink                 [id, type] of the finality sink it names         *)
(*   jurisdiction         "" is an absent jurisdiction                     *)
(*   purpose, attested    purpose_id, runtime_attestation_digest present   *)
(*   type                 act_type                                         *)
(*   resourceType, resources, effectType, params                           *)
(*   duration             {} when duration_seconds is None, else {n}       *)
(***************************************************************************)
EXTENDS Integers, Sequences

CONSTANTS MaxCandidateAge,      \* PolicyConfig.max_candidate_age_seconds
          MaxEffectDuration,    \* PolicyConfig.max_effect_duration_seconds
          AuthorityTTL,         \* PolicyConfig.authority_ttl_seconds
          RequireAttestation,   \* of the config or of the protected state
          AllowedActTypes,      \* {} allows every act type
          AllowedSinkIds,
          AllowedJurisdictions, \* {} allows every resolved jurisdiction
          AllowedPurposes       \* {} allows every purpose

ASSUME PolicyAssumption ==
    /\ MaxCandidateAge \in Nat
    /\ MaxEffectDuration \in Nat
    /\ AuthorityTTL \in Nat \ {0}
    /\ RequireAttestation \in BOOLEAN

\* What the validators of models.py let a caller build.  Only the lists can be
\* emptied later, which is what the last check of the policy is for.
WellFormed(c) ==
    /\ c.created \in Nat /\ c.expires \in Nat /\ c.created < c.expires
    /\ \A kind \in DOMAIN c.epochs : c.epochs[kind] \in Nat
    /\ c.duration \subseteq Nat
    /\ c.sink.id # "" /\ c.purpose # "" /\ c.effectType # ""

\* No denial: validate returned None.
Pass == "PASS"

\* The reason of the first check that fails.  A check is <<failed, reason>>.
FirstDenial(checks) ==
    LET failed == {i \in DOMAIN checks : checks[i][1]}
    IN  IF failed = {} THEN Pass
        ELSE checks[CHOOSE i \in failed : \A j \in failed : i <= j][2]

\* The checks that compare the candidate with the clock read at the start.
FreshnessDenial(c, now) ==
    FirstDenial(<< <<now < c.created,                      "MALFORMED_ACT">>,
                   <<now >= c.expires,                     "STALE_AUTHORITY">>,
                   <<now - c.created > MaxCandidateAge,    "NONCE_FAILURE">> >>)

\* The epochs validate compares, in its order, and the reason of each.
PolicyKinds == << "policy", "authority", "revocation" >>

EpochReason == [reference     |-> "PROTECTED_STATE_MISMATCH",
                topology      |-> "NETWORK_STATE_MISMATCH",
                configuration |-> "NETWORK_STATE_MISMATCH",
                policy        |-> "POLICY_EPOCH_MISMATCH",
                authority     |-> "PROTECTED_STATE_MISMATCH",
                revocation    |-> "REVOCATION_STATE_MISMATCH"]

\* The comparison of one epoch of the candidate with its current value.
EpochDenial(c, kind, current) ==
    IF c.epochs[kind] = current THEN Pass ELSE EpochReason[kind]

\* An optional duration exceeds a limit only when it is present.
Exceeds(duration, limit) == \E d \in duration : d > limit

\* The checks against the configuration, which does not change in a run.
EnvelopeDenial(c) ==
    FirstDenial(<<
        <<c.sink.id \notin AllowedSinkIds,                   "SINK_MISMATCH">>,
        <<c.jurisdiction = "",                               "JURISDICTION_UNRESOLVED">>,
        <<AllowedJurisdictions # {} /\ c.jurisdiction \notin AllowedJurisdictions,
                                                             "JURISDICTION_MISMATCH">>,
        <<AllowedPurposes # {} /\ c.purpose \notin AllowedPurposes,
                                                             "PURPOSE_MISMATCH">>,
        <<RequireAttestation /\ ~c.attested,                 "ATTESTATION_FAILURE">>,
        <<AllowedActTypes # {} /\ c.type \notin AllowedActTypes,
                                                             "CONSEQUENCE_CLASS_MISMATCH">>,
        <<Exceeds(c.duration, MaxEffectDuration),            "SCOPE_MISMATCH">>,
        <<c.resources = {},                                  "SCOPE_MISMATCH">> >>)

\* Mutant of Lifetime: the candidate's own window is forgotten.
LifetimeUncut(c, now) == AuthorityTTL

\* How long an authority for c lives when it is decided at time now: the
\* configured time to live, cut at the end of the candidate's own window.
Lifetime(c, now) ==
    LET left == IF c.expires > now THEN c.expires - now ELSE 0
    IN  IF left < AuthorityTTL THEN left ELSE AuthorityTTL
=============================================================================
