----------------------------- MODULE PolicyProofs -----------------------------
(***************************************************************************)
(* Lemmas about the operators of Policy: what FirstDenial chooses, and     *)
(* what it means that a list of checks passes.                             *)
(***************************************************************************)
EXTENDS Policy, WellFoundedInduction, TLAPS

\* A set of natural numbers that is not empty has a least element.
LEMMA LeastElement ==
    ASSUME NEW S \in SUBSET Nat, S # {}
    PROVE  \E i \in S : \A j \in S : i <= j
<1>1. PICK i \in S : \A j \in S : <<j, i>> \notin OpToRel(<, Nat)
  BY WFMin, NatLessThanWellFounded
<1>2. \A j \in S : j \in Nat /\ i \in Nat /\ ~(j < i)
  BY <1>1 DEF OpToRel
<1>3. \A j \in S : i <= j
  BY <1>2
<1> QED BY <1>3

\* FirstDenial passes when no check fails; else it gives the reason of the
\* first one that does.
LEMMA FirstDenialFacts ==
    ASSUME NEW checks, DOMAIN checks \subseteq Nat
    PROVE  \/ /\ FirstDenial(checks) = Pass
              /\ \A i \in DOMAIN checks : ~checks[i][1]
           \/ \E i \in DOMAIN checks :
                 /\ checks[i][1] /\ FirstDenial(checks) = checks[i][2]
                 /\ \A j \in DOMAIN checks : checks[j][1] => i <= j
<1> DEFINE failed == {i \in DOMAIN checks : checks[i][1]}
           first == CHOOSE i \in failed : \A j \in failed : i <= j
<1>1. CASE failed = {}
  BY <1>1 DEF FirstDenial
<1>2. CASE failed # {}
  <2>1. \E i \in failed : \A j \in failed : i <= j
    BY <1>2, LeastElement
  <2>2. first \in failed /\ \A j \in failed : first <= j
    BY <2>1
  <2>3. FirstDenial(checks) = checks[first][2]
    BY <1>2 DEF FirstDenial
  <2> HIDE DEF first
  <2> QED BY <2>2, <2>3
<1> QED BY <1>1, <1>2

\* FirstDenial gives no reason that is not listed.
LEMMA DenialIsListed ==
    ASSUME NEW checks, DOMAIN checks \subseteq Nat,
           NEW reason, reason # Pass, \A i \in DOMAIN checks : checks[i][2] # reason
    PROVE  FirstDenial(checks) # reason
  BY FirstDenialFacts

\* What a candidate satisfies that passes the checks against the clock.
LEMMA FreshnessPasses ==
    ASSUME NEW c, NEW now, FreshnessDenial(c, now) = Pass
    PROVE  ~(now < c.created) /\ ~(now >= c.expires)
<1> DEFINE checks == << <<now < c.created,                   "MALFORMED_ACT">>,
                        <<now >= c.expires,                  "STALE_AUTHORITY">>,
                        <<now - c.created > MaxCandidateAge, "NONCE_FAILURE">> >>
<1>1. DOMAIN checks = 1..3
  OBVIOUS
<1>2. \A i \in 1..3 : checks[i][2] # Pass
  BY DEF Pass
<1>3. FirstDenial(checks) = Pass
  BY DEF FreshnessDenial
<1> HIDE DEF checks
<1>4. \A i \in 1..3 : ~checks[i][1]
  BY <1>1, <1>2, <1>3, FirstDenialFacts
<1>5. ~checks[1][1] /\ ~checks[2][1]
  BY <1>4
<1> QED BY <1>5 DEF checks

\* The expiry of an authority: never beyond the candidate's own, and never
\* beyond the configured time to live.
LEMMA LifetimeBounds ==
    ASSUME NEW c, c.expires \in Nat, NEW now \in Nat, now < c.expires
    PROVE  /\ Lifetime(c, now) \in Nat
           /\ now + Lifetime(c, now) <= c.expires
           /\ Lifetime(c, now) <= AuthorityTTL
  BY PolicyAssumption DEF Lifetime, PolicyAssumption
=============================================================================
