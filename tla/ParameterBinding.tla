--------------------------- MODULE ParameterBinding ---------------------------
(***************************************************************************)
(* How the digest ties the parameters of an effect to the candidate act:   *)
(* make_candidate digests the parameters it is given (engine.py:154), a    *)
(* caller forms an effect with parameters of its own (engine.py:172-178),  *)
(* and the sink digests them once more and compares (sink.py:161-167).     *)
(* Sink.tla takes a digest to be the value it is made of; these properties *)
(* say what that leaves out.                                               *)
(***************************************************************************)
EXTENDS Canonical

CONSTANTS Values,   \* the parameters the callers hold
          None

VARIABLES stage,    \* how far the caller got
          asked,    \* the parameters of the candidate
          offered   \* the parameters of the effect

vars == <<stage, asked, offered>>

Init == stage = "start" /\ asked = None /\ offered = None

\* make_candidate: digest_value raises or goes into the candidate, which the
\* PED copies into the scope of the authority.
Ask(x) ==
    /\ stage = "start"
    /\ asked' = x
    /\ stage' = IF IsRaised(Digest(x)) THEN "raised" ELSE "asked"
    /\ UNCHANGED offered

\* make_effect, with the digest of its own parameters.
Offer(y) ==
    /\ stage = "asked"
    /\ offered' = y
    /\ stage' = IF IsRaised(Digest(y)) THEN "raised" ELSE "offered"
    /\ UNCHANGED asked

\* The sink digests the parameters and compares with effect and scope.
Verify ==
    /\ stage = "offered"
    /\ stage' = IF Digest(offered) = Digest(asked) THEN "match" ELSE "mismatch"
    /\ UNCHANGED <<asked, offered>>

Finished == stage \in {"raised", "match", "mismatch"} /\ UNCHANGED vars

Next == (\E x \in Values : Ask(x) \/ Offer(x)) \/ Verify \/ Finished

Spec == Init /\ [][Next]_vars

-----------------------------------------------------------------------------

\* SubstitutionIsSeen: parameters that match the digest the candidate bound
\* are the same JSON document, at every depth: no other number type, item
\* order, nesting or key passes (canonical.py:12-34; README.md:280).
SubstitutionIsSeen == stage = "match" => SameJson(asked, offered)

\* OrderIsIrrelevant: a caller that offers the content it asked for is never
\* refused, nor does its effect raise, in whatever order its dictionaries were
\* filled and with whatever representation of a time, a tuple or an Enum
\* (canonical.py:12-24; tests/test_models_and_canonical.py:13).
OrderIsIrrelevant ==
    stage \in {"mismatch", "raised"} /\ offered # None => ~SameContent(asked, offered)
=============================================================================
