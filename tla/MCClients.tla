------------------------------ MODULE MCClients ------------------------------
(***************************************************************************)
(* The instance of Clients for TLC: two iterations, candidates of every    *)
(* moment of the run.                                                      *)
(***************************************************************************)
EXTENDS Clients

CONSTANTS p1, p2, s1, s2

ran == [id |-> "ran-finality-sink-04", type |-> "RAN_CONTROL"]
RanSink == {ran, [ran EXCEPT !.id = "other-sink"]}
RanId == {ran.id}
Jurisdictions == {"IN"}
Purposes == {"latency-optimization"}
AnyType == {}
Simulated == {"topology", "revocation"}
TwoPedCalls == <<p1, p2>>
TwoSinkCalls == <<s1, s2>>

defaults == [act |-> 0, nonce |-> 0, created |-> 0, expires |-> 0,
             epochs |-> [policy |-> 0, authority |-> 0, revocation |-> 0],
             sink |-> ran, jurisdiction |-> "IN", purpose |-> "latency-optimization",
             attested |-> FALSE, type |-> "SLICE_RESOURCE_ALLOCATION",
             resourceType |-> "SLICE", resources |-> {"slice-17"},
             effectType |-> "ALLOCATE_CAPACITY", params |-> "prb-12", duration |-> {2}]

Made == {MakeCandidate(i, now) : i \in 1..Iterations, now \in 0..MaxClock}
MadeEffects == {MakeEffect(c, params) : c \in Made, params \in {"prb-12", "other"}}
=============================================================================
