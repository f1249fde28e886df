------------------------------ MODULE MCFinality ------------------------------
(***************************************************************************)
(* Instances of FinalitySystem for TLC: the sinks, candidates and effects  *)
(* the configurations choose from.  Times are ticks, epochs count from the *)
(* defaults of ProtectedNetworkState.                                      *)
(***************************************************************************)
EXTENDS FinalitySystem, TLC

ran == [id |-> "ran-finality-sink-04", type |-> "RAN_CONTROL"]
edge == [id |-> "edge-sink-01", type |-> "EDGE"]
\* The identifier of ran with another boundary.
ranEdge == [id |-> "ran-finality-sink-04", type |-> "EDGE"]

OneSink == {ran}
TwoSinks == {ran, edge}
ThreeSinks == {ran, edge, ranEdge}
SinkIds == {k.id : k \in ThreeSinks}
RanId == {ran.id}
Jurisdictions == {"IN"}
Purposes == {"latency-optimization"}
AnyType == {}
NoEpochs == {}
Revocation == {"revocation"}
SomeEpochs == {"topology", "policy", "authority", "revocation"}

\* make_candidate of engine.py, formed at time 0 for three ticks.
base == [act |-> "act-1", nonce |-> "n1", created |-> 0, expires |-> 3,
         epochs |-> [policy |-> 0, authority |-> 0, revocation |-> 0],
         sink |-> ran, jurisdiction |-> "IN", purpose |-> "latency-optimization",
         attested |-> FALSE, type |-> "SLICE_RESOURCE_ALLOCATION",
         resourceType |-> "SLICE", resources |-> {"slice-17"},
         effectType |-> "ALLOCATE_CAPACITY", params |-> "prb-12", duration |-> {2}]

\* make_effect of engine.py for base.
allocate == [resourceType |-> "SLICE", resources |-> {"slice-17"},
             effectType |-> "ALLOCATE_CAPACITY", params |-> "prb-12",
             digest |-> "prb-12", duration |-> {2}]

OneCandidate == {base}
OneEffect == {allocate}

\* Candidates that share a nonce, one of which the policy denies.
SharedNonce == {base, [base EXCEPT !.act = "act-3", !.purpose = "other"]}

\* Candidates of other windows: one from the future that expires within the
\* authority's time to live, and one that outlives the maximal age.
Windows == {base,
            [base EXCEPT !.act = "act-2", !.nonce = "n2", !.created = 1, !.expires = 2],
            [base EXCEPT !.act = "act-3", !.nonce = "n3", !.expires = 4]}

\* A candidate formed under the next revocation epoch, too.
TwoStates == {base, [base EXCEPT !.act = "act-2", !.nonce = "n2",
                                 !.epochs.revocation = 1]}

\* One candidate for each of two sinks, the second without a duration, and
\* one for the boundary that shares the identifier of the first.
onEdge == [base EXCEPT !.act = "act-2", !.nonce = "n2", !.sink = edge, !.duration = {}]
onRanEdge == [base EXCEPT !.act = "act-3", !.nonce = "n3", !.sink = ranEdge]
PerSink == {base, onEdge}

\* Effects that differ from the validated one in one respect each.
Substitutions == {allocate,
                  [allocate EXCEPT !.resources = {"slice-17", "slice-99"}],
                  [allocate EXCEPT !.params = "prb-90"],
                  [allocate EXCEPT !.params = "prb-90", !.digest = "prb-90"],
                  [allocate EXCEPT !.resourceType = "CELL"],
                  [allocate EXCEPT !.duration = {3}],
                  [allocate EXCEPT !.duration = {}]}

\* Candidates the policy denies, one for each check of the configuration.
Denied == {[base EXCEPT !.sink.id = "other"],
           [base EXCEPT !.jurisdiction = ""],
           [base EXCEPT !.jurisdiction = "XX"],
           [base EXCEPT !.purpose = "other"],
           [base EXCEPT !.duration = {9}],
           [base EXCEPT !.resources = {}]}
Admission == Denied \cup Windows \cup {onRanEdge}

Symmetry == Permutations(PedCalls) \cup Permutations(SinkCalls)
=============================================================================
