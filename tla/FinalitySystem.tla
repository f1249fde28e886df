---------------------------- MODULE FinalitySystem ----------------------------
(***************************************************************************)
(* The reference system (engine.py): one Protected Enforcement Domain, the *)
(* finality sinks, the stores and the network, with the environment they   *)
(* run in.  validate_and_issue and verify_and_effectuate calls interleave  *)
(* step by step with each other, with time, with the operator who changes  *)
(* the protected state and with restarts of the process.                   *)
(***************************************************************************)
EXTENDS PED, Sink, FiniteSets

vars == <<stateVars, pedVars, sinkVars>>

Init == StateInit /\ PedInit /\ SinkInit

Environment ==
    /\ Tick \/ \E kind \in Advancing : AdvanceEpoch(kind)
    /\ UNCHANGED <<pedVars, sinkVars>>

\* build_reference_system in a new process, after a stop at any point.
Restart == Rebuild /\ PedCrash /\ SinkCrash

PedRuns(p) == PedStep(p) /\ UNCHANGED sinkVars
SinkRuns(s) == SinkStep(s) /\ UNCHANGED pedVars

Submit(p) == (\E c \in Candidates : PedCall(p, c)) /\ UNCHANGED sinkVars
Present(s) == (\E req \in Requests : SinkCall(s, req)) /\ UNCHANGED pedVars

\* Every call of the instance was made and has ended.
Finished ==
    /\ \A p \in PedCalls : pedPC[p] \in PedEnds
    /\ \A s \in SinkCalls : sinkPC[s] \in SinkEnds
    /\ UNCHANGED vars

Next ==
    \/ Environment
    \/ \E p \in PedCalls : Submit(p) \/ PedRuns(p)
    \/ \E s \in SinkCalls : Present(s) \/ SinkRuns(s)
    \/ Restart
    \/ Finished

Spec == Init /\ [][Next]_vars

\* The scheduler runs every thread that can go on.  Nobody has to call, time
\* may stop, and nothing forces a restart or a change of epoch.
Fairness ==
    /\ \A p \in PedCalls : WF_vars(PedRuns(p))
    /\ \A s \in SinkCalls : WF_vars(SinkRuns(s))

FairSpec == Spec /\ Fairness

-----------------------------------------------------------------------------
(* Types.                                                                  *)

Records == [act : {c.act : c \in Candidates}, decision : {"ALLOW", "DENY"},
            counter : Nat, previous : PedCalls \cup {Genesis}]

Nonces == {c.nonce : c \in Candidates}
SinkNames == {c.sink.id : c \in Candidates}

Authorities == [cand : Candidates, scope : {ScopeOf(c) : c \in Candidates},
                evidence : Records \cup {Nil}, nonce : Nonces, sink : SinkNames,
                boundary : {c.sink : c \in Candidates}, bind : [KindSet -> Nat],
                expires : Nat, boot : Nat]

Activations == [authority : Authorities, cand : Candidates, sink : SinkNames,
                nonce : Nonces, expires : Nat]

ASSUME NilIsNoRecord == Nil \notin Records \cup Authorities \cup Activations

\* TypeOK: every variable stays in the set of values the code can give it.
TypeOK ==
    /\ clock \in Nat
    /\ boot \in Nat
    /\ epoch \in [KindSet -> Nat]
    /\ counter \in Nat
    /\ seen \subseteq Nonces
    /\ evidence \in [PedCalls -> Records \cup {Nil}]
    /\ tail \in PedCalls \cup {Genesis}
    /\ activations \in [PedCalls -> Activations \cup {Nil}]
    /\ used \subseteq PedCalls
    /\ released \in [PedCalls -> Authorities \cup {Nil}]
    /\ PedTypeOK
    /\ SinkTypeOK

-----------------------------------------------------------------------------
(* Safety.                                                                 *)

\* A call that passed every check made with no lock held (sink.py:69-170).
Locking == {"lock", "netlock"}
Critical == {"recheck", "consume", "apply", "undo"}
Passed(s) == sinkPC[s] \in Locking \cup Critical \cup {"ok"}

\* The call that issued the authority presented to s.
IssuerOf(s) == sinkReq[s].auth

\* The candidate, its decision time and its bound epochs, for a passed call.
Bound(s) == released[IssuerOf(s)]

\* SingleUse: however the calls of any number of sinks interleave, fail and
\* restart, an authority has at most one effect (sink.py:175-194).
SingleUse ==
    \A s, t \in effects : IssuerOf(s) = IssuerOf(t) => s = t

\* LocksAreReleased: a lock is held only by a call inside the `with' block of
\* its own sink (sink.py:175): no early return or exception leaks it.
LocksAreReleased ==
    /\ netLock # Nil => sinkPC[netLock] \in Critical
    /\ \A k \in Sinks : sinkLock[k] # Nil =>
          /\ sinkReq[sinkLock[k]].sink = k
          /\ sinkPC[sinkLock[k]] \in Critical \cup {"netlock"}

\* What a call under way waits for: nothing, or a lock that is free.
CanGoOn(s) ==
    /\ SinkActive(s)
    /\ sinkPC[s] = "lock" => sinkLock[sinkReq[s].sink] = Nil
    /\ sinkPC[s] = "netlock" => netLock = Nil

\* NoDeadlock: sinks that share the network take two locks each, and calls may
\* fail or be refused under both; still, never does every call under way wait
\* for another (sink.py:175).
NoDeadlock ==
    (\E s \in SinkCalls : SinkActive(s)) => \E s \in SinkCalls : CanGoOn(s)

\* EffectIsTheValidatedAct: what takes effect is what the PED validated: the
\* same candidate, admitted by its policy, on the sink it names, and an effect
\* inside the validated scope (ped.py:95-164, sink.py:84-170).
EffectIsTheValidatedAct ==
    \A s \in effects :
        LET p == IssuerOf(s)
            c == pedCand[p]
            e == sinkReq[s].effect
        IN  /\ pedPC[p] = "issued"
            /\ c = sinkReq[s].cand
            /\ FreshnessDenial(c, pedNow[p]) = Pass
            /\ EnvelopeDenial(c) = Pass
            /\ c.sink = sinkReq[s].sink
            /\ <<e.resourceType, e.resources, e.effectType, e.params>> =
               <<c.resourceType, c.resources, c.effectType, c.params>>
            /\ \A limit \in c.duration, d \in e.duration : d <= limit

\* No authority outlives a restart: a restart makes a new key pair, or loses
\* the activation records, or there is none.
Perishable == Signing = "ed25519" \/ Persistence = "memory" \/ MaxBoot = 0

\* EpochsWereCurrent: the sink compares the epochs one read at a time, with no
\* lock, while they advance; still, a call that passes has an authority whose
\* whole binding was current when the call began (sink.py:118-134).  The one
\* exception is an authority that outlives a restart, which sets them back.
EpochsWereCurrent ==
    Perishable => \A s \in SinkCalls : Passed(s) => Bound(s).bind = entry[s]

\* BoundBetween: the PED reads each epoch twice, to validate and to bind
\* (policy.py:33-38, ped.py:146-150).  The readings may differ, but what it
\* binds is never older than what the candidate was validated under, and never
\* ahead of the state: it is the validated one for as long as the epoch is.
BoundBetween ==
    \A p \in PedCalls : released[p] # Nil =>
        \A i \in DOMAIN PolicyKinds :
            LET kind == PolicyKinds[i]
            IN  /\ pedCand[p].epochs[kind] <= released[p].bind[kind]
                /\ released[p].boot = boot => released[p].bind[kind] <= epoch[kind]

\* MissedOnlyInFlight: the sink makes its checks before it waits for the locks
\* (sink.py:69-134) and does not repeat them at the effect (sink.py:181).
\* Still, all an effect can miss is what came during its own call: a binding
\* that the state has left was overtaken by a move since the call began, and
\* the authority was live at that moment.
MissedOnlyInFlight ==
    [][\A s \in effects' \ effects :
          /\ sinkNow[s] < Bound(s).expires
          /\ \A kind \in KindSet :
                epoch[kind] = entry[s][kind] => Bound(s).bind[kind] = epoch[kind]]_vars

\* DecidedInWindow: a call that passes read its clock after the validation
\* did, within the candidate's own window and the authority's time to live
\* (ped.py:119-123, sink.py:80,96).
DecidedInWindow ==
    \A s \in SinkCalls : Passed(s) =>
        LET p == IssuerOf(s)
        IN  /\ pedCand[p].created <= pedNow[p]
            /\ pedNow[p] <= sinkNow[s]
            /\ sinkNow[s] < pedCand[p].expires
            /\ sinkNow[s] - pedNow[p] < AuthorityTTL

\* OneGrantPerNonce: however many calls submit it at once, a nonce yields at
\* most one authority in the life of a process (ped.py:96, state.py:162-167).
OneGrantPerNonce ==
    \A p, q \in PedCalls :
        /\ released[p] # Nil /\ released[q] # Nil
        /\ released[p].nonce = released[q].nonce
        /\ released[p].boot = released[q].boot
        => p = q

\* OneEffectPerNonce: a nonce of one process has one effect at most, whatever
\* it is presented with, to which sinks, and whichever processes apply it
\* (ped.py:96, sink.py:175-194): single use of the nonce and of the authority
\* add up to single use of the act.
OneEffectPerNonce ==
    \A s, t \in effects :
        /\ sinkReq[s].cand.nonce = sinkReq[t].cand.nonce
        /\ Bound(s).boot = Bound(t).boot
        => s = t

\* NoNonceWasted: a spent nonce belongs to a candidate the policy let through,
\* and that call returns its authority; one that is denied can be corrected
\* and sent again (ped.py:95-97).  Only a SQLite store that raises after the
\* nonce was reserved costs a caller its nonce (ped.py:102,170).
NoNonceWasted ==
    \A n \in seen : \E p \in PedCalls :
        /\ \/ pedPC[p] \in {"count", "commit", "bind", "install", "return", "issued"}
           \/ Persistence = "sqlite" /\ pedPC[p] = "raised"
        /\ pedDenial[p] = Pass
        /\ pedCand[p].nonce = n

\* ReleasedIsBacked: an envelope in a caller's hands is backed by its ALLOW
\* evidence and its activation record, unless a restart wiped the stores
\* (ped.py:102,170): evidence comes before release, for every interleaving.
ReleasedIsBacked ==
    \A p \in PedCalls :
        released[p] # Nil /\ (Persistence = "sqlite" \/ released[p].boot = boot) =>
            /\ evidence[p] # Nil
            /\ evidence[p] = released[p].evidence
            /\ evidence[p].decision = "ALLOW"
            /\ activations[p] # Nil
            /\ activations[p].authority = released[p]

\* ChainIsLinear: the evidence records form one chain from GENESIS to the
\* tail, with no fork and no gap, whatever calls commit at once and across
\* restarts (evidence.py:39-46,80-95).
ChainIsLinear ==
    LET committed == {p \in PedCalls : evidence[p] # Nil}
        previous == {evidence[p].previous : p \in committed}
    IN  /\ previous = (committed \cup {Genesis}) \ {tail}
        /\ Cardinality(previous) = Cardinality(committed)

\* CountersAreDistinct: the counter is advanced and the record committed in two
\* steps (ped.py:100-102), so that the chain may hold counters out of order;
\* still, no two records of one process have the same one.
CountersAreDistinct ==
    Persistence = "memory" \/ boot = 0 =>
        \A p, q \in PedCalls :
            /\ evidence[p] # Nil /\ evidence[q] # Nil
            /\ evidence[p].counter = evidence[q].counter
            => p = q

\* NoAuthorityWasted: an authority is marked used only for an effect or a call
\* about to make one; a failed apply gives it back (sink.py:178-194).  Only a
\* SQLite failure or a crash inside the block can cost it its effect.
NoAuthorityWasted ==
    \A a \in used : \E s \in SinkCalls :
        /\ \/ s \in effects
           \/ sinkPC[s] \in {"apply", "undo"}
           \/ Persistence = "sqlite" /\ sinkPC[s] \in {"raised", "crashed"}
        /\ IssuerOf(s) = a

\* UsedMeansRival: a call that is refused as already used lost to another
\* call, which had consumed the authority: for an effect, or to give it back
\* after the refusal (sink.py:107,176-179,190).  No call refuses itself.
UsedMeansRival ==
    \A s \in SinkCalls :
        sinkPC[s] = "denied" /\ sinkCode[s] = "AUTHORITY_ALREADY_USED" =>
            \E t \in SinkCalls \ {s} :
                /\ t \in effects \/ sinkPC[t] \in {"apply", "undo", "raised", "crashed"}
                /\ sinkReq[t].auth = sinkReq[s].auth

-----------------------------------------------------------------------------
(* The contract.                                                           *)

HasEffect(p) == \E s \in effects : IssuerOf(s) = p
HasAllow(p) == evidence[p] # Nil /\ evidence[p].decision = "ALLOW"

StageOf(p) == IF HasEffect(p) THEN "effective"
              ELSE IF released[p] # Nil THEN "released"
              ELSE IF HasAllow(p) THEN "evidenced"
              ELSE "noneffective"

Contract == INSTANCE FinalityContract WITH
                Decisions <- PedCalls,
                Attempts <- SinkCalls,
                stage <- [p \in PedCalls |-> StageOf(p)],
                consequences <- {<<IssuerOf(s), s>> : s \in effects}

\* ContractHolds: the system implements FinalityContract: no consequence but
\* after evidence and release, in that order, and one at most.
ContractHolds == Contract!ContractSpec

-----------------------------------------------------------------------------
(* Liveness.                                                               *)

\* CallsReturn: every call that was made returns, raises or ends with the
\* process: no call waits for a lock for ever (sink.py:175).
CallsReturn ==
    /\ \A p \in PedCalls : PedActive(p) ~> ~PedActive(p)
    /\ \A s \in SinkCalls : SinkActive(s) ~> ~SinkActive(s)

\* RevocationSticks: once an epoch has moved past the one an authority binds,
\* no call that begins later gives that authority an effect (sink.py:118-134).
RevocationSticks ==
    \A p \in PedCalls, s \in SinkCalls, kind \in KindSet :
        [](/\ released[p] # Nil
           /\ released[p].bind[kind] < epoch[kind]
           /\ sinkPC[s] = "idle"
           => [](s \in effects => IssuerOf(s) # p))

-----------------------------------------------------------------------------
(* What the documents say, and the code does not do.                       *)

\* ConsequenceUnderLiveAuthority: an effect is applied while its authority is
\* live: not expired, and every epoch it binds current (README.md:346-366:
\* what the sink re-checks "immediately before the demo consequence" includes
\* the expiration, the epochs and the revocation state).
ConsequenceUnderLiveAuthority ==
    [][\A s \in effects' \ effects :
          clock < Bound(s).expires /\ Bound(s).bind = epoch]_vars

\* BoundAsValidated: an authority that takes effect binds the policy state its
\* candidate was formed and validated under (ped.py:95,148-150).
BoundAsValidated ==
    \A s \in effects : \A i \in DOMAIN PolicyKinds :
        Bound(s).bind[PolicyKinds[i]] = pedCand[IssuerOf(s)].epochs[PolicyKinds[i]]

\* ReplayStateIsDurable: with SQLite stores a nonce takes effect once, across
\* restarts (README.md:147: "restart-safe replay state").
ReplayStateIsDurable ==
    Persistence = "sqlite" =>
        \A s, t \in effects : sinkReq[s].cand.nonce = sinkReq[t].cand.nonce => s = t
=============================================================================
