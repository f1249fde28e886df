--------------------------------- MODULE PED ---------------------------------
(***************************************************************************)
(* ProtectedEnforcementDomain.validate_and_issue (ped.py).  Any number of  *)
(* calls run at once, each on a thread of its own.  A step of a call ends  *)
(* at its next access to shared state; what it computes from its own       *)
(* variables is part of the step before.                                   *)
(*                                                                         *)
(*   idle -> validate -> reserve -> count -> commit -> bind -> install     *)
(*                                             |                 |         *)
(*                                           denied            return      *)
(*                                                               |         *)
(*                                                             issued      *)
(*                                                                         *)
(* A denial skips from validate or reserve to count: a denied candidate is *)
(* counted and evidenced like an accepted one.                             *)
(***************************************************************************)
EXTENDS FinalityState

VARIABLES
    pedPC,      \* where each call stands
    pedCand,    \* its candidate
    pedNow,     \* `now', read once
    pedIdx,     \* the next epoch to compare or to bind
    pedDenial,  \* the reason of its denial, or Pass
    pedCount,   \* `counter', what advance_counter returned
    pedBind     \* the epochs bound so far

pedVars == <<pedPC, pedCand, pedNow, pedIdx, pedDenial, pedCount, pedBind>>

PedEnds == {"issued", "denied", "raised", "crashed"}
PedActive(p) == pedPC[p] \notin PedEnds \cup {"idle"}

PedInit ==
    /\ pedPC = [p \in PedCalls |-> "idle"]
    /\ pedCand = [p \in PedCalls |-> Nil]
    /\ pedNow = [p \in PedCalls |-> 0]
    /\ pedIdx = [p \in PedCalls |-> 1]
    /\ pedDenial = [p \in PedCalls |-> Pass]
    /\ pedCount = [p \in PedCalls |-> 0]
    /\ pedBind = [p \in PedCalls |-> EpochZero]

PedGoto(p, pc) == pedPC' = [pedPC EXCEPT ![p] = pc]
DeniedWith(p, reason) == pedDenial' = [pedDenial EXCEPT ![p] = reason]

\* Mutant of PedCall: the nonce is spent before the policy has its say.
PedCallSpendsNonce(p, c) ==
    /\ pedPC[p] = "idle"
    /\ pedCand' = [pedCand EXCEPT ![p] = c]
    /\ pedNow' = [pedNow EXCEPT ![p] = clock]
    /\ seen' = seen \cup {c.nonce}
    /\ DeniedWith(p, IF c.nonce \in seen THEN "REPLAY_DETECTED"
                     ELSE FreshnessDenial(c, clock))
    /\ PedGoto(p, IF c.nonce \notin seen /\ FreshnessDenial(c, clock) = Pass
                  THEN "validate" ELSE "count")
    /\ UNCHANGED <<pedIdx, pedCount, pedBind, clock, boot, epoch, counter, evidence,
                   tail, activations, used, released>>

\* A caller submits c; the clock is read and the candidate's window checked.
PedCall(p, c) ==
    /\ pedPC[p] = "idle"
    /\ pedCand' = [pedCand EXCEPT ![p] = c]
    /\ pedNow' = [pedNow EXCEPT ![p] = clock]
    /\ DeniedWith(p, FreshnessDenial(c, clock))
    /\ PedGoto(p, IF FreshnessDenial(c, clock) = Pass THEN "validate" ELSE "count")
    /\ UNCHANGED <<pedIdx, pedCount, pedBind, stateVars>>

\* Mutant of PedCompareEpoch: the last epoch is skipped.
PedCompareEarlyEnd(p) ==
    LET kind == PolicyKinds[pedIdx[p]]
        last == pedIdx[p] = Len(PolicyKinds) - 1
        stale == EpochDenial(pedCand[p], kind, epoch[kind])
        denial == IF stale = Pass /\ last THEN EnvelopeDenial(pedCand[p]) ELSE stale
    IN  /\ pedPC[p] = "validate"
        /\ DeniedWith(p, denial)
        /\ pedIdx' = [pedIdx EXCEPT ![p] = IF denial # Pass \/ last THEN 1 ELSE @ + 1]
        /\ PedGoto(p, IF denial # Pass THEN "count"
                      ELSE IF last THEN "reserve" ELSE "validate")
        /\ UNCHANGED <<pedCand, pedNow, pedCount, pedBind, stateVars>>

\* policy.validate compares one epoch with its current value, and after the
\* last one checks the candidate against the configuration.
PedCompareEpoch(p) ==
    LET kind == PolicyKinds[pedIdx[p]]
        last == pedIdx[p] = Len(PolicyKinds)
        stale == EpochDenial(pedCand[p], kind, epoch[kind])
        denial == IF stale = Pass /\ last THEN EnvelopeDenial(pedCand[p]) ELSE stale
    IN  /\ pedPC[p] = "validate"
        /\ DeniedWith(p, denial)
        /\ pedIdx' = [pedIdx EXCEPT ![p] = IF denial # Pass \/ last THEN 1 ELSE @ + 1]
        /\ PedGoto(p, IF denial # Pass THEN "count"
                      ELSE IF last THEN "reserve" ELSE "validate")
        /\ UNCHANGED <<pedCand, pedNow, pedCount, pedBind, stateVars>>

\* nonce_registry.reserve: a nonce seen before is a replay.
PedReserve(p) ==
    /\ pedPC[p] = "reserve"
    /\ \/ Reserve(pedCand[p].nonce) /\ UNCHANGED pedDenial
       \/ /\ pedCand[p].nonce \in seen
          /\ DeniedWith(p, "REPLAY_DETECTED")
          /\ UNCHANGED seen
    /\ PedGoto(p, "count")
    /\ UNCHANGED <<pedCand, pedNow, pedIdx, pedCount, pedBind, clock, boot, epoch,
                   counter, evidence, tail, activations, used, released>>

\* Mutant of PedAdvanceCounter: it advances a copy of the state.
PedAdvanceCopy(p) ==
    /\ pedPC[p] = "count"
    /\ pedCount' = [pedCount EXCEPT ![p] = counter + 1]
    /\ PedGoto(p, "commit")
    /\ UNCHANGED <<pedCand, pedNow, pedIdx, pedDenial, pedBind, stateVars>>

\* state.advance_counter, for an accepted and for a denied candidate.
PedAdvanceCounter(p) ==
    /\ pedPC[p] = "count"
    /\ counter' = counter + 1
    /\ pedCount' = [pedCount EXCEPT ![p] = counter + 1]
    /\ PedGoto(p, "commit")
    /\ UNCHANGED <<pedCand, pedNow, pedIdx, pedDenial, pedBind, clock, boot, epoch,
                   storeVars, released>>

\* The evidence record of the decision.
EvidenceOf(p) ==
    [act      |-> pedCand[p].act,
     decision |-> IF pedDenial[p] = Pass THEN "ALLOW" ELSE "DENY",
     counter  |-> pedCount[p],
     previous |-> tail]

\* Mutant of PedCommitEvidence: the early return of a denial is missing.
PedCommitFallsThrough(p) ==
    /\ pedPC[p] = "commit"
    /\ Commit(p, EvidenceOf(p))
    /\ PedGoto(p, "bind")
    /\ UNCHANGED <<pedCand, pedNow, pedIdx, pedDenial, pedCount, pedBind, clock, boot,
                   epoch, counter, seen, activations, used, released>>

\* evidence_store.commit; a denied call returns its decision right after it.
PedCommitEvidence(p) ==
    /\ pedPC[p] = "commit"
    /\ Commit(p, EvidenceOf(p))
    /\ PedGoto(p, IF pedDenial[p] = Pass THEN "bind" ELSE "denied")
    /\ UNCHANGED <<pedCand, pedNow, pedIdx, pedDenial, pedCount, pedBind, clock, boot,
                   epoch, counter, seen, activations, used, released>>

\* The AuthorityBinding reads the protected state once more, one field at a
\* time; these reads, not the ones of validate, are what the authority binds.
PedBindEpoch(p) ==
    LET kind == Kinds[pedIdx[p]]
        last == pedIdx[p] = Len(Kinds)
    IN  /\ pedPC[p] = "bind"
        /\ pedBind' = [pedBind EXCEPT ![p][kind] = epoch[kind]]
        /\ pedIdx' = [pedIdx EXCEPT ![p] = IF last THEN @ ELSE @ + 1]
        /\ PedGoto(p, IF last THEN "install" ELSE "bind")
        /\ UNCHANGED <<pedCand, pedNow, pedDenial, pedCount, stateVars>>

\* AuthorityScope: what the sink will allow, copied from the candidate.
ScopeOf(c) ==
    [type |-> c.type, resourceType |-> c.resourceType, resources |-> c.resources,
     effectType |-> c.effectType, params |-> c.params, duration |-> c.duration,
     purpose |-> c.purpose, jurisdiction |-> c.jurisdiction]

\* The signed envelope: scope, binding, lifetime and the signing key.  The
\* activation commitment, a random value also held by the activation record,
\* is the identity of call p.
AuthorityOf(p) ==
    LET c == pedCand[p]
    IN  [cand     |-> c,
         scope    |-> ScopeOf(c),
         evidence |-> evidence[p],
         nonce    |-> c.nonce,
         sink     |-> c.sink.id,
         boundary |-> c.sink,
         bind     |-> pedBind[p],
         expires  |-> pedNow[p] + Lifetime(c, pedNow[p]),
         boot     |-> boot]

\* Mutant of ActivationOf: the sink and the nonce change places.
ActivationSwapped(auth) ==
    [authority |-> auth, cand |-> auth.cand, sink |-> auth.nonce,
     nonce |-> auth.sink, expires |-> auth.expires]

\* ActivationRecord: what the sink must hold besides the caller's envelope.
ActivationOf(auth) ==
    [authority |-> auth, cand |-> auth.cand, sink |-> auth.sink,
     nonce |-> auth.nonce, expires |-> auth.expires]

\* activation_store.put
PedInstall(p) ==
    /\ pedPC[p] = "install"
    /\ Put(p, ActivationOf(AuthorityOf(p)))
    /\ PedGoto(p, "return")
    /\ UNCHANGED <<pedCand, pedNow, pedIdx, pedDenial, pedCount, pedBind, clock, boot,
                   epoch, counter, seen, evidence, tail, used, released>>

\* The caller receives the envelope.
PedReturn(p) ==
    /\ pedPC[p] = "return"
    /\ released' = [released EXCEPT ![p] = AuthorityOf(p)]
    /\ PedGoto(p, "issued")
    /\ UNCHANGED <<pedCand, pedNow, pedIdx, pedDenial, pedCount, pedBind, clock, boot,
                   epoch, counter, storeVars>>

\* A SQLite store raises (the database stays locked past the busy timeout, or
\* the disk fails); its transaction rolls back and the exception ends the call.
PedRaise(p) ==
    /\ Persistence = "sqlite"
    /\ pedPC[p] \in {"commit", "install"}
    /\ PedGoto(p, "raised")
    /\ UNCHANGED <<pedCand, pedNow, pedIdx, pedDenial, pedCount, pedBind, stateVars>>

\* The steps of a call under way: what its thread does once it is scheduled.
PedStep(p) ==
    \/ PedCompareEpoch(p)
    \/ PedReserve(p)
    \/ PedAdvanceCounter(p)
    \/ PedCommitEvidence(p)
    \/ PedBindEpoch(p)
    \/ PedInstall(p)
    \/ PedReturn(p)
    \/ PedRaise(p)

PedNext(p) == PedStep(p) \/ \E c \in Candidates : PedCall(p, c)

\* A restart ends the calls under way; their variables are gone.
PedCrash ==
    /\ pedPC' = [p \in PedCalls |-> IF PedActive(p) THEN "crashed" ELSE pedPC[p]]
    /\ UNCHANGED <<pedCand, pedNow, pedIdx, pedDenial, pedCount, pedBind>>

PedTypeOK ==
    /\ pedPC \in [PedCalls -> {"idle", "validate", "reserve", "count", "commit",
                               "bind", "install", "return"} \cup PedEnds]
    /\ pedCand \in [PedCalls -> Candidates \cup {Nil}]
    /\ pedNow \in [PedCalls -> Nat]
    /\ pedIdx \in [PedCalls -> DOMAIN Kinds]
    /\ DOMAIN pedDenial = PedCalls
    /\ pedCount \in [PedCalls -> Nat]
    /\ pedBind \in [PedCalls -> [KindSet -> Nat]]
=============================================================================
