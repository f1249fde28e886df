---------------------------- MODULE FinalityProofs ----------------------------
(***************************************************************************)
(* Theorems about FinalitySystem, for any number of calls, sinks,          *)
(* candidates and effects, any policy, both kinds of store, both signing   *)
(* backends, and any bound on time, epochs and restarts.                   *)
(***************************************************************************)
EXTENDS FinalitySystem, TLAPS

-----------------------------------------------------------------------------
(* The inductive invariant.                                                *)

\* What a call has taken in by the time it stands where it stands.
PedShape ==
    \A p \in PedCalls :
        /\ pedPC[p] # "idle" => pedCand[p] \in Candidates
        /\ pedPC[p] \in {"idle", "validate"} => pedIdx[p] \in DOMAIN PolicyKinds

\* The states of a call that has been given an envelope it accepted.
Holding == {"evidence", "activation", "used", "state", "lock", "netlock",
            "recheck", "consume", "apply", "undo", "ok"}

SinkShape ==
    \A s \in SinkCalls :
        /\ sinkPC[s] # "idle" => sinkReq[s] \in Requests
        /\ sinkPC[s] \in Holding => IssuerOf(s) \in PedCalls

TypeInv == TypeOK /\ PedShape /\ SinkShape

\* An envelope is in a caller's hands only after its call has returned it, so
\* no activation is installed for an authority that was ever presented.
IssueInv ==
    /\ \A p \in PedCalls : released[p] # Nil => pedPC[p] = "issued"
    /\ \A s \in SinkCalls : sinkPC[s] \in Holding => released[IssuerOf(s)] # Nil

\* Only the holder of the network's lock is inside the `with' block.
LockInv ==
    /\ \A s \in SinkCalls : sinkPC[s] \in Critical => netLock = s
    /\ LocksAreReleased

\* A call about to apply or to undo has consumed its authority, which has no
\* effect yet; an authority with an effect is used, or gone from the store.
UseInv ==
    /\ \A s \in effects : sinkPC[s] = "ok"
    /\ \A s \in SinkCalls : sinkPC[s] \in {"apply", "undo"} =>
          /\ IssuerOf(s) \in used
          /\ \A t \in effects : IssuerOf(t) # IssuerOf(s)
    /\ \A t \in effects : IssuerOf(t) \in used \/ activations[IssuerOf(t)] = Nil
    /\ SingleUse

IInv == TypeInv /\ IssueInv /\ LockInv /\ UseInv

-----------------------------------------------------------------------------
(* Lemmas about the operators.                                             *)

\* The two sequences of kinds, spelled out for the provers.
LEMMA KindFacts ==
    /\ DOMAIN PolicyKinds = 1..3
    /\ Len(PolicyKinds) = 3
    /\ DOMAIN Kinds = 1..6
    /\ Len(Kinds) = 6
    /\ \A i \in 1..6 : Kinds[i] \in KindSet
    /\ \A i \in 1..3 : PolicyKinds[i] \in KindSet
<1>1. /\ DOMAIN PolicyKinds = 1..3
      /\ Len(PolicyKinds) = 3
      /\ DOMAIN Kinds = 1..6
      /\ Len(Kinds) = 6
  BY DEF PolicyKinds, Kinds
<1>2. \A i \in 1..6 : Kinds[i] \in KindSet
  BY <1>1 DEF KindSet
<1>3. \A i \in 1..3 : PolicyKinds[i] = Kinds[i + 3]
  BY DEF PolicyKinds, Kinds
<1> QED
  BY <1>1, <1>2, <1>3

\* The expiry of an authority is a natural number.
LEMMA LifetimeType ==
    ASSUME NEW c, c.expires \in Nat, NEW now \in Nat
    PROVE  Lifetime(c, now) \in Nat
  BY PolicyAssumption DEF Lifetime, PolicyAssumption

-----------------------------------------------------------------------------
(* The initial states.                                                     *)

\* The initial states satisfy the inductive invariant: nothing was called yet.
LEMMA InitIInv == Init => IInv
<1> SUFFICES ASSUME Init PROVE IInv
  OBVIOUS
<1> USE DEF Init, StateInit, PedInit, SinkInit
<1>1. TypeOK
  <2>1. EpochZero \in [KindSet -> Nat]
    BY DEF EpochZero
  <2> QED
    BY <2>1, KindFacts DEF TypeOK, PedTypeOK, SinkTypeOK
<1>2. PedShape /\ SinkShape
  BY KindFacts DEF PedShape, SinkShape, Holding
<1>3. IssueInv
  BY DEF IssueInv, Holding
<1>4. LockInv
  BY DEF LockInv, LocksAreReleased, Critical
<1>5. UseInv
  BY DEF UseInv, SingleUse
<1> QED
  BY <1>1, <1>2, <1>3, <1>4, <1>5 DEF IInv, TypeInv

-----------------------------------------------------------------------------
(* Types.                                                                  *)

\* The part of TypeInv about the shared state.
StateTypeOK ==
    /\ clock \in Nat
    /\ boot \in Nat
    /\ epoch \in [KindSet -> Nat]
    /\ counter \in Nat
    /\ seen \subseteq Nonces
    /\ evidence \in [PedCalls -> Records \cup {Nil}]
    /\ tail \in PedCalls \cup {Genesis}
    /\ activations \in [PedCalls -> Activations \cup {Nil}]
    /\ used \subseteq PedCalls
    /\ released \in [PedCalls -> Authorities \cup {Nil}]

PedTypes == StateTypeOK /\ PedTypeOK /\ PedShape

\* The envelope a call builds, and the activation record of an envelope.
LEMMA AuthorityType ==
    ASSUME PedTypes, NEW p \in PedCalls, pedCand[p] \in Candidates
    PROVE  AuthorityOf(p) \in Authorities
<1> DEFINE c == pedCand[p]
<1>1. pedNow[p] \in Nat /\ c.expires \in Nat
  BY StateAssumption DEF StateAssumption, WellFormed, PedTypes, PedTypeOK
<1>2. pedNow[p] + Lifetime(c, pedNow[p]) \in Nat
  BY <1>1, LifetimeType
<1>3. /\ evidence[p] \in Records \cup {Nil}
      /\ pedBind[p] \in [KindSet -> Nat]
      /\ boot \in Nat
  BY DEF PedTypes, StateTypeOK, PedTypeOK
<1> QED
  BY <1>2, <1>3 DEF AuthorityOf, Authorities, Nonces, SinkNames

LEMMA ActivationType ==
    ASSUME NEW auth \in Authorities
    PROVE  ActivationOf(auth) \in Activations
  BY DEF ActivationOf, Authorities, Activations

\* A step of a validation keeps the shared state and its variables in type.
LEMMA PedTypeStep ==
    ASSUME PedTypes, NEW p \in PedCalls, PedNext(p)
    PROVE  PedTypes'
<1> USE DEF PedTypes
<1>1. ASSUME NEW c \in Candidates, PedCall(p, c) PROVE PedTypes'
  <2>1. StateTypeOK'
    BY <1>1 DEF PedCall, StateTypeOK, stateVars
  <2>2. PedTypeOK'
    BY <1>1 DEF PedCall, PedTypeOK, StateTypeOK, PedGoto, DeniedWith
  <2>3. PedShape'
    BY <1>1 DEF PedCall, PedShape, PedTypeOK, PedGoto
  <2> QED BY <2>1, <2>2, <2>3
<1>2. CASE PedCompareEpoch(p)
  <2>1. StateTypeOK'
    BY <1>2 DEF PedCompareEpoch, StateTypeOK, stateVars
  <2>2. pedPC[p] = "validate" /\ pedIdx[p] \in 1..3
    BY <1>2, KindFacts DEF PedCompareEpoch, PedShape
  <2>3. /\ pedIdx' \in [PedCalls -> 1..6]
        /\ pedPC' \in [PedCalls -> {"validate", "count", "reserve"} \cup {pedPC[q] : q \in PedCalls}]
        /\ pedPC'[p] = "validate" => pedIdx'[p] \in 1..3
    BY <1>2, <2>2, KindFacts DEF PedCompareEpoch, PedTypeOK, PedGoto
  <2>4. PedTypeOK'
    BY <1>2, <2>3, KindFacts DEF PedCompareEpoch, PedTypeOK, PedGoto, DeniedWith
  <2>5. PedShape'
    BY <1>2, <2>2, <2>3, KindFacts DEF PedCompareEpoch, PedShape, PedTypeOK, PedGoto
  <2> QED BY <2>1, <2>4, <2>5
<1>3. CASE PedReserve(p)
  <2>1. pedCand[p] \in Candidates
    BY <1>3 DEF PedReserve, PedShape
  <2>2. StateTypeOK'
    BY <1>3, <2>1 DEF PedReserve, Reserve, StateTypeOK, Nonces
  <2>3. PedTypeOK'
    BY <1>3 DEF PedReserve, PedTypeOK, PedGoto, DeniedWith
  <2>4. PedShape'
    BY <1>3 DEF PedReserve, PedShape, PedTypeOK, PedGoto
  <2> QED BY <2>2, <2>3, <2>4
<1>4. CASE PedAdvanceCounter(p)
  <2>1. StateTypeOK'
    BY <1>4 DEF PedAdvanceCounter, StateTypeOK, storeVars
  <2>2. PedTypeOK'
    BY <1>4 DEF PedAdvanceCounter, StateTypeOK, PedTypeOK, PedGoto
  <2>3. PedShape'
    BY <1>4 DEF PedAdvanceCounter, PedShape, PedTypeOK, PedGoto
  <2> QED BY <2>1, <2>2, <2>3
<1>5. CASE PedCommitEvidence(p)
  <2>1. pedCand[p] \in Candidates
    BY <1>5 DEF PedCommitEvidence, PedShape
  <2>2. EvidenceOf(p) \in Records
    BY <2>1 DEF EvidenceOf, Records, StateTypeOK, PedTypeOK
  <2>3. StateTypeOK'
    BY <1>5, <2>2 DEF PedCommitEvidence, Commit, StateTypeOK
  <2>4. PedTypeOK'
    BY <1>5 DEF PedCommitEvidence, PedTypeOK, PedGoto, PedEnds
  <2>5. PedShape'
    BY <1>5 DEF PedCommitEvidence, PedShape, PedTypeOK, PedGoto
  <2> QED BY <2>3, <2>4, <2>5
<1>6. CASE PedBindEpoch(p)
  <2>1. StateTypeOK'
    BY <1>6 DEF PedBindEpoch, StateTypeOK, stateVars
  <2>2. pedIdx[p] \in 1..6 /\ Kinds[pedIdx[p]] \in KindSet
    BY KindFacts DEF PedTypeOK
  <2>3. pedIdx' \in [PedCalls -> 1..6]
    BY <1>6, <2>2, KindFacts DEF PedBindEpoch, PedTypeOK
  <2>4. pedBind' \in [PedCalls -> [KindSet -> Nat]]
    BY <1>6, <2>2 DEF PedBindEpoch, PedTypeOK, StateTypeOK
  <2>5. PedTypeOK'
    BY <1>6, <2>3, <2>4, KindFacts DEF PedBindEpoch, PedTypeOK, PedGoto
  <2>6. PedShape'
    BY <1>6 DEF PedBindEpoch, PedShape, PedTypeOK, PedGoto
  <2> QED BY <2>1, <2>5, <2>6
<1>7. CASE PedInstall(p)
  <2>0. ActivationOf(AuthorityOf(p)) \in Activations
    BY <1>7, AuthorityType, ActivationType DEF PedInstall, PedShape
  <2>1. StateTypeOK'
    BY <1>7, <2>0 DEF PedInstall, Put, StateTypeOK
  <2>2. PedTypeOK'
    BY <1>7 DEF PedInstall, PedTypeOK, PedGoto, PedEnds
  <2>3. PedShape'
    BY <1>7 DEF PedInstall, PedShape, PedTypeOK, PedGoto
  <2> QED BY <2>1, <2>2, <2>3
<1>9. CASE PedReturn(p)
  <2>0. AuthorityOf(p) \in Authorities
    BY <1>9, AuthorityType DEF PedReturn, PedShape
  <2>1. StateTypeOK'
    BY <1>9, <2>0 DEF PedReturn, StateTypeOK, storeVars
  <2>2. PedTypeOK'
    BY <1>9 DEF PedReturn, PedTypeOK, PedGoto, PedEnds
  <2>3. PedShape'
    BY <1>9 DEF PedReturn, PedShape, PedTypeOK, PedGoto
  <2> QED BY <2>1, <2>2, <2>3
<1>8. CASE PedRaise(p)
  <2>1. StateTypeOK'
    BY <1>8 DEF PedRaise, StateTypeOK, stateVars
  <2>2. PedTypeOK'
    BY <1>8 DEF PedRaise, PedTypeOK, PedGoto, PedEnds
  <2>3. PedShape'
    BY <1>8 DEF PedRaise, PedShape, PedTypeOK, PedGoto
  <2> QED BY <2>1, <2>2, <2>3
<1> QED
  BY <1>1, <1>2, <1>3, <1>4, <1>5, <1>6, <1>7, <1>8, <1>9 DEF PedNext, PedStep

SinkTypes == StateTypeOK /\ SinkTypeOK /\ SinkShape

\* An envelope that passes the first checks exists.
LEMMA EnvelopePresent ==
    ASSUME NEW req \in Requests, NEW now, EnvelopeCheck(req, now) = Pass
    PROVE  req.auth \in PedCalls
  BY DEF EnvelopeCheck, Pass, Requests

\* Releasing the locks keeps them in type.
LEMMA ReleaseType ==
    ASSUME SinkTypeOK, NEW s, ReleaseLocks(s)
    PROVE  /\ sinkLock' \in [Sinks -> SinkCalls \cup {Nil}]
           /\ netLock' \in SinkCalls \cup {Nil}
  BY DEF ReleaseLocks, SinkTypeOK

\* A step of an effectuation keeps the shared state and its variables in type.
LEMMA SinkTypeStep ==
    ASSUME SinkTypes, NEW s \in SinkCalls, SinkNext(s)
    PROVE  SinkTypes'
<1> USE DEF SinkTypes
<1>1. ASSUME NEW req \in Requests, SinkCall(s, req) PROVE SinkTypes'
  <2>1. StateTypeOK'
    BY <1>1 DEF SinkCall, StateTypeOK, stateVars
  <2>2. SinkTypeOK'
    BY <1>1 DEF SinkCall, SinkTypeOK, StateTypeOK, SinkProceed, SinkGoto, SinkEnds, Unlocked
  <2>3. sinkPC'[s] \in Holding => req.auth \in PedCalls
    BY <1>1, EnvelopePresent DEF SinkCall, SinkTypeOK, SinkProceed, SinkGoto, Holding
  <2>4. SinkShape'
    BY <1>1, <2>3 DEF SinkCall, SinkShape, SinkTypeOK, SinkProceed, SinkGoto, IssuerOf
  <2> QED BY <2>1, <2>2, <2>4
<1>2. CASE SinkReadEvidence(s)
  <2>1. StateTypeOK'
    BY <1>2 DEF SinkReadEvidence, StateTypeOK, stateVars
  <2>2. SinkTypeOK'
    BY <1>2 DEF SinkReadEvidence, SinkTypeOK, SinkProceed, SinkGoto, SinkEnds, Unlocked
  <2>3. SinkShape'
    BY <1>2 DEF SinkReadEvidence, SinkShape, SinkTypeOK, SinkProceed, SinkGoto, IssuerOf, Holding
  <2> QED BY <2>1, <2>2, <2>3
<1>3. CASE SinkReadActivation(s)
  <2>1. StateTypeOK'
    BY <1>3 DEF SinkReadActivation, StateTypeOK, stateVars
  <2>2. SinkTypeOK'
    BY <1>3 DEF SinkReadActivation, SinkTypeOK, SinkProceed, SinkGoto, SinkEnds, Unlocked
  <2>3. SinkShape'
    BY <1>3 DEF SinkReadActivation, SinkShape, SinkTypeOK, SinkProceed, SinkGoto, IssuerOf, Holding
  <2> QED BY <2>1, <2>2, <2>3
<1>4. CASE SinkReadUsed(s)
  <2>1. StateTypeOK'
    BY <1>4 DEF SinkReadUsed, StateTypeOK, stateVars
  <2>2. SinkTypeOK'
    BY <1>4 DEF SinkReadUsed, SinkTypeOK, SinkProceed, SinkGoto, SinkEnds, Unlocked
  <2>3. SinkShape'
    BY <1>4 DEF SinkReadUsed, SinkShape, SinkTypeOK, SinkProceed, SinkGoto, IssuerOf, Holding
  <2> QED BY <2>1, <2>2, <2>3
<1>5. CASE SinkCompareEpoch(s)
  <2>1. StateTypeOK'
    BY <1>5 DEF SinkCompareEpoch, CompareEpoch, StateTypeOK, stateVars
  <2>2. sinkIdx' \in [SinkCalls -> 1..6]
    BY <1>5, KindFacts DEF SinkCompareEpoch, CompareEpoch, SinkTypeOK
  <2>3. SinkTypeOK'
    BY <1>5, <2>2, KindFacts DEF SinkCompareEpoch, CompareEpoch, SinkTypeOK, SinkProceed,
       SinkGoto, SinkEnds, Unlocked
  <2>4. SinkShape'
    BY <1>5 DEF SinkCompareEpoch, CompareEpoch, SinkShape, SinkTypeOK, SinkProceed,
       SinkGoto, IssuerOf, Holding
  <2> QED BY <2>1, <2>3, <2>4
<1>6. CASE SinkTakeLock(s)
  <2>1. StateTypeOK'
    BY <1>6 DEF SinkTakeLock, StateTypeOK, stateVars
  <2>2. SinkTypeOK'
    BY <1>6 DEF SinkTakeLock, SinkTypeOK, SinkGoto
  <2>3. SinkShape'
    BY <1>6 DEF SinkTakeLock, SinkShape, SinkTypeOK, SinkGoto, IssuerOf, Holding
  <2> QED BY <2>1, <2>2, <2>3
<1>7. CASE SinkTakeNetworkLock(s)
  <2>1. StateTypeOK'
    BY <1>7 DEF SinkTakeNetworkLock, StateTypeOK, stateVars
  <2>2. SinkTypeOK'
    BY <1>7 DEF SinkTakeNetworkLock, SinkTypeOK, SinkGoto
  <2>3. SinkShape'
    BY <1>7 DEF SinkTakeNetworkLock, SinkShape, SinkTypeOK, SinkGoto, IssuerOf, Holding
  <2> QED BY <2>1, <2>2, <2>3
<1>8. CASE SinkRecheck(s)
  <2>1. StateTypeOK'
    BY <1>8 DEF SinkRecheck, StateTypeOK, stateVars
  <2>2. SinkTypeOK'
    BY <1>8, ReleaseType DEF SinkRecheck, SinkTypeOK, SinkProceed, SinkGoto, SinkEnds, Unlocked
  <2>3. SinkShape'
    BY <1>8 DEF SinkRecheck, SinkShape, SinkTypeOK, SinkProceed, SinkGoto, IssuerOf, Holding
  <2> QED BY <2>1, <2>2, <2>3
<1>9. CASE SinkConsume(s)
  <2>1. IssuerOf(s) \in PedCalls
    BY <1>9 DEF SinkConsume, SinkShape, Holding
  <2>2. StateTypeOK'
    BY <1>9, <2>1 DEF SinkConsume, Consume, StateTypeOK, IssuerOf
  <2>3. SinkTypeOK'
    BY <1>9, ReleaseType DEF SinkConsume, SinkTypeOK, SinkProceed, SinkGoto, SinkEnds, Unlocked
  <2>4. SinkShape'
    BY <1>9 DEF SinkConsume, SinkShape, SinkTypeOK, SinkProceed, SinkGoto, IssuerOf, Holding
  <2> QED BY <2>2, <2>3, <2>4
<1>10. CASE SinkApply(s)
  <2>1. StateTypeOK'
    BY <1>10 DEF SinkApply, StateTypeOK, stateVars
  <2>2. SinkTypeOK'
    BY <1>10, ReleaseType DEF SinkApply, SinkTypeOK, SinkGoto, SinkEnds
  <2>3. SinkShape'
    BY <1>10 DEF SinkApply, SinkShape, SinkTypeOK, SinkGoto, IssuerOf, Holding
  <2> QED BY <2>1, <2>2, <2>3
<1>11. CASE SinkApplyRaises(s)
  <2>1. StateTypeOK'
    BY <1>11 DEF SinkApplyRaises, StateTypeOK, stateVars
  <2>2. SinkTypeOK'
    BY <1>11 DEF SinkApplyRaises, SinkTypeOK, SinkGoto, Unlocked
  <2>3. SinkShape'
    BY <1>11 DEF SinkApplyRaises, SinkShape, SinkTypeOK, SinkGoto, IssuerOf, Holding
  <2> QED BY <2>1, <2>2, <2>3
<1>12. CASE SinkUndo(s)
  <2>1. StateTypeOK'
    BY <1>12 DEF SinkUndo, Unconsume, StateTypeOK
  <2>2. SinkTypeOK'
    BY <1>12, ReleaseType DEF SinkUndo, SinkTypeOK, SinkGoto, SinkEnds
  <2>3. SinkShape'
    BY <1>12 DEF SinkUndo, SinkShape, SinkTypeOK, SinkGoto, IssuerOf, Holding
  <2> QED BY <2>1, <2>2, <2>3
<1>13. CASE SinkRaise(s)
  <2>1. StateTypeOK'
    BY <1>13 DEF SinkRaise, StateTypeOK, stateVars
  <2>2. SinkTypeOK'
    BY <1>13, ReleaseType DEF SinkRaise, SinkTypeOK, SinkGoto, SinkEnds
  <2>3. SinkShape'
    BY <1>13 DEF SinkRaise, SinkShape, SinkTypeOK, SinkGoto, IssuerOf, Holding
  <2> QED BY <2>1, <2>2, <2>3
<1> QED
  BY <1>1, <1>2, <1>3, <1>4, <1>5, <1>6, <1>7, <1>8, <1>9, <1>10, <1>11, <1>12, <1>13
     DEF SinkNext, SinkStep

\* A restart keeps everything in type.
LEMMA RestartTypeStep ==
    ASSUME TypeInv, Restart
    PROVE  TypeInv'
<1>1. EpochZero \in [KindSet -> Nat]
  BY DEF EpochZero
<1>2. TypeOK'
  <2>1. StateTypeOK'
    BY <1>1 DEF Restart, Rebuild, ForgetVolatile, TypeInv, TypeOK, StateTypeOK
  <2>2. PedTypeOK'
    BY DEF Restart, PedCrash, PedActive, PedEnds, TypeInv, TypeOK, PedTypeOK
  <2>3. SinkTypeOK'
    BY DEF Restart, SinkCrash, SinkActive, SinkEnds, TypeInv, TypeOK, SinkTypeOK
  <2> QED BY <2>1, <2>2, <2>3 DEF TypeOK, StateTypeOK
<1>3. PedShape'
  BY DEF Restart, PedCrash, PedActive, PedEnds, TypeInv, PedShape
<1>4. SinkShape'
  BY DEF Restart, SinkCrash, SinkActive, SinkEnds, TypeInv, SinkShape, Holding, IssuerOf
<1> QED BY <1>2, <1>3, <1>4 DEF TypeInv

\* Every step keeps everything in type.
LEMMA TypeStep ==
    ASSUME TypeInv, [Next]_vars
    PROVE  TypeInv'
<1>1. StateTypeOK /\ PedTypeOK /\ SinkTypeOK /\ PedShape /\ SinkShape
  BY DEF TypeInv, TypeOK, StateTypeOK
<1>2. ASSUME StateTypeOK', PedTypeOK', SinkTypeOK', PedShape', SinkShape' PROVE TypeInv'
  BY <1>2 DEF TypeInv, TypeOK, StateTypeOK
<1>3. ASSUME UNCHANGED pedVars PROVE PedTypeOK' /\ PedShape'
  BY <1>1, <1>3 DEF pedVars, PedTypeOK, PedShape
<1>4. ASSUME UNCHANGED sinkVars PROVE SinkTypeOK' /\ SinkShape'
  BY <1>1, <1>4 DEF sinkVars, SinkTypeOK, SinkShape, IssuerOf
<1>5. CASE Environment
  <2>1. ASSUME NEW kind \in Advancing, AdvanceEpoch(kind) PROVE StateTypeOK'
    BY <1>1, <2>1, StateAssumption DEF AdvanceEpoch, StateTypeOK, storeVars, StateAssumption
  <2>2. ASSUME Tick PROVE StateTypeOK'
    BY <1>1, <2>2 DEF Tick, StateTypeOK, storeVars
  <2> QED BY <1>2, <1>3, <1>4, <1>5, <2>1, <2>2 DEF Environment
<1>6. ASSUME NEW p \in PedCalls, Submit(p) \/ PedRuns(p) PROVE TypeInv'
  <2>1. PedNext(p) /\ UNCHANGED sinkVars
    BY <1>6 DEF Submit, PedRuns, PedNext
  <2> QED BY <1>1, <1>2, <1>4, <2>1, PedTypeStep DEF PedTypes
<1>7. ASSUME NEW s \in SinkCalls, Present(s) \/ SinkRuns(s) PROVE TypeInv'
  <2>1. SinkNext(s) /\ UNCHANGED pedVars
    BY <1>7 DEF Present, SinkRuns, SinkNext
  <2> QED BY <1>1, <1>2, <1>3, <2>1, SinkTypeStep DEF SinkTypes
<1>8. CASE UNCHANGED vars
  <2>1. StateTypeOK'
    BY <1>1, <1>8 DEF vars, stateVars, StateTypeOK
  <2> QED BY <1>2, <1>3, <1>4, <1>8, <2>1 DEF vars
<1> QED
  BY <1>5, <1>6, <1>7, <1>8, RestartTypeStep DEF Next, Finished

\* Theorem TypeCorrect: every variable keeps to the values the code can give
\* it, in every behaviour of every instance.
THEOREM TypeCorrect == Spec => []TypeOK
<1>1. Init => TypeInv
  BY InitIInv DEF IInv
<1>2. TypeInv /\ [Next]_vars => TypeInv'
  BY TypeStep
<1>3. TypeInv => TypeOK
  BY DEF TypeInv
<1> QED
  BY <1>1, <1>2, <1>3, PTL DEF Spec

-----------------------------------------------------------------------------
(* Envelopes.                                                              *)

\* A step of a validation leaves the sinks alone, and only the step that
\* returns the envelope puts one in the caller's hands.
LEMMA PedMoves ==
    ASSUME TypeInv, NEW p \in PedCalls, PedNext(p)
    PROVE  /\ pedPC[p] # "issued"
           /\ \A q \in PedCalls : q # p => pedPC'[q] = pedPC[q]
           /\ \A q \in PedCalls : q # p => released'[q] = released[q]
           /\ \A q \in PedCalls : q # p => activations'[q] = activations[q]
           /\ released' = released \/ pedPC'[p] = "issued"
           /\ used' = used
<1> USE DEF TypeInv, TypeOK, PedTypeOK, PedGoto
<1>1. ASSUME NEW c \in Candidates, PedCall(p, c)
      PROVE  /\ pedPC[p] = "idle" /\ pedPC' = [pedPC EXCEPT ![p] = pedPC'[p]]
             /\ UNCHANGED <<released, activations, used>>
  BY <1>1 DEF PedCall, stateVars
<1>2. CASE PedCompareEpoch(p)
  BY <1>2 DEF PedCompareEpoch, stateVars
<1>3. CASE PedReserve(p)
  BY <1>3 DEF PedReserve
<1>4. CASE PedAdvanceCounter(p)
  BY <1>4 DEF PedAdvanceCounter, storeVars
<1>5. CASE PedCommitEvidence(p)
  BY <1>5 DEF PedCommitEvidence
<1>6. CASE PedBindEpoch(p)
  BY <1>6 DEF PedBindEpoch, stateVars
<1>7. CASE PedInstall(p)
  BY <1>7 DEF PedInstall, Put
<1>8. CASE PedRaise(p)
  BY <1>8 DEF PedRaise, stateVars
<1>9. CASE PedReturn(p)
  BY <1>9 DEF PedReturn, storeVars
<1> QED
  BY <1>1, <1>2, <1>3, <1>4, <1>5, <1>6, <1>7, <1>8, <1>9 DEF PedNext, PedStep

\* A step of an effectuation leaves the validations and envelopes alone, and
\* moves on only with an envelope it was given.
LEMMA SinkMoves ==
    ASSUME TypeInv, NEW s \in SinkCalls, SinkNext(s)
    PROVE  /\ UNCHANGED <<released, activations>>
           /\ \A t \in SinkCalls : t # s => sinkPC'[t] = sinkPC[t] /\ sinkReq'[t] = sinkReq[t]
           /\ \/ sinkPC[s] \in Holding \ {"ok"} /\ sinkReq' = sinkReq
              \/ /\ sinkPC[s] = "idle"
                 /\ sinkPC'[s] \in {"evidence", "denied"}
                 /\ sinkPC'[s] = "evidence" => released[IssuerOf(s)'] # Nil
<1> USE DEF TypeInv, TypeOK, SinkTypeOK, SinkProceed, SinkGoto, Holding
<1>1. ASSUME NEW req \in Requests, SinkCall(s, req)
      PROVE  /\ UNCHANGED <<released, activations>>
             /\ \A t \in SinkCalls : t # s => sinkPC'[t] = sinkPC[t] /\ sinkReq'[t] = sinkReq[t]
             /\ sinkPC[s] = "idle"
             /\ sinkPC'[s] \in {"evidence", "denied"}
             /\ sinkPC'[s] = "evidence" => released[IssuerOf(s)'] # Nil
  <2>1. sinkReq'[s] = req /\ IssuerOf(s)' = req.auth
    BY <1>1 DEF SinkCall, IssuerOf
  <2>2. sinkPC'[s] = "evidence" => req.auth \in PedCalls
    BY <1>1, EnvelopePresent DEF SinkCall
  <2>3. sinkPC'[s] = "evidence" => released[req.auth] # Nil
    BY <1>1, <2>2, StateAssumption DEF SinkCall, StateAssumption
  <2> QED BY <1>1, <2>1, <2>3 DEF SinkCall, stateVars
<1>2. CASE SinkReadEvidence(s)
  BY <1>2 DEF SinkReadEvidence, stateVars
<1>3. CASE SinkReadActivation(s)
  BY <1>3 DEF SinkReadActivation, stateVars
<1>4. CASE SinkReadUsed(s)
  BY <1>4 DEF SinkReadUsed, stateVars
<1>5. CASE SinkCompareEpoch(s)
  BY <1>5 DEF SinkCompareEpoch, CompareEpoch, stateVars
<1>6. CASE SinkTakeLock(s)
  BY <1>6 DEF SinkTakeLock, stateVars
<1>7. CASE SinkTakeNetworkLock(s)
  BY <1>7 DEF SinkTakeNetworkLock, stateVars
<1>8. CASE SinkRecheck(s)
  BY <1>8 DEF SinkRecheck, stateVars
<1>9. CASE SinkConsume(s)
  BY <1>9 DEF SinkConsume
<1>10. CASE SinkApply(s)
  BY <1>10 DEF SinkApply, stateVars
<1>11. CASE SinkApplyRaises(s)
  BY <1>11 DEF SinkApplyRaises, stateVars
<1>12. CASE SinkUndo(s)
  BY <1>12 DEF SinkUndo
<1>13. CASE SinkRaise(s)
  BY <1>13 DEF SinkRaise, stateVars
<1> QED
  BY <1>1, <1>2, <1>3, <1>4, <1>5, <1>6, <1>7, <1>8, <1>9, <1>10, <1>11, <1>12, <1>13
     DEF SinkNext, SinkStep

\* Every step keeps IssueInv: only PedReturn puts an envelope in the
\* callers' hands, and a call past the first check was given one.
LEMMA IssueStep ==
    ASSUME TypeInv, IssueInv, [Next]_vars
    PROVE  IssueInv'
<1> USE DEF IssueInv
<1>1. ASSUME NEW p \in PedCalls, Submit(p) \/ PedRuns(p) PROVE IssueInv'
  <2>1. PedNext(p) /\ UNCHANGED sinkVars
    BY <1>1 DEF Submit, PedRuns, PedNext
  <2>2. released[p] = Nil
    BY <2>1, PedMoves
  <2>3. ASSUME NEW s \in SinkCalls, sinkPC[s] \in Holding
        PROVE  IssuerOf(s) \in PedCalls /\ released'[IssuerOf(s)] # Nil
    BY <2>1, <2>2, <2>3, PedMoves DEF TypeInv, SinkShape
  <2>4. \A s \in SinkCalls : IssuerOf(s)' = IssuerOf(s) /\ sinkPC'[s] = sinkPC[s]
    BY <2>1 DEF sinkVars, IssuerOf
  <2>5. \A q \in PedCalls : released'[q] # Nil => pedPC'[q] = "issued"
    BY <2>1, <2>2, PedMoves
  <2> QED BY <2>3, <2>4, <2>5
<1>2. ASSUME NEW s \in SinkCalls, Present(s) \/ SinkRuns(s) PROVE IssueInv'
  <2>1. SinkNext(s) /\ UNCHANGED pedVars
    BY <1>2 DEF Present, SinkRuns, SinkNext
  <2>2. \A p \in PedCalls : released'[p] # Nil => pedPC'[p] = "issued"
    BY <2>1, SinkMoves DEF pedVars
  <2>3. \A t \in SinkCalls : sinkPC'[t] \in Holding => released'[IssuerOf(t)'] # Nil
    BY <2>1, SinkMoves DEF IssuerOf, Holding
  <2> QED BY <2>2, <2>3
<1>3. CASE Environment
  BY <1>3 DEF Environment, Tick, AdvanceEpoch, pedVars, sinkVars, IssuerOf
<1>4. CASE Restart
  <2>1. \A p \in PedCalls : released'[p] # Nil => pedPC'[p] = "issued"
    BY <1>4 DEF Restart, Rebuild, ForgetVolatile, PedCrash, PedActive, PedEnds
  <2>2. \A s \in SinkCalls : sinkPC'[s] \in Holding => released'[IssuerOf(s)'] # Nil
    BY <1>4 DEF Restart, Rebuild, ForgetVolatile, SinkCrash, SinkActive, SinkEnds, Holding, IssuerOf
  <2> QED BY <2>1, <2>2
<1>5. CASE UNCHANGED vars
  BY <1>5 DEF vars, stateVars, pedVars, sinkVars, IssuerOf
<1> QED
  BY <1>1, <1>2, <1>3, <1>4, <1>5 DEF Next, Finished

-----------------------------------------------------------------------------
(* Locks.                                                                  *)

\* A step of a call that leaves the locks alone, outside the `with' block or
\* from one place inside it to another, keeps the lock invariant.
LEMMA LockQuiet ==
    ASSUME TypeInv, LockInv, NEW s \in SinkCalls,
           UNCHANGED <<sinkLock, netLock>>,
           \A t \in SinkCalls : t # s => sinkPC'[t] = sinkPC[t] /\ sinkReq'[t] = sinkReq[t],
           \/ /\ sinkPC[s] \notin Critical \cup {"netlock"}
              /\ sinkPC'[s] \notin Critical
           \/ /\ sinkPC[s] \in Critical /\ sinkPC'[s] \in Critical
              /\ sinkReq'[s] = sinkReq[s]
    PROVE  LockInv'
<1> USE DEF TypeInv, TypeOK, SinkTypeOK, LockInv, LocksAreReleased
<1>1. \A t \in SinkCalls : sinkPC'[t] \in Critical => netLock' = t
  OBVIOUS
<1>2. netLock' # Nil => sinkPC'[netLock'] \in Critical
  OBVIOUS
<1>3. ASSUME NEW k \in Sinks, sinkLock'[k] # Nil
      PROVE  /\ sinkReq'[sinkLock'[k]].sink = k
             /\ sinkPC'[sinkLock'[k]] \in Critical \cup {"netlock"}
  <2>1. sinkLock[k] \in SinkCalls /\ sinkLock'[k] = sinkLock[k]
    BY <1>3
  <2>2. sinkReq[sinkLock[k]].sink = k /\ sinkPC[sinkLock[k]] \in Critical \cup {"netlock"}
    BY <1>3, <2>1
  <2> QED BY <2>1, <2>2
<1> QED BY <1>1, <1>2, <1>3

\* Leaving the `with' block, or ending outside it, frees what the call held.
LEMMA LockLeft ==
    ASSUME TypeInv, LockInv, NEW s \in SinkCalls, ReleaseLocks(s),
           \A t \in SinkCalls : t # s => sinkPC'[t] = sinkPC[t] /\ sinkReq'[t] = sinkReq[t],
           sinkPC'[s] \notin Critical
    PROVE  LockInv'
<1> USE DEF TypeInv, TypeOK, SinkTypeOK, LockInv, LocksAreReleased, ReleaseLocks
<1>1. \A t \in SinkCalls : sinkPC'[t] \in Critical => netLock' = t
  BY StateAssumption DEF StateAssumption
<1>2. netLock' # Nil => sinkPC'[netLock'] \in Critical
  OBVIOUS
<1>3. ASSUME NEW k \in Sinks, sinkLock'[k] # Nil
      PROVE  /\ sinkReq'[sinkLock'[k]].sink = k
             /\ sinkPC'[sinkLock'[k]] \in Critical \cup {"netlock"}
  <2>1. sinkLock[k] \in SinkCalls /\ sinkLock[k] # s /\ sinkLock'[k] = sinkLock[k]
    BY <1>3
  <2>2. sinkReq[sinkLock[k]].sink = k /\ sinkPC[sinkLock[k]] \in Critical \cup {"netlock"}
    BY <1>3, <2>1
  <2> QED BY <2>1, <2>2
<1> QED BY <1>1, <1>2, <1>3

\* A step of an effectuation keeps LockInv: the locks are taken one at a time
\* and freed together.
LEMMA LockSinkStep ==
    ASSUME TypeInv, LockInv, NEW s \in SinkCalls, SinkNext(s)
    PROVE  LockInv'
<1>0. /\ \A t \in SinkCalls : t # s => sinkPC'[t] = sinkPC[t] /\ sinkReq'[t] = sinkReq[t]
      /\ sinkPC[s] # "idle" => sinkReq' = sinkReq
  BY SinkMoves
<1> USE DEF TypeInv, TypeOK, SinkTypeOK, SinkProceed, SinkGoto, Unlocked, Critical
<1>1. ASSUME NEW req \in Requests, SinkCall(s, req) PROVE LockInv'
  BY <1>0, <1>1, LockQuiet DEF SinkCall
<1>2. CASE SinkReadEvidence(s)
  BY <1>0, <1>2, LockQuiet DEF SinkReadEvidence
<1>3. CASE SinkReadActivation(s)
  BY <1>0, <1>3, LockQuiet DEF SinkReadActivation
<1>4. CASE SinkReadUsed(s)
  BY <1>0, <1>4, LockQuiet DEF SinkReadUsed
<1>5. CASE SinkCompareEpoch(s)
  BY <1>0, <1>5, LockQuiet DEF SinkCompareEpoch, CompareEpoch
<1>6. CASE SinkTakeLock(s)
  <2>1. \A t \in SinkCalls : t # s => sinkPC'[t] = sinkPC[t]
    BY <1>0
  <2>2. /\ sinkPC[s] = "lock" /\ sinkPC'[s] = "netlock"
        /\ sinkLock' = [sinkLock EXCEPT ![sinkReq[s].sink] = s]
        /\ sinkReq' = sinkReq /\ netLock' = netLock
    BY <1>6 DEF SinkTakeLock
  <2>3. ASSUME NEW k \in Sinks, sinkLock'[k] # Nil
        PROVE  /\ sinkReq'[sinkLock'[k]].sink = k
               /\ sinkPC'[sinkLock'[k]] \in Critical \cup {"netlock"}
    <3>1. CASE k = sinkReq[s].sink
      BY <3>1, <2>2
    <3>2. CASE k # sinkReq[s].sink
      <4>1. sinkLock[k] \in SinkCalls /\ sinkLock'[k] = sinkLock[k]
        BY <2>2, <2>3, <3>2
      <4> QED BY <2>1, <2>2, <2>3, <4>1 DEF LockInv, LocksAreReleased
    <3> QED BY <3>1, <3>2
  <2> QED BY <2>1, <2>2, <2>3, StateAssumption DEF LockInv, LocksAreReleased, StateAssumption
<1>7. CASE SinkTakeNetworkLock(s)
  <2>1. /\ \A t \in SinkCalls : t # s => sinkPC'[t] = sinkPC[t]
        /\ sinkPC[s] = "netlock" /\ sinkPC'[s] = "recheck"
        /\ netLock = Nil /\ netLock' = s
        /\ sinkReq' = sinkReq /\ sinkLock' = sinkLock
    BY <1>0, <1>7 DEF SinkTakeNetworkLock
  <2>2. \A t \in SinkCalls : t # Nil
    BY StateAssumption DEF StateAssumption
  <2> QED BY <2>1, <2>2 DEF LockInv, LocksAreReleased
<1>8. CASE SinkRecheck(s)
  <2>1. CASE ReleaseLocks(s) /\ sinkPC'[s] = "denied"
    BY <1>0, <2>1, LockLeft
  <2>2. CASE UNCHANGED <<sinkLock, netLock>> /\ sinkPC[s] = "recheck" /\ sinkPC'[s] = "consume"
    BY <1>0, <2>2, LockQuiet
  <2> QED BY <1>8, <2>1, <2>2 DEF SinkRecheck, Pass
<1>9. CASE SinkConsume(s)
  <2>1. CASE ReleaseLocks(s) /\ sinkPC'[s] = "denied"
    BY <1>0, <2>1, LockLeft
  <2>2. CASE UNCHANGED <<sinkLock, netLock>> /\ sinkPC[s] = "consume" /\ sinkPC'[s] = "apply"
    BY <1>0, <2>2, LockQuiet
  <2> QED BY <1>9, <2>1, <2>2 DEF SinkConsume, Pass
<1>10. CASE SinkApply(s)
  BY <1>0, <1>10, LockLeft DEF SinkApply
<1>11. CASE SinkApplyRaises(s)
  BY <1>0, <1>11, LockQuiet DEF SinkApplyRaises
<1>12. CASE SinkUndo(s)
  BY <1>0, <1>12, LockLeft DEF SinkUndo
<1>13. CASE SinkRaise(s)
  BY <1>0, <1>13, LockLeft DEF SinkRaise
<1> QED
  BY <1>1, <1>2, <1>3, <1>4, <1>5, <1>6, <1>7, <1>8, <1>9, <1>10, <1>11, <1>12, <1>13
     DEF SinkNext, SinkStep

\* Every step keeps LockInv; a restart frees the locks of the process.
LEMMA LockStep ==
    ASSUME TypeInv, LockInv, [Next]_vars
    PROVE  LockInv'
<1>1. CASE UNCHANGED sinkVars
  BY <1>1 DEF sinkVars, LockInv, LocksAreReleased
<1>2. ASSUME NEW s \in SinkCalls, Present(s) \/ SinkRuns(s) PROVE LockInv'
  BY <1>2, LockSinkStep DEF Present, SinkRuns, SinkNext
<1>3. CASE Restart
  BY <1>3 DEF Restart, SinkCrash, SinkActive, SinkEnds, Critical, LockInv, LocksAreReleased
<1> QED
  BY <1>1, <1>2, <1>3 DEF Next, Environment, Submit, PedRuns, Finished, vars

-----------------------------------------------------------------------------
(* Single use.                                                             *)

\* A step that makes no effect and marks nothing keeps UseInv, unless it
\* brings a call to apply or undo from elsewhere.
LEMMA UseQuiet ==
    ASSUME TypeInv, UseInv, NEW s \in SinkCalls,
           UNCHANGED <<effects, used, activations>>,
           \A t \in SinkCalls : t # s => sinkPC'[t] = sinkPC[t] /\ sinkReq'[t] = sinkReq[t],
           sinkPC[s] # "ok",
           sinkPC'[s] \in {"apply", "undo"} =>
               sinkPC[s] \in {"apply", "undo"} /\ sinkReq'[s] = sinkReq[s]
    PROVE  UseInv'
<1> USE DEF TypeInv, TypeOK, SinkTypeOK, UseInv, IssuerOf
<1>1. \A t \in effects : t # s
  OBVIOUS
<1>2. \A t \in effects' : sinkPC'[t] = "ok"
  BY <1>1
<1>3. \A t \in SinkCalls : sinkPC'[t] \in {"apply", "undo"} =>
          sinkPC[t] \in {"apply", "undo"} /\ sinkReq'[t] = sinkReq[t]
  OBVIOUS
<1>4. \A t \in effects : IssuerOf(t)' = IssuerOf(t)
  BY <1>1
<1>5. \A t \in effects' : IssuerOf(t)' \in used' \/ activations'[IssuerOf(t)'] = Nil
  BY <1>4
<1>6. SingleUse'
  BY <1>4 DEF SingleUse
<1>7. \A t \in SinkCalls : sinkPC'[t] \in {"apply", "undo"} =>
          /\ IssuerOf(t)' \in used'
          /\ \A u \in effects' : IssuerOf(u)' # IssuerOf(t)'
  BY <1>3, <1>4
<1> QED BY <1>2, <1>5, <1>6, <1>7

\* Consuming gives the authority to a call that is alone inside the block, of
\* an authority that has no effect: else it would be used.
LEMMA UseConsume ==
    ASSUME TypeInv, LockInv, UseInv, NEW s \in SinkCalls, SinkConsume(s)
    PROVE  UseInv'
<1> USE DEF TypeInv, TypeOK, SinkTypeOK, SinkProceed, SinkGoto
<1>1. /\ sinkPC[s] = "consume"
      /\ \A t \in SinkCalls : IssuerOf(t)' = IssuerOf(t)
      /\ \A t \in SinkCalls : t # s => sinkPC'[t] = sinkPC[t]
      /\ UNCHANGED <<sinkReq, effects, activations>>
  BY DEF SinkConsume, IssuerOf
<1>2. CASE UNCHANGED used /\ sinkPC'[s] = "denied"
  BY <1>1, <1>2, UseQuiet
<1>3. CASE /\ CanConsume(IssuerOf(s)) /\ used' = used \cup {IssuerOf(s)}
           /\ sinkPC'[s] = "apply"
  <2>1. \A t \in effects : IssuerOf(t) # IssuerOf(s)
    BY <1>3 DEF UseInv, CanConsume
  <2>2. \A t \in SinkCalls : sinkPC[t] \in {"apply", "undo"} => t = s
    BY <1>1 DEF LockInv, Critical
  <2>3. \A t \in effects : t # s
    BY <1>1 DEF UseInv
  <2> QED BY <1>1, <1>3, <2>1, <2>2, <2>3 DEF UseInv, SingleUse
<1> QED
  BY <1>1, <1>2, <1>3 DEF SinkConsume, Consume, Pass, IssuerOf

\* The effect is the first one of an authority that stays used.
LEMMA UseApply ==
    ASSUME TypeInv, LockInv, UseInv, NEW s \in SinkCalls, SinkApply(s)
    PROVE  UseInv'
<1> USE DEF TypeInv, TypeOK, SinkTypeOK, SinkGoto
<1>1. /\ sinkPC[s] = "apply" /\ sinkPC'[s] = "ok"
      /\ \A t \in SinkCalls : IssuerOf(t)' = IssuerOf(t)
      /\ \A t \in SinkCalls : t # s => sinkPC'[t] = sinkPC[t]
      /\ effects' = effects \cup {s}
      /\ UNCHANGED <<used, activations>>
  BY DEF SinkApply, stateVars, IssuerOf
<1>2. IssuerOf(s) \in used /\ \A t \in effects : IssuerOf(t) # IssuerOf(s)
  BY <1>1 DEF UseInv
<1>3. \A t \in SinkCalls : sinkPC'[t] \notin {"apply", "undo"}
  BY <1>1 DEF LockInv, Critical
<1>4. \A t, u \in effects' : IssuerOf(t)' = IssuerOf(u)' => t = u
  BY <1>1, <1>2 DEF UseInv, SingleUse
<1>5. \A t \in effects' : sinkPC'[t] = "ok"
  BY <1>1 DEF UseInv
<1>6. \A t \in effects' : IssuerOf(t)' \in used' \/ activations'[IssuerOf(t)'] = Nil
  BY <1>1, <1>2 DEF UseInv
<1> QED BY <1>3, <1>4, <1>5, <1>6 DEF UseInv, SingleUse

\* Giving an authority back is safe: it has no effect.
LEMMA UseUndo ==
    ASSUME TypeInv, LockInv, UseInv, NEW s \in SinkCalls, SinkUndo(s)
    PROVE  UseInv'
<1> USE DEF TypeInv, TypeOK, SinkTypeOK, SinkGoto
<1>1. /\ sinkPC[s] = "undo" /\ sinkPC'[s] = "raised"
      /\ \A t \in SinkCalls : IssuerOf(t)' = IssuerOf(t)
      /\ \A t \in SinkCalls : t # s => sinkPC'[t] = sinkPC[t]
      /\ used' = used \ {IssuerOf(s)}
      /\ UNCHANGED <<effects, activations>>
  BY DEF SinkUndo, Unconsume, IssuerOf
<1>2. \A t \in effects : IssuerOf(t) # IssuerOf(s)
  BY <1>1 DEF UseInv
<1>3. \A t \in SinkCalls : sinkPC'[t] \notin {"apply", "undo"}
  BY <1>1 DEF LockInv, Critical
<1>4. \A t \in effects : t # s
  BY <1>1 DEF UseInv
<1> QED BY <1>1, <1>2, <1>3, <1>4 DEF UseInv, SingleUse

\* A step of an effectuation keeps UseInv: inside the block it is alone, and
\* what it consumes there had no effect.
LEMMA UseSinkStep ==
    ASSUME TypeInv, LockInv, UseInv, NEW s \in SinkCalls, SinkNext(s)
    PROVE  UseInv'
<1>0. /\ \A t \in SinkCalls : t # s => sinkPC'[t] = sinkPC[t] /\ sinkReq'[t] = sinkReq[t]
      /\ sinkPC[s] # "idle" => sinkReq' = sinkReq
  BY SinkMoves
<1> USE DEF TypeInv, TypeOK, SinkTypeOK, SinkProceed, SinkGoto, stateVars
<1>1. ASSUME NEW req \in Requests, SinkCall(s, req) PROVE UseInv'
  BY <1>0, <1>1, UseQuiet DEF SinkCall
<1>2. CASE SinkReadEvidence(s)
  BY <1>0, <1>2, UseQuiet DEF SinkReadEvidence
<1>3. CASE SinkReadActivation(s)
  BY <1>0, <1>3, UseQuiet DEF SinkReadActivation
<1>4. CASE SinkReadUsed(s)
  BY <1>0, <1>4, UseQuiet DEF SinkReadUsed
<1>5. CASE SinkCompareEpoch(s)
  BY <1>0, <1>5, UseQuiet DEF SinkCompareEpoch, CompareEpoch
<1>6. CASE SinkTakeLock(s)
  BY <1>0, <1>6, UseQuiet DEF SinkTakeLock
<1>7. CASE SinkTakeNetworkLock(s)
  BY <1>0, <1>7, UseQuiet DEF SinkTakeNetworkLock
<1>8. CASE SinkRecheck(s)
  BY <1>0, <1>8, UseQuiet DEF SinkRecheck
<1>9. CASE SinkApplyRaises(s)
  BY <1>0, <1>9, UseQuiet DEF SinkApplyRaises
<1>10. CASE SinkRaise(s)
  BY <1>0, <1>10, UseQuiet DEF SinkRaise
<1> QED
  BY <1>1, <1>2, <1>3, <1>4, <1>5, <1>6, <1>7, <1>8, <1>9, <1>10,
     UseConsume, UseApply, UseUndo
     DEF SinkNext, SinkStep

\* Installing an activation cannot revive an authority that had an effect:
\* nobody held its envelope before.
LEMMA UsePedStep ==
    ASSUME TypeInv, IssueInv, UseInv, NEW p \in PedCalls, PedNext(p), UNCHANGED sinkVars
    PROVE  UseInv'
<1>1. /\ effects' = effects /\ used' = used
      /\ \A t \in SinkCalls : IssuerOf(t)' = IssuerOf(t) /\ sinkPC'[t] = sinkPC[t]
  BY PedMoves DEF sinkVars, IssuerOf
<1>2. \A t \in effects : t \in SinkCalls /\ sinkPC[t] = "ok"
  BY DEF UseInv, TypeInv, TypeOK, SinkTypeOK
<1>3. \A t \in effects : IssuerOf(t) \in PedCalls /\ IssuerOf(t) # p
  BY <1>2, PedMoves DEF IssueInv, Holding, TypeInv, SinkShape
<1>4. \A t \in effects : activations'[IssuerOf(t)] = activations[IssuerOf(t)]
  BY <1>3, PedMoves
<1> QED BY <1>1, <1>2, <1>4 DEF UseInv, SingleUse

\* Every step keeps UseInv; a restart over volatile stores clears the used
\* marks together with the records they belong to.
LEMMA UseStep ==
    ASSUME TypeInv, IssueInv, LockInv, UseInv, [Next]_vars
    PROVE  UseInv'
<1>1. CASE UNCHANGED <<sinkVars, used, activations>>
  BY <1>1 DEF sinkVars, UseInv, SingleUse, IssuerOf
<1>2. ASSUME NEW p \in PedCalls, Submit(p) \/ PedRuns(p) PROVE UseInv'
  BY <1>2, UsePedStep DEF Submit, PedRuns, PedNext
<1>3. ASSUME NEW s \in SinkCalls, Present(s) \/ SinkRuns(s) PROVE UseInv'
  BY <1>3, UseSinkStep DEF Present, SinkRuns, SinkNext
<1>4. CASE Restart
  <2>1. /\ effects' = effects /\ sinkReq' = sinkReq
        /\ \A s \in SinkCalls : sinkPC'[s] \notin {"apply", "undo"}
        /\ \A s \in SinkCalls : sinkPC[s] = "ok" => sinkPC'[s] = "ok"
    BY <1>4 DEF Restart, SinkCrash, SinkActive, SinkEnds
  <2>2. \A t \in effects : t \in SinkCalls /\ IssuerOf(t) \in PedCalls
    BY DEF UseInv, TypeInv, TypeOK, SinkTypeOK, SinkShape, Holding
  <2>3. \/ used' = used /\ activations' = activations
        \/ \A p \in PedCalls : activations'[p] = Nil
    BY <1>4 DEF Restart, Rebuild
  <2>4. \A t \in effects : IssuerOf(t) \in used' \/ activations'[IssuerOf(t)] = Nil
    BY <2>2, <2>3 DEF UseInv
  <2> QED BY <2>1, <2>2, <2>4 DEF UseInv, SingleUse, IssuerOf
<1> QED
  BY <1>1, <1>2, <1>3, <1>4
     DEF Next, Environment, Tick, AdvanceEpoch, storeVars, Finished, vars, stateVars

-----------------------------------------------------------------------------
(* The invariant and what it gives.                                        *)

\* Theorem Invariant: types, issuing, locks and use hold together in every
\* reachable state, for all values of the constants.
THEOREM Invariant == Spec => []IInv
<1>1. IInv /\ [Next]_vars => IInv'
  BY TypeStep, IssueStep, LockStep, UseStep DEF IInv
<1> QED
  BY InitIInv, <1>1, PTL DEF Spec

\* Theorem AuthorityIsSingleUse: whatever the number of sinks and calls, their
\* interleaving, failures and restarts, and over both kinds of store, an
\* authority has at most one effect.
THEOREM AuthorityIsSingleUse == Spec => []SingleUse
<1>1. IInv => SingleUse
  BY DEF IInv, UseInv
<1> QED
  BY Invariant, <1>1, PTL

\* Theorem LocksNeverLeak: a lock is held only by a call inside the `with'
\* block of its own sink, and by one that still exists after a restart.
THEOREM LocksNeverLeak == Spec => []LocksAreReleased
<1>1. IInv => LocksAreReleased
  BY DEF IInv, LockInv, LocksAreReleased
<1> QED
  BY Invariant, <1>1, PTL

\* Theorem SomeCallGoesOn: never does every call under way wait for another.
\* Who waits for the network's lock waits for a call inside the block, and who
\* waits for a sink's lock for such a call or for one before the network's.
THEOREM SomeCallGoesOn == Spec => []NoDeadlock
<1>1. ASSUME IInv, NEW s \in SinkCalls, SinkActive(s)
      PROVE  \E t \in SinkCalls : CanGoOn(t)
  <2> USE DEF IInv, TypeInv, TypeOK, SinkTypeOK, LockInv, LocksAreReleased
  <2>1. CASE netLock # Nil
    <3>1. netLock \in SinkCalls /\ sinkPC[netLock] \in Critical
      BY <1>1, <2>1
    <3>2. CanGoOn(netLock)
      BY <3>1 DEF Critical, CanGoOn, SinkActive, SinkEnds
    <3> QED BY <3>1, <3>2
  <2>2. CASE netLock = Nil /\ sinkPC[s] = "lock" /\ sinkLock[sinkReq[s].sink] # Nil
    <3> DEFINE k == sinkReq[s].sink
               t == sinkLock[k]
    <3>1. k \in Sinks
      BY <1>1, <2>2 DEF SinkShape, Requests
    <3>2. t \in SinkCalls /\ sinkPC[t] \in Critical \cup {"netlock"}
      BY <1>1, <2>2, <3>1
    <3>3. CanGoOn(t)
      BY <2>2, <3>2 DEF Critical, CanGoOn, SinkActive, SinkEnds
    <3> QED BY <3>2, <3>3
  <2>3. CASE netLock = Nil /\ ~(sinkPC[s] = "lock" /\ sinkLock[sinkReq[s].sink] # Nil)
    BY <1>1, <2>3 DEF CanGoOn
  <2> QED BY <2>1, <2>2, <2>3
<1>2. IInv => NoDeadlock
  BY <1>1 DEF NoDeadlock
<1> QED
  BY Invariant, <1>2, PTL
=============================================================================
