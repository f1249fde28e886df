---------------------------- MODULE ContractProofs ----------------------------
(***************************************************************************)
(* FinalitySystem implements FinalityContract, for all values of the       *)
(* constants.                                                              *)
(***************************************************************************)
EXTENDS FinalityProofs

\* The evidence of a call is in the store exactly from its commit on, and a
\* call that binds, installs or returns has an ALLOW there.
EvidenceInv ==
    \A p \in PedCalls :
        /\ pedPC[p] \in {"idle", "validate", "reserve", "count", "commit"} =>
               evidence[p] = Nil
        /\ pedPC[p] \in {"bind", "install", "return"} => HasAllow(p)

CInv == IInv /\ EvidenceInv

\* A step of a validation keeps EvidenceInv: only the commit writes evidence,
\* and a denial ends the call there.
LEMMA EvidencePedStep ==
    ASSUME TypeInv, EvidenceInv, NEW p \in PedCalls, PedNext(p)
    PROVE  EvidenceInv'
<1> USE DEF TypeInv, TypeOK, PedTypeOK, EvidenceInv, HasAllow, PedGoto
<1>1. ASSUME NEW c \in Candidates, PedCall(p, c) PROVE EvidenceInv'
  BY <1>1 DEF PedCall, stateVars
<1>2. CASE PedCompareEpoch(p)
  BY <1>2 DEF PedCompareEpoch, stateVars
<1>3. CASE PedReserve(p)
  BY <1>3 DEF PedReserve
<1>4. CASE PedAdvanceCounter(p)
  BY <1>4 DEF PedAdvanceCounter, storeVars
<1>5. CASE PedCommitEvidence(p)
  <2>1. /\ evidence' = [evidence EXCEPT ![p] = EvidenceOf(p)]
        /\ pedPC' = [pedPC EXCEPT ![p] = IF pedDenial[p] = Pass THEN "bind" ELSE "denied"]
    BY <1>5 DEF PedCommitEvidence, Commit
  <2>2. EvidenceOf(p) \in Records
    <3>1. pedCand[p] \in Candidates
      BY <1>5 DEF PedCommitEvidence, PedShape
    <3> QED BY <3>1 DEF EvidenceOf, Records
  <2>3. EvidenceOf(p) # Nil
    BY <2>2, NilIsNoRecord
  <2>4. pedDenial[p] = Pass => EvidenceOf(p).decision = "ALLOW"
    BY DEF EvidenceOf
  <2> QED BY <2>1, <2>3, <2>4
<1>6. CASE PedBindEpoch(p)
  BY <1>6 DEF PedBindEpoch, stateVars
<1>7. CASE PedInstall(p)
  BY <1>7 DEF PedInstall
<1>8. CASE PedRaise(p)
  BY <1>8 DEF PedRaise, stateVars
<1>9. CASE PedReturn(p)
  BY <1>9 DEF PedReturn, storeVars
<1> QED
  BY <1>1, <1>2, <1>3, <1>4, <1>5, <1>6, <1>7, <1>8, <1>9 DEF PedNext, PedStep

\* No effectuation writes evidence.
LEMMA SinkKeepsEvidence ==
    ASSUME NEW s \in SinkCalls, SinkNext(s)
    PROVE  evidence' = evidence
<1>1. ASSUME NEW req \in Requests, SinkCall(s, req) PROVE evidence' = evidence
  BY <1>1 DEF SinkCall, stateVars
<1> QED
  BY <1>1 DEF SinkNext, SinkStep, SinkReadEvidence, SinkReadActivation, SinkReadUsed,
     SinkCompareEpoch, CompareEpoch, SinkTakeLock, SinkTakeNetworkLock, SinkRecheck,
     SinkConsume, SinkApply, SinkApplyRaises, SinkUndo, SinkRaise, stateVars

\* Every step keeps EvidenceInv; a restart ends the calls it is about.
LEMMA EvidenceStep ==
    ASSUME TypeInv, EvidenceInv, [Next]_vars
    PROVE  EvidenceInv'
<1>1. CASE UNCHANGED <<pedVars, evidence>>
  BY <1>1 DEF pedVars, EvidenceInv, HasAllow
<1>2. ASSUME NEW p \in PedCalls, Submit(p) \/ PedRuns(p) PROVE EvidenceInv'
  BY <1>2, EvidencePedStep DEF Submit, PedRuns, PedNext
<1>3. ASSUME NEW s \in SinkCalls, Present(s) \/ SinkRuns(s) PROVE EvidenceInv'
  BY <1>1, <1>3, SinkKeepsEvidence DEF Present, SinkRuns, SinkNext
<1>4. CASE Restart
  <2>1. \A p \in PedCalls : pedPC'[p] \in {"idle"} \cup PedEnds /\ (pedPC'[p] = "idle" => pedPC[p] = "idle")
    BY <1>4 DEF Restart, PedCrash, PedActive, PedEnds
  <2>2. evidence' = evidence \/ \A p \in PedCalls : evidence'[p] = Nil
    BY <1>4 DEF Restart, Rebuild
  <2> QED BY <2>1, <2>2 DEF EvidenceInv, PedEnds
<1> QED
  BY <1>1, <1>2, <1>3, <1>4
     DEF Next, Environment, Tick, AdvanceEpoch, storeVars, Finished, vars, stateVars

-----------------------------------------------------------------------------
(* The refinement.                                                         *)

\* The initial states of the system are initial states of the contract.
LEMMA InitContract == Init => Contract!ContractInit
  BY DEF Init, StateInit, SinkInit, Contract!ContractInit, StageOf, HasEffect, HasAllow

\* What no step but commit, install, apply and restart touches.
Kept ==
    /\ effects' = effects
    /\ \A t \in effects : IssuerOf(t)' = IssuerOf(t)
    /\ UNCHANGED <<released, evidence>>

\* The stage of a decision depends on its effect, its envelope and its ALLOW.
LEMMA StageFrame ==
    ASSUME effects' = effects, \A t \in effects : IssuerOf(t)' = IssuerOf(t),
           NEW q \in PedCalls, released'[q] = released[q], evidence'[q] = evidence[q]
    PROVE  StageOf(q)' = StageOf(q)
<1>1. HasEffect(q)' <=> HasEffect(q)
  BY DEF HasEffect
<1>2. HasAllow(q)' <=> HasAllow(q)
  BY DEF HasAllow
<1> QED BY <1>1, <1>2 DEF StageOf

\* A step that keeps effects, envelopes and evidence stutters in the contract.
LEMMA KeptStutters ==
    ASSUME Kept PROVE UNCHANGED Contract!contractVars
<1>1. \A q \in PedCalls : StageOf(q)' = StageOf(q)
  BY StageFrame DEF Kept
<1>2. {<<IssuerOf(s), s>> : s \in effects}' = {<<IssuerOf(s), s>> : s \in effects}
  BY DEF Kept
<1> QED BY <1>1, <1>2 DEF Contract!contractVars

\* A step of a validation commits the ALLOW of its decision, releases its
\* authority, or stutters.
LEMMA PedImplements ==
    ASSUME CInv, NEW p \in PedCalls, PedNext(p), UNCHANGED sinkVars
    PROVE  [Contract!ContractNext]_(Contract!contractVars)
<1> USE DEF CInv, IInv
<1>1. effects' = effects /\ \A t \in effects : IssuerOf(t)' = IssuerOf(t)
  BY DEF sinkVars, IssuerOf
<1>2. {<<IssuerOf(s), s>> : s \in effects}' = {<<IssuerOf(s), s>> : s \in effects}
  BY <1>1
<1>3. released[p] = Nil
  BY PedMoves DEF IssueInv
<1>4. ~HasEffect(p)
  <2>1. \A t \in effects : t \in SinkCalls /\ sinkPC[t] \in Holding
    BY DEF UseInv, TypeInv, TypeOK, SinkTypeOK, Holding
  <2> QED BY <1>3, <2>1 DEF IssueInv, HasEffect
<1>5. ~HasEffect(p)'
  BY <1>1, <1>4 DEF HasEffect
<1>6. CASE PedCommitEvidence(p)
  <2>1. /\ \A q \in PedCalls : q # p => evidence'[q] = evidence[q]
        /\ evidence'[p] = EvidenceOf(p)
        /\ released' = released
        /\ evidence[p] = Nil
    BY <1>6 DEF PedCommitEvidence, Commit, TypeInv, TypeOK, EvidenceInv
  <2>2. \A q \in PedCalls : q # p => StageOf(q)' = StageOf(q)
    BY <1>1, <2>1, StageFrame
  <2>3. StageOf(p) = "noneffective"
    BY <1>3, <1>4, <2>1 DEF StageOf, HasAllow
  <2>4. StageOf(p)' \in {"noneffective", "evidenced"}
    BY <1>3, <1>5, <2>1 DEF StageOf
  <2>5. CASE StageOf(p)' = "noneffective"
    BY <1>2, <2>2, <2>3, <2>5 DEF Contract!contractVars
  <2>6. CASE StageOf(p)' = "evidenced"
    <3>1. Contract!CommitAllow(p)
      BY <1>2, <2>2, <2>3, <2>6 DEF Contract!CommitAllow
    <3> QED BY <3>1 DEF Contract!ContractNext
  <2> QED BY <2>4, <2>5, <2>6
<1>7. CASE PedReturn(p)
  <2>1. /\ \A q \in PedCalls : q # p => released'[q] = released[q]
        /\ evidence' = evidence
        /\ HasAllow(p)
    BY <1>7 DEF PedReturn, storeVars, TypeInv, TypeOK, EvidenceInv
  <2>2. \A q \in PedCalls : q # p => StageOf(q)' = StageOf(q)
    BY <1>1, <2>1, StageFrame
  <2>3. StageOf(p) = "evidenced"
    BY <1>3, <1>4, <2>1 DEF StageOf
  <2>4. HasAllow(p)'
    BY <2>1 DEF HasAllow
  <2>5. StageOf(p)' \in {"evidenced", "released"}
    BY <1>5, <2>4 DEF StageOf
  <2>6. CASE StageOf(p)' = "evidenced"
    BY <1>2, <2>2, <2>3, <2>6 DEF Contract!contractVars
  <2>7. CASE StageOf(p)' = "released"
    <3>1. Contract!Release(p)
      BY <1>2, <2>2, <2>3, <2>7 DEF Contract!Release
    <3> QED BY <3>1 DEF Contract!ContractNext
  <2> QED BY <2>5, <2>6, <2>7
<1>8. CASE UNCHANGED <<released, evidence>>
  BY <1>1, <1>8, KeptStutters DEF Kept
<1> QED
  <2>1. ASSUME NEW c \in Candidates, PedCall(p, c) PROVE UNCHANGED <<released, evidence>>
    BY <2>1 DEF PedCall, stateVars
  <2> QED
    BY <1>6, <1>7, <1>8, <2>1 DEF PedNext, PedStep, PedCompareEpoch, PedReserve,
       PedAdvanceCounter, PedBindEpoch, PedInstall, Put, PedRaise, stateVars, storeVars

\* A step of an effectuation effectuates a released decision or stutters.
LEMMA SinkImplements ==
    ASSUME CInv, NEW s \in SinkCalls, SinkNext(s)
    PROVE  [Contract!ContractNext]_(Contract!contractVars)
<1> USE DEF CInv, IInv
<1>1. UNCHANGED <<released, evidence>>
  BY SinkMoves, SinkKeepsEvidence
<1>2. CASE effects' = effects
  <2>1. \A t \in effects : t \in SinkCalls /\ sinkPC[t] = "ok"
    BY DEF UseInv, TypeInv, TypeOK, SinkTypeOK
  <2>2. \A t \in effects : IssuerOf(t)' = IssuerOf(t)
    BY <2>1, SinkMoves DEF IssuerOf, Holding
  <2> QED BY <1>1, <1>2, <2>2, KeptStutters DEF Kept
<1>3. CASE SinkApply(s)
  <2>1. /\ effects' = effects \cup {s}
        /\ \A t \in SinkCalls : IssuerOf(t)' = IssuerOf(t)
        /\ sinkPC[s] = "apply"
    BY <1>3 DEF SinkApply, IssuerOf
  <2>2. /\ IssuerOf(s) \in PedCalls
        /\ released[IssuerOf(s)] # Nil
        /\ ~HasEffect(IssuerOf(s))
    BY <2>1 DEF TypeInv, SinkShape, IssueInv, UseInv, Holding, HasEffect
  <2>3. PICK d \in PedCalls : d = IssuerOf(s)
    BY <2>2
  <2>4. StageOf(d) = "released"
    BY <2>2, <2>3 DEF StageOf
  <2>5. StageOf(d)' = "effective"
    <3>1. s \in effects' /\ IssuerOf(s)' = d
      BY <2>1, <2>3
    <3> QED BY <3>1 DEF StageOf, HasEffect
  <2>6. ASSUME NEW q \in PedCalls, q # d PROVE StageOf(q)' = StageOf(q)
    <3>1. effects \subseteq SinkCalls
      BY DEF TypeInv, TypeOK, SinkTypeOK
    <3>2. HasEffect(q)' <=> HasEffect(q)
      BY <2>1, <2>3, <2>6, <3>1 DEF HasEffect
    <3>3. HasAllow(q)' <=> HasAllow(q)
      BY <1>1 DEF HasAllow
    <3> QED BY <1>1, <3>2, <3>3 DEF StageOf
  <2>7. {<<IssuerOf(t), t>> : t \in effects}' = {<<IssuerOf(t), t>> : t \in effects} \cup {<<d, s>>}
    BY <2>1, <2>3 DEF TypeInv, TypeOK, SinkTypeOK
  <2>8. Contract!Effectuate(d, s)
    BY <2>4, <2>5, <2>6, <2>7 DEF Contract!Effectuate
  <2> QED BY <2>8 DEF Contract!ContractNext
<1> QED
  <2>1. ASSUME NEW req \in Requests, SinkCall(s, req) PROVE effects' = effects
    BY <2>1 DEF SinkCall
  <2> QED
    BY <1>2, <1>3, <2>1 DEF SinkNext, SinkStep, SinkReadEvidence, SinkReadActivation,
       SinkReadUsed, SinkCompareEpoch, CompareEpoch, SinkTakeLock, SinkTakeNetworkLock,
       SinkRecheck, SinkConsume, SinkApplyRaises, SinkUndo, SinkRaise

\* A restart forgets the decisions not yet released, or stutters.
LEMMA RestartImplements ==
    ASSUME CInv, Restart
    PROVE  [Contract!ContractNext]_(Contract!contractVars)
<1>1. /\ effects' = effects /\ released' = released
      /\ \A t \in SinkCalls : IssuerOf(t)' = IssuerOf(t)
  BY DEF Restart, Rebuild, ForgetVolatile, SinkCrash, IssuerOf
<1>2. \A t \in effects : IssuerOf(t)' = IssuerOf(t)
  BY <1>1 DEF CInv, IInv, TypeInv, TypeOK, SinkTypeOK
<1>3. CASE evidence' = evidence
  BY <1>1, <1>2, <1>3, KeptStutters DEF Kept
<1>4. CASE \A p \in PedCalls : evidence'[p] = Nil
  <2>1. ASSUME NEW p \in PedCalls
        PROVE  StageOf(p)' = IF StageOf(p) = "evidenced" THEN "noneffective" ELSE StageOf(p)
    <3>1. HasEffect(p)' <=> HasEffect(p)
      BY <1>1, <1>2 DEF HasEffect
    <3>2. ~HasAllow(p)'
      BY <1>4 DEF HasAllow
    <3> QED BY <1>1, <3>1, <3>2 DEF StageOf
  <2>2. {<<IssuerOf(s), s>> : s \in effects}' = {<<IssuerOf(s), s>> : s \in effects}
    BY <1>1, <1>2
  <2>3. Contract!Forget
    BY <2>1, <2>2 DEF Contract!Forget
  <2> QED BY <2>3 DEF Contract!ContractNext
<1> QED BY <1>3, <1>4 DEF Restart, Rebuild

\* Every step of the system is a step of the contract or a stutter.
LEMMA StepImplements ==
    ASSUME CInv, [Next]_vars
    PROVE  [Contract!ContractNext]_(Contract!contractVars)
<1>1. CASE UNCHANGED <<sinkVars, released, evidence>>
  BY <1>1, KeptStutters DEF Kept, sinkVars, IssuerOf
<1>2. ASSUME NEW p \in PedCalls, Submit(p) \/ PedRuns(p)
      PROVE  [Contract!ContractNext]_(Contract!contractVars)
  BY <1>2, PedImplements DEF Submit, PedRuns, PedNext
<1>3. ASSUME NEW s \in SinkCalls, Present(s) \/ SinkRuns(s)
      PROVE  [Contract!ContractNext]_(Contract!contractVars)
  BY <1>3, SinkImplements DEF Present, SinkRuns, SinkNext
<1> QED
  BY <1>1, <1>2, <1>3, RestartImplements
     DEF Next, Environment, Tick, AdvanceEpoch, storeVars, Finished, vars, stateVars

\* Theorem ContractImplemented: for any number of calls and sinks, over either
\* kind of store and across any number of restarts, a validation decision has
\* no consequence before its ALLOW evidence and its release, and then one.
THEOREM ContractImplemented == Spec => ContractHolds
<1>1. Init => CInv
  BY InitIInv DEF CInv, EvidenceInv, Init, StateInit, PedInit
<1>2. CInv /\ [Next]_vars => CInv'
  BY TypeStep, IssueStep, LockStep, UseStep, EvidenceStep DEF CInv, IInv
<1> QED
  BY <1>1, <1>2, InitContract, StepImplements, PTL
     DEF Spec, ContractHolds, Contract!ContractSpec
=============================================================================
