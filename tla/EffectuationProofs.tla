-------------------------- MODULE EffectuationProofs --------------------------
(***************************************************************************)
(* Theorems about verify_and_effectuate: when a decision takes effect,     *)
(* what takes effect, under which epochs, and where an authority goes.     *)
(***************************************************************************)
EXTENDS IssueProofs, PolicyProofs

-----------------------------------------------------------------------------
(* What it means that a check of the sink passes.                          *)

\* The reason of the checks of the used marks, which no other check gives.
AlreadyUsed == "AUTHORITY_ALREADY_USED"

\* The envelope that passes exists, unaltered, verifies, lives, and is for the
\* candidate.
LEMMA EnvelopeFacts ==
    ASSUME NEW req \in Requests, NEW now
    PROVE  /\ EnvelopeCheck(req, now) # AlreadyUsed
           /\ EnvelopeCheck(req, now) = Pass =>
                 /\ req.auth \in PedCalls
                 /\ KeyAccepted(released[req.auth]) /\ req.intact
                 /\ ~(now >= released[req.auth].expires)
                 /\ req.cand = released[req.auth].cand
<1> DEFINE auth == released[req.auth]
           checks == << <<~KeyAccepted(auth) \/ ~req.intact, "INVALID_AUTHORITY">>,
                        <<now >= auth.expires,               "STALE_AUTHORITY">>,
                        <<req.cand # auth.cand,              "ACT_MISMATCH">> >>
<1>1. /\ EnvelopeCheck(req, now) =
             IF req.auth = Nil THEN "NO_FINALITY_AUTHORITY" ELSE FirstDenial(checks)
      /\ EnvelopeCheck(req, now) = Pass => req.auth \in PedCalls /\ req.auth # Nil
  BY EnvelopePresent, StateAssumption DEF EnvelopeCheck, StateAssumption
<1>2. DOMAIN checks = 1..3
  OBVIOUS
<1>3. \A i \in 1..3 : checks[i][2] # Pass /\ checks[i][2] # AlreadyUsed
  BY DEF Pass, AlreadyUsed
<1> HIDE DEF checks
<1>4. FirstDenial(checks) # AlreadyUsed
  BY <1>2, <1>3, DenialIsListed DEF Pass, AlreadyUsed
<1>5. FirstDenial(checks) = Pass => ~checks[1][1] /\ ~checks[2][1] /\ ~checks[3][1]
  BY <1>2, <1>3, FirstDenialFacts
<1> QED BY <1>1, <1>4, <1>5 DEF checks, AlreadyUsed

LEMMA EvidenceFacts ==
    ASSUME NEW s \in SinkCalls
    PROVE  EvidenceCheck(s) # AlreadyUsed
<1> DEFINE record == evidence[sinkReq[s].auth]
           checks == << <<record # AuthOf(s).evidence,      "EVIDENCE_MISSING">>,
                        <<record.decision # "ALLOW",        "EVIDENCE_MISSING">>,
                        <<record.act # sinkReq[s].cand.act, "EVIDENCE_MISSING">> >>
<1>1. EvidenceCheck(s) = IF record = Nil THEN "EVIDENCE_MISSING" ELSE FirstDenial(checks)
  BY DEF EvidenceCheck
<1>2. DOMAIN checks = 1..3 /\ \A i \in 1..3 : checks[i][2] # AlreadyUsed
  BY DEF AlreadyUsed
<1> HIDE DEF checks
<1>3. FirstDenial(checks) # AlreadyUsed
  BY <1>2, DenialIsListed DEF Pass, AlreadyUsed
<1> QED BY <1>1, <1>3 DEF AlreadyUsed

\* An activation that passes is in the store.
LEMMA ActivationFacts ==
    ASSUME NEW s \in SinkCalls
    PROVE  /\ ActivationCheck(s) # AlreadyUsed
           /\ ActivationCheck(s) = Pass => activations[IssuerOf(s)] # Nil
<1> DEFINE record == activations[sinkReq[s].auth]
           checks == <<
                <<sinkNow[s] >= record.expires,        "STALE_AUTHORITY">>,
                <<record.sink # sinkReq[s].sink.id,    "SINK_MISMATCH">>,
                <<record.authority # AuthOf(s),        "PROTECTED_STATE_MISMATCH">>,
                <<record.cand # sinkReq[s].cand,       "PROTECTED_STATE_MISMATCH">> >>
<1>1. ActivationCheck(s) = IF record = Nil THEN "ACTIVATION_MISSING" ELSE FirstDenial(checks)
  BY DEF ActivationCheck
<1>2. DOMAIN checks = 1..4 /\ \A i \in 1..4 : checks[i][2] # AlreadyUsed
  BY DEF AlreadyUsed
<1> HIDE DEF checks
<1>3. FirstDenial(checks) # AlreadyUsed
  BY <1>2, DenialIsListed DEF Pass, AlreadyUsed
<1> QED BY <1>1, <1>3 DEF AlreadyUsed, Pass, IssuerOf

\* The boundary of an authority that passes is the sink at hand.
LEMMA BoundaryFacts ==
    ASSUME NEW s \in SinkCalls
    PROVE  /\ BoundaryCheck(s) # AlreadyUsed
           /\ BoundaryCheck(s) = Pass => AuthOf(s).boundary = sinkReq[s].sink
<1> DEFINE req == sinkReq[s]
           checks == <<
            <<AuthOf(s).sink # req.sink.id \/ req.cand.sink.id # req.sink.id,
                                                       "SINK_MISMATCH">>,
            <<AuthOf(s).boundary # req.sink \/ req.cand.sink.type # req.sink.type,
                                                       "EFFECTUATION_BOUNDARY_MISMATCH">> >>
<1>1. BoundaryCheck(s) = FirstDenial(checks)
  BY DEF BoundaryCheck
<1>2. DOMAIN checks = 1..2
  OBVIOUS
<1>3. \A i \in 1..2 : checks[i][2] # Pass /\ checks[i][2] # AlreadyUsed
  BY DEF Pass, AlreadyUsed
<1> HIDE DEF checks
<1>4. FirstDenial(checks) # AlreadyUsed
  BY <1>2, <1>3, DenialIsListed DEF Pass, AlreadyUsed
<1>5. FirstDenial(checks) = Pass => ~checks[2][1]
  BY <1>2, <1>3, FirstDenialFacts
<1> QED BY <1>1, <1>4, <1>5 DEF checks

\* The effect is the one of the scope, and no longer than the scope allows.
InScope(scope, e) ==
    /\ scope.resourceType = e.resourceType /\ scope.resources = e.resources
    /\ scope.effectType = e.effectType /\ scope.params = e.params
    /\ \A limit \in scope.duration, d \in e.duration : ~(d > limit)

LEMMA EffectFacts ==
    ASSUME NEW s \in SinkCalls
    PROVE  /\ EffectCheck(s) # AlreadyUsed
           /\ EffectCheck(s) = Pass => InScope(AuthOf(s).scope, sinkReq[s].effect)
<1> DEFINE scope == AuthOf(s).scope
           c == sinkReq[s].cand
           e == sinkReq[s].effect
           checks == <<
            <<AuthOf(s).nonce # c.nonce,               "NONCE_FAILURE">>,
            <<activations[sinkReq[s].auth].nonce # c.nonce, "NONCE_FAILURE">>,
            <<scope.type # c.type,                     "CONSEQUENCE_CLASS_MISMATCH">>,
            <<scope.resourceType # e.resourceType,     "SCOPE_MISMATCH">>,
            <<scope.resources # e.resources,           "SCOPE_MISMATCH">>,
            <<scope.purpose # c.purpose,               "PURPOSE_MISMATCH">>,
            <<scope.jurisdiction # c.jurisdiction,     "JURISDICTION_MISMATCH">>,
            <<scope.effectType # e.effectType,         "CONSEQUENCE_CLASS_MISMATCH">>,
            <<e.params # e.digest,                     "DESCRIPTOR_MISMATCH">>,
            <<e.digest # scope.params,                 "ACT_MISMATCH">>,
            <<\E limit \in scope.duration : Exceeds(e.duration, limit),
                                                       "SCOPE_MISMATCH">> >>
<1>1. EffectCheck(s) = FirstDenial(checks)
  BY DEF EffectCheck
<1>2. DOMAIN checks = 1..11
  OBVIOUS
<1>3. \A i \in 1..11 : checks[i][2] # Pass /\ checks[i][2] # AlreadyUsed
  BY DEF Pass, AlreadyUsed
<1> HIDE DEF checks
<1>4. FirstDenial(checks) # AlreadyUsed
  BY <1>2, <1>3, DenialIsListed DEF Pass, AlreadyUsed
<1>5. FirstDenial(checks) = Pass =>
          /\ ~checks[4][1] /\ ~checks[5][1] /\ ~checks[8][1] /\ ~checks[9][1]
          /\ ~checks[10][1] /\ ~checks[11][1]
  BY <1>2, <1>3, FirstDenialFacts
<1> QED BY <1>1, <1>4, <1>5 DEF checks, InScope, Exceeds

\* No comparison of epochs gives the reason of a used mark.
LEMMA EpochReasonFacts ==
    ASSUME NEW i \in 1..6
    PROVE  EpochReason[Kinds[i]] # Pass /\ EpochReason[Kinds[i]] # AlreadyUsed
<1>1. Kinds[i] \in {"reference", "topology", "configuration",
                    "policy", "authority", "revocation"}
  BY DEF Kinds
<1> QED BY <1>1 DEF EpochReason, Pass, AlreadyUsed

-----------------------------------------------------------------------------
(* The steps of a call.                                                    *)

\* Call s is as before.
SinkKept(s) ==
    /\ sinkPC'[s] = sinkPC[s] /\ sinkReq'[s] = sinkReq[s] /\ sinkNow'[s] = sinkNow[s]
    /\ sinkIdx'[s] = sinkIdx[s] /\ sinkCode'[s] = sinkCode[s] /\ entry'[s] = entry[s]
    /\ s \in effects' <=> s \in effects

\* The comparison of the epoch whose turn it is succeeds.
Current(s) == AuthOf(s).bind[Kinds[sinkIdx[s]]] = epoch[Kinds[sinkIdx[s]]]

\* How call s begins, goes on to its next check, passes the last one, and
\* goes on from there; or it ends.
Begins(s) ==
    /\ sinkPC[s] = "idle" /\ sinkReq'[s] \in Requests
    /\ sinkNow'[s] = clock /\ entry'[s] = epoch /\ sinkIdx'[s] = sinkIdx[s]
    /\ \/ sinkPC'[s] = "denied"
       \/ sinkPC'[s] = "evidence" /\ EnvelopeCheck(sinkReq'[s], clock) = Pass

Advances(s) ==
    /\ sinkPC[s] \in Holding \ {"ok"}
    /\ sinkReq'[s] = sinkReq[s] /\ sinkNow'[s] = sinkNow[s] /\ entry'[s] = entry[s]
    /\ \/ sinkPC'[s] \in {"denied", "raised"}
       \/ /\ sinkIdx'[s] = sinkIdx[s]
          /\ \/ sinkPC[s] = "evidence" /\ sinkPC'[s] = "activation"
             \/ sinkPC[s] = "activation" /\ sinkPC'[s] = "used" /\ ActivationCheck(s) = Pass
             \/ sinkPC[s] = "used" /\ sinkPC'[s] = "state" /\ BoundaryCheck(s) = Pass
             \/ Passed(s) /\ Passed(s)'
       \/ /\ sinkPC[s] = "state" /\ Current(s)
          /\ \/ /\ sinkPC'[s] = "state"
                /\ sinkIdx[s] # 6 /\ sinkIdx'[s] = sinkIdx[s] + 1
             \/ /\ sinkPC'[s] = "lock"
                /\ sinkIdx[s] = 6 /\ EffectCheck(s) = Pass

LEMMA SinkCallMoves ==
    ASSUME TypeInv, NEW s \in SinkCalls, SinkNext(s)
    PROVE  /\ Begins(s) \/ Advances(s)
           /\ \A t \in SinkCalls : t # s => SinkKept(t)
<1> USE DEF TypeInv, TypeOK, SinkTypeOK, SinkKept, SinkProceed, SinkGoto
<1> DEFINE Goal == /\ Begins(s) \/ Advances(s)
                   /\ \A t \in SinkCalls : t # s => SinkKept(t)
<1>1. ASSUME NEW req \in Requests, SinkCall(s, req) PROVE Goal
  BY <1>1 DEF SinkCall, Begins
<1>2. CASE SinkReadEvidence(s)
  BY <1>2 DEF SinkReadEvidence, Advances, Holding
<1>3. CASE SinkReadActivation(s)
  BY <1>3 DEF SinkReadActivation, Advances, Holding
<1>4. CASE SinkReadUsed(s)
  BY <1>4 DEF SinkReadUsed, Advances, Holding, Pass
<1>5. CASE SinkCompareEpoch(s)
  <2>1. /\ sinkPC[s] = "state" /\ sinkIdx[s] \in 1..6
        /\ UNCHANGED <<sinkReq, sinkNow, entry, effects>>
        /\ \A t \in SinkCalls : t # s => sinkPC'[t] = sinkPC[t] /\ sinkIdx'[t] = sinkIdx[t]
                                         /\ sinkCode'[t] = sinkCode[t]
    BY <1>5, KindFacts DEF SinkCompareEpoch, CompareEpoch
  <2>2. CASE ~Current(s)
    <3>1. sinkPC'[s] = "denied"
      <4>1. EpochReason[Kinds[sinkIdx[s]]] # Pass
        BY <2>1, EpochReasonFacts
      <4> QED BY <1>5, <2>2, <4>1 DEF SinkCompareEpoch, CompareEpoch, Current
    <3> QED BY <2>1, <3>1 DEF Advances, Holding
  <2>3. CASE Current(s) /\ sinkIdx[s] # 6
    <3>1. sinkPC'[s] = "state" /\ sinkIdx'[s] = sinkIdx[s] + 1
      BY <1>5, <2>3, KindFacts DEF SinkCompareEpoch, CompareEpoch, Current
    <3> QED BY <2>1, <2>3, <3>1 DEF Advances, Holding
  <2>4. CASE Current(s) /\ sinkIdx[s] = 6
    <3>1. \/ sinkPC'[s] = "denied"
          \/ sinkPC'[s] = "lock" /\ EffectCheck(s) = Pass
      BY <1>5, <2>4, KindFacts DEF SinkCompareEpoch, CompareEpoch, Current
    <3> QED BY <2>1, <2>4, <3>1 DEF Advances, Holding
  <2> QED BY <2>2, <2>3, <2>4
<1>6. CASE SinkTakeLock(s)
  BY <1>6 DEF SinkTakeLock, Advances, Holding, Passed, Locking, Critical
<1>7. CASE SinkTakeNetworkLock(s)
  BY <1>7 DEF SinkTakeNetworkLock, Advances, Holding, Passed, Locking, Critical
<1>8. CASE SinkRecheck(s)
  BY <1>8 DEF SinkRecheck, Advances, Holding, Passed, Locking, Critical, Pass
<1>9. CASE SinkConsume(s)
  BY <1>9 DEF SinkConsume, Advances, Holding, Passed, Locking, Critical, Pass
<1>10. CASE SinkApply(s)
  BY <1>10 DEF SinkApply, Advances, Holding, Passed, Locking, Critical
<1>11. CASE SinkApplyRaises(s)
  BY <1>11 DEF SinkApplyRaises, Advances, Holding, Passed, Locking, Critical
<1>12. CASE SinkUndo(s)
  BY <1>12 DEF SinkUndo, Advances, Holding
<1>13. CASE SinkRaise(s)
  BY <1>13 DEF SinkRaise, Advances, Holding
<1> QED
  BY <1>1, <1>2, <1>3, <1>4, <1>5, <1>6, <1>7, <1>8, <1>9, <1>10, <1>11, <1>12, <1>13
     DEF SinkNext, SinkStep

\* What any step is for call s: nothing, a step of its own, during which the
\* validations and the protected state stand still, or the end of its process.
LEMMA CallSteps ==
    ASSUME TypeInv, [Next]_vars, NEW s \in SinkCalls
    PROVE  \/ SinkKept(s)
           \/ /\ Begins(s) \/ Advances(s)
              /\ UNCHANGED <<clock, boot, epoch, evidence, activations, released, pedVars>>
           \/ /\ Restart
              /\ sinkPC'[s] = (IF SinkActive(s) THEN "crashed" ELSE sinkPC[s])
              /\ UNCHANGED <<sinkReq, sinkNow, sinkIdx, sinkCode, entry, effects>>
<1>1. CASE UNCHANGED sinkVars
  BY <1>1 DEF sinkVars, SinkKept
<1>2. CASE Restart
  BY <1>2 DEF Restart, SinkCrash
<1>3. ASSUME NEW t \in SinkCalls, SinkNext(t), UNCHANGED pedVars
      PROVE  \/ SinkKept(s)
             \/ /\ Begins(s) \/ Advances(s)
                /\ UNCHANGED <<clock, boot, epoch, evidence, activations, released, pedVars>>
  BY <1>3, SinkFrame, SinkCallMoves
<1> QED
  BY <1>1, <1>2, <1>3, StepKinds DEF Environment, vars

\* What was said and done by a call that has returned its envelope stays so.
LEMMA IssuedKept ==
    ASSUME TypeInv, IssueInv, [Next]_vars, NEW p \in PedCalls, released[p] # Nil
    PROVE  /\ released'[p] = released[p] /\ pedPC[p] = "issued" /\ pedPC'[p] = "issued"
           /\ pedCand'[p] = pedCand[p] /\ pedNow'[p] = pedNow[p]
           /\ pedDenial'[p] = pedDenial[p] /\ pedBind'[p] = pedBind[p]
<1>1. pedPC[p] = "issued"
  BY DEF IssueInv
<1>2. CASE UNCHANGED <<pedVars, released>>
  BY <1>1, <1>2 DEF pedVars
<1>3. ASSUME NEW q \in PedCalls, PedNext(q) PROVE PedKept(p)
  BY <1>1, <1>3, PedFrame, PedMoves
<1>4. CASE Restart
  BY <1>1, <1>4 DEF Restart, Rebuild, ForgetVolatile, PedCrash, PedActive, PedEnds,
     TypeInv, TypeOK, PedTypeOK
<1> QED
  BY <1>1, <1>2, <1>3, <1>4, IssueKinds DEF PedKept

-----------------------------------------------------------------------------
(* What takes effect, and when.                                            *)

\* No validation read a time that is still to come.
ClockInv == \A p \in PedCalls : pedNow[p] <= clock

\* Every step keeps ClockInv: time goes on, and only PedCall reads it.
LEMMA ClockStep ==
    ASSUME TypeInv, ClockInv, [Next]_vars
    PROVE  ClockInv'
<1> USE DEF TypeInv, TypeOK, PedTypeOK
<1>1. ASSUME NEW p \in PedCalls, PedNext(p) PROVE ClockInv'
  <2>1. clock' = clock /\ \A q \in PedCalls : q # p => pedNow'[q] = pedNow[q]
    BY <1>1, PedFrame DEF PedKept
  <2>2. ASSUME NEW c \in Candidates, PedCall(p, c) PROVE pedNow'[p] = clock
    BY <2>2 DEF PedCall
  <2>3. pedNow'[p] = clock \/ pedNow'[p] = pedNow[p]
    BY <1>1, <2>2 DEF PedNext, PedStep, PedCompareEpoch, PedReserve, PedAdvanceCounter,
       PedCommitEvidence, PedBindEpoch, PedInstall, PedReturn, PedRaise
  <2> QED BY <2>1, <2>3 DEF ClockInv
<1>2. CASE Restart
  BY <1>2 DEF Restart, Rebuild, ForgetVolatile, PedCrash, ClockInv
<1>3. CASE UNCHANGED pedVars /\ clock' \in Nat /\ clock <= clock'
  BY <1>3 DEF pedVars, ClockInv
<1> QED
  BY <1>1, <1>2, <1>3, IssueKinds

\* What the checks of call s have established so far.
Checked(s) ==
    LET p == IssuerOf(s)
        auth == released[p]
    IN  /\ sinkPC[s] \in Holding =>
               /\ sinkReq[s].cand = auth.cand
               /\ pedNow[p] <= sinkNow[s] /\ sinkNow[s] < auth.expires
        /\ sinkPC[s] = "state" \/ Passed(s) => auth.boundary = sinkReq[s].sink
        /\ Passed(s) => InScope(auth.scope, sinkReq[s].effect)

CheckedInv == \A s \in SinkCalls : Checked(s)

\* Every step keeps CheckedInv: a check that passes adds to what is known, and
\* what is known is about an envelope and arguments that do not change.
LEMMA CheckedStep ==
    ASSUME TypeInv, IssueInv, EnvelopeInv, ClockInv, CheckedInv, [Next]_vars
    PROVE  CheckedInv'
<1> SUFFICES ASSUME NEW s \in SinkCalls PROVE Checked(s)'
  BY DEF CheckedInv
<1> DEFINE p == IssuerOf(s)
<1>1. Checked(s)
  BY DEF CheckedInv
<1>2. sinkPC[s] \in Holding => p \in PedCalls /\ released[p] # Nil
  BY DEF TypeInv, SinkShape, IssueInv
<1>3. sinkPC[s] \in Holding => released'[p] = released[p] /\ pedNow'[p] = pedNow[p]
  BY <1>2, IssuedKept
<1>4. CASE SinkKept(s)
  BY <1>1, <1>3, <1>4 DEF SinkKept, Checked, Passed, IssuerOf, Holding, Locking, Critical
<1>5. CASE Begins(s) /\ UNCHANGED <<clock, released, pedVars>>
  <2>1. CASE sinkPC'[s] = "denied"
    BY <2>1 DEF Checked, Passed, Holding, Locking, Critical
  <2>2. CASE sinkPC'[s] = "evidence"
    <3>1. /\ sinkReq'[s] \in Requests /\ EnvelopeCheck(sinkReq'[s], clock) = Pass
          /\ sinkNow'[s] = clock /\ clock \in Nat
      BY <1>5, <2>2 DEF Begins, TypeInv, TypeOK
    <3>2. /\ p' \in PedCalls /\ ~(clock >= released[p'].expires)
          /\ sinkReq'[s].cand = released[p'].cand
      BY <3>1, EnvelopeFacts DEF IssuerOf
    <3>3. IssueInv'
      BY IssueStep
    <3>4. released[p'] # Nil
      BY <1>5, <2>2, <3>3 DEF IssueInv, Holding
    <3>5. released[p'] \in Authorities
      BY <3>2, <3>4 DEF TypeInv, TypeOK
    <3>6. clock < released[p'].expires
      BY <3>1, <3>2, <3>5 DEF Authorities
    <3>7. released' = released /\ pedNow' = pedNow
      BY <1>5 DEF pedVars
    <3> QED BY <2>2, <3>1, <3>2, <3>6, <3>7 DEF Checked, ClockInv, Passed, Locking, Critical
  <2> QED BY <1>5, <2>1, <2>2 DEF Begins
<1>6. CASE Advances(s) /\ UNCHANGED <<released, pedVars>>
  <2>1. /\ sinkPC[s] \in Holding /\ sinkReq'[s] = sinkReq[s] /\ sinkNow'[s] = sinkNow[s]
        /\ p' = p /\ AuthOf(s) = released[p]
    BY <1>6 DEF Advances, IssuerOf, AuthOf
  <2>2. sinkPC'[s] = "state" => sinkPC[s] = "state" \/ BoundaryCheck(s) = Pass
    BY <1>6 DEF Advances, Passed, Locking, Critical
  <2>3. Passed(s)' => Passed(s) \/ (sinkPC[s] = "state" /\ EffectCheck(s) = Pass)
    BY <1>6 DEF Advances, Passed, Locking, Critical
  <2>4. sinkPC'[s] = "state" \/ Passed(s)' => released[p].boundary = sinkReq[s].sink
    BY <1>1, <2>1, <2>2, <2>3, BoundaryFacts DEF Checked
  <2>5. Passed(s)' => InScope(released[p].scope, sinkReq[s].effect)
    BY <1>1, <2>1, <2>3, EffectFacts DEF Checked
  <2> QED BY <1>1, <1>3, <2>1, <2>4, <2>5 DEF Checked
<1>7. CASE /\ sinkPC'[s] = (IF SinkActive(s) THEN "crashed" ELSE sinkPC[s])
           /\ UNCHANGED <<sinkReq, sinkNow>>
  BY <1>1, <1>3, <1>7 DEF Checked, Passed, IssuerOf, Holding, Locking, Critical
<1> QED
  BY <1>4, <1>5, <1>6, <1>7, CallSteps

\* The inductive invariant of the next two theorems.
EInv == IInv /\ EvidenceInv /\ ValidInv /\ EnvelopeInv /\ ClockInv /\ CheckedInv

LEMMA InvariantE == Spec => []EInv
<1>1. Init => EInv
  <2>1. ASSUME Init PROVE EvidenceInv /\ ValidInv /\ EnvelopeInv /\ ClockInv
    BY <2>1 DEF Init, StateInit, PedInit, EvidenceInv, EnvelopeInv, ValidInv, Decided, ClockInv
  <2>2. ASSUME Init PROVE CheckedInv
    BY <2>2 DEF Init, SinkInit, CheckedInv, Checked, Passed, Holding, Locking, Critical
  <2> QED BY <2>1, <2>2, InitIInv DEF EInv
<1>2. EInv /\ [Next]_vars => EInv'
  BY TypeStep, IssueStep, LockStep, UseStep, EvidenceStep, ValidStep, EnvelopeStep,
     ClockStep, CheckedStep DEF EInv, IInv
<1> QED
  BY <1>1, <1>2, PTL DEF Spec

\* What is true of a call that passed every check.
LEMMA PassedFacts ==
    ASSUME EInv, NEW s \in SinkCalls, Passed(s)
    PROVE  LET p == IssuerOf(s) IN
           /\ p \in PedCalls /\ pedPC[p] = "issued" /\ Faithful(p)
           /\ FreshnessDenial(pedCand[p], pedNow[p]) = Pass
           /\ EnvelopeDenial(pedCand[p]) = Pass
           /\ Checked(s) /\ sinkPC[s] \in Holding
<1> DEFINE p == IssuerOf(s)
<1>1. sinkPC[s] \in Holding
  BY DEF Passed, Locking, Critical, Holding
<1>2. p \in PedCalls /\ released[p] # Nil /\ pedPC[p] = "issued"
  BY <1>1 DEF EInv, IInv, TypeInv, SinkShape, IssueInv
<1>3. pedDenial[p] = Pass
  BY <1>2 DEF EInv, ValidInv
<1>4. FreshnessDenial(pedCand[p], pedNow[p]) = Pass /\ EnvelopeDenial(pedCand[p]) = Pass
  BY <1>2, <1>3 DEF EInv, ValidInv, Decided
<1> QED BY <1>1, <1>2, <1>4 DEF EInv, EnvelopeInv, CheckedInv

\* Theorem DecisionIsInWindow: a call that passes read its clock after the
\* validation did, and within the candidate's window and the time to live.
THEOREM DecisionIsInWindow == Spec => []DecidedInWindow
<1>1. EInv => DecidedInWindow
  <2> SUFFICES ASSUME EInv, NEW s \in SinkCalls, Passed(s)
               PROVE  LET p == IssuerOf(s)
                      IN  /\ pedCand[p].created <= pedNow[p]
                          /\ pedNow[p] <= sinkNow[s]
                          /\ sinkNow[s] < pedCand[p].expires
                          /\ sinkNow[s] - pedNow[p] < AuthorityTTL
    BY DEF DecidedInWindow
  <2> DEFINE p == IssuerOf(s)
             c == pedCand[p]
             now == pedNow[p]
  <2>1. /\ p \in PedCalls /\ c \in Candidates /\ FreshnessDenial(c, now) = Pass
        /\ now <= sinkNow[s] /\ sinkNow[s] < now + Lifetime(c, now)
    BY PassedFacts DEF Faithful, Checked
  <2>2. c.created \in Nat /\ c.expires \in Nat /\ now \in Nat /\ sinkNow[s] \in Nat
    BY <2>1, StateAssumption
       DEF StateAssumption, WellFormed, EInv, IInv, TypeInv, TypeOK, PedTypeOK, SinkTypeOK
  <2>3. c.created <= now /\ now < c.expires
    BY <2>1, <2>2, FreshnessPasses
  <2>4. /\ Lifetime(c, now) \in Nat /\ now + Lifetime(c, now) <= c.expires
        /\ Lifetime(c, now) <= AuthorityTTL /\ AuthorityTTL \in Nat
    BY <2>2, <2>3, LifetimeBounds, PolicyAssumption DEF PolicyAssumption
  <2> QED BY <2>1, <2>2, <2>3, <2>4
<1> QED
  BY InvariantE, <1>1, PTL

\* Theorem NonceHasOneEffect: single use of a nonce at the PED, of an authority
\* at the sinks and of a record in the store add up to one effect for each
\* nonce of a process, which survives the process wherever its authority does.
THEOREM NonceHasOneEffect == Spec => []OneEffectPerNonce
<1>1. ASSUME EInv, OneGrantPerNonce, NEW s \in effects, NEW t \in effects,
             sinkReq[s].cand.nonce = sinkReq[t].cand.nonce,
             Bound(s).boot = Bound(t).boot
      PROVE  s = t
  <2>1. ASSUME NEW u \in effects
        PROVE  /\ IssuerOf(u) \in PedCalls /\ released[IssuerOf(u)] # Nil
               /\ released[IssuerOf(u)].nonce = sinkReq[u].cand.nonce
    <3>1. u \in SinkCalls /\ Passed(u)
      BY <1>1 DEF EInv, IInv, UseInv, TypeInv, TypeOK, SinkTypeOK, Passed
    <3> QED BY <1>1, <3>1, PassedFacts DEF Faithful, Checked, EInv, IInv, IssueInv
  <2>2. IssuerOf(s) = IssuerOf(t)
    BY <1>1, <2>1 DEF OneGrantPerNonce, Bound
  <2> QED BY <1>1, <2>2 DEF EInv, IInv, UseInv, SingleUse
<1>2. EInv /\ OneGrantPerNonce => OneEffectPerNonce
  BY <1>1 DEF OneEffectPerNonce
<1> QED
  BY InvariantE, NonceGrantsOnce, <1>2, PTL

\* Theorem WhatTakesEffect: an effect is of a candidate its validation let
\* through, on the sink that candidate names, and inside its scope.
THEOREM WhatTakesEffect == Spec => []EffectIsTheValidatedAct
<1>1. EInv => EffectIsTheValidatedAct
  <2> SUFFICES ASSUME EInv, NEW s \in effects
               PROVE  LET p == IssuerOf(s)
                          c == pedCand[p]
                          e == sinkReq[s].effect
                      IN  /\ pedPC[p] = "issued"
                          /\ c = sinkReq[s].cand
                          /\ FreshnessDenial(c, pedNow[p]) = Pass
                          /\ EnvelopeDenial(c) = Pass
                          /\ c.sink = sinkReq[s].sink
                          /\ <<e.resourceType, e.resources, e.effectType, e.params>> =
                             <<c.resourceType, c.resources, c.effectType, c.params>>
                          /\ \A limit \in c.duration, d \in e.duration : d <= limit
    BY DEF EffectIsTheValidatedAct
  <2> DEFINE p == IssuerOf(s)
             c == pedCand[p]
             e == sinkReq[s].effect
  <2>1. s \in SinkCalls /\ sinkPC[s] = "ok" /\ Passed(s)
    BY DEF EInv, IInv, UseInv, TypeInv, TypeOK, SinkTypeOK, Passed
  <2>2. /\ p \in PedCalls /\ pedPC[p] = "issued" /\ c \in Candidates
        /\ FreshnessDenial(c, pedNow[p]) = Pass /\ EnvelopeDenial(c) = Pass
        /\ c = sinkReq[s].cand /\ c.sink = sinkReq[s].sink /\ InScope(ScopeOf(c), e)
    BY <2>1, PassedFacts DEF Faithful, Checked
  <2>3. c.duration \subseteq Nat /\ e.duration \subseteq Nat
    <3>1. sinkReq[s] \in Requests
      BY <2>1 DEF EInv, IInv, TypeInv, SinkShape
    <3> QED BY <2>2, <3>1, StateAssumption DEF StateAssumption, WellFormed, Requests
  <2>4. \A limit \in c.duration, d \in e.duration : d <= limit
    BY <2>2, <2>3 DEF InScope, ScopeOf
  <2> QED BY <2>2, <2>4 DEF InScope, ScopeOf
<1> QED
  BY InvariantE, <1>1, PTL

-----------------------------------------------------------------------------
(* Where an authority goes.                                                *)

\* What a step of call s does to the used marks and the effects.
LEMMA UseMoves ==
    ASSUME TypeInv, NEW s \in SinkCalls, SinkNext(s)
    PROVE  /\ effects \subseteq effects'
           /\ \A a \in used' : a \in used \/ (a = IssuerOf(s) /\ sinkPC'[s] = "apply")
           /\ sinkPC[s] = "apply" => s \in effects' \/ sinkPC'[s] = "undo"
           /\ sinkPC[s] = "undo" =>
                 /\ sinkPC'[s] = "raised"
                 /\ IssuerOf(s) \notin used' \/ Persistence = "sqlite"
<1> USE DEF TypeInv, TypeOK, SinkTypeOK, SinkProceed, SinkGoto, stateVars, IssuerOf
<1> DEFINE Goal ==
           /\ effects \subseteq effects'
           /\ \A a \in used' : a \in used \/ (a = IssuerOf(s) /\ sinkPC'[s] = "apply")
           /\ sinkPC[s] = "apply" => s \in effects' \/ sinkPC'[s] = "undo"
           /\ sinkPC[s] = "undo" =>
                 /\ sinkPC'[s] = "raised"
                 /\ IssuerOf(s) \notin used' \/ Persistence = "sqlite"
<1>1. ASSUME NEW req \in Requests, SinkCall(s, req) PROVE Goal
  BY <1>1 DEF SinkCall
<1>2. CASE SinkReadEvidence(s) \/ SinkReadActivation(s) \/ SinkReadUsed(s)
  BY <1>2 DEF SinkReadEvidence, SinkReadActivation, SinkReadUsed
<1>3. CASE SinkCompareEpoch(s)
  BY <1>3 DEF SinkCompareEpoch, CompareEpoch
<1>4. CASE SinkTakeLock(s) \/ SinkTakeNetworkLock(s) \/ SinkRecheck(s)
  BY <1>4 DEF SinkTakeLock, SinkTakeNetworkLock, SinkRecheck
<1>5. CASE SinkConsume(s)
  BY <1>5 DEF SinkConsume, Consume, Pass
<1>6. CASE SinkApply(s)
  BY <1>6 DEF SinkApply
<1>7. CASE SinkApplyRaises(s)
  BY <1>7 DEF SinkApplyRaises
<1>8. CASE SinkUndo(s)
  BY <1>8 DEF SinkUndo, Unconsume
<1>9. CASE SinkRaise(s)
  BY <1>9 DEF SinkRaise
<1> QED
  BY <1>1, <1>2, <1>3, <1>4, <1>5, <1>6, <1>7, <1>8, <1>9 DEF SinkNext, SinkStep

\* A step of call s keeps NoAuthorityWasted: the mark it makes is for the
\* effect it is about to apply, and the one it leaves behind is an effect's.
LEMMA WasteSinkStep ==
    ASSUME TypeInv, UseInv, NoAuthorityWasted, NEW s \in SinkCalls, SinkNext(s)
    PROVE  NoAuthorityWasted'
<1> DEFINE
      Owes(t) == \/ t \in effects
                 \/ sinkPC[t] \in {"apply", "undo"}
                 \/ Persistence = "sqlite" /\ sinkPC[t] \in {"raised", "crashed"}
<1>1. /\ Begins(s) \/ Advances(s)
      /\ \A t \in SinkCalls : t # s => SinkKept(t)
  BY SinkCallMoves
<1> SUFFICES ASSUME NEW a \in used' PROVE \E t \in SinkCalls : Owes(t)' /\ IssuerOf(t)' = a
  BY DEF NoAuthorityWasted
<1>2. CASE a \notin used
  <2>1. IssuerOf(s) = a /\ sinkPC'[s] = "apply"
    BY <1>2, UseMoves
  <2>2. sinkReq'[s] = sinkReq[s]
    BY <1>1, <2>1 DEF Begins, Advances
  <2> QED BY <2>1, <2>2 DEF IssuerOf
<1>3. CASE a \in used
  <2>1. PICK t \in SinkCalls : Owes(t) /\ IssuerOf(t) = a
    BY <1>3 DEF NoAuthorityWasted
  <2>2. CASE t # s
    BY <1>1, <2>1, <2>2 DEF SinkKept, IssuerOf
  <2>3. CASE t = s
    <3>1. sinkPC[s] \in {"apply", "undo"}
      BY <1>1, <2>1, <2>3 DEF UseInv, Begins, Advances, Holding
    <3>2. IssuerOf(s)' = IssuerOf(s)
      BY <1>1, <3>1 DEF Begins, Advances, IssuerOf
    <3>3. Owes(s)'
      BY <2>1, <2>3, <3>1, UseMoves
    <3> QED BY <2>1, <2>3, <3>2, <3>3
  <2> QED BY <2>2, <2>3
<1> QED BY <1>2, <1>3

\* Every step keeps NoAuthorityWasted: a restart ends the calls about to make
\* an effect, over SQLite stores; over the others it takes the marks as well.
LEMMA AuthorityWasteStep ==
    ASSUME TypeInv, UseInv, NoAuthorityWasted, [Next]_vars
    PROVE  NoAuthorityWasted'
<1>1. CASE UNCHANGED <<sinkVars, used>>
  BY <1>1 DEF sinkVars, NoAuthorityWasted, IssuerOf
<1>2. ASSUME NEW p \in PedCalls, PedNext(p) PROVE used' = used
  BY <1>2, PedMoves
<1>3. CASE Environment
  BY <1>1, <1>3 DEF Environment, Tick, AdvanceEpoch, storeVars
<1>4. CASE Restart
  <2>1. /\ sinkPC' = [s \in SinkCalls |-> IF SinkActive(s) THEN "crashed" ELSE sinkPC[s]]
        /\ UNCHANGED <<sinkReq, effects>>
        /\ used' = {} \/ (Persistence = "sqlite" /\ used' = used)
    BY <1>4 DEF Restart, SinkCrash, Rebuild
  <2> QED BY <2>1 DEF NoAuthorityWasted, IssuerOf, SinkActive, SinkEnds
<1> QED
  BY <1>1, <1>2, <1>3, <1>4, WasteSinkStep, StepKinds DEF Environment, vars, stateVars

\* A call past its reading of the activation record finds it in the store.
RecordInv ==
    \A s \in SinkCalls :
        sinkPC[s] \in {"used", "state"} \cup Locking \cup Critical =>
            activations[IssuerOf(s)] # Nil

LEMMA RecordStep ==
    ASSUME TypeInv, IssueInv, RecordInv, [Next]_vars
    PROVE  RecordInv'
<1> SUFFICES ASSUME NEW s \in SinkCalls,
                    sinkPC'[s] \in {"used", "state"} \cup Locking \cup Critical
             PROVE  activations'[IssuerOf(s)'] # Nil
  BY DEF RecordInv
<1>1. CASE SinkKept(s)
  <2>1. /\ IssuerOf(s)' = IssuerOf(s) /\ IssuerOf(s) \in PedCalls
        /\ pedPC[IssuerOf(s)] = "issued" /\ activations[IssuerOf(s)] # Nil
    BY <1>1 DEF SinkKept, IssuerOf, TypeInv, SinkShape, IssueInv, Holding, Locking, Critical,
       RecordInv
  <2>2. ASSUME NEW p \in PedCalls, PedNext(p)
        PROVE  activations'[IssuerOf(s)] = activations[IssuerOf(s)]
    BY <2>1, <2>2, PedMoves
  <2>3. ~Restart
    BY DEF Restart, SinkCrash, SinkActive, SinkEnds, Locking, Critical
  <2> QED BY <2>1, <2>2, <2>3, IssueKinds
<1>2. CASE Begins(s)
  BY <1>2 DEF Begins, Locking, Critical
<1>3. CASE Advances(s) /\ UNCHANGED activations
  <2>1. \/ sinkPC[s] \in {"used", "state"} \cup Locking \cup Critical
        \/ ActivationCheck(s) = Pass
    BY <1>3 DEF Advances, Passed, Locking, Critical, Holding
  <2>2. activations[IssuerOf(s)] # Nil
    BY <2>1, ActivationFacts DEF RecordInv
  <2> QED BY <1>3, <2>2 DEF Advances, IssuerOf
<1>4. CASE Restart
  BY <1>4 DEF Restart, SinkCrash, SinkActive, SinkEnds, Locking, Critical
<1> QED
  BY <1>1, <1>2, <1>3, <1>4, CallSteps

\* A call is refused for a used mark only where it reads the marks, and, given
\* its record, only because the mark is there.
LEMMA SinkRefuses ==
    ASSUME TypeInv, RecordInv, NEW s \in SinkCalls, SinkNext(s),
           sinkPC'[s] = "denied", sinkCode'[s] = AlreadyUsed
    PROVE  sinkPC[s] \in {"used", "recheck", "consume"} /\ IssuerOf(s) \in used
<1> USE DEF TypeInv, TypeOK, SinkTypeOK, SinkProceed, SinkGoto
<1>1. ASSUME NEW req \in Requests, SinkCall(s, req) PROVE FALSE
  BY <1>1, EnvelopeFacts DEF SinkCall
<1>2. ~SinkReadEvidence(s) /\ ~SinkReadActivation(s)
  BY EvidenceFacts, ActivationFacts DEF SinkReadEvidence, SinkReadActivation
<1>3. CASE SinkReadUsed(s)
  BY <1>3, BoundaryFacts DEF SinkReadUsed, IssuerOf
<1>4. ~SinkCompareEpoch(s)
  <2> SUFFICES ASSUME SinkCompareEpoch(s) PROVE FALSE
    OBVIOUS
  <2>1. sinkIdx[s] \in 1..6
    BY KindFacts
  <2>2. sinkCode'[s] \in {EpochReason[Kinds[sinkIdx[s]]], EffectCheck(s), Pass}
    BY DEF SinkCompareEpoch, CompareEpoch
  <2> QED BY <2>1, <2>2, EpochReasonFacts, EffectFacts DEF AlreadyUsed, Pass
<1>5. ~SinkTakeLock(s) /\ ~SinkTakeNetworkLock(s) /\ ~SinkApply(s) /\ ~SinkApplyRaises(s)
      /\ ~SinkUndo(s) /\ ~SinkRaise(s)
  BY DEF SinkTakeLock, SinkTakeNetworkLock, SinkApply, SinkApplyRaises, SinkUndo, SinkRaise
<1>6. CASE SinkRecheck(s)
  BY <1>6 DEF SinkRecheck, IssuerOf, Pass
<1>7. CASE SinkConsume(s)
  <2>1. activations[IssuerOf(s)] # Nil
    BY <1>7 DEF SinkConsume, RecordInv, Critical
  <2> QED BY <1>7, <2>1 DEF SinkConsume, CanConsume, IssuerOf, Pass
<1> QED
  BY <1>1, <1>2, <1>3, <1>4, <1>5, <1>6, <1>7 DEF SinkNext, SinkStep

\* A call that had consumed its authority: for an effect, to give it back, or
\* until it was interrupted.
Rival(t) == t \in effects \/ sinkPC[t] \in {"apply", "undo", "raised", "crashed"}

LEMMA RivalStays ==
    ASSUME TypeInv, UseInv, [Next]_vars, NEW t \in SinkCalls, Rival(t)
    PROVE  Rival(t)' /\ IssuerOf(t)' = IssuerOf(t)
<1>1. CASE \E s \in SinkCalls : SinkNext(s)
  <2>1. PICK s \in SinkCalls : SinkNext(s)
    BY <1>1
  <2>2. CASE s # t
    BY <2>1, <2>2, SinkCallMoves DEF SinkKept, Rival, IssuerOf
  <2>3. CASE s = t
    <3>1. Begins(t) \/ Advances(t)
      BY <2>1, <2>3, SinkCallMoves
    <3>2. sinkPC[t] \in {"apply", "undo"} /\ sinkReq'[t] = sinkReq[t]
      BY <3>1 DEF Rival, UseInv, Begins, Advances, Holding
    <3> QED BY <2>1, <2>3, <3>2, UseMoves DEF Rival, IssuerOf
  <2> QED BY <2>2, <2>3
<1>2. CASE UNCHANGED sinkVars
  BY <1>2 DEF sinkVars, Rival, IssuerOf
<1>3. CASE Restart
  BY <1>3 DEF Restart, SinkCrash, SinkActive, SinkEnds, Rival, IssuerOf
<1> QED
  BY <1>1, <1>2, <1>3, StepKinds DEF Environment, vars

\* Every step keeps UsedMeansRival: the mark a call is refused for is, by
\* NoAuthorityWasted, that of a rival, and a rival stays one.
LEMMA RivalStep ==
    ASSUME TypeInv, UseInv, RecordInv, NoAuthorityWasted, UsedMeansRival, [Next]_vars
    PROVE  UsedMeansRival'
<1> SUFFICES ASSUME NEW s \in SinkCalls, sinkPC'[s] = "denied", sinkCode'[s] = AlreadyUsed
             PROVE  \E t \in SinkCalls \ {s} : Rival(t)' /\ IssuerOf(t)' = IssuerOf(s)'
  BY DEF UsedMeansRival, Rival, IssuerOf, AlreadyUsed
<1>1. \/ SinkKept(s)
      \/ SinkNext(s)
      \/ sinkPC[s] = "denied" /\ sinkCode'[s] = sinkCode[s] /\ sinkReq'[s] = sinkReq[s]
  <2>1. ASSUME NEW t \in SinkCalls, SinkNext(t) PROVE SinkKept(s) \/ SinkNext(s)
    BY <2>1, SinkCallMoves
  <2>2. CASE UNCHANGED sinkVars
    BY <2>2 DEF sinkVars, SinkKept
  <2>3. CASE Restart
    BY <2>3 DEF Restart, SinkCrash
  <2> QED BY <2>1, <2>2, <2>3, StepKinds DEF Environment, vars
<1>2. CASE sinkPC[s] = "denied" /\ sinkCode'[s] = sinkCode[s] /\ sinkReq'[s] = sinkReq[s]
  <2>1. PICK t \in SinkCalls \ {s} : Rival(t) /\ IssuerOf(t) = IssuerOf(s)
    BY <1>2 DEF UsedMeansRival, Rival, IssuerOf, AlreadyUsed
  <2> QED BY <1>2, <2>1, RivalStays DEF IssuerOf
<1>3. CASE SinkNext(s)
  <2>1. sinkPC[s] \in {"used", "recheck", "consume"} /\ IssuerOf(s) \in used
    BY <1>3, SinkRefuses
  <2>2. PICK t \in SinkCalls : Rival(t) /\ IssuerOf(t) = IssuerOf(s)
    BY <2>1 DEF NoAuthorityWasted, Rival
  <2>3. t # s
    BY <2>1, <2>2 DEF Rival, UseInv
  <2>4. sinkReq'[s] = sinkReq[s]
    BY <1>3, <2>1, SinkCallMoves DEF Begins, Advances
  <2> QED BY <2>2, <2>3, <2>4, RivalStays DEF IssuerOf
<1> QED
  BY <1>1, <1>2, <1>3 DEF SinkKept

\* Theorem AuthorityIsNotWasted: an authority is marked used only for an
\* effect or a call about to make one, unless a SQLite store raises or the
\* process stops inside the block.
THEOREM AuthorityIsNotWasted == Spec => []NoAuthorityWasted
<1> DEFINE I == IInv /\ NoAuthorityWasted
<1>1. Init => I
  BY InitIInv DEF Init, StateInit, NoAuthorityWasted
<1>2. I /\ [Next]_vars => I'
  BY TypeStep, IssueStep, LockStep, UseStep, AuthorityWasteStep DEF IInv
<1> QED
  BY <1>1, <1>2, PTL DEF Spec

\* Theorem RefusalHasRival: no call is refused as already used but for another
\* call that had consumed the authority.
THEOREM RefusalHasRival == Spec => []UsedMeansRival
<1> DEFINE I == IInv /\ NoAuthorityWasted /\ RecordInv /\ UsedMeansRival
<1>1. Init => I
  <2>1. Init => NoAuthorityWasted /\ RecordInv /\ UsedMeansRival
    BY DEF Init, StateInit, SinkInit, NoAuthorityWasted, RecordInv, UsedMeansRival,
       Locking, Critical
  <2> QED BY <2>1, InitIInv
<1>2. I /\ [Next]_vars => I'
  BY TypeStep, IssueStep, LockStep, UseStep, AuthorityWasteStep, RecordStep, RivalStep
     DEF IInv
<1> QED
  BY <1>1, <1>2, PTL DEF Spec
=============================================================================
