----------------------------- MODULE IssueProofs -----------------------------
(***************************************************************************)
(* Theorems about validate_and_issue: what an authority stands for, what   *)
(* becomes of a nonce, what backs an envelope, and the evidence chain.     *)
(***************************************************************************)
EXTENDS ContractProofs, FiniteSetTheorems

-----------------------------------------------------------------------------
(* Frames: what a step leaves alone.                                       *)

\* Call p, and what it has put into the stores, is as before.
PedKept(p) ==
    /\ pedPC'[p] = pedPC[p] /\ pedCand'[p] = pedCand[p] /\ pedNow'[p] = pedNow[p]
    /\ pedIdx'[p] = pedIdx[p] /\ pedDenial'[p] = pedDenial[p]
    /\ pedCount'[p] = pedCount[p] /\ pedBind'[p] = pedBind[p]
    /\ evidence'[p] = evidence[p] /\ activations'[p] = activations[p]
    /\ released'[p] = released[p]

\* A step of one validation leaves the others, time and the epochs alone.
LEMMA PedFrame ==
    ASSUME TypeInv, NEW p \in PedCalls, PedNext(p)
    PROVE  /\ UNCHANGED <<clock, boot, epoch>>
           /\ \A q \in PedCalls : q # p => PedKept(q)
<1> USE DEF TypeInv, TypeOK, PedTypeOK, PedGoto, DeniedWith, PedKept, stateVars, storeVars
<1>1. ASSUME NEW c \in Candidates, PedCall(p, c)
      PROVE  /\ UNCHANGED <<clock, boot, epoch>>
             /\ \A q \in PedCalls : q # p => PedKept(q)
  BY <1>1 DEF PedCall
<1>2. CASE PedCompareEpoch(p)
  BY <1>2 DEF PedCompareEpoch
<1>3. CASE PedReserve(p)
  BY <1>3 DEF PedReserve
<1>4. CASE PedAdvanceCounter(p)
  BY <1>4 DEF PedAdvanceCounter
<1>5. CASE PedCommitEvidence(p)
  BY <1>5 DEF PedCommitEvidence, Commit
<1>6. CASE PedBindEpoch(p)
  BY <1>6 DEF PedBindEpoch
<1>7. CASE PedInstall(p)
  BY <1>7 DEF PedInstall, Put
<1>8. CASE PedRaise(p)
  BY <1>8 DEF PedRaise
<1>9. CASE PedReturn(p)
  BY <1>9 DEF PedReturn
<1> QED
  BY <1>1, <1>2, <1>3, <1>4, <1>5, <1>6, <1>7, <1>8, <1>9 DEF PedNext, PedStep

\* A step of an effectuation leaves everything alone but its own variables,
\* the locks, the effects and the used marks.
LEMMA SinkFrame ==
    ASSUME NEW s \in SinkCalls, SinkNext(s)
    PROVE  UNCHANGED <<clock, boot, epoch, counter, seen, evidence, tail,
                       activations, released>>
<1> USE DEF stateVars
<1>1. ASSUME NEW req \in Requests, SinkCall(s, req)
      PROVE  UNCHANGED <<clock, boot, epoch, counter, seen, evidence, tail,
                         activations, released>>
  BY <1>1 DEF SinkCall
<1> QED
  BY <1>1 DEF SinkNext, SinkStep, SinkReadEvidence, SinkReadActivation, SinkReadUsed,
     SinkCompareEpoch, CompareEpoch, SinkTakeLock, SinkTakeNetworkLock, SinkRecheck,
     SinkConsume, SinkApply, SinkApplyRaises, SinkUndo, SinkRaise

\* What a step can be.
LEMMA StepKinds ==
    ASSUME [Next]_vars
    PROVE  \/ \E p \in PedCalls : PedNext(p) /\ UNCHANGED sinkVars
           \/ \E s \in SinkCalls : SinkNext(s) /\ UNCHANGED pedVars
           \/ Environment
           \/ Restart
           \/ UNCHANGED vars
  BY DEF Next, Submit, PedRuns, Present, SinkRuns, PedNext, SinkNext, Finished

\* What a step can be for the validations: one of theirs, a restart, or one
\* that leaves them and the stores alone, and time and epochs in order.
LEMMA IssueKinds ==
    ASSUME TypeInv, [Next]_vars
    PROVE  \/ \E p \in PedCalls : PedNext(p) /\ UNCHANGED sinkVars
           \/ Restart
           \/ /\ UNCHANGED <<pedVars, boot, counter, seen, evidence, tail,
                             activations, released>>
              /\ clock' \in Nat /\ clock <= clock'
              /\ \A k \in KindSet : epoch'[k] \in Nat /\ epoch[k] <= epoch'[k]
<1> USE DEF TypeInv, TypeOK
<1>1. ASSUME NEW s \in SinkCalls, SinkNext(s), UNCHANGED pedVars
      PROVE  UNCHANGED <<pedVars, clock, boot, epoch, counter, seen, evidence, tail,
                         activations, released>>
  BY <1>1, SinkFrame
<1>2. ASSUME NEW kind \in Advancing, AdvanceEpoch(kind)
      PROVE  \A k \in KindSet : epoch'[k] \in Nat /\ epoch[k] <= epoch'[k]
  BY <1>2 DEF AdvanceEpoch
<1>3. CASE Environment
  BY <1>2, <1>3 DEF Environment, Tick, AdvanceEpoch, storeVars
<1>4. CASE UNCHANGED vars
  BY <1>4 DEF vars, stateVars
<1> QED BY <1>1, <1>3, <1>4, StepKinds

-----------------------------------------------------------------------------
(* What an accepted candidate passed.                                      *)

\* The states of a call whose candidate passed the policy, unless it was then
\* denied for its nonce.
Decided == {"count", "commit", "bind", "install", "return", "issued"}

ValidInv ==
    \A p \in PedCalls :
        /\ pedPC[p] \in {"validate", "reserve", "bind", "install", "return", "issued"} =>
               pedDenial[p] = Pass
        /\ \/ pedPC[p] \in {"validate", "reserve"}
           \/ pedPC[p] \in Decided /\ pedDenial[p] = Pass
           => FreshnessDenial(pedCand[p], pedNow[p]) = Pass
        /\ \/ pedPC[p] = "reserve"
           \/ pedPC[p] \in Decided /\ pedDenial[p] = Pass
           => EnvelopeDenial(pedCand[p]) = Pass

\* A step of a validation keeps ValidInv: each check that passes is one more
\* of which the call may say so.
LEMMA ValidPedStep ==
    ASSUME TypeInv, ValidInv, NEW p \in PedCalls, PedNext(p)
    PROVE  ValidInv'
<1>0. \A q \in PedCalls : q # p => PedKept(q)
  BY PedFrame
<1> USE DEF TypeInv, TypeOK, PedTypeOK, PedGoto, DeniedWith, ValidInv, PedKept, Decided
<1>1. ASSUME NEW c \in Candidates, PedCall(p, c) PROVE ValidInv'
  BY <1>0, <1>1 DEF PedCall
<1>2. CASE PedCompareEpoch(p)
  <2> DEFINE denial == pedDenial'[p]
  <2>1. /\ pedPC[p] = "validate" /\ pedCand'[p] = pedCand[p] /\ pedNow'[p] = pedNow[p]
        /\ \/ denial # Pass /\ pedPC'[p] = "count"
           \/ denial = Pass /\ pedPC'[p] = "validate"
           \/ denial = Pass /\ pedPC'[p] = "reserve" /\ EnvelopeDenial(pedCand[p]) = Pass
    BY <1>2 DEF PedCompareEpoch
  <2>2. FreshnessDenial(pedCand[p], pedNow[p]) = Pass
    BY <2>1
  <2> QED BY <1>0, <2>1, <2>2
<1>3. CASE PedReserve(p)
  BY <1>0, <1>3 DEF PedReserve, Pass
<1>4. CASE PedAdvanceCounter(p)
  BY <1>0, <1>4 DEF PedAdvanceCounter
<1>5. CASE PedCommitEvidence(p)
  BY <1>0, <1>5 DEF PedCommitEvidence
<1>6. CASE PedBindEpoch(p)
  BY <1>0, <1>6 DEF PedBindEpoch
<1>7. CASE PedInstall(p)
  BY <1>0, <1>7 DEF PedInstall
<1>8. CASE PedRaise(p)
  BY <1>0, <1>8 DEF PedRaise
<1>9. CASE PedReturn(p)
  BY <1>0, <1>9 DEF PedReturn
<1> QED
  BY <1>1, <1>2, <1>3, <1>4, <1>5, <1>6, <1>7, <1>8, <1>9 DEF PedNext, PedStep

\* Every step keeps ValidInv.
LEMMA ValidStep ==
    ASSUME TypeInv, ValidInv, [Next]_vars
    PROVE  ValidInv'
<1>1. CASE UNCHANGED pedVars
  BY <1>1 DEF pedVars, ValidInv
<1>2. CASE Restart
  BY <1>2 DEF Restart, PedCrash, PedActive, PedEnds, ValidInv, Decided
<1> QED
  BY <1>1, <1>2, ValidPedStep, IssueKinds

-----------------------------------------------------------------------------
(* Nonces.                                                                 *)

\* A call that reserved its nonce in the life of this process and may still
\* release, or has released, an authority for it.
Holds(p) ==
    \/ pedPC[p] \in {"count", "commit", "bind", "install", "return"} /\ pedDenial[p] = Pass
    \/ released[p] # Nil /\ released[p].boot = boot

GrantInv ==
    /\ \A p \in PedCalls : Holds(p) => pedCand[p].nonce \in seen
    /\ \A p, q \in PedCalls :
          Holds(p) /\ Holds(q) /\ pedCand[p].nonce = pedCand[q].nonce => p = q
    /\ \A p \in PedCalls : released[p] # Nil =>
          released[p].nonce = pedCand[p].nonce /\ released[p].boot <= boot
    /\ OneGrantPerNonce

\* A step of a validation keeps GrantInv: PedReserve makes a holder only of a
\* nonce no call holds, and PedReturn hands over what a holder has.
LEMMA GrantPedStep ==
    ASSUME TypeInv, IssueInv, ValidInv, GrantInv, NEW p \in PedCalls, PedNext(p)
    PROVE  GrantInv'
<1>0. /\ boot' = boot
      /\ \A q \in PedCalls : q # p => PedKept(q)
  BY PedFrame
<1>1. pedPC[p] # "issued" /\ released[p] = Nil
  BY PedMoves DEF IssueInv
<1>2. \A q \in PedCalls : q # p =>
          (Holds(q)' <=> Holds(q)) /\ pedCand'[q] = pedCand[q] /\ released'[q] = released[q]
  BY <1>0 DEF Holds, PedKept
<1>3. ASSUME seen' = seen, Holds(p)' => Holds(p) /\ pedCand'[p] = pedCand[p],
             released'[p] = Nil
      PROVE  GrantInv'
  BY <1>0, <1>1, <1>2, <1>3 DEF GrantInv, OneGrantPerNonce
<1> USE DEF TypeInv, TypeOK, PedTypeOK, PedGoto, DeniedWith, stateVars, storeVars
<1>4. ASSUME NEW c \in Candidates, PedCall(p, c) PROVE GrantInv'
  BY <1>1, <1>3, <1>4 DEF PedCall, Holds
<1>5. CASE PedCompareEpoch(p)
  BY <1>1, <1>3, <1>5 DEF PedCompareEpoch, Holds
<1>6. CASE PedReserve(p)
  <2>1. /\ pedCand' = pedCand /\ released' = released /\ ~Holds(p)
    BY <1>1, <1>6 DEF PedReserve, Holds
  <2>2. CASE Reserve(pedCand[p].nonce)
    <3>1. seen' = seen \cup {pedCand[p].nonce} /\ pedCand[p].nonce \notin seen
      BY <2>2 DEF Reserve
    <3> QED BY <1>0, <1>1, <1>2, <2>1, <3>1 DEF GrantInv, OneGrantPerNonce
  <2>3. CASE seen' = seen /\ pedDenial'[p] = "REPLAY_DETECTED"
    BY <1>1, <1>3, <2>1, <2>3 DEF Holds, Pass
  <2> QED BY <1>6, <2>2, <2>3 DEF PedReserve
<1>7. CASE PedAdvanceCounter(p)
  BY <1>1, <1>3, <1>7 DEF PedAdvanceCounter, Holds
<1>8. CASE PedCommitEvidence(p)
  BY <1>1, <1>3, <1>8 DEF PedCommitEvidence, Holds
<1>9. CASE PedBindEpoch(p)
  BY <1>1, <1>3, <1>9 DEF PedBindEpoch, Holds
<1>10. CASE PedInstall(p)
  BY <1>1, <1>3, <1>10 DEF PedInstall, Holds
<1>11. CASE PedRaise(p)
  BY <1>1, <1>3, <1>11 DEF PedRaise, PedEnds, Holds
<1>12. CASE PedReturn(p)
  <2>1. Holds(p)
    BY <1>12 DEF PedReturn, ValidInv, Holds
  <2>2. /\ seen' = seen /\ pedCand' = pedCand
        /\ released'[p].nonce = pedCand[p].nonce /\ released'[p].boot = boot
    BY <1>12 DEF PedReturn, AuthorityOf
  <2>3. \A q \in PedCalls \ {p} : released[q] # Nil =>
            /\ released[q].boot = boot => Holds(q)
            /\ released[q].nonce = pedCand[q].nonce
    BY DEF GrantInv, Holds
  <2>4. \A q \in PedCalls : Holds(q)' => Holds(q)
    BY <1>2, <2>1
  <2>5. \A q \in PedCalls : released'[q] # Nil => released'[q].boot <= boot
    BY <1>2, <2>2 DEF GrantInv
  <2>6. ASSUME NEW q \in PedCalls, NEW r \in PedCalls,
               released'[q] # Nil, released'[r] # Nil,
               released'[q].nonce = released'[r].nonce,
               released'[q].boot = released'[r].boot
        PROVE  q = r
    <3>1. CASE q = p \/ r = p
      <4>1. Holds(q) /\ Holds(r) /\ pedCand[q].nonce = pedCand[r].nonce
        BY <1>2, <2>1, <2>2, <2>3, <2>6, <3>1
      <4> QED BY <4>1 DEF GrantInv
    <3>2. CASE q # p /\ r # p
      BY <1>2, <2>6, <3>2 DEF GrantInv, OneGrantPerNonce
    <3> QED BY <3>1, <3>2
  <2> QED BY <1>0, <1>2, <2>2, <2>3, <2>4, <2>5, <2>6 DEF GrantInv, OneGrantPerNonce
<1> QED
  BY <1>4, <1>5, <1>6, <1>7, <1>8, <1>9, <1>10, <1>11, <1>12 DEF PedNext, PedStep

\* Every step keeps GrantInv: a restart forgets the nonces, and with the new
\* process no call holds one.
LEMMA GrantStep ==
    ASSUME TypeInv, IssueInv, ValidInv, GrantInv, [Next]_vars
    PROVE  GrantInv'
<1>1. CASE UNCHANGED <<pedVars, boot, seen, released>>
  BY <1>1 DEF pedVars, GrantInv, Holds, OneGrantPerNonce
<1>2. CASE Restart
  <2>1. boot' = boot + 1 /\ UNCHANGED <<pedCand, released>>
    BY <1>2 DEF Restart, Rebuild, ForgetVolatile, PedCrash
  <2>2. \A p \in PedCalls : released[p] # Nil =>
            released[p].boot \in Nat /\ released[p].boot <= boot /\ boot \in Nat
    BY DEF GrantInv, TypeInv, TypeOK, Authorities
  <2>3. \A p \in PedCalls : ~Holds(p)'
    BY <1>2, <2>1, <2>2 DEF Restart, PedCrash, PedActive, PedEnds, Holds
  <2> QED BY <2>1, <2>2, <2>3 DEF GrantInv, OneGrantPerNonce
<1> QED
  BY <1>1, <1>2, GrantPedStep, IssueKinds

\* Theorem NonceGrantsOnce: however many calls submit a nonce, and whatever
\* their interleaving, at most one authority is released for it in the life
\* of a process.
THEOREM NonceGrantsOnce == Spec => []OneGrantPerNonce
<1> DEFINE I == TypeInv /\ IssueInv /\ ValidInv /\ GrantInv
<1>1. Init => I
  <2>1. Init => ValidInv /\ GrantInv
    BY DEF Init, StateInit, PedInit, ValidInv, GrantInv, Holds, Decided, OneGrantPerNonce
  <2> QED BY <2>1, InitIInv DEF IInv
<1>2. I /\ [Next]_vars => I'
  BY TypeStep, IssueStep, ValidStep, GrantStep
<1>3. I => OneGrantPerNonce
  BY DEF GrantInv
<1> QED
  BY <1>1, <1>2, <1>3, PTL DEF Spec

\* A step of a validation keeps NoNonceWasted: the call that spent a nonce
\* goes on to its authority, unless a SQLite store raises.
LEMMA WastePedStep ==
    ASSUME TypeInv, ValidInv, NoNonceWasted, NEW p \in PedCalls, PedNext(p)
    PROVE  NoNonceWasted'
<1> DEFINE
      Spent(q) ==
          /\ \/ pedPC[q] \in {"count", "commit", "bind", "install", "return", "issued"}
             \/ Persistence = "sqlite" /\ pedPC[q] = "raised"
          /\ pedDenial[q] = Pass
<1>0. \A q \in PedCalls : q # p => (Spent(q)' <=> Spent(q)) /\ pedCand'[q] = pedCand[q]
  BY PedFrame DEF PedKept
<1>1. ASSUME seen' = seen, Spent(p) => Spent(p)' /\ pedCand'[p] = pedCand[p]
      PROVE  NoNonceWasted'
  BY <1>0, <1>1 DEF NoNonceWasted
<1> USE DEF TypeInv, TypeOK, PedTypeOK, PedGoto, DeniedWith, stateVars, storeVars
<1>2. ASSUME NEW c \in Candidates, PedCall(p, c) PROVE NoNonceWasted'
  BY <1>1, <1>2 DEF PedCall
<1>3. CASE PedCompareEpoch(p)
  BY <1>1, <1>3 DEF PedCompareEpoch
<1>4. CASE PedReserve(p)
  <2>1. pedPC[p] = "reserve" /\ pedCand' = pedCand /\ pedPC'[p] = "count"
    BY <1>4 DEF PedReserve
  <2>2. CASE Reserve(pedCand[p].nonce) /\ pedDenial' = pedDenial
    <3>1. Spent(p)' /\ seen' = seen \cup {pedCand[p].nonce}
      BY <2>1, <2>2 DEF Reserve, ValidInv
    <3> QED BY <1>0, <2>1, <3>1 DEF NoNonceWasted
  <2>3. CASE seen' = seen
    BY <1>1, <2>1, <2>3
  <2> QED BY <1>4, <2>2, <2>3 DEF PedReserve
<1>5. CASE PedAdvanceCounter(p)
  BY <1>1, <1>5 DEF PedAdvanceCounter
<1>6. CASE PedCommitEvidence(p)
  BY <1>1, <1>6 DEF PedCommitEvidence
<1>7. CASE PedBindEpoch(p)
  BY <1>1, <1>7 DEF PedBindEpoch
<1>8. CASE PedInstall(p)
  BY <1>1, <1>8 DEF PedInstall
<1>9. CASE PedRaise(p)
  BY <1>1, <1>9 DEF PedRaise
<1>10. CASE PedReturn(p)
  BY <1>1, <1>10 DEF PedReturn
<1> QED
  BY <1>2, <1>3, <1>4, <1>5, <1>6, <1>7, <1>8, <1>9, <1>10 DEF PedNext, PedStep

\* Every step keeps NoNonceWasted; a restart forgets every nonce.
LEMMA WasteStep ==
    ASSUME TypeInv, ValidInv, NoNonceWasted, [Next]_vars
    PROVE  NoNonceWasted'
<1>1. CASE UNCHANGED <<pedVars, seen>>
  BY <1>1 DEF pedVars, NoNonceWasted
<1>2. CASE Restart
  BY <1>2 DEF Restart, Rebuild, ForgetVolatile, NoNonceWasted
<1> QED
  BY <1>1, <1>2, WastePedStep, IssueKinds

\* Theorem NonceIsNotWasted: a spent nonce belongs to a call that passed the
\* policy and goes on to its authority, but for a SQLite store that raises.
THEOREM NonceIsNotWasted == Spec => []NoNonceWasted
<1> DEFINE I == TypeInv /\ ValidInv /\ NoNonceWasted
<1>1. Init => I
  <2>1. Init => ValidInv /\ NoNonceWasted
    BY DEF Init, StateInit, PedInit, ValidInv, Decided, NoNonceWasted
  <2> QED BY <2>1, InitIInv DEF IInv
<1>2. I /\ [Next]_vars => I'
  BY TypeStep, ValidStep, WasteStep
<1> QED
  BY <1>1, <1>2, PTL DEF Spec

-----------------------------------------------------------------------------
(* What backs an envelope.                                                 *)

\* The envelope of call p says what the call validated and bound, and nothing
\* in the life of the call changes it.
Faithful(p) ==
    LET r == released[p]
        c == pedCand[p]
    IN  /\ c \in Candidates
        /\ r.cand = c /\ r.scope = ScopeOf(c) /\ r.nonce = c.nonce
        /\ r.sink = c.sink.id /\ r.boundary = c.sink
        /\ r.bind = pedBind[p]
        /\ r.expires = pedNow[p] + Lifetime(c, pedNow[p])
        /\ r.evidence \in Records /\ r.evidence.decision = "ALLOW"

\* The stores hold what was put into them for the envelope of call p.
Backed(p) ==
    /\ evidence[p] = released[p].evidence
    /\ activations[p] = ActivationOf(released[p])

EnvelopeInv ==
    \A p \in PedCalls :
        /\ pedPC[p] = "return" => activations[p] = ActivationOf(AuthorityOf(p))
        /\ released[p] # Nil => Faithful(p) /\ released[p].boot <= boot
        /\ released[p] # Nil /\ (Persistence = "sqlite" \/ released[p].boot = boot) =>
               Backed(p)

\* A step of a validation keeps EnvelopeInv: PedInstall puts the record of the
\* envelope that PedReturn then releases.
LEMMA EnvelopePedStep ==
    ASSUME TypeInv, IssueInv, EvidenceInv, EnvelopeInv, NEW p \in PedCalls, PedNext(p)
    PROVE  EnvelopeInv'
<1>0. /\ boot' = boot
      /\ \A q \in PedCalls : q # p => PedKept(q)
  BY PedFrame
<1>1. pedPC[p] # "issued" /\ released[p] = Nil
  BY PedMoves DEF IssueInv
<1>2. ASSUME released'[p] = Nil,
             pedPC'[p] = "return" => activations'[p] = ActivationOf(AuthorityOf(p))'
      PROVE  EnvelopeInv'
  BY <1>0, <1>2 DEF EnvelopeInv, PedKept, Faithful, Backed, AuthorityOf
<1> USE DEF TypeInv, TypeOK, PedTypeOK, PedGoto, DeniedWith, stateVars, storeVars
<1>3. ASSUME NEW c \in Candidates, PedCall(p, c) PROVE EnvelopeInv'
  BY <1>1, <1>2, <1>3 DEF PedCall
<1>4. CASE PedCompareEpoch(p)
  BY <1>1, <1>2, <1>4 DEF PedCompareEpoch
<1>5. CASE PedReserve(p)
  BY <1>1, <1>2, <1>5 DEF PedReserve
<1>6. CASE PedAdvanceCounter(p)
  BY <1>1, <1>2, <1>6 DEF PedAdvanceCounter
<1>7. CASE PedCommitEvidence(p)
  BY <1>1, <1>2, <1>7 DEF PedCommitEvidence
<1>8. CASE PedBindEpoch(p)
  BY <1>1, <1>2, <1>8 DEF PedBindEpoch
<1>9. CASE PedInstall(p)
  <2>1. /\ activations'[p] = ActivationOf(AuthorityOf(p))
        /\ UNCHANGED <<released, pedCand, pedBind, pedNow, boot, evidence>>
    BY <1>9 DEF PedInstall, Put
  <2> QED BY <1>1, <1>2, <2>1 DEF AuthorityOf
<1>10. CASE PedRaise(p)
  BY <1>1, <1>2, <1>10 DEF PedRaise
<1>11. CASE PedReturn(p)
  <2>1. /\ released'[p] = AuthorityOf(p) /\ pedPC'[p] = "issued"
        /\ UNCHANGED <<pedCand, pedBind, pedNow, boot, evidence, activations>>
    BY <1>11 DEF PedReturn
  <2>2. pedCand[p] \in Candidates /\ HasAllow(p)
    BY <1>11 DEF PedReturn, PedShape, EvidenceInv
  <2>3. activations[p] = ActivationOf(AuthorityOf(p))
    BY <1>11 DEF PedReturn, EnvelopeInv
  <2>4. Faithful(p)'
    BY <2>1, <2>2 DEF Faithful, AuthorityOf, HasAllow
  <2>5. Backed(p)' /\ released'[p].boot <= boot
    BY <2>1, <2>3 DEF Backed, AuthorityOf
  <2> QED BY <1>0, <2>1, <2>4, <2>5 DEF EnvelopeInv, PedKept, Faithful, Backed, AuthorityOf
<1> QED
  BY <1>3, <1>4, <1>5, <1>6, <1>7, <1>8, <1>9, <1>10, <1>11 DEF PedNext, PedStep

\* Every step keeps EnvelopeInv: a restart that loses the stores is a new
\* process, and the envelope is of an older one.
LEMMA EnvelopeStep ==
    ASSUME TypeInv, IssueInv, EvidenceInv, EnvelopeInv, [Next]_vars
    PROVE  EnvelopeInv'
<1>1. CASE UNCHANGED <<pedVars, boot, evidence, activations, released>>
  BY <1>1 DEF pedVars, EnvelopeInv, Faithful, Backed, AuthorityOf
<1>2. CASE Restart
  <2>1. /\ boot' = boot + 1 /\ boot \in Nat
        /\ UNCHANGED <<pedCand, pedNow, pedBind, released>>
        /\ Persistence = "sqlite" => UNCHANGED <<evidence, activations>>
        /\ \A p \in PedCalls : pedPC'[p] # "return"
    BY <1>2 DEF Restart, Rebuild, ForgetVolatile, PedCrash, PedActive, PedEnds, TypeInv, TypeOK
  <2>2. \A p \in PedCalls : released[p] # Nil => released[p].boot \in Nat
    BY DEF TypeInv, TypeOK, Authorities
  <2>3. \A p \in PedCalls : released[p] # Nil => Faithful(p)' /\ released'[p].boot < boot'
    BY <2>1, <2>2 DEF EnvelopeInv, Faithful
  <2> QED BY <2>1, <2>2, <2>3 DEF EnvelopeInv, Backed
<1> QED
  BY <1>1, <1>2, EnvelopePedStep, IssueKinds

\* Theorem EnvelopeIsBacked: evidence comes before release, and the record
\* the sink will ask for is the record of that very envelope.
THEOREM EnvelopeIsBacked == Spec => []ReleasedIsBacked
<1> DEFINE I == TypeInv /\ IssueInv /\ EvidenceInv /\ EnvelopeInv
<1>1. Init => I
  <2>1. Init => EvidenceInv /\ EnvelopeInv
    BY DEF Init, StateInit, PedInit, EvidenceInv, EnvelopeInv
  <2> QED BY <2>1, InitIInv DEF IInv
<1>2. I /\ [Next]_vars => I'
  BY TypeStep, IssueStep, EvidenceStep, EnvelopeStep
<1>3. I => ReleasedIsBacked
  <2> SUFFICES ASSUME I, NEW p \in PedCalls, released[p] # Nil,
                      Persistence = "sqlite" \/ released[p].boot = boot
               PROVE  /\ evidence[p] # Nil /\ evidence[p] = released[p].evidence
                      /\ evidence[p].decision = "ALLOW"
                      /\ activations[p] # Nil /\ activations[p].authority = released[p]
    BY DEF ReleasedIsBacked
  <2>1. Faithful(p) /\ Backed(p) /\ released[p] \in Authorities
    BY DEF EnvelopeInv, TypeInv, TypeOK
  <2>2. activations[p] \in Activations /\ activations[p].authority = released[p]
    BY <2>1, ActivationType DEF Backed, ActivationOf
  <2> QED BY <2>1, <2>2, NilIsNoRecord DEF Faithful, Backed
<1> QED
  BY <1>1, <1>2, <1>3, PTL DEF Spec

-----------------------------------------------------------------------------
(* The evidence chain.                                                     *)

Committed == {p \in PedCalls : evidence[p] # Nil}
Previous == {evidence[p].previous : p \in Committed}

ChainInv ==
    /\ IsFiniteSet(Committed)
    /\ tail \in Committed \cup {Genesis}
    /\ Previous = (Committed \cup {Genesis}) \ {tail}
    /\ Cardinality(Previous) = Cardinality(Committed)

\* An empty chain is linear.
LEMMA ChainEmpty ==
    ASSUME evidence = [p \in PedCalls |-> Nil], tail = Genesis
    PROVE  ChainInv
<1>1. Committed = {} /\ Previous = {}
  BY DEF Committed, Previous
<1> QED BY <1>1, FS_EmptySet DEF ChainInv

\* A commit adds a record that links to the tail, which no record does yet.
LEMMA ChainCommit ==
    ASSUME TypeInv, EvidenceInv, ChainInv, NEW p \in PedCalls, PedCommitEvidence(p)
    PROVE  ChainInv'
<1>1. /\ pedPC[p] = "commit" /\ tail' = p
      /\ evidence' = [evidence EXCEPT ![p] = EvidenceOf(p)]
  BY DEF PedCommitEvidence, Commit
<1>2. EvidenceOf(p) # Nil /\ EvidenceOf(p).previous = tail
  <2>1. pedCand[p] \in Candidates
    BY <1>1 DEF TypeInv, PedShape
  <2>2. EvidenceOf(p) \in Records
    BY <2>1 DEF EvidenceOf, Records, TypeInv, TypeOK, PedTypeOK
  <2> QED BY <2>2, NilIsNoRecord DEF EvidenceOf
<1>3. p \notin Committed /\ p # Genesis
  BY <1>1, StateAssumption DEF Committed, EvidenceInv, StateAssumption
<1>4. Committed' = Committed \cup {p}
  BY <1>1, <1>2 DEF Committed, TypeInv, TypeOK
<1>5. Previous' = Previous \cup {tail}
  <2>1. \A q \in Committed : evidence'[q] = evidence[q]
    BY <1>1, <1>3 DEF TypeInv, TypeOK, Committed
  <2>2. evidence'[p].previous = tail
    BY <1>1, <1>2 DEF TypeInv, TypeOK
  <2> QED BY <1>4, <2>1, <2>2 DEF Previous
<1>6. tail \notin Previous /\ tail \in Committed \cup {Genesis}
  BY DEF ChainInv
<1>7. Previous' = (Committed' \cup {Genesis}) \ {tail'}
  BY <1>1, <1>3, <1>4, <1>5, <1>6 DEF ChainInv
<1>8. IsFiniteSet(Previous)
  BY FS_AddElement, FS_Subset DEF ChainInv
<1>9. Cardinality(Previous') = Cardinality(Committed') /\ IsFiniteSet(Committed')
  BY <1>3, <1>4, <1>5, <1>6, <1>8, FS_AddElement DEF ChainInv
<1> QED BY <1>1, <1>4, <1>7, <1>9 DEF ChainInv

\* Of the steps of a validation only the commit touches the chain.
LEMMA ChainPedStep ==
    ASSUME TypeInv, EvidenceInv, ChainInv, NEW p \in PedCalls, PedNext(p)
    PROVE  ChainInv'
<1>1. CASE PedCommitEvidence(p)
  BY <1>1, ChainCommit
<1>2. CASE ~PedCommitEvidence(p)
  <2>1. ASSUME NEW c \in Candidates, PedCall(p, c) PROVE UNCHANGED <<evidence, tail>>
    BY <2>1 DEF PedCall, stateVars
  <2>2. UNCHANGED <<evidence, tail>>
    BY <1>2, <2>1 DEF PedNext, PedStep, PedCompareEpoch, PedReserve, PedAdvanceCounter,
       PedBindEpoch, PedInstall, PedRaise, PedReturn, stateVars, storeVars
  <2> QED BY <2>2 DEF ChainInv, Committed, Previous
<1> QED BY <1>1, <1>2

\* Every step keeps ChainInv; a restart keeps the chain whole or starts anew.
LEMMA ChainStep ==
    ASSUME TypeInv, EvidenceInv, ChainInv, [Next]_vars
    PROVE  ChainInv'
<1>1. CASE UNCHANGED <<evidence, tail>>
  BY <1>1 DEF ChainInv, Committed, Previous
<1>2. CASE Restart
  <2>1. CASE evidence' = [p \in PedCalls |-> Nil] /\ tail' = Genesis
    <3>1. Committed' = {} /\ Previous' = {}
      BY <2>1 DEF Committed, Previous
    <3> QED BY <2>1, <3>1, FS_EmptySet DEF ChainInv
  <2> QED BY <1>1, <1>2, <2>1 DEF Restart, Rebuild
<1> QED
  BY <1>1, <1>2, ChainPedStep, IssueKinds

\* Theorem ChainStaysLinear: however commits interleave, and across restarts,
\* the evidence is one chain from GENESIS to the tail: no fork and no gap.
THEOREM ChainStaysLinear == Spec => []ChainIsLinear
<1> DEFINE I == TypeInv /\ EvidenceInv /\ ChainInv
<1>1. Init => I
  <2>1. Init => EvidenceInv /\ ChainInv
    BY ChainEmpty DEF Init, StateInit, PedInit, EvidenceInv
  <2> QED BY <2>1, InitIInv DEF IInv
<1>2. I /\ [Next]_vars => I'
  BY TypeStep, EvidenceStep, ChainStep
<1>3. I => ChainIsLinear
  BY DEF ChainInv, ChainIsLinear, Committed, Previous
<1> QED
  BY <1>1, <1>2, <1>3, PTL DEF Spec

-----------------------------------------------------------------------------
(* Counters.                                                               *)

\* The counter call p took and will commit, or has committed.
Counted(p) == pedPC[p] = "commit" \/ evidence[p] # Nil
CountOf(p) == IF evidence[p] # Nil THEN evidence[p].counter ELSE pedCount[p]

\* In the life of one process no counter was taken twice, and none is ahead
\* of the state.
CounterInv ==
    Persistence = "memory" \/ boot = 0 =>
        /\ \A p \in PedCalls : Counted(p) => CountOf(p) <= counter
        /\ \A p, q \in PedCalls :
              Counted(p) /\ Counted(q) /\ CountOf(p) = CountOf(q) => p = q

\* A step of a validation keeps CounterInv: what PedAdvanceCounter takes is
\* greater than all that was taken before, and the commit copies it.
LEMMA CounterPedStep ==
    ASSUME TypeInv, EvidenceInv, CounterInv, NEW p \in PedCalls, PedNext(p)
    PROVE  CounterInv'
<1> USE DEF TypeInv, TypeOK, PedTypeOK, PedGoto, DeniedWith, stateVars, storeVars
<1>1. boot' = boot
  BY PedFrame
<1>2. \A q \in PedCalls : q # p => PedKept(q)
  BY PedFrame
<1>3. ASSUME counter' = counter, Counted(p)' => Counted(p) /\ CountOf(p)' = CountOf(p)
      PROVE  CounterInv'
  <2>1. ASSUME NEW q \in PedCalls, Counted(q)'
        PROVE  Counted(q) /\ CountOf(q)' = CountOf(q)
    BY <1>2, <1>3, <2>1 DEF Counted, CountOf, PedKept
  <2>2. CASE Persistence = "memory" \/ boot = 0
    <3>1. ASSUME NEW q \in PedCalls, Counted(q)' PROVE CountOf(q)' <= counter'
      BY <1>3, <2>1, <2>2, <3>1 DEF CounterInv
    <3>2. ASSUME NEW q \in PedCalls, NEW r \in PedCalls, Counted(q)', Counted(r)',
                 CountOf(q)' = CountOf(r)'
          PROVE  q = r
      <4>1. Counted(q) /\ Counted(r) /\ CountOf(q) = CountOf(r)
        BY <2>1, <3>2
      <4> QED BY <2>2, <4>1 DEF CounterInv
    <3> QED BY <3>1, <3>2 DEF CounterInv
  <2>3. CASE ~(Persistence = "memory" \/ boot = 0)
    BY <1>1, <2>3 DEF CounterInv
  <2> QED BY <2>2, <2>3
<1>4. ASSUME NEW c \in Candidates, PedCall(p, c) PROVE CounterInv'
  BY <1>3, <1>4 DEF PedCall, Counted, CountOf, EvidenceInv
<1>5. CASE PedCompareEpoch(p)
  BY <1>3, <1>5 DEF PedCompareEpoch, Counted, CountOf, EvidenceInv
<1>6. CASE PedReserve(p)
  BY <1>3, <1>6 DEF PedReserve, Counted, CountOf, EvidenceInv
<1>7. CASE PedAdvanceCounter(p)
  <2>1. /\ counter' = counter + 1 /\ pedCount'[p] = counter + 1
        /\ evidence'[p] = Nil /\ counter \in Nat
    BY <1>7 DEF PedAdvanceCounter, EvidenceInv
  <2>2. CountOf(p)' = counter + 1
    BY <2>1 DEF CountOf
  <2>3. ASSUME NEW q \in PedCalls, q # p, Counted(q)'
        PROVE  Counted(q) /\ CountOf(q)' = CountOf(q)
    BY <1>2, <2>3 DEF Counted, CountOf, PedKept
  <2>4. ASSUME NEW q \in PedCalls PROVE CountOf(q) \in Nat
    BY DEF CountOf, Records
  <2>5. CASE Persistence = "memory" \/ boot = 0
    <3>1. ASSUME NEW q \in PedCalls, q # p, Counted(q)' PROVE CountOf(q)' <= counter
      BY <2>3, <2>5, <3>1 DEF CounterInv
    <3>2. ASSUME NEW q \in PedCalls, Counted(q)' PROVE CountOf(q)' <= counter'
      <4>1. CASE q = p
        BY <2>1, <2>2, <4>1
      <4>2. CASE q # p
        BY <2>1, <2>3, <2>4, <3>1, <3>2, <4>2
      <4> QED BY <4>1, <4>2
    <3>3. ASSUME NEW q \in PedCalls, NEW r \in PedCalls, Counted(q)', Counted(r)',
                 CountOf(q)' = CountOf(r)'
          PROVE  q = r
      <4>1. CASE q # p /\ r # p
        <5>1. Counted(q) /\ Counted(r) /\ CountOf(q) = CountOf(r)
          BY <2>3, <3>3, <4>1
        <5> QED BY <2>5, <5>1 DEF CounterInv
      <4>2. CASE q = p /\ r # p
        <5>1. CountOf(r)' <= counter /\ CountOf(r)' = counter + 1
          BY <2>2, <3>1, <3>3, <4>2
        <5> QED BY <2>1, <5>1
      <4>3. CASE q # p /\ r = p
        <5>1. CountOf(q)' <= counter /\ CountOf(q)' = counter + 1
          BY <2>2, <3>1, <3>3, <4>3
        <5> QED BY <2>1, <5>1
      <4> QED BY <4>1, <4>2, <4>3
    <3> QED BY <3>2, <3>3 DEF CounterInv
  <2>6. CASE ~(Persistence = "memory" \/ boot = 0)
    BY <1>1, <2>6 DEF CounterInv
  <2> QED BY <2>5, <2>6
<1>8. CASE PedCommitEvidence(p)
  <2>1. /\ pedPC[p] = "commit" /\ evidence[p] = Nil /\ counter' = counter
        /\ evidence'[p] = EvidenceOf(p) /\ EvidenceOf(p).counter = pedCount[p]
        /\ pedCount' = pedCount
    BY <1>8 DEF PedCommitEvidence, Commit, EvidenceInv, EvidenceOf
  <2>2. Counted(p) /\ CountOf(p)' = CountOf(p)
    BY <2>1 DEF Counted, CountOf
  <2> QED BY <1>3, <2>1, <2>2
<1>9. CASE PedBindEpoch(p)
  BY <1>3, <1>9 DEF PedBindEpoch, Counted, CountOf
<1>10. CASE PedInstall(p)
  BY <1>3, <1>10 DEF PedInstall, Counted, CountOf
<1>11. CASE PedRaise(p)
  BY <1>3, <1>11 DEF PedRaise, Counted, CountOf
<1>12. CASE PedReturn(p)
  BY <1>3, <1>12 DEF PedReturn, Counted, CountOf
<1> QED
  BY <1>4, <1>5, <1>6, <1>7, <1>8, <1>9, <1>10, <1>11, <1>12 DEF PedNext, PedStep

\* Every step keeps CounterInv: a restart that sets the counter back finds no
\* record, or is another process.
LEMMA CounterStep ==
    ASSUME TypeInv, EvidenceInv, CounterInv, [Next]_vars
    PROVE  CounterInv'
<1>1. CASE UNCHANGED <<pedVars, boot, counter, evidence>>
  BY <1>1 DEF pedVars, CounterInv, Counted, CountOf
<1>2. CASE Restart
  <2>1. /\ boot' # 0
        /\ Persistence = "memory" => \A p \in PedCalls : evidence'[p] = Nil
        /\ \A p \in PedCalls : pedPC'[p] # "commit"
    BY <1>2, StateAssumption DEF StateAssumption, Restart, Rebuild, ForgetVolatile, PedCrash,
       PedActive, PedEnds, TypeInv, TypeOK
  <2> QED BY <2>1 DEF CounterInv, Counted
<1> QED
  BY <1>1, <1>2, CounterPedStep, IssueKinds

\* Theorem CounterIsNotRepeated: though a call takes its counter in one step
\* and commits it in a later one, no two records of a process share one.
THEOREM CounterIsNotRepeated == Spec => []CountersAreDistinct
<1> DEFINE I == TypeInv /\ EvidenceInv /\ CounterInv
<1>1. Init => I
  <2>1. Init => EvidenceInv /\ CounterInv
    BY DEF Init, StateInit, PedInit, EvidenceInv, CounterInv, Counted
  <2> QED BY <2>1, InitIInv DEF IInv
<1>2. I /\ [Next]_vars => I'
  BY TypeStep, EvidenceStep, CounterStep
<1>3. I => CountersAreDistinct
  BY DEF CounterInv, CountersAreDistinct, Counted, CountOf
<1> QED
  BY <1>1, <1>2, <1>3, PTL DEF Spec
=============================================================================
