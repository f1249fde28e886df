------------------------------ MODULE EpochProofs ------------------------------
(***************************************************************************)
(* Theorems about the epochs an authority binds: they were all current     *)
(* when a call that passes began, and a revocation that came before it     *)
(* keeps it from passing.  Both need that no authority outlives a restart, *)
(* which sets the epochs back.  Then about what lies between two readings: *)
(* of a validation that compares and binds, and of an effectuation that    *)
(* compares and has its effect.                                            *)
(***************************************************************************)
EXTENDS EffectuationProofs

-----------------------------------------------------------------------------
(* What an authority binds.                                                *)

\* The epochs a call has bound were current at some time of its process; and
\* an authority is of this process if its record is kept in memory, or if
\* there is no other process.
BindInv ==
    \A p \in PedCalls :
        /\ pedPC[p] = "idle" => pedBind[p] = EpochZero
        /\ PedActive(p) => \A k \in KindSet : pedBind[p][k] <= epoch[k]
        /\ released[p] # Nil /\ released[p].boot = boot =>
               \A k \in KindSet : released[p].bind[k] <= epoch[k]
        /\ /\ released[p] # Nil
           /\ \/ activations[p] # Nil /\ Persistence = "memory"
              \/ MaxBoot = 0
           => released[p].boot = boot

\* A step of a validation keeps BindInv: PedBindEpoch binds what is current,
\* and PedReturn releases what was bound.
LEMMA BindPedStep ==
    ASSUME TypeInv, IssueInv, BindInv, NEW p \in PedCalls, PedNext(p)
    PROVE  BindInv'
<1>0. /\ UNCHANGED <<boot, epoch>>
      /\ \A q \in PedCalls : q # p => PedKept(q)
  BY PedFrame
<1>1. pedPC[p] # "issued" /\ released[p] = Nil
  BY PedMoves DEF IssueInv
<1>2. ASSUME /\ pedPC'[p] # "idle"
             /\ PedActive(p)' => \A k \in KindSet : pedBind'[p][k] <= epoch[k]
             /\ released'[p] # Nil => /\ \A k \in KindSet : released'[p].bind[k] <= epoch[k]
                                      /\ released'[p].boot = boot
      PROVE  BindInv'
  BY <1>0, <1>2 DEF BindInv, PedKept, PedActive
<1>3. \A k \in KindSet : pedBind[p][k] \in Nat /\ epoch[k] \in Nat
  BY DEF TypeInv, TypeOK, PedTypeOK
<1>4. pedPC[p] = "idle" \/ PedActive(p) => \A k \in KindSet : pedBind[p][k] <= epoch[k]
  BY <1>3 DEF BindInv, EpochZero
<1> USE DEF TypeInv, TypeOK, PedTypeOK, PedGoto, stateVars, storeVars
<1>5. ASSUME NEW c \in Candidates, PedCall(p, c) PROVE BindInv'
  BY <1>1, <1>2, <1>4, <1>5 DEF PedCall
<1>6. CASE PedCompareEpoch(p)
  BY <1>1, <1>2, <1>4, <1>6 DEF PedCompareEpoch, PedActive, PedEnds
<1>7. CASE PedReserve(p)
  BY <1>1, <1>2, <1>4, <1>7 DEF PedReserve, PedActive, PedEnds
<1>8. CASE PedAdvanceCounter(p)
  BY <1>1, <1>2, <1>4, <1>8 DEF PedAdvanceCounter, PedActive, PedEnds
<1>9. CASE PedCommitEvidence(p)
  BY <1>1, <1>2, <1>4, <1>9 DEF PedCommitEvidence, PedActive, PedEnds
<1>10. CASE PedBindEpoch(p)
  <2> DEFINE kind == Kinds[pedIdx[p]]
  <2>1. /\ pedPC[p] = "bind" /\ pedPC'[p] \in {"bind", "install"}
        /\ pedBind' = [pedBind EXCEPT ![p][kind] = epoch[kind]]
        /\ released' = released
    BY <1>10 DEF PedBindEpoch
  <2>2. \A k \in KindSet : pedBind'[p][k] = IF k = kind THEN epoch[k] ELSE pedBind[p][k]
    BY <2>1
  <2>3. \A k \in KindSet : pedBind[p][k] <= epoch[k]
    BY <1>4, <2>1 DEF PedActive, PedEnds
  <2>4. \A k \in KindSet : pedBind'[p][k] <= epoch[k]
    BY <1>3, <2>2, <2>3
  <2> QED BY <1>1, <1>2, <2>1, <2>4
<1>11. CASE PedInstall(p)
  BY <1>1, <1>2, <1>4, <1>11 DEF PedInstall, PedActive, PedEnds
<1>12. CASE PedRaise(p)
  BY <1>1, <1>2, <1>12 DEF PedRaise, PedActive, PedEnds
<1>13. CASE PedReturn(p)
  <2>1. /\ pedPC[p] = "return" /\ pedPC'[p] = "issued"
        /\ released'[p].bind = pedBind[p] /\ released'[p].boot = boot
    BY <1>13 DEF PedReturn, AuthorityOf
  <2> QED BY <1>2, <1>4, <2>1 DEF PedActive, PedEnds
<1> QED
  BY <1>5, <1>6, <1>7, <1>8, <1>9, <1>10, <1>11, <1>12, <1>13 DEF PedNext, PedStep

\* Every step keeps BindInv: epochs advance, and a restart that sets them back
\* is a new process.
LEMMA BindStep ==
    ASSUME TypeInv, IssueInv, EnvelopeInv, BindInv, [Next]_vars
    PROVE  BindInv'
<1>1. CASE /\ UNCHANGED <<pedVars, boot, activations, released>>
           /\ \A k \in KindSet : epoch'[k] \in Nat /\ epoch[k] <= epoch'[k]
  <2>1. \A p \in PedCalls, k \in KindSet : pedBind[p][k] \in Nat /\ epoch[k] \in Nat
    BY DEF TypeInv, TypeOK, PedTypeOK
  <2>2. \A p \in PedCalls, k \in KindSet :
            released[p] # Nil => released[p].bind[k] \in Nat
    BY DEF TypeInv, TypeOK, Authorities
  <2>3. \A p \in PedCalls : PedActive(p)' <=> PedActive(p)
    BY <1>1 DEF pedVars, PedActive
  <2> QED BY <1>1, <2>1, <2>2, <2>3 DEF BindInv, pedVars
<1>2. CASE Restart
  <2>1. /\ boot' = boot + 1 /\ boot \in Nat /\ boot < MaxBoot
        /\ UNCHANGED <<pedBind, released>>
        /\ \A p \in PedCalls : ~PedActive(p)' /\ (pedPC'[p] = "idle" => pedPC[p] = "idle")
        /\ Persistence = "memory" => \A p \in PedCalls : activations'[p] = Nil
    BY <1>2, StateAssumption DEF StateAssumption, Restart, Rebuild, ForgetVolatile, PedCrash,
       PedActive, PedEnds, TypeInv, TypeOK
  <2>2. \A p \in PedCalls : released[p] # Nil => released[p].boot \in Nat
                                                 /\ released[p].boot <= boot
    BY DEF EnvelopeInv, TypeInv, TypeOK, Authorities
  <2> QED BY <2>1, <2>2 DEF BindInv
<1> QED
  BY <1>1, <1>2, BindPedStep, IssueKinds

-----------------------------------------------------------------------------
(* What a call compares it with.                                           *)

\* A call under way: the epochs have only advanced since it began; those of
\* its authority had, too, if the authority is of this process, as it is from
\* the signature on or from the record on; and those it has compared are
\* those of its beginning.
Compared(s) ==
    LET auth == released[IssuerOf(s)]
        recorded == sinkPC[s] \in {"used", "state"} \cup Locking \cup Critical
    IN  /\ sinkPC[s] \in {"idle", "evidence", "activation", "used"} => sinkIdx[s] = 1
        /\ sinkPC[s] \in Holding \ {"ok"} =>
               /\ \A k \in KindSet : entry[s][k] <= epoch[k]
               /\ auth.boot = boot => \A k \in KindSet : auth.bind[k] <= entry[s][k]
               /\ \/ Signing = "ed25519" \/ MaxBoot = 0
                  \/ recorded /\ Persistence = "memory"
                  => auth.boot = boot
        /\ sinkPC[s] = "state" /\ Perishable =>
               \A j \in 1..6 : j < sinkIdx[s] => auth.bind[Kinds[j]] = entry[s][Kinds[j]]
        /\ Passed(s) /\ Perishable => auth.bind = entry[s]

ComparedInv == \A s \in SinkCalls : Compared(s)

\* A comparison that succeeds is with an epoch that has not moved since the
\* call began, because the binding is no newer than that.
LEMMA CurrentSinceEntry ==
    ASSUME TypeInv, IssueInv, NEW s \in SinkCalls, Compared(s), Perishable,
           sinkPC[s] = "state", Current(s)
    PROVE  LET kind == Kinds[sinkIdx[s]] IN AuthOf(s).bind[kind] = entry[s][kind]
<1> DEFINE kind == Kinds[sinkIdx[s]]
           auth == released[IssuerOf(s)]
<1>1. kind \in KindSet
  BY KindFacts DEF TypeInv, TypeOK, SinkTypeOK
<1>2. auth.boot = boot
  BY DEF Compared, Perishable, Holding
<1>3. auth.bind[kind] <= entry[s][kind] /\ entry[s][kind] <= epoch[kind]
  BY <1>1, <1>2 DEF Compared, Holding
<1>4. auth \in Authorities
  BY DEF TypeInv, TypeOK, SinkShape, IssueInv, Holding
<1>5. auth.bind[kind] \in Nat /\ entry[s][kind] \in Nat /\ epoch[kind] \in Nat
  BY <1>1, <1>4 DEF Authorities, TypeInv, TypeOK, SinkTypeOK
<1>6. auth.bind[kind] = epoch[kind] /\ AuthOf(s) = auth
  BY DEF Current, AuthOf, IssuerOf
<1> QED BY <1>3, <1>5, <1>6

\* A call that begins knows the epochs of its authority as no newer than its
\* own, and, under a key of the process, that the authority is of the process.
LEMMA ComparedBegins ==
    ASSUME TypeInv, IssueInv, BindInv, [Next]_vars, NEW s \in SinkCalls, Compared(s),
           Begins(s), UNCHANGED <<clock, boot, epoch, activations, released, pedVars>>
    PROVE  Compared(s)'
<1>1. CASE sinkPC'[s] = "denied"
  BY <1>1 DEF Compared, Passed, Holding, Locking, Critical
<1>2. CASE sinkPC'[s] = "evidence"
  <2> DEFINE p == sinkReq'[s].auth
             auth == released[p]
  <2>1. /\ sinkReq'[s] \in Requests /\ EnvelopeCheck(sinkReq'[s], clock) = Pass
        /\ entry'[s] = epoch /\ sinkIdx'[s] = 1
    BY <1>2 DEF Begins, Compared
  <2>2. p \in PedCalls /\ KeyAccepted(auth)
    BY <2>1, EnvelopeFacts
  <2>3. auth # Nil
    BY <1>2, IssueStep DEF IssueInv, Holding, IssuerOf
  <2>4. \A k \in KindSet : epoch[k] <= epoch[k]
    BY DEF TypeInv, TypeOK
  <2>5. auth.boot = boot => \A k \in KindSet : auth.bind[k] <= epoch[k]
    BY <2>2, <2>3 DEF BindInv
  <2>6. Signing = "ed25519" \/ MaxBoot = 0 => auth.boot = boot
    BY <2>2, <2>3 DEF KeyAccepted, BindInv
  <2> QED BY <1>2, <2>1, <2>4, <2>5, <2>6
             DEF Compared, IssuerOf, Passed, Holding, Locking, Critical
<1> QED BY <1>1, <1>2 DEF Begins

\* A call that goes on knows one thing more: that its record is of the
\* process, that one more epoch is the one of its beginning, or, after the
\* last one, that all of them are.
LEMMA ComparedAdvances ==
    ASSUME TypeInv, IssueInv, BindInv, NEW s \in SinkCalls, Compared(s),
           Advances(s), UNCHANGED <<clock, boot, epoch, activations, released, pedVars>>
    PROVE  Compared(s)'
<1> DEFINE p == IssuerOf(s)
           auth == released[p]
<1>1. /\ sinkPC[s] \in Holding \ {"ok"} /\ p' = p /\ auth' = auth
      /\ entry'[s] = entry[s] /\ boot' = boot /\ epoch' = epoch
      /\ p \in PedCalls /\ auth # Nil /\ auth \in Authorities
  BY DEF Advances, IssuerOf, TypeInv, TypeOK, SinkShape, IssueInv
<1>2. /\ \A k \in KindSet : entry[s][k] <= epoch[k]
      /\ auth.boot = boot => \A k \in KindSet : auth.bind[k] <= entry[s][k]
      /\ Signing = "ed25519" \/ MaxBoot = 0 => auth.boot = boot
  BY <1>1 DEF Compared
<1>3. /\ sinkPC'[s] \in {"used", "state"} \cup Locking \cup Critical
      /\ Persistence = "memory"
      => auth.boot = boot
  <2>1. \/ sinkPC'[s] \in {"denied", "raised", "activation", "ok"}
        \/ ActivationCheck(s) = Pass
        \/ sinkPC[s] \in {"used", "state"} \cup Locking \cup Critical
    BY <1>1 DEF Advances, Passed, Locking, Critical
  <2>2. ActivationCheck(s) = Pass /\ Persistence = "memory" => auth.boot = boot
    BY <1>1, ActivationFacts DEF BindInv
  <2> QED BY <1>1, <2>1, <2>2 DEF Compared, Locking, Critical
<1>4. sinkPC'[s] \in {"idle", "evidence", "activation", "used"} => sinkIdx'[s] = 1
  BY <1>1 DEF Advances, Compared, Passed, Locking, Critical
<1>5. ASSUME Perishable, sinkPC'[s] = "state", NEW j \in 1..6, j < sinkIdx'[s]
      PROVE  auth.bind[Kinds[j]] = entry[s][Kinds[j]]
  <2>1. \/ sinkPC[s] = "used" /\ sinkIdx'[s] = sinkIdx[s]
        \/ sinkPC[s] = "state" /\ Current(s) /\ sinkIdx'[s] = sinkIdx[s] + 1
    BY <1>5 DEF Advances, Passed, Locking, Critical
  <2>2. CASE sinkPC[s] = "used" /\ sinkIdx'[s] = sinkIdx[s]
    BY <1>5, <2>2 DEF Compared
  <2>3. CASE sinkPC[s] = "state" /\ Current(s) /\ sinkIdx'[s] = sinkIdx[s] + 1
    <3>1. sinkIdx[s] \in 1..6
      BY KindFacts DEF TypeInv, TypeOK, SinkTypeOK
    <3>2. CASE j = sinkIdx[s]
      BY <1>5, <2>3, <3>2, CurrentSinceEntry DEF AuthOf, IssuerOf
    <3>3. CASE j < sinkIdx[s]
      BY <1>5, <2>3, <3>3 DEF Compared
    <3> QED BY <1>5, <2>3, <3>1, <3>2, <3>3
  <2> QED BY <2>1, <2>2, <2>3
<1>6. ASSUME Perishable, Passed(s)' PROVE auth.bind = entry[s]
  <2>1. CASE Passed(s)
    BY <1>6, <2>1 DEF Compared
  <2>2. CASE ~Passed(s)
    <3>1. sinkPC[s] = "state" /\ Current(s) /\ sinkIdx[s] = 6
      BY <1>6, <2>2 DEF Advances, Passed, Locking, Critical
    <3>2. \A j \in 1..6 : j < 6 => auth.bind[Kinds[j]] = entry[s][Kinds[j]]
      BY <1>6, <3>1 DEF Compared
    <3>3. auth.bind[Kinds[6]] = entry[s][Kinds[6]]
      BY <1>6, <3>1, CurrentSinceEntry DEF AuthOf, IssuerOf
    <3>4. \A j \in 1..6 : auth.bind[Kinds[j]] = entry[s][Kinds[j]]
      BY <3>2, <3>3
    <3>5. \A k \in KindSet : auth.bind[k] = entry[s][k]
      BY <3>4, KindFacts DEF KindSet
    <3>6. auth.bind \in [KindSet -> Nat] /\ entry[s] \in [KindSet -> Nat]
      BY <1>1 DEF Authorities, TypeInv, TypeOK, SinkTypeOK
    <3> QED BY <3>5, <3>6
  <2> QED BY <2>1, <2>2
<1> HIDE DEF p, auth
<1> QED BY <1>1, <1>2, <1>3, <1>4, <1>5, <1>6 DEF Compared, p, auth

\* Every step keeps ComparedInv.
LEMMA ComparedStep ==
    ASSUME TypeInv, IssueInv, EnvelopeInv, BindInv, ComparedInv, [Next]_vars
    PROVE  ComparedInv'
<1> SUFFICES ASSUME NEW s \in SinkCalls PROVE Compared(s)'
  BY DEF ComparedInv
<1> DEFINE p == IssuerOf(s)
<1>1. Compared(s)
  BY DEF ComparedInv
<1>2. sinkPC[s] \in Holding => p \in PedCalls /\ released[p] # Nil /\ released'[p] = released[p]
  BY IssuedKept DEF TypeInv, SinkShape, IssueInv
<1>3. CASE SinkKept(s) /\ ~Restart
  <2>1. boot' = boot /\ \A k \in KindSet : epoch'[k] \in Nat /\ epoch[k] <= epoch'[k]
    <3>1. ASSUME NEW q \in PedCalls, PedNext(q) PROVE boot' = boot /\ epoch' = epoch
      BY <3>1, PedFrame
    <3>2. \A k \in KindSet : epoch[k] \in Nat /\ epoch[k] <= epoch[k]
      BY DEF TypeInv, TypeOK
    <3> QED BY <1>3, <3>1, <3>2, IssueKinds
  <2>2. \A k \in KindSet : entry[s][k] \in Nat /\ epoch[k] \in Nat
    BY DEF TypeInv, TypeOK, SinkTypeOK
  <2>3. p' = p
    BY <1>3 DEF SinkKept, IssuerOf
  <2>4. sinkPC[s] = "state" => sinkPC[s] \in Holding
    BY DEF Holding
  <2>5. Passed(s) => sinkPC[s] \in Holding
    BY DEF Passed, Holding, Locking, Critical
  <2> QED BY <1>1, <1>2, <1>3, <2>1, <2>2, <2>3, <2>4, <2>5 DEF SinkKept, Compared, Passed
<1>4. CASE /\ Begins(s) \/ Advances(s)
           /\ UNCHANGED <<clock, boot, epoch, activations, released, pedVars>>
  BY <1>1, <1>4, ComparedBegins, ComparedAdvances
<1>5. CASE Restart
  <2>1. /\ sinkPC'[s] = (IF SinkActive(s) THEN "crashed" ELSE sinkPC[s])
        /\ UNCHANGED <<sinkReq, sinkIdx, entry>>
    BY <1>5 DEF Restart, SinkCrash
  <2>2. sinkPC'[s] \in {"idle", "crashed"} \cup SinkEnds
    BY <2>1 DEF SinkActive, SinkEnds
  <2>3. sinkPC'[s] = "ok" => sinkPC[s] = "ok" /\ sinkPC[s] \in Holding
    BY <2>1 DEF Holding
  <2> QED BY <1>1, <1>2, <2>1, <2>2, <2>3
             DEF Compared, Passed, IssuerOf, Holding, SinkEnds, Locking, Critical
<1> QED
  BY <1>3, <1>4, <1>5, CallSteps

\* The inductive invariant of the next two theorems.
BInv == IInv /\ EvidenceInv /\ EnvelopeInv /\ BindInv /\ ComparedInv

LEMMA BStep == BInv /\ [Next]_vars => BInv'
  BY TypeStep, IssueStep, LockStep, UseStep, EvidenceStep, EnvelopeStep, BindStep,
     ComparedStep DEF BInv, IInv

LEMMA InvariantB == Spec => []BInv
<1>1. Init => BInv
  <2>1. ASSUME Init PROVE EvidenceInv /\ EnvelopeInv /\ BindInv
    BY <2>1 DEF Init, StateInit, PedInit, EvidenceInv, EnvelopeInv, BindInv, PedActive, PedEnds
  <2>2. ASSUME Init PROVE ComparedInv
    BY <2>2 DEF Init, SinkInit, ComparedInv, Compared, Passed, Holding, Locking, Critical
  <2> QED BY <2>1, <2>2, InitIInv DEF BInv
<1> QED
  BY <1>1, BStep, PTL DEF Spec

\* Theorem BindingWasCurrent: although the sink compares the epochs one read
\* at a time and unlocked, a call that passes has an authority whose whole
\* binding was current when the call began.
THEOREM BindingWasCurrent == Spec => []EpochsWereCurrent
<1>1. BInv => EpochsWereCurrent
  BY DEF BInv, ComparedInv, Compared, EpochsWereCurrent, Perishable, Bound
<1> QED
  BY InvariantB, <1>1, PTL

-----------------------------------------------------------------------------
(* Revocation.                                                             *)

\* The authority of call p is behind the epoch of that kind, or of an older
\* process, and call s has not got past that: it is not under way, it is for
\* another authority, or it began later.
Overtaken(p, s, kind) ==
    /\ released[p] # Nil
    /\ released[p].bind[kind] < epoch[kind] \/ released[p].boot < boot
    /\ \/ sinkPC[s] \notin Holding
       \/ IssuerOf(s) # p
       \/ released[p].bind[kind] < entry[s][kind]
       \/ sinkPC[s] # "ok" /\ released[p].boot < boot

\* No step lets an overtaken authority catch up.
LEMMA OvertakenStep ==
    ASSUME BInv, Perishable, [Next]_vars,
           NEW p \in PedCalls, NEW s \in SinkCalls, NEW kind \in KindSet,
           Overtaken(p, s, kind)
    PROVE  Overtaken(p, s, kind)'
<1> DEFINE auth == released[p]
<1>1. TypeInv /\ IssueInv /\ EnvelopeInv /\ Compared(s)
  BY DEF BInv, IInv, ComparedInv
<1>2. auth # Nil /\ released'[p] = auth
  BY <1>1, IssuedKept DEF Overtaken
<1>3. auth.boot \in Nat /\ boot \in Nat /\ auth.boot <= boot
  BY <1>1, <1>2 DEF EnvelopeInv, TypeInv, TypeOK, Authorities
<1>4. auth.bind[kind] \in Nat /\ epoch[kind] \in Nat /\ entry[s][kind] \in Nat
  BY <1>1, <1>2 DEF TypeInv, TypeOK, SinkTypeOK, Authorities
<1>5. CASE Restart
  <2>1. /\ boot' = boot + 1 /\ UNCHANGED <<sinkReq, entry>>
        /\ sinkPC'[s] = (IF SinkActive(s) THEN "crashed" ELSE sinkPC[s])
    BY <1>5 DEF Restart, Rebuild, ForgetVolatile, SinkCrash
  <2>2. sinkPC'[s] \in Holding => sinkPC[s] = "ok" /\ sinkPC'[s] = "ok"
    BY <2>1 DEF SinkActive, SinkEnds, Holding
  <2> QED BY <1>2, <1>3, <2>1, <2>2 DEF Overtaken, IssuerOf, Holding
<1>6. CASE ~Restart
  <2>1. boot' = boot /\ epoch'[kind] \in Nat /\ epoch[kind] <= epoch'[kind]
    <3>1. ASSUME NEW q \in PedCalls, PedNext(q) PROVE boot' = boot /\ epoch' = epoch
      BY <1>1, <3>1, PedFrame
    <3> QED BY <1>1, <1>4, <1>6, <3>1, IssueKinds
  <2>2. auth.bind[kind] < epoch'[kind] \/ auth.boot < boot'
    BY <1>4, <2>1 DEF Overtaken
  <2>3. CASE SinkKept(s)
    BY <1>2, <2>1, <2>2, <2>3 DEF SinkKept, Overtaken, IssuerOf
  <2>4. CASE Begins(s) /\ UNCHANGED <<epoch, boot>>
    BY <1>2, <2>2, <2>4 DEF Begins, Overtaken, Holding
  <2>5. CASE Advances(s)
    <3>1. sinkPC[s] \in Holding /\ sinkReq'[s] = sinkReq[s] /\ entry'[s] = entry[s]
      BY <2>5 DEF Advances
    <3>2. CASE sinkPC'[s] = "ok" /\ IssuerOf(s) = p
      <4>1. sinkPC[s] \in Locking \cup Critical
        BY <2>5, <3>2 DEF Advances, Passed
      <4>2. auth.boot = boot
        BY <1>1, <3>2, <4>1 DEF Compared, Perishable, Holding, Locking, Critical
      <4> QED BY <1>2, <1>3, <2>2, <3>1, <4>2 DEF Overtaken, IssuerOf
    <3>3. CASE sinkPC'[s] # "ok" \/ IssuerOf(s) # p
      BY <1>2, <2>1, <2>2, <3>1, <3>3 DEF Overtaken, IssuerOf
    <3> QED BY <3>2, <3>3
  <2> QED BY <1>1, <1>6, <2>3, <2>4, <2>5, CallSteps
<1> QED BY <1>5, <1>6

\* Theorem RevocationIsFinal: where no authority outlives a restart, a call
\* that begins after an epoch moved past the one its authority binds never
\* has an effect, whatever happens later.
THEOREM RevocationIsFinal ==
    ASSUME Perishable
    PROVE  Spec => RevocationSticks
<1> DEFINE Behind(p, s, kind) == /\ released[p] # Nil
                                 /\ released[p].bind[kind] < epoch[kind]
                                 /\ sinkPC[s] = "idle"
           Denies(p, s) == s \in effects => IssuerOf(s) # p
<1>1. ASSUME NEW p \in PedCalls, NEW s \in SinkCalls, NEW kind \in KindSet
      PROVE  Spec => [](Behind(p, s, kind) => []Denies(p, s))
  <2>1. Behind(p, s, kind) => Overtaken(p, s, kind)
    BY DEF Overtaken, Holding
  <2>2. BInv /\ Overtaken(p, s, kind) /\ [Next]_vars => Overtaken(p, s, kind)'
    BY OvertakenStep
  <2>3. BInv /\ Overtaken(p, s, kind) => Denies(p, s)
    <3> SUFFICES ASSUME BInv, Overtaken(p, s, kind), s \in effects, IssuerOf(s) = p
                 PROVE  FALSE
      OBVIOUS
    <3>1. sinkPC[s] = "ok" /\ Passed(s)
      BY DEF BInv, IInv, UseInv, Passed
    <3>2. released[p].bind = entry[s]
      BY <3>1 DEF BInv, ComparedInv, Compared
    <3>3. released[p].bind[kind] < entry[s][kind]
      BY <3>1 DEF Overtaken, Holding
    <3>4. entry[s][kind] \in Nat
      BY DEF BInv, IInv, TypeInv, TypeOK, SinkTypeOK
    <3> QED BY <3>2, <3>3, <3>4
  <2> QED
    BY InvariantB, <2>1, <2>2, <2>3, PTL DEF Spec
<1> QED
  BY <1>1 DEF RevocationSticks
-----------------------------------------------------------------------------
(* What a candidate was validated under, and what its authority binds.     *)

\* An epoch named at one time is no newer than the one read at a later time.
Precedes(named, read) == named \in 0..read

\* Call p has found the i-th epoch its candidate names to be current, and is
\* not denied; and it has bound that epoch.
Validated(p, i) ==
    \/ pedPC[p] = "validate" /\ i < pedIdx[p]
    \/ pedPC[p] = "reserve"
    \/ /\ pedPC[p] \in {"count", "commit", "bind", "install", "return"}
       /\ pedDenial[p] = Pass

HasBound(p, i) ==
    \/ pedPC[p] = "bind" /\ i + 3 < pedIdx[p]
    \/ pedPC[p] \in {"install", "return", "issued"}

PolicyOf(p) ==
    /\ \A i \in 1..3 :
          LET kind == PolicyKinds[i]
              named == pedCand[p].epochs[kind]
          IN  /\ Validated(p, i) => Precedes(named, epoch[kind])
              /\ HasBound(p, i) => Precedes(named, pedBind[p][kind])
    /\ pedPC[p] \in {"idle", "reserve", "count", "commit"} => pedIdx[p] = 1

PolicyInv == \A p \in PedCalls : PolicyOf(p)

\* A comparison of validate that succeeds finds what the candidate names.
LEMMA EpochPasses ==
    ASSUME NEW c, NEW i \in 1..3, NEW current,
           EpochDenial(c, PolicyKinds[i], current) = Pass
    PROVE  c.epochs[PolicyKinds[i]] = current
<1>1. PolicyKinds[i] \in {"policy", "authority", "revocation"}
  BY DEF PolicyKinds
<1>2. EpochReason[PolicyKinds[i]] # Pass
  BY <1>1 DEF EpochReason, Pass
<1> QED BY <1>2 DEF EpochDenial

\* A step of validation p keeps what is known of it: validate looks at every
\* epoch, and the binding reads again what was the candidate's.
LEMMA PolicyPedStep ==
    ASSUME TypeInv, ValidInv,
           NEW p \in PedCalls, PolicyOf(p), PedNext(p)
    PROVE  PolicyOf(p)'
<1> DEFINE cand == pedCand[p]
<1>0. epoch' = epoch
  BY PedFrame
<1>1. ASSUME pedCand'[p] = cand, pedBind'[p] = pedBind[p],
             \A i \in 1..3 : /\ Validated(p, i)' => Validated(p, i)
                             /\ HasBound(p, i)' => HasBound(p, i),
             pedPC'[p] \in {"idle", "reserve", "count", "commit"} => pedIdx'[p] = 1
      PROVE  PolicyOf(p)'
  BY <1>0, <1>1 DEF PolicyOf
<1> USE DEF TypeInv, TypeOK, PedTypeOK, PedGoto, DeniedWith, stateVars, storeVars
<1>2. ASSUME NEW c \in Candidates, PedCall(p, c) PROVE PolicyOf(p)'
  <2>1. /\ pedIdx'[p] = 1
        /\ pedPC'[p] = "validate" \/ (pedPC'[p] = "count" /\ pedDenial'[p] # Pass)
    BY <1>2 DEF PedCall, PolicyOf
  <2>2. \A i \in 1..3 : ~Validated(p, i)' /\ ~HasBound(p, i)'
    BY <2>1 DEF Validated, HasBound
  <2> QED BY <2>1, <2>2 DEF PolicyOf
<1>3. CASE PedCompareEpoch(p)
  <2> DEFINE j == pedIdx[p]
             stale == EpochDenial(cand, PolicyKinds[j], epoch[PolicyKinds[j]])
  <2>1. /\ pedPC[p] = "validate" /\ j \in 1..3
        /\ pedCand' = pedCand /\ pedBind' = pedBind
        /\ \/ pedPC'[p] = "count" /\ pedDenial'[p] # Pass /\ pedIdx'[p] = 1
           \/ /\ stale = Pass /\ pedDenial'[p] = Pass
              /\ \/ pedPC'[p] = "validate" /\ pedIdx'[p] = j + 1
                 \/ pedPC'[p] = "reserve" /\ pedIdx'[p] = 1 /\ j = 3
    BY <1>3, KindFacts DEF PedCompareEpoch, PedShape
  <2>2. \A i \in 1..3 : ~HasBound(p, i)'
    BY <2>1 DEF HasBound
  <2>3. ASSUME NEW i \in 1..3, Validated(p, i)'
        PROVE  Precedes(cand.epochs[PolicyKinds[i]], epoch[PolicyKinds[i]])
    <3>1. stale = Pass /\ i \in 1..j
      BY <2>1, <2>3 DEF Validated
    <3>2. CASE i < j
      BY <2>1, <3>2 DEF PolicyOf, Validated
    <3>3. CASE i = j
      <4>1. cand.epochs[PolicyKinds[i]] = epoch[PolicyKinds[i]]
        BY <3>1, <3>3, EpochPasses
      <4>2. epoch[PolicyKinds[i]] \in Nat
        BY KindFacts
      <4> QED BY <4>1, <4>2 DEF Precedes
    <3> QED BY <2>1, <3>1, <3>2, <3>3
  <2> HIDE DEF j, stale
  <2> QED BY <1>0, <2>1, <2>2, <2>3 DEF PolicyOf
<1>4. CASE PedReserve(p)
  BY <1>1, <1>4 DEF PedReserve, PolicyOf, Validated, HasBound
<1>5. CASE PedAdvanceCounter(p)
  BY <1>1, <1>5 DEF PedAdvanceCounter, PolicyOf, Validated, HasBound
<1>6. CASE PedCommitEvidence(p)
  BY <1>1, <1>6 DEF PedCommitEvidence, PolicyOf, Validated, HasBound, PedEnds
<1>7. CASE PedBindEpoch(p)
  <2> DEFINE j == pedIdx[p]
  <2>1. /\ pedPC[p] = "bind" /\ pedDenial'[p] = Pass /\ pedDenial[p] = Pass /\ j \in 1..6
        /\ pedCand' = pedCand
        /\ pedBind' = [pedBind EXCEPT ![p][Kinds[j]] = epoch[Kinds[j]]]
        /\ \/ pedPC'[p] = "bind" /\ pedIdx'[p] = j + 1
           \/ pedPC'[p] = "install" /\ j = 6
    BY <1>7, KindFacts DEF PedBindEpoch, ValidInv
  <2>2. \A i \in 1..3 : Precedes(cand.epochs[PolicyKinds[i]], epoch[PolicyKinds[i]])
    BY <2>1 DEF PolicyOf, Validated
  <2>3. ASSUME NEW i \in 1..3, HasBound(p, i)'
        PROVE  Precedes(cand.epochs[PolicyKinds[i]], pedBind'[p][PolicyKinds[i]])
    <3>1. PolicyKinds[i] = Kinds[i + 3] /\ PolicyKinds[i] \in KindSet
      BY KindFacts DEF PolicyKinds, Kinds
    <3>2. i + 3 <= j
      BY <2>1, <2>3 DEF HasBound
    <3>3. CASE Kinds[j] = PolicyKinds[i]
      <4>1. pedBind'[p][PolicyKinds[i]] = epoch[PolicyKinds[i]]
        BY <2>1, <3>1, <3>3
      <4> QED BY <2>2, <4>1
    <3>4. CASE Kinds[j] # PolicyKinds[i]
      <4>1. pedBind'[p][PolicyKinds[i]] = pedBind[p][PolicyKinds[i]]
        BY <2>1, <3>1, <3>4
      <4>2. i + 3 < j
        BY <2>1, <3>1, <3>2, <3>4
      <4>3. HasBound(p, i)
        BY <2>1, <4>2 DEF HasBound
      <4> QED BY <4>1, <4>3 DEF PolicyOf
    <3> QED BY <3>3, <3>4
  <2> HIDE DEF j
  <2> QED BY <1>0, <2>1, <2>2, <2>3 DEF PolicyOf
<1>8. CASE PedInstall(p)
  BY <1>1, <1>8 DEF PedInstall, PolicyOf, Validated, HasBound
<1>9. CASE PedRaise(p)
  BY <1>1, <1>9 DEF PedRaise, PolicyOf, Validated, HasBound
<1>10. CASE PedReturn(p)
  BY <1>1, <1>10 DEF PedReturn, PolicyOf, Validated, HasBound
<1> QED
  BY <1>2, <1>3, <1>4, <1>5, <1>6, <1>7, <1>8, <1>9, <1>10 DEF PedNext, PedStep

\* Every step keeps PolicyInv: epochs only advance in the life of a process.
LEMMA PolicyStep ==
    ASSUME TypeInv, ValidInv, PolicyInv, [Next]_vars
    PROVE  PolicyInv'
<1> SUFFICES ASSUME NEW p \in PedCalls PROVE PolicyOf(p)'
  BY DEF PolicyInv
<1>1. PolicyOf(p)
  BY DEF PolicyInv
<1>2. ASSUME NEW q \in PedCalls, PedNext(q) PROVE PolicyOf(p)'
  <2>1. CASE q = p
    BY <1>1, <1>2, <2>1, PolicyPedStep
  <2>2. CASE q # p
    <3>1. PedKept(p) /\ epoch' = epoch
      BY <1>2, <2>2, PedFrame
    <3> QED BY <1>1, <3>1 DEF PedKept, PolicyOf, Validated, HasBound
  <2> QED BY <2>1, <2>2
<1>3. CASE Restart
  BY <1>1, <1>3 DEF Restart, PedCrash, PedActive, PedEnds, TypeInv, TypeOK, PedTypeOK,
     PolicyOf, Validated, HasBound
<1>4. CASE /\ UNCHANGED <<pedVars, boot>>
           /\ \A k \in KindSet : epoch'[k] \in Nat /\ epoch[k] <= epoch'[k]
  <2>1. UNCHANGED <<pedPC, pedCand, pedIdx, pedDenial, pedBind>>
    BY <1>4 DEF pedVars
  <2>2. ASSUME NEW i \in 1..3, Validated(p, i)'
        PROVE  Precedes(pedCand[p].epochs[PolicyKinds[i]], epoch'[PolicyKinds[i]])
    <3>1. Validated(p, i)
      BY <2>1, <2>2 DEF Validated
    <3>2. Precedes(pedCand[p].epochs[PolicyKinds[i]], epoch[PolicyKinds[i]])
      BY <1>1, <3>1 DEF PolicyOf
    <3>3. PolicyKinds[i] \in KindSet
      BY KindFacts
    <3>4. epoch[PolicyKinds[i]] \in Nat /\ epoch'[PolicyKinds[i]] \in Nat
          /\ epoch[PolicyKinds[i]] <= epoch'[PolicyKinds[i]]
      BY <1>4, <3>3 DEF TypeInv, TypeOK
    <3> QED BY <3>2, <3>4 DEF Precedes
  <2>3. ASSUME NEW i \in 1..3, HasBound(p, i)'
        PROVE  Precedes(pedCand[p].epochs[PolicyKinds[i]], pedBind[p][PolicyKinds[i]])
    BY <1>1, <2>1, <2>3 DEF PolicyOf, HasBound
  <2> QED BY <1>1, <2>1, <2>2, <2>3 DEF PolicyOf
<1> QED
  BY <1>2, <1>3, <1>4, IssueKinds

\* What has been validated and bound begins with nothing.
LEMMA InitPolicy == Init => PolicyInv
  BY DEF Init, PedInit, PolicyInv, PolicyOf, Validated, HasBound

\* Theorem BindingIsBetween: the epochs are read once to validate and once to
\* bind, and may move in between; what an authority binds lies between what
\* its candidate was validated under and the state of its process.
THEOREM BindingIsBetween == Spec => []BoundBetween
<1>1. Init => PolicyInv
  BY InitPolicy
<1>2. EInv /\ PolicyInv /\ [Next]_vars => PolicyInv'
  BY PolicyStep DEF EInv, IInv
<1>3. EInv /\ BInv /\ PolicyInv => BoundBetween
  <2> SUFFICES ASSUME EInv, BInv, PolicyInv, NEW p \in PedCalls, released[p] # Nil,
                      NEW i \in 1..3
               PROVE  LET kind == PolicyKinds[i]
                      IN  /\ pedCand[p].epochs[kind] <= released[p].bind[kind]
                          /\ released[p].boot = boot => released[p].bind[kind] <= epoch[kind]
    BY KindFacts DEF BoundBetween
  <2> DEFINE kind == PolicyKinds[i]
  <2>1. released[p].bind = pedBind[p] /\ HasBound(p, i)
    BY DEF EInv, IInv, IssueInv, EnvelopeInv, Faithful, HasBound
  <2>2. Precedes(pedCand[p].epochs[kind], pedBind[p][kind])
    BY <2>1 DEF PolicyInv, PolicyOf
  <2>3. kind \in KindSet /\ pedBind[p][kind] \in Nat
    BY KindFacts DEF EInv, IInv, TypeInv, TypeOK, PedTypeOK
  <2>4. released[p].boot = boot => released[p].bind[kind] <= epoch[kind]
    BY <2>3 DEF BInv, BindInv
  <2>5. pedCand[p].epochs[kind] <= released[p].bind[kind]
    BY <2>1, <2>2, <2>3 DEF Precedes
  <2> QED BY <2>4, <2>5
<1> QED
  BY InvariantE, InvariantB, <1>1, <1>2, <1>3, PTL DEF Spec

-----------------------------------------------------------------------------
(* What the effect misses.                                                 *)

\* A bound epoch lies between the one of the beginning of call s and the one
\* of now.
Between(s, kind) ==
    LET auth == released[IssuerOf(s)]
    IN  entry[s][kind] <= auth.bind[kind] /\ auth.bind[kind] <= epoch[kind]

\* So it does for each epoch a call under way has compared, of whatever process
\* its authority is.
BetweenInv ==
    \A s \in SinkCalls :
        /\ sinkPC[s] = "state" => \A j \in 1..6 : j < sinkIdx[s] => Between(s, Kinds[j])
        /\ sinkPC[s] \in Locking \cup Critical => \A kind \in KindSet : Between(s, kind)

\* Every step keeps BetweenInv: a comparison that succeeds finds what is bound
\* equal to what is now, and a call under way has no restart behind it.
LEMMA BetweenStep ==
    ASSUME TypeInv, IssueInv, ComparedInv, BetweenInv, [Next]_vars
    PROVE  BetweenInv'
<1> SUFFICES ASSUME NEW s \in SinkCalls
             PROVE  /\ sinkPC'[s] = "state" =>
                           \A j \in 1..6 : j < sinkIdx'[s] => Between(s, Kinds[j])'
                    /\ sinkPC'[s] \in Locking \cup Critical =>
                           \A kind \in KindSet : Between(s, kind)'
  BY DEF BetweenInv
<1> DEFINE auth == released[IssuerOf(s)]
<1>1. Compared(s)
  BY DEF ComparedInv
<1>2. sinkPC[s] = "state" \/ sinkPC[s] \in Locking \cup Critical =>
          sinkPC[s] \in Holding \ {"ok"}
  BY DEF Holding, Locking, Critical
<1>3. sinkPC[s] \in Holding =>
          auth \in Authorities /\ released'[IssuerOf(s)] = auth
  BY IssuedKept DEF TypeInv, TypeOK, SinkShape, IssueInv
<1>4. \A kind \in KindSet :
          /\ entry[s][kind] \in Nat /\ epoch[kind] \in Nat
          /\ sinkPC[s] \in Holding => auth.bind[kind] \in Nat
  BY <1>3 DEF TypeInv, TypeOK, SinkTypeOK, Authorities
<1>5. \A j \in 1..6 : Kinds[j] \in KindSet
  BY KindFacts
<1>6. CASE SinkKept(s) /\ ~Restart
  <2>1. \A kind \in KindSet : epoch'[kind] \in Nat /\ epoch[kind] <= epoch'[kind]
    <3>1. ASSUME NEW q \in PedCalls, PedNext(q) PROVE epoch' = epoch
      BY <3>1, PedFrame
    <3>2. \A kind \in KindSet : epoch[kind] <= epoch[kind]
      BY <1>4
    <3> QED BY <1>4, <1>6, <3>1, <3>2, IssueKinds
  <2>2. ASSUME NEW kind \in KindSet, sinkPC[s] \in Holding, Between(s, kind)
        PROVE  Between(s, kind)'
    BY <1>3, <1>4, <1>6, <2>1, <2>2 DEF SinkKept, Between, IssuerOf
  <2>3. sinkPC'[s] = sinkPC[s] /\ sinkIdx'[s] = sinkIdx[s]
    BY <1>6 DEF SinkKept
  <2> QED BY <1>2, <1>5, <2>2, <2>3 DEF BetweenInv
<1>7. CASE Begins(s)
  BY <1>7 DEF Begins, Locking, Critical
<1>8. CASE Advances(s) /\ UNCHANGED <<epoch, released>>
  <2>1. /\ sinkPC[s] \in Holding \ {"ok"} /\ auth' = auth /\ epoch' = epoch
        /\ entry'[s] = entry[s]
    BY <1>8 DEF Advances, IssuerOf
  <2>2. ASSUME NEW kind \in KindSet, Between(s, kind) PROVE Between(s, kind)'
    BY <2>1, <2>2 DEF Between
  <2>3. ASSUME sinkPC[s] = "state", Current(s) PROVE Between(s, Kinds[sinkIdx[s]])
    <3>1. Kinds[sinkIdx[s]] \in KindSet
      BY KindFacts DEF TypeInv, TypeOK, SinkTypeOK
    <3>2. entry[s][Kinds[sinkIdx[s]]] <= epoch[Kinds[sinkIdx[s]]]
      BY <1>1, <2>1, <3>1 DEF Compared
    <3>3. auth.bind[Kinds[sinkIdx[s]]] = epoch[Kinds[sinkIdx[s]]]
      BY <2>3 DEF Current, AuthOf, IssuerOf
    <3> QED BY <1>4, <3>1, <3>2, <3>3 DEF Between
  <2>4. ASSUME sinkPC'[s] = "state", NEW j \in 1..6, j < sinkIdx'[s]
        PROVE  Between(s, Kinds[j])
    <3>1. \/ sinkPC[s] = "used" /\ sinkIdx'[s] = sinkIdx[s]
          \/ sinkPC[s] = "state" /\ Current(s) /\ sinkIdx'[s] = sinkIdx[s] + 1
      BY <1>8, <2>4 DEF Advances, Passed, Locking, Critical
    <3>2. CASE sinkPC[s] = "used" /\ sinkIdx'[s] = sinkIdx[s]
      BY <1>1, <2>4, <3>2 DEF Compared
    <3>3. CASE sinkPC[s] = "state" /\ Current(s) /\ sinkIdx'[s] = sinkIdx[s] + 1
      <4>1. sinkIdx[s] \in 1..6
        BY KindFacts DEF TypeInv, TypeOK, SinkTypeOK
      <4>2. j = sinkIdx[s] \/ j < sinkIdx[s]
        BY <2>4, <3>3, <4>1
      <4> QED BY <2>3, <3>3, <4>2 DEF BetweenInv
    <3> QED BY <3>1, <3>2, <3>3
  <2>5. ASSUME sinkPC'[s] \in Locking \cup Critical, NEW kind \in KindSet
        PROVE  Between(s, kind)
    <3>1. \/ sinkPC[s] \in Locking \cup Critical
          \/ sinkPC[s] = "state" /\ Current(s) /\ sinkIdx[s] = 6
      BY <1>8, <2>1, <2>5 DEF Advances, Passed, Locking, Critical
    <3>2. CASE sinkPC[s] = "state" /\ Current(s) /\ sinkIdx[s] = 6
      <4>1. PICK j \in 1..6 : kind = Kinds[j]
        BY KindFacts DEF KindSet
      <4>2. j = 6 \/ j < 6
        OBVIOUS
      <4> QED BY <2>3, <3>2, <4>1, <4>2 DEF BetweenInv
    <3> QED BY <3>1, <3>2 DEF BetweenInv
  <2> QED BY <1>5, <2>2, <2>4, <2>5
<1>9. CASE Restart
  BY <1>9 DEF Restart, SinkCrash, SinkActive, SinkEnds, Locking, Critical
<1> QED
  BY <1>6, <1>7, <1>8, <1>9, CallSteps

\* An effect is the step of a call that stands at its apply.
LEMMA EffectComes ==
    ASSUME TypeInv, UseInv, UseInv', TypeInv', [Next]_vars, NEW s \in effects' \ effects
    PROVE  s \in SinkCalls /\ sinkPC[s] \in Locking \cup Critical
<1>1. s \in SinkCalls /\ sinkPC'[s] = "ok"
  BY DEF UseInv, TypeInv, TypeOK, SinkTypeOK
<1>2. Advances(s)
  BY <1>1, CallSteps DEF SinkKept, Begins
<1> QED BY <1>1, <1>2 DEF Advances, Passed

\* Theorem OnlyFlightIsMissed: an effect follows its checks at a distance, but
\* what it misses came during its own call: an epoch that has not moved since
\* the call began is the one bound, and the authority was live then.
THEOREM OnlyFlightIsMissed == Spec => MissedOnlyInFlight
<1>1. Init => BetweenInv
  BY DEF Init, SinkInit, BetweenInv, Locking, Critical
<1>2. BInv /\ BetweenInv /\ [Next]_vars => BetweenInv'
  BY BetweenStep DEF BInv, IInv
<1>3. ASSUME EInv, EInv', BetweenInv, [Next]_vars
      PROVE  [\A s \in effects' \ effects :
                 /\ sinkNow[s] < Bound(s).expires
                 /\ \A kind \in KindSet :
                       epoch[kind] = entry[s][kind] => Bound(s).bind[kind] = epoch[kind]]_vars
  <2> SUFFICES ASSUME NEW s \in effects' \ effects
               PROVE  /\ sinkNow[s] < Bound(s).expires
                      /\ \A kind \in KindSet :
                            epoch[kind] = entry[s][kind] => Bound(s).bind[kind] = epoch[kind]
    OBVIOUS
  <2>1. s \in SinkCalls /\ sinkPC[s] \in Locking \cup Critical
    BY <1>3, EffectComes DEF EInv, IInv
  <2>2. sinkPC[s] \in Holding \ {"ok"}
    BY <2>1 DEF Locking, Critical, Holding
  <2>3. sinkNow[s] < Bound(s).expires
    BY <1>3, <2>1, <2>2 DEF EInv, CheckedInv, Checked, Bound
  <2>4. ASSUME NEW kind \in KindSet, epoch[kind] = entry[s][kind]
        PROVE  Bound(s).bind[kind] = epoch[kind]
    <3>1. entry[s][kind] <= Bound(s).bind[kind] /\ Bound(s).bind[kind] <= epoch[kind]
      BY <1>3, <2>1 DEF BetweenInv, Between, Bound
    <3>2. Bound(s) \in Authorities
      BY <1>3, <2>1, <2>2 DEF EInv, IInv, TypeInv, TypeOK, SinkShape, IssueInv, Bound, IssuerOf
    <3>3. Bound(s).bind[kind] \in Nat /\ epoch[kind] \in Nat
      BY <1>3, <3>2 DEF EInv, IInv, TypeInv, TypeOK, Authorities
    <3> QED BY <2>4, <3>1, <3>3
  <2> QED BY <2>3, <2>4
<1> QED
  BY InvariantE, InvariantB, <1>1, <1>2, <1>3, PTL DEF Spec, MissedOnlyInFlight
=============================================================================
