----------------------------- MODULE ClientProofs -----------------------------
(***************************************************************************)
(* The programs of Clients are callers of FinalitySystem, so that what is  *)
(* proved of the system holds under them; and what their exit codes tell.  *)
(***************************************************************************)
EXTENDS Clients, EpochProofs

-----------------------------------------------------------------------------
(* A program is a caller.                                                  *)

Labels == {"make", "validate", "decided", "simulate", "verify", "verdict",
           "replay", "replayed", "end"}

\* The labels before --simulate has its way, and those after it.
Early == {"make", "validate", "decided", "simulate"}
Late == {"verify", "verdict", "replay", "replayed"}

\* Types, and the candidate at hand.
ProgramInv ==
    /\ client \in Labels
    /\ args \in Arguments
    /\ round \in 1..Iterations
    /\ args.program # "benchmark" => round = 1
    /\ client # "make" => \E now \in 0..MaxClock : candidate = MakeCandidate(round, now)
    /\ client # "end" => exit = Nil
    /\ clock \in 0..MaxClock
    /\ boot = 0

\* Only --simulate moves an epoch, and once.
EpochInv ==
    /\ client \in Early => epoch = EpochZero
    /\ client \in Late =>
          epoch = [kind \in KindSet |-> IF Assigned(args.fault, kind) THEN 1 ELSE 0]

\* What the programs call, and with what.
LEMMA CallFacts ==
    ASSUME ProgramInv
    PROVE  /\ Validation \in PedCalls /\ Verification \in SinkCalls
           /\ SinkOrder[1] \in SinkCalls /\ SinkOrder[2] \in SinkCalls
           /\ client # "make" =>
                 /\ candidate \in Candidates
                 /\ "id" \in DOMAIN candidate.sink
                 /\ candidate.sink.id # "other-sink" /\ candidate.params # "other"
                 /\ \A fault \in Faults : RequestOf(fault) \in Requests
<1>1. /\ PedOrder \in Seq(PedCalls) /\ SinkOrder \in Seq(SinkCalls) /\ Iterations \in Nat
      /\ round \in 1..Iterations /\ Iterations <= Len(PedOrder) /\ Iterations <= Len(SinkOrder)
      /\ Len(SinkOrder) > 1
  BY ClientAssumption, ProgramAssumption DEF ClientAssumption, ProgramAssumption, ProgramInv
<1>2. /\ Validation \in PedCalls /\ Verification \in SinkCalls
      /\ SinkOrder[1] \in SinkCalls /\ SinkOrder[2] \in SinkCalls
  BY <1>1 DEF Validation, Verification
<1>3. ASSUME client # "make"
      PROVE  /\ candidate \in Candidates
             /\ "id" \in DOMAIN candidate.sink
             /\ candidate.sink.id # "other-sink" /\ candidate.params # "other"
             /\ {candidate.sink, [candidate.sink EXCEPT !.id = "other-sink"]} \subseteq Sinks
             /\ {MakeEffect(candidate, candidate.params), MakeEffect(candidate, "other")}
                   \subseteq Effects
  BY <1>3, ProgramAssumption DEF ProgramAssumption, ProgramInv
<1>4. ASSUME client # "make", NEW fault \in Faults PROVE RequestOf(fault) \in Requests
  BY <1>2, <1>3, <1>4 DEF RequestOf, Requests
<1> QED BY <1>2, <1>3, <1>4

LEMMA ProgramInit == ClientInit => ProgramInv /\ EpochInv
<1> SUFFICES ASSUME ClientInit PROVE ProgramInv /\ EpochInv
  OBVIOUS
<1>1. /\ client = "make" /\ args \in Arguments /\ round = 1 /\ exit = Nil
      /\ clock = 0 /\ boot = 0 /\ epoch = EpochZero
  BY DEF ClientInit, Init, StateInit
<1>2. 1 \in 1..Iterations /\ 0 \in 0..MaxClock
  BY ClientAssumption, StateAssumption DEF ClientAssumption, StateAssumption
<1>3. ProgramInv
  BY <1>1, <1>2 DEF ProgramInv, Labels
<1>4. EpochInv
  BY <1>1 DEF EpochInv, Late
<1> QED BY <1>3, <1>4

\* Each step of a program is a step of the system.
LEMMA ProgramSteps ==
    ASSUME TypeInv, ProgramInv, EpochInv, [ClientNext]_allVars
    PROVE  [Next]_vars
<1>1. CASE ClientValidate
  BY <1>1, CallFacts DEF ClientValidate, Next, Submit
<1>2. CASE ClientSimulate
  <2>1. epoch = [kind \in KindSet |-> 0] /\ KindSet = DOMAIN epoch
    BY <1>2 DEF ClientSimulate, EpochInv, Early, EpochZero
  <2>2. {"topology", "revocation"} \subseteq Advancing /\ Advancing \subseteq KindSet
        /\ MaxEpoch > 0
    BY StateAssumption, ProgramAssumption DEF StateAssumption, ProgramAssumption
  <2>3. CASE args.fault = "topology-change"
    <3>1. AdvanceEpoch("topology")
      BY <1>2, <2>1, <2>2, <2>3 DEF ClientSimulate, Assigned, AdvanceEpoch
    <3> QED BY <1>2, <2>2, <3>1 DEF ClientSimulate, Next, Environment
  <2>4. CASE args.fault = "revocation"
    <3>1. AdvanceEpoch("revocation")
      BY <1>2, <2>1, <2>2, <2>4 DEF ClientSimulate, Assigned, AdvanceEpoch
    <3> QED BY <1>2, <2>2, <3>1 DEF ClientSimulate, Next, Environment
  <2>5. CASE args.fault \notin {"topology-change", "revocation"}
    <3>1. epoch' = epoch
      BY <1>2, <2>1, <2>5 DEF ClientSimulate, Assigned
    <3> QED BY <1>2, <3>1 DEF ClientSimulate, vars, stateVars, storeVars
  <2> QED BY <2>3, <2>4, <2>5
<1>3. CASE ClientVerify
  BY <1>3, CallFacts DEF ClientVerify, Next, Present, ProgramInv, Arguments, Faults
<1>4. CASE ClientReplay
  BY <1>4, CallFacts DEF ClientReplay, Next, Present, ProgramInv, Arguments, Faults
<1>5. CASE ClientMake \/ ClientDecided \/ ClientVerdict \/ ClientReplayed \/ ClientEnded
  BY <1>5 DEF ClientMake, ClientDecided, ClientVerdict, ClientReplayed, ClientEnded, allVars
<1>6. CASE (\E q \in PedCalls : PedRuns(q)) \/ (\E t \in SinkCalls : SinkRuns(t))
  BY <1>6 DEF Next
<1>7. CASE Tick /\ UNCHANGED <<pedVars, sinkVars, clientVars>>
  BY <1>7 DEF Next, Environment
<1>8. CASE UNCHANGED allVars
  BY <1>8 DEF allVars
<1> QED BY <1>1, <1>2, <1>3, <1>4, <1>5, <1>6, <1>7, <1>8 DEF ClientNext, ClientStep

\* What a step can be: one of the program's own, one of a call it waits for,
\* or time.
LEMMA ProgramKinds ==
    ASSUME TypeInv, ProgramInv, EpochInv, [ClientNext]_allVars
    PROVE  /\ boot' = boot /\ clock' \in 0..MaxClock
           /\ \/ /\ ClientMake \/ ClientDecided \/ ClientVerdict \/ ClientReplayed
                 /\ UNCHANGED vars
              \/ ClientValidate /\ UNCHANGED <<clock, epoch, sinkVars>>
              \/ ClientSimulate
              \/ ClientVerify /\ UNCHANGED <<clock, epoch, pedVars, released>>
              \/ ClientReplay /\ UNCHANGED <<clock, epoch, pedVars, released>>
              \/ /\ \E q \in PedCalls : PedStep(q) /\ PedNext(q)
                 /\ UNCHANGED <<clock, epoch, sinkVars, clientVars>>
              \/ /\ \E t \in SinkCalls : SinkStep(t) /\ SinkNext(t)
                 /\ UNCHANGED <<clock, epoch, pedVars, released, clientVars>>
              \/ UNCHANGED <<boot, epoch, counter, storeVars, released,
                             pedVars, sinkVars, clientVars>>
<1> USE DEF ProgramInv
<1>1. CASE ClientMake \/ ClientDecided \/ ClientVerdict \/ ClientReplayed
  BY <1>1 DEF ClientMake, ClientDecided, ClientVerdict, ClientReplayed, vars, stateVars
<1>2. CASE ClientValidate
  BY <1>2 DEF ClientValidate, PedCall, stateVars
<1>3. CASE ClientSimulate
  BY <1>3 DEF ClientSimulate
<1>4. CASE ClientVerify \/ ClientReplay
  BY <1>4 DEF ClientVerify, ClientReplay, SinkCall, stateVars
<1>5. ASSUME NEW q \in PedCalls, PedRuns(q) PROVE PedNext(q) /\ UNCHANGED <<clock, boot, epoch>>
  BY <1>5, PedFrame DEF PedRuns, PedNext
<1>6. ASSUME NEW t \in SinkCalls, SinkRuns(t)
      PROVE  SinkNext(t) /\ UNCHANGED <<clock, boot, epoch, released>>
  BY <1>6, SinkFrame DEF SinkRuns, SinkNext
<1>7. CASE Tick /\ UNCHANGED <<pedVars, sinkVars, clientVars>>
  BY <1>7, StateAssumption DEF Tick, StateAssumption
<1>8. CASE UNCHANGED allVars
  BY <1>8 DEF allVars, vars, stateVars, storeVars
<1> QED
  BY <1>1, <1>2, <1>3, <1>4, <1>5, <1>6, <1>7, <1>8
     DEF ClientNext, ClientStep, ClientEnded, PedRuns, SinkRuns

\* Every step keeps ProgramInv and EpochInv.
LEMMA ProgramStep ==
    ASSUME TypeInv, ProgramInv, EpochInv, [ClientNext]_allVars
    PROVE  ProgramInv' /\ EpochInv'
<1>0. boot' = boot /\ clock' \in 0..MaxClock /\ Iterations \in Nat
  BY ProgramKinds, ClientAssumption DEF ClientAssumption
<1> USE DEF Resume, Exit, Labels, Early, Late
<1>1. CASE ClientMake /\ UNCHANGED vars
  BY <1>0, <1>1 DEF ClientMake, ProgramInv, EpochInv, vars, stateVars
<1>2. CASE ClientDecided /\ UNCHANGED vars
  <2>1. /\ client = "decided" /\ UNCHANGED <<args, round, candidate, epoch>>
        /\ (client' = "simulate" /\ exit' = exit) \/ client' = "end"
    BY <1>2 DEF ClientDecided, vars, stateVars
  <2> QED BY <1>0, <2>1 DEF ProgramInv, EpochInv
<1>3. CASE ClientVerdict /\ UNCHANGED vars
  <2>1. /\ client = "verdict" /\ UNCHANGED <<args, candidate, epoch>>
        /\ \/ client' = "replay" /\ UNCHANGED <<round, exit>>
           \/ client' = "end" /\ round' = round
           \/ /\ client' = "make" /\ args.program = "benchmark" /\ exit' = exit
              /\ round < Iterations /\ round' = round + 1
    BY <1>3 DEF ClientVerdict, vars, stateVars
  <2>2. args.program = "benchmark" => args.fault = "none"
    BY DEF ProgramInv, Arguments
  <2> QED BY <1>0, <2>1, <2>2 DEF ProgramInv, EpochInv, Assigned, EpochZero
<1>4. CASE ClientReplayed /\ UNCHANGED vars
  BY <1>0, <1>4 DEF ClientReplayed, ProgramInv, EpochInv, vars, stateVars
<1>5. CASE ClientValidate /\ UNCHANGED epoch
  BY <1>0, <1>5 DEF ClientValidate, ProgramInv, EpochInv
<1>6. CASE ClientSimulate
  BY <1>0, <1>6 DEF ClientSimulate, ProgramInv, EpochInv, EpochZero
<1>7. CASE (ClientVerify \/ ClientReplay) /\ UNCHANGED epoch
  BY <1>0, <1>7 DEF ClientVerify, ClientReplay, ProgramInv, EpochInv
<1>8. CASE UNCHANGED <<epoch, clientVars>>
  BY <1>0, <1>8 DEF clientVars, ProgramInv, EpochInv
<1> QED
  BY <1>1, <1>2, <1>3, <1>4, <1>5, <1>6, <1>7, <1>8, ProgramKinds

\* Theorem ProgramsUseTheSystem: whatever a program of the repository does is
\* a behaviour of the reference system, so all that is proved of the system
\* holds under the programs.
THEOREM ProgramsUseTheSystem == ClientSpec => Spec
<1> DEFINE I == TypeInv /\ ProgramInv /\ EpochInv
<1>1. ClientInit => Init /\ I
  BY InitIInv, ProgramInit DEF IInv, ClientInit
<1>2. I /\ [ClientNext]_allVars => [Next]_vars /\ I'
  BY ProgramSteps, ProgramStep, TypeStep
<1> QED
  BY <1>1, <1>2, PTL DEF ClientSpec, Spec

-----------------------------------------------------------------------------
(* One thread, one call at a time.                                         *)

First == SinkOrder[1]
Second == SinkOrder[2]

\* The calls that are under way, the calls not made yet, and what the calls
\* made so far were about.
ThreadInv ==
    /\ \A p \in PedCalls : PedActive(p) => client = "decided" /\ p = Validation
    /\ \A t \in SinkCalls : SinkActive(t) => \/ client = "verdict" /\ t = Verification
                                             \/ client = "replayed" /\ t = Second
    /\ \A i \in DOMAIN SinkOrder : i > round /\ sinkPC[SinkOrder[i]] # "idle" =>
          i = 2 /\ args.replay /\ client \in {"replayed", "end"} /\ sinkPC[First] = "ok"
    /\ client \in Early \cup {"verify"} => sinkPC[Verification] = "idle"
    /\ client \in {"replay", "replayed"} => args.replay /\ sinkPC[Verification] = "ok"
    /\ client \in {"decided", "simulate"} \cup Late => pedCand[Validation] = candidate
    /\ args.program = "demo" /\ client \in {"simulate"} \cup Late =>
          pedPC[Validation] = "issued"
    /\ client \in {"verdict", "replay", "replayed"} =>
          sinkReq[Verification] = RequestOf(args.fault)

\* The calls in their order are distinct, and only a demo replays.
LEMMA OrderFacts ==
    ASSUME ProgramInv
    PROVE  /\ Validation \in PedCalls /\ Verification \in SinkCalls
           /\ First \in SinkCalls /\ Second \in SinkCalls /\ First # Second
           /\ round \in DOMAIN SinkOrder /\ 1 \in DOMAIN SinkOrder /\ 2 \in DOMAIN SinkOrder
           /\ \A i \in DOMAIN SinkOrder : i \in Nat /\ SinkOrder[i] \in SinkCalls
           /\ \A i, j \in DOMAIN SinkOrder : SinkOrder[i] = SinkOrder[j] => i = j
           /\ round < Iterations => round + 1 \in DOMAIN SinkOrder
           /\ args.program # "benchmark" => round = 1 /\ Verification = First
           /\ args.replay \/ args.fault # "none" => args.program = "demo"
           /\ Iterations \in Nat /\ round \in Nat
<1>1. /\ PedOrder \in Seq(PedCalls) /\ SinkOrder \in Seq(SinkCalls) /\ Iterations \in Nat
      /\ round \in 1..Iterations /\ Iterations <= Len(PedOrder) /\ Iterations <= Len(SinkOrder)
      /\ Len(SinkOrder) > 1
      /\ \A i, j \in DOMAIN SinkOrder : SinkOrder[i] = SinkOrder[j] => i = j
  BY ClientAssumption, ProgramAssumption DEF ClientAssumption, ProgramAssumption, ProgramInv
<1>2. DOMAIN SinkOrder = 1..Len(SinkOrder) /\ Len(SinkOrder) \in Nat
  BY <1>1
<1>3. /\ round \in DOMAIN SinkOrder /\ 1 \in DOMAIN SinkOrder /\ 2 \in DOMAIN SinkOrder
      /\ round < Iterations => round + 1 \in DOMAIN SinkOrder
  BY <1>1, <1>2
<1>4. \A i \in DOMAIN SinkOrder : i \in Nat /\ SinkOrder[i] \in SinkCalls
  BY <1>1, <1>2
<1>5. First # Second
  BY <1>1, <1>3 DEF First, Second
<1>6. args.program # "benchmark" => round = 1 /\ Verification = First
  BY DEF ProgramInv, Verification, First
<1>7. args.replay \/ args.fault # "none" => args.program = "demo"
  BY DEF ProgramInv, Arguments
<1> QED
  BY <1>1, <1>3, <1>4, <1>5, <1>6, <1>7, CallFacts DEF First, Second, Verification

\* A step of a validation under way is that of an active call, about the
\* candidate it was given.
LEMMA PedRunMoves ==
    ASSUME TypeInv, NEW p \in PedCalls, PedStep(p)
    PROVE  PedActive(p) /\ pedCand' = pedCand /\ \A q \in PedCalls : q # p => pedPC'[q] = pedPC[q]
<1> USE DEF TypeInv, TypeOK, PedTypeOK, PedGoto, PedActive, PedEnds
<1>1. pedCand' = pedCand /\ pedPC[p] \notin PedEnds \cup {"idle"}
  BY DEF PedStep, PedCompareEpoch, PedReserve, PedAdvanceCounter, PedCommitEvidence,
     PedBindEpoch, PedInstall, PedReturn, PedRaise
<1>2. \A q \in PedCalls : q # p => pedPC'[q] = pedPC[q]
  BY PedMoves DEF PedNext
<1> QED BY <1>1, <1>2

\* A step of an effectuation under way is that of an active call, with the
\* arguments it was given.
LEMMA SinkRunMoves ==
    ASSUME TypeInv, NEW s \in SinkCalls, SinkStep(s)
    PROVE  /\ SinkActive(s) /\ Advances(s) /\ sinkReq' = sinkReq
           /\ \A t \in SinkCalls : t # s => SinkKept(t)
<1>1. sinkPC[s] # "idle" /\ sinkPC[s] \notin SinkEnds
  BY DEF SinkEnds, SinkStep, SinkReadEvidence, SinkReadActivation, SinkReadUsed, SinkCompareEpoch,
     CompareEpoch, SinkTakeLock, SinkTakeNetworkLock, SinkRecheck, SinkConsume, SinkApply,
     SinkApplyRaises, SinkUndo, SinkRaise
<1>2. /\ Begins(s) \/ Advances(s)
      /\ \A t \in SinkCalls : t # s => SinkKept(t)
  BY SinkCallMoves DEF SinkNext
<1>3. sinkReq' = sinkReq
  BY <1>1, SinkMoves DEF SinkNext
<1> QED BY <1>1, <1>2, <1>3 DEF Begins, SinkActive

\* A call that a program makes was not made before, and denies or goes on.
LEMMA SinkCallMade ==
    ASSUME TypeInv, NEW s \in SinkCalls, NEW req \in Requests, SinkCall(s, req)
    PROVE  /\ sinkPC[s] = "idle" /\ sinkReq'[s] = req /\ sinkPC'[s] \in {"evidence", "denied"}
           /\ \A t \in SinkCalls : t # s => SinkKept(t)
<1>1. sinkPC[s] = "idle" /\ sinkReq'[s] = req
  BY DEF SinkCall, TypeInv, TypeOK, SinkTypeOK
<1>2. SinkNext(s)
  BY DEF SinkNext
<1>3. sinkPC'[s] \in {"evidence", "denied"}
  BY <1>1, <1>2, SinkMoves DEF Holding
<1> QED BY <1>1, <1>2, <1>3, SinkCallMoves

LEMMA ThreadInit == ClientInit => ThreadInv
<1> SUFFICES ASSUME ClientInit PROVE ThreadInv
  OBVIOUS
<1>1. /\ client = "make"
      /\ pedPC = [p \in PedCalls |-> "idle"] /\ sinkPC = [s \in SinkCalls |-> "idle"]
  BY DEF ClientInit, Init, PedInit, SinkInit
<1>2. Verification \in SinkCalls /\ \A i \in DOMAIN SinkOrder : SinkOrder[i] \in SinkCalls
  BY ProgramInit, OrderFacts
<1> QED BY <1>1, <1>2 DEF ThreadInv, PedActive, SinkActive, Late

\* Every step keeps ThreadInv: the program makes its next call only when the
\* one before has returned.
LEMMA ThreadStep ==
    ASSUME TypeInv, ProgramInv, EpochInv, ThreadInv, [ClientNext]_allVars
    PROVE  ThreadInv'
<1>0. args.fault \in Faults
  BY DEF ProgramInv, Arguments, Faults
<1> USE DEF Early, Late, Resume, Exit
<1>1. CASE ClientMake /\ UNCHANGED vars
  <2>1. /\ client = "make" /\ client' = "validate" /\ UNCHANGED <<args, round, pedPC, sinkPC>>
    BY <1>1 DEF ClientMake, vars, pedVars, sinkVars
  <2>2. Verification' = Verification
    BY <2>1 DEF Verification
  <2> QED BY <2>1, <2>2 DEF ThreadInv, PedActive, SinkActive
<1>2. CASE (ClientDecided \/ ClientReplayed) /\ UNCHANGED vars
  <2>1. /\ UNCHANGED <<args, round, candidate, pedPC, pedCand, sinkPC, sinkReq>>
        /\ \/ /\ client = "decided" /\ client' \in {"simulate", "end"}
              /\ \A p \in PedCalls : PedActive(p) => p # Validation
              /\ client' = "simulate" /\ args.program = "demo" => pedPC[Validation] = "issued"
           \/ /\ client = "replayed" /\ client' = "end"
              /\ ~SinkActive(Second)
    <3>1. ASSUME ClientDecided, UNCHANGED vars
          PROVE  /\ UNCHANGED <<args, round, candidate, pedPC, pedCand, sinkPC, sinkReq>>
                 /\ client = "decided" /\ client' \in {"simulate", "end"}
                 /\ pedPC[Validation] \in PedEnds
                 /\ client' = "simulate" /\ args.program = "demo" => pedPC[Validation] = "issued"
      BY <3>1 DEF ClientDecided, vars, pedVars, sinkVars, PedEnds
    <3> QED BY <1>2, <3>1 DEF ClientReplayed, Second, vars, pedVars, sinkVars, PedActive,
               SinkActive, SinkEnds
  <2>2. Verification' = Verification /\ Validation' = Validation
    BY <2>1 DEF Verification, Validation
  <2> QED BY <2>1, <2>2 DEF ThreadInv, PedActive, SinkActive
<1>3. CASE ClientVerdict /\ UNCHANGED vars
  <2>1. /\ client = "verdict" /\ UNCHANGED <<args, candidate, pedPC, pedCand, sinkPC, sinkReq>>
        /\ ~SinkActive(Verification)
        /\ \/ /\ client' = "replay" /\ round' = round /\ args.replay
              /\ sinkPC[Verification] = "ok"
           \/ client' = "end" /\ round' = round
           \/ client' = "make" /\ round < Iterations /\ round' = round + 1
    BY <1>3 DEF ClientVerdict, vars, pedVars, sinkVars, SinkActive, SinkEnds
  <2>2. /\ \A p \in PedCalls : ~PedActive(p)
        /\ \A t \in SinkCalls : ~SinkActive(t)
        /\ \A i \in DOMAIN SinkOrder : i > round => sinkPC[SinkOrder[i]] = "idle"
    BY <2>1 DEF ThreadInv
  <2>3. CASE round' = round
    <3>1. /\ Verification' = Verification /\ Validation' = Validation
          /\ RequestOf(args.fault)' = RequestOf(args.fault)
      BY <2>1, <2>3 DEF Verification, Validation, RequestOf
    <3>2. client' # "make"
      BY <2>1, <2>3, OrderFacts
    <3> QED BY <2>1, <2>2, <2>3, <3>1, <3>2 DEF ThreadInv, PedActive, SinkActive
  <2>4. CASE client' = "make" /\ round < Iterations /\ round' = round + 1
    <3>1. /\ Verification' = SinkOrder[round + 1] /\ round + 1 \in DOMAIN SinkOrder
          /\ round \in Nat /\ \A i \in DOMAIN SinkOrder : i \in Nat
      BY <2>4, OrderFacts DEF Verification
    <3>2. /\ sinkPC'[Verification'] = "idle"
          /\ \A i \in DOMAIN SinkOrder : i > round' => sinkPC'[SinkOrder[i]] = "idle"
      BY <2>1, <2>2, <2>4, <3>1
    <3> QED BY <2>1, <2>2, <2>4, <3>2 DEF ThreadInv, PedActive, SinkActive
  <2> QED BY <2>1, <2>3, <2>4
<1>4. CASE ClientValidate /\ UNCHANGED sinkVars
  <2>1. /\ client = "validate" /\ client' = "decided" /\ UNCHANGED <<args, round, candidate>>
        /\ pedCand'[Validation] = candidate /\ UNCHANGED sinkPC
        /\ \A p \in PedCalls : p # Validation => pedPC'[p] = pedPC[p]
    BY <1>4, OrderFacts
       DEF ClientValidate, PedCall, PedGoto, sinkVars, TypeInv, TypeOK, PedTypeOK
  <2>2. Verification' = Verification /\ Validation' = Validation
    BY <2>1 DEF Verification, Validation
  <2> QED BY <2>1, <2>2 DEF ThreadInv, PedActive, SinkActive
<1>5. CASE ClientSimulate
  <2>1. /\ client = "simulate" /\ client' = "verify" /\ UNCHANGED <<args, round, candidate>>
        /\ UNCHANGED <<pedPC, pedCand, sinkPC, sinkReq>>
    BY <1>5 DEF ClientSimulate, pedVars, sinkVars
  <2>2. Verification' = Verification /\ Validation' = Validation
    BY <2>1 DEF Verification, Validation
  <2> QED BY <2>1, <2>2 DEF ThreadInv, PedActive, SinkActive
<1>6. CASE ClientVerify
  <2>1. /\ client = "verify" /\ client' = "verdict" /\ UNCHANGED <<args, round, candidate>>
        /\ UNCHANGED <<pedPC, pedCand>> /\ SinkCall(Verification, RequestOf(args.fault))
    BY <1>6 DEF ClientVerify, pedVars
  <2>2. RequestOf(args.fault) \in Requests /\ Verification \in SinkCalls
    BY <1>0, <2>1, CallFacts
  <2>3. /\ sinkReq'[Verification] = RequestOf(args.fault)
        /\ \A t \in SinkCalls : t # Verification => sinkPC'[t] = sinkPC[t]
    BY <2>1, <2>2, SinkCallMade DEF SinkKept
  <2>4. /\ Verification' = Verification /\ Validation' = Validation
        /\ RequestOf(args.fault)' = RequestOf(args.fault)
    BY <2>1 DEF Verification, Validation, RequestOf
  <2>5. \A i \in DOMAIN SinkOrder :
            SinkOrder[i] \in SinkCalls /\ (i > round => SinkOrder[i] # Verification)
    BY OrderFacts DEF Verification
  <2> QED BY <2>1, <2>3, <2>4, <2>5 DEF ThreadInv, PedActive, SinkActive
<1>7. CASE ClientReplay
  <2>1. /\ client = "replay" /\ client' = "replayed" /\ UNCHANGED <<args, round, candidate>>
        /\ UNCHANGED <<pedPC, pedCand>> /\ SinkCall(Second, RequestOf(args.fault))
    BY <1>7 DEF ClientReplay, pedVars, Second
  <2>2. RequestOf(args.fault) \in Requests /\ Second \in SinkCalls
    BY <1>0, <2>1, CallFacts, OrderFacts
  <2>3. \A t \in SinkCalls : t # Second => sinkPC'[t] = sinkPC[t] /\ sinkReq'[t] = sinkReq[t]
    BY <2>1, <2>2, SinkCallMade DEF SinkKept
  <2>4. args.replay /\ round = 1 /\ Verification = First /\ sinkPC[First] = "ok"
    BY <2>1, OrderFacts DEF ThreadInv, ProgramInv, Arguments
  <2>5. /\ Verification' = Verification /\ Validation' = Validation
        /\ RequestOf(args.fault)' = RequestOf(args.fault)
    BY <2>1 DEF Verification, Validation, RequestOf
  <2>6. \A i \in DOMAIN SinkOrder : SinkOrder[i] \in SinkCalls /\ (SinkOrder[i] = Second => i = 2)
    BY OrderFacts DEF Second
  <2>7. First \in SinkCalls /\ First # Second
    BY OrderFacts
  <2> QED BY <2>1, <2>3, <2>4, <2>5, <2>6, <2>7 DEF ThreadInv, PedActive, SinkActive
<1>8. CASE /\ \E q \in PedCalls : PedStep(q)
           /\ UNCHANGED <<sinkVars, clientVars>>
  <2>1. PICK q \in PedCalls : PedStep(q)
    BY <1>8
  <2>2. /\ PedActive(q) /\ UNCHANGED <<pedCand, sinkPC, client, args, round>>
        /\ UNCHANGED candidate
        /\ \A p \in PedCalls : p # q => pedPC'[p] = pedPC[p]
    BY <1>8, <2>1, PedRunMoves DEF sinkVars, clientVars
  <2>3. client = "decided" /\ q = Validation
    BY <2>2 DEF ThreadInv
  <2>4. Verification' = Verification /\ Validation' = Validation
    BY <2>2 DEF Verification, Validation
  <2> QED BY <2>2, <2>3, <2>4 DEF ThreadInv, PedActive, SinkActive
<1>9. CASE /\ \E t \in SinkCalls : SinkStep(t)
           /\ UNCHANGED <<pedVars, clientVars>>
  <2>1. PICK t \in SinkCalls : SinkStep(t)
    BY <1>9
  <2>2. /\ SinkActive(t) /\ UNCHANGED <<pedPC, pedCand, sinkReq, client, args, round, candidate>>
        /\ \A u \in SinkCalls : u # t => sinkPC'[u] = sinkPC[u]
    BY <1>9, <2>1, SinkRunMoves DEF pedVars, clientVars, SinkKept
  <2>3. /\ Verification' = Verification /\ Validation' = Validation
        /\ RequestOf(args.fault)' = RequestOf(args.fault)
    BY <2>2 DEF Verification, Validation, RequestOf
  <2>4. CASE client = "verdict" /\ t = Verification
    <3>1. \A i \in DOMAIN SinkOrder :
              SinkOrder[i] \in SinkCalls /\ (i > round => SinkOrder[i] # Verification)
      BY OrderFacts DEF Verification
    <3> QED BY <2>2, <2>3, <2>4, <3>1 DEF ThreadInv, PedActive, SinkActive
  <2>5. CASE client = "replayed" /\ t = Second
    <3>1. /\ \A i \in DOMAIN SinkOrder :
                 SinkOrder[i] \in SinkCalls /\ (SinkOrder[i] = Second => i = 2)
          /\ First \in SinkCalls /\ First # Second
      BY OrderFacts DEF Second
    <3>2. Verification = First /\ args.replay
      BY <2>5, OrderFacts DEF ThreadInv, ProgramInv, Arguments
    <3> QED BY <2>2, <2>3, <2>5, <3>1, <3>2 DEF ThreadInv, PedActive, SinkActive
  <2> QED BY <2>2, <2>4, <2>5 DEF ThreadInv
<1>10. CASE UNCHANGED <<pedVars, sinkVars, clientVars>>
  <2>1. /\ UNCHANGED <<pedPC, pedCand, sinkPC, sinkReq, client, args, round, candidate>>
    BY <1>10 DEF pedVars, sinkVars, clientVars
  <2>2. /\ Verification' = Verification /\ Validation' = Validation
        /\ RequestOf(args.fault)' = RequestOf(args.fault)
    BY <2>1 DEF Verification, Validation, RequestOf
  <2> QED BY <2>1, <2>2 DEF ThreadInv, PedActive, SinkActive
<1> QED
  BY <1>1, <1>2, <1>3, <1>4, <1>5, <1>6, <1>7, <1>8, <1>9, <1>10, ProgramKinds

-----------------------------------------------------------------------------
(* What the calls of a program hold.                                       *)

\* No epoch has moved when an authority is bound, its evidence is of the act
\* validated, and a call goes on only with an unaltered envelope, to an effect.
HeldInv ==
    /\ \A p \in PedCalls : pedBind[p] = EpochZero
    /\ \A p \in PedCalls : evidence[p] # Nil => evidence[p].act = pedCand[p].act
    /\ \A s \in SinkCalls : sinkPC[s] \in Holding => sinkReq[s].intact
    /\ \A s \in SinkCalls : sinkPC[s] = "ok" => s \in effects

\* An effect is made by the step that ends its call, and by no other.
LEMMA EffectMoves ==
    ASSUME TypeInv, NEW s \in SinkCalls, SinkNext(s)
    PROVE  \/ effects' = effects /\ sinkPC'[s] # "ok"
           \/ sinkPC[s] = "apply" /\ sinkPC'[s] = "ok" /\ effects' = effects \cup {s}
<1> USE DEF TypeInv, TypeOK, SinkTypeOK, SinkProceed, SinkGoto
<1>1. ASSUME NEW req \in Requests, SinkCall(s, req)
      PROVE  effects' = effects /\ sinkPC'[s] # "ok"
  BY <1>1 DEF SinkCall
<1>2. CASE SinkApply(s)
  BY <1>2 DEF SinkApply
<1>3. CASE SinkCompareEpoch(s)
  BY <1>3 DEF SinkCompareEpoch, CompareEpoch
<1>4. CASE SinkReadEvidence(s) \/ SinkReadActivation(s) \/ SinkReadUsed(s)
  BY <1>4 DEF SinkReadEvidence, SinkReadActivation, SinkReadUsed
<1>5. CASE SinkTakeLock(s) \/ SinkTakeNetworkLock(s) \/ SinkRecheck(s) \/ SinkConsume(s)
  BY <1>5 DEF SinkTakeLock, SinkTakeNetworkLock, SinkRecheck, SinkConsume
<1>6. CASE SinkApplyRaises(s) \/ SinkUndo(s) \/ SinkRaise(s)
  BY <1>6 DEF SinkApplyRaises, SinkUndo, SinkRaise
<1> QED
  BY <1>1, <1>2, <1>3, <1>4, <1>5, <1>6 DEF SinkNext, SinkStep

\* A step of a validation keeps what HeldInv says of evidence and binding.
LEMMA HeldPedStep ==
    ASSUME TypeInv, EvidenceInv, HeldInv, NEW p \in PedCalls, PedNext(p), UNCHANGED sinkVars,
           pedPC[p] = "bind" => epoch = EpochZero
    PROVE  HeldInv'
<1>0. \A q \in PedCalls : q # p => PedKept(q)
  BY PedFrame
<1>1. /\ UNCHANGED <<sinkPC, sinkReq, effects>>
      /\ \A q \in PedCalls : q # p =>
            /\ pedBind'[q] = EpochZero
            /\ evidence'[q] # Nil => evidence'[q].act = pedCand'[q].act
  BY <1>0 DEF PedKept, HeldInv, sinkVars
<1>2. ASSUME pedBind'[p] = EpochZero, evidence'[p] # Nil => evidence'[p].act = pedCand'[p].act
      PROVE  HeldInv'
  BY <1>1, <1>2 DEF HeldInv
<1>3. pedBind[p] = EpochZero /\ (evidence[p] # Nil => evidence[p].act = pedCand[p].act)
  BY DEF HeldInv
<1> USE DEF TypeInv, TypeOK, PedTypeOK, stateVars, storeVars
<1>4. ASSUME NEW c \in Candidates, PedCall(p, c) PROVE HeldInv'
  BY <1>2, <1>3, <1>4 DEF PedCall, EvidenceInv
<1>5. CASE PedCompareEpoch(p) \/ PedReserve(p) \/ PedAdvanceCounter(p) \/ PedInstall(p)
           \/ PedReturn(p) \/ PedRaise(p)
  BY <1>2, <1>3, <1>5 DEF PedCompareEpoch, PedReserve, PedAdvanceCounter, PedInstall,
     PedReturn, PedRaise
<1>6. CASE PedCommitEvidence(p)
  BY <1>2, <1>3, <1>6 DEF PedCommitEvidence, Commit, EvidenceOf
<1>7. CASE PedBindEpoch(p)
  <2>1. /\ pedBind' = [pedBind EXCEPT ![p][Kinds[pedIdx[p]]] = epoch[Kinds[pedIdx[p]]]]
        /\ UNCHANGED <<pedCand, evidence>> /\ epoch = EpochZero
    BY <1>7 DEF PedBindEpoch
  <2>2. Kinds[pedIdx[p]] \in KindSet
    BY KindFacts
  <2>3. pedBind'[p] = EpochZero
    BY <1>3, <2>1, <2>2 DEF EpochZero
  <2> QED BY <1>2, <1>3, <2>1, <2>3
<1> QED
  BY <1>4, <1>5, <1>6, <1>7 DEF PedNext, PedStep

\* So does a step of an effectuation of what it says of the envelopes.
LEMMA HeldSinkStep ==
    ASSUME TypeInv, HeldInv, NEW s \in SinkCalls, SinkNext(s), UNCHANGED pedVars
    PROVE  HeldInv'
<1>1. UNCHANGED <<pedBind, pedCand, evidence>>
  BY SinkFrame DEF pedVars
<1>2. /\ Begins(s) \/ Advances(s)
      /\ \A t \in SinkCalls : t # s => SinkKept(t)
  BY SinkCallMoves
<1>3. sinkPC'[s] \in Holding => sinkReq'[s].intact
  <2>1. CASE Begins(s)
    BY <2>1, EnvelopeFacts DEF Begins, Holding
  <2>2. CASE Advances(s)
    BY <2>2 DEF Advances, HeldInv
  <2> QED BY <1>2, <2>1, <2>2
<1>4. /\ sinkPC'[s] = "ok" => s \in effects'
      /\ effects \subseteq effects'
  BY EffectMoves
<1> QED BY <1>1, <1>2, <1>3, <1>4 DEF HeldInv, SinkKept

\* Every step of a program keeps HeldInv.
LEMMA HeldStep ==
    ASSUME TypeInv, EvidenceInv, ProgramInv, EpochInv, ThreadInv, HeldInv,
           [ClientNext]_allVars
    PROVE  HeldInv'
<1>1. CASE UNCHANGED <<evidence, pedVars, sinkVars>>
  BY <1>1 DEF pedVars, sinkVars, HeldInv
<1>2. ASSUME NEW q \in PedCalls, PedNext(q), UNCHANGED sinkVars PROVE HeldInv'
  <2>1. pedPC[q] = "bind" => epoch = EpochZero
    BY DEF ThreadInv, EpochInv, Early, PedActive, PedEnds
  <2> QED BY <1>2, <2>1, HeldPedStep
<1>3. ASSUME NEW t \in SinkCalls, SinkNext(t), UNCHANGED pedVars PROVE HeldInv'
  BY <1>3, HeldSinkStep
<1>4. CASE ClientValidate /\ UNCHANGED sinkVars
  <2>1. PedNext(Validation) /\ Validation \in PedCalls
    BY <1>4, CallFacts DEF ClientValidate, PedNext
  <2> QED BY <1>2, <1>4, <2>1
<1>5. CASE (ClientVerify \/ ClientReplay) /\ UNCHANGED pedVars
  <2>1. SinkNext(Verification) \/ SinkNext(Second)
    BY <1>5, CallFacts DEF ClientVerify, ClientReplay, SinkNext, Second, ProgramInv, Arguments,
       Faults
  <2> QED BY <1>3, <1>5, <2>1, CallFacts DEF Second
<1> QED
  BY <1>1, <1>2, <1>3, <1>4, <1>5, ProgramKinds
     DEF ClientSimulate, vars, stateVars, storeVars

-----------------------------------------------------------------------------
(* What an exit code tells.                                                *)

\* The verdict a program ended on.
ExitInv ==
    client = "end" =>
        /\ args.program = "demo" =>
              /\ exit = 0 => sinkPC[Verification] = "ok"
              /\ exit = 2 => sinkPC[Verification] = "idle"
              /\ exit = 3 => sinkPC[Verification] = "denied"
        /\ args.program = "benchmark" /\ exit = 0 =>
              sinkPC[Verification] = "ok" /\ round = Iterations

\* Every step keeps ExitInv: an ended program has no call under way.
LEMMA ExitStep ==
    ASSUME TypeInv, ProgramInv, EpochInv, ThreadInv, ExitInv, [ClientNext]_allVars
    PROVE  ExitInv'
<1> SUFFICES ASSUME client' = "end" PROVE ExitInv'
  BY DEF ExitInv
<1>1. CASE ClientDecided /\ UNCHANGED vars
  <2>1. /\ client = "decided" /\ UNCHANGED <<args, round, sinkPC>>
        /\ args.program = "demo" => exit' \in {1, 2}
        /\ args.program = "benchmark" => exit' = 1
    BY <1>1 DEF ClientDecided, Exit, Resume, vars, sinkVars
  <2> QED BY <2>1 DEF ExitInv, ThreadInv, Early, Verification
<1>2. CASE ClientVerdict /\ UNCHANGED vars
  <2>1. /\ UNCHANGED <<args, round, sinkPC>>
        /\ \/ /\ sinkPC[Verification] = "ok" /\ exit' = 0
              /\ args.program # "benchmark" \/ round = Iterations
           \/ /\ sinkPC[Verification] = "denied"
              /\ args.program = "demo" => exit' = 3
              /\ args.program = "benchmark" => exit' = 1
           \/ exit' = 1
    BY <1>2 DEF ClientVerdict, Exit, Resume, vars, sinkVars
  <2> QED BY <2>1 DEF ExitInv, Verification
<1>3. CASE ClientReplayed /\ UNCHANGED vars
  <2>1. /\ client = "replayed" /\ UNCHANGED <<args, round, sinkPC>> /\ exit' \in {0, 1}
    BY <1>3 DEF ClientReplayed, Exit, vars, sinkVars
  <2>2. args.replay /\ sinkPC[Verification] = "ok" /\ args.program = "demo"
    BY <2>1, OrderFacts DEF ThreadInv
  <2> QED BY <2>1, <2>2 DEF ExitInv, Verification
<1>4. CASE client = "end" /\ UNCHANGED clientVars
  <2>1. \A t \in SinkCalls : ~SinkActive(t)
    BY <1>4 DEF ThreadInv
  <2>2. ASSUME NEW t \in SinkCalls, SinkStep(t) PROVE FALSE
    BY <2>1, <2>2, SinkRunMoves
  <2>3. UNCHANGED sinkVars
    BY <1>4, <2>2, ProgramKinds
       DEF ClientMake, ClientDecided, ClientVerdict, ClientReplayed, ClientSimulate,
           ClientVerify, ClientReplay
  <2> QED BY <1>4, <2>3 DEF ExitInv, Verification, sinkVars, clientVars
<1>5. CASE client # "end" /\ UNCHANGED clientVars
  BY <1>5 DEF clientVars
<1> QED
  BY <1>1, <1>2, <1>3, <1>4, <1>5, ProgramKinds
     DEF ClientMake, ClientValidate, ClientSimulate, ClientVerify, ClientReplay, Resume,
         clientVars

-----------------------------------------------------------------------------
(* What the sink answers to an envelope of this process.                   *)

SystemInv == EInv /\ BInv

Stale == "STALE_AUTHORITY"

\* An envelope of a process that was never restarted is what its validation
\* made it, and the stores hold its records.
LEMMA GrantFacts ==
    ASSUME SystemInv, ProgramInv, HeldInv, NEW p \in PedCalls, released[p] # Nil
    PROVE  LET auth == released[p] IN
           /\ auth \in Authorities /\ auth.boot = boot /\ Faithful(p)
           /\ evidence[p] = auth.evidence /\ evidence[p] # Nil
           /\ auth.evidence.decision = "ALLOW" /\ auth.evidence.act = auth.cand.act
           /\ activations[p] = ActivationOf(auth) /\ activations[p] # Nil
           /\ auth.bind = EpochZero
<1> DEFINE auth == released[p]
<1>1. auth \in Authorities /\ Faithful(p) /\ auth.boot <= boot /\ boot = 0
  BY DEF SystemInv, EInv, IInv, TypeInv, TypeOK, EnvelopeInv, ProgramInv
<1>2. auth.boot = boot
  BY <1>1 DEF Authorities
<1>3. Backed(p)
  BY <1>2 DEF SystemInv, EInv, EnvelopeInv
<1>4. evidence[p] # Nil
  BY <1>1, <1>3, NilIsNoRecord DEF Faithful, Backed
<1>5. auth.evidence.act = auth.cand.act
  BY <1>1, <1>3, <1>4 DEF Faithful, Backed, HeldInv
<1>6. activations[p] \in Activations
  BY <1>1, <1>3, ActivationType DEF Backed
<1>7. auth.bind = EpochZero
  BY <1>1 DEF Faithful, HeldInv
<1> QED
  BY <1>1, <1>2, <1>3, <1>4, <1>5, <1>6, <1>7, NilIsNoRecord DEF Faithful, Backed

\* A call under way holds such an envelope, for its own candidate.
LEMMA HoldingFacts ==
    ASSUME SystemInv, ProgramInv, HeldInv, NEW s \in SinkCalls, sinkPC[s] \in Holding
    PROVE  /\ IssuerOf(s) \in PedCalls /\ released[IssuerOf(s)] # Nil
           /\ sinkReq[s].auth = IssuerOf(s) /\ AuthOf(s) = released[IssuerOf(s)]
           /\ sinkReq[s].cand = AuthOf(s).cand /\ sinkReq[s].intact
  BY DEF SystemInv, EInv, IInv, TypeInv, SinkShape, IssueInv, CheckedInv, Checked, HeldInv,
     IssuerOf, AuthOf

\* What an envelope of this process gets for the candidate it is for: denied
\* if it was altered, else at most for its age.
LEMMA EnvelopeAnswer ==
    ASSUME SystemInv, ProgramInv, HeldInv,
           NEW req \in Requests, req.auth \in PedCalls, released[req.auth] # Nil,
           req.cand = released[req.auth].cand, NEW now
    PROVE  /\ req.intact => EnvelopeCheck(req, now) \in {Pass, Stale}
           /\ ~req.intact => EnvelopeCheck(req, now) \in {"INVALID_AUTHORITY", Stale}
<1> DEFINE auth == released[req.auth]
           checks == << <<~KeyAccepted(auth) \/ ~req.intact, "INVALID_AUTHORITY">>,
                        <<now >= auth.expires,               Stale>>,
                        <<req.cand # auth.cand,              "ACT_MISMATCH">> >>
<1>1. EnvelopeCheck(req, now) = FirstDenial(checks)
  BY StateAssumption DEF EnvelopeCheck, Stale, StateAssumption
<1>2. DOMAIN checks = 1..3
  OBVIOUS
<1>3. KeyAccepted(auth)
  BY GrantFacts DEF KeyAccepted
<1>4. /\ checks[1][1] <=> ~req.intact
      /\ ~checks[3][1]
      /\ checks[1][2] = "INVALID_AUTHORITY" /\ checks[2][2] = Stale
  BY <1>3
<1> HIDE DEF checks
<1>5. \/ FirstDenial(checks) = Pass /\ ~checks[1][1]
      \/ checks[1][1] /\ FirstDenial(checks) = checks[1][2]
      \/ FirstDenial(checks) = checks[2][2]
  <2>1. \A i \in 1..3 : checks[i][1] => i = 1 \/ i = 2
    BY <1>4
  <2> QED BY <1>2, <2>1, FirstDenialFacts
<1> QED BY <1>1, <1>4, <1>5

\* Its evidence is found, and found to be its own.
LEMMA EvidenceAnswer ==
    ASSUME SystemInv, ProgramInv, HeldInv, NEW s \in SinkCalls, sinkPC[s] \in Holding
    PROVE  EvidenceCheck(s) = Pass
<1> DEFINE record == evidence[sinkReq[s].auth]
           checks == << <<record # AuthOf(s).evidence,      "EVIDENCE_MISSING">>,
                        <<record.decision # "ALLOW",        "EVIDENCE_MISSING">>,
                        <<record.act # sinkReq[s].cand.act, "EVIDENCE_MISSING">> >>
<1>1. EvidenceCheck(s) = FirstDenial(checks)
  BY HoldingFacts, GrantFacts DEF EvidenceCheck
<1>2. DOMAIN checks = 1..3
  OBVIOUS
<1>3. /\ record = AuthOf(s).evidence /\ record.decision = "ALLOW"
      /\ record.act = sinkReq[s].cand.act
  BY HoldingFacts, GrantFacts
<1>4. ~checks[1][1] /\ ~checks[2][1] /\ ~checks[3][1]
  BY <1>3
<1> HIDE DEF checks
<1>5. \A i \in 1..3 : ~checks[i][1]
  BY <1>4
<1> QED BY <1>1, <1>2, <1>5, FirstDenialFacts

\* Its activation record, too; only its age and the sink can be wrong.
LEMMA ActivationAnswer ==
    ASSUME SystemInv, ProgramInv, HeldInv, NEW s \in SinkCalls, sinkPC[s] \in Holding
    PROVE  IF sinkReq[s].cand.sink.id = sinkReq[s].sink.id
           THEN ActivationCheck(s) \in {Pass, Stale}
           ELSE ActivationCheck(s) \in {"SINK_MISMATCH", Stale}
<1> DEFINE record == activations[sinkReq[s].auth]
           checks == <<
                <<sinkNow[s] >= record.expires,        Stale>>,
                <<record.sink # sinkReq[s].sink.id,    "SINK_MISMATCH">>,
                <<record.authority # AuthOf(s),        "PROTECTED_STATE_MISMATCH">>,
                <<record.cand # sinkReq[s].cand,       "PROTECTED_STATE_MISMATCH">> >>
<1>1. ActivationCheck(s) = FirstDenial(checks)
  BY HoldingFacts, GrantFacts DEF ActivationCheck, Stale
<1>2. DOMAIN checks = 1..4
  OBVIOUS
<1>3. /\ record.authority = AuthOf(s) /\ record.cand = sinkReq[s].cand
      /\ record.sink = sinkReq[s].cand.sink.id
  <2>1. record = ActivationOf(AuthOf(s)) /\ AuthOf(s).sink = AuthOf(s).cand.sink.id
    BY HoldingFacts, GrantFacts DEF Faithful
  <2>2. /\ record.authority = AuthOf(s) /\ record.cand = AuthOf(s).cand
        /\ record.sink = AuthOf(s).sink
    BY <2>1 DEF ActivationOf
  <2> QED BY <2>1, <2>2, HoldingFacts
<1>4. /\ checks[2][1] <=> sinkReq[s].cand.sink.id # sinkReq[s].sink.id
      /\ ~checks[3][1] /\ ~checks[4][1]
      /\ checks[1][2] = Stale /\ checks[2][2] = "SINK_MISMATCH"
  BY <1>3
<1> HIDE DEF checks
<1>5. \A i \in 1..4 : checks[i][1] => i = 1 \/ (i = 2 /\ checks[2][1])
  BY <1>4
<1>6. \/ FirstDenial(checks) = Pass /\ ~checks[2][1]
      \/ FirstDenial(checks) = checks[1][2]
      \/ checks[2][1] /\ FirstDenial(checks) = checks[2][2]
  BY <1>2, <1>5, FirstDenialFacts
<1> QED BY <1>1, <1>4, <1>6

\* Its boundary is the sink it names.
LEMMA BoundaryAnswer ==
    ASSUME SystemInv, ProgramInv, HeldInv, NEW s \in SinkCalls, sinkPC[s] \in Holding,
           sinkReq[s].cand.sink = sinkReq[s].sink
    PROVE  BoundaryCheck(s) = Pass
<1> DEFINE req == sinkReq[s]
           checks == <<
            <<AuthOf(s).sink # req.sink.id \/ req.cand.sink.id # req.sink.id,
                                                       "SINK_MISMATCH">>,
            <<AuthOf(s).boundary # req.sink \/ req.cand.sink.type # req.sink.type,
                                                       "EFFECTUATION_BOUNDARY_MISMATCH">> >>
<1>1. BoundaryCheck(s) = FirstDenial(checks)
  BY DEF BoundaryCheck
<1>2. DOMAIN checks = 1..2
  OBVIOUS
<1>3. AuthOf(s).sink = req.sink.id /\ AuthOf(s).boundary = req.sink
  BY HoldingFacts, GrantFacts DEF Faithful
<1>4. ~checks[1][1] /\ ~checks[2][1]
  BY <1>3
<1> HIDE DEF checks
<1>5. \A i \in 1..2 : ~checks[i][1]
  BY <1>4
<1> QED BY <1>1, <1>2, <1>5, FirstDenialFacts

\* An effect with other parameters than the act's is for no act at all.
LEMMA SubstituteAnswer ==
    ASSUME SystemInv, ProgramInv, HeldInv, NEW s \in SinkCalls, sinkPC[s] \in Holding,
           sinkReq[s].effect = MakeEffect(sinkReq[s].cand, "other"),
           sinkReq[s].cand.params # "other"
    PROVE  EffectCheck(s) = "ACT_MISMATCH"
<1> DEFINE scope == AuthOf(s).scope
           c == sinkReq[s].cand
           e == sinkReq[s].effect
           checks == <<
            <<AuthOf(s).nonce # c.nonce,               "NONCE_FAILURE">>,
            <<activations[sinkReq[s].auth].nonce # c.nonce, "NONCE_FAILURE">>,
            <<scope.type # c.type,                     "CONSEQUENCE_CLASS_MISMATCH">>,
            <<scope.resourceType # e.resourceType,     "SCOPE_MISMATCH">>,
            <<scope.resources # e.resources,           "SCOPE_MISMATCH">>,
            <<scope.purpose # c.purpose,               "PURPOSE_MISMATCH">>,
            <<scope.jurisdiction # c.jurisdiction,     "JURISDICTION_MISMATCH">>,
            <<scope.effectType # e.effectType,         "CONSEQUENCE_CLASS_MISMATCH">>,
            <<e.params # e.digest,                     "DESCRIPTOR_MISMATCH">>,
            <<e.digest # scope.params,                 "ACT_MISMATCH">>,
            <<\E limit \in scope.duration : Exceeds(e.duration, limit),
                                                       "SCOPE_MISMATCH">> >>
<1>1. EffectCheck(s) = FirstDenial(checks)
  BY DEF EffectCheck
<1>2. DOMAIN checks = 1..11
  OBVIOUS
<1>3. /\ scope = ScopeOf(c) /\ AuthOf(s).nonce = c.nonce
      /\ activations[sinkReq[s].auth] = ActivationOf(AuthOf(s))
  BY HoldingFacts, GrantFacts DEF Faithful
<1>4. activations[sinkReq[s].auth].nonce = c.nonce
  BY <1>3 DEF ActivationOf
<1>5. /\ scope.type = c.type /\ scope.purpose = c.purpose
      /\ scope.jurisdiction = c.jurisdiction /\ scope.params = c.params
      /\ scope.resourceType = c.resourceType /\ scope.resources = c.resources
      /\ scope.effectType = c.effectType
  BY <1>3 DEF ScopeOf
<1>6. /\ e.resourceType = c.resourceType /\ e.resources = c.resources
      /\ e.effectType = c.effectType /\ e.params = "other" /\ e.digest = "other"
  BY DEF MakeEffect
<1>7. /\ ~checks[1][1] /\ ~checks[2][1] /\ ~checks[3][1] /\ ~checks[4][1] /\ ~checks[5][1]
      /\ ~checks[6][1] /\ ~checks[7][1] /\ ~checks[8][1] /\ ~checks[9][1]
      /\ checks[10][1] /\ checks[10][2] = "ACT_MISMATCH"
  BY <1>3, <1>4, <1>5, <1>6
<1> HIDE DEF checks
<1>8. \A i \in 1..11 : checks[i][1] => i = 10 \/ i = 11
  BY <1>7
<1>9. FirstDenial(checks) = checks[10][2]
  BY <1>2, <1>7, <1>8, FirstDenialFacts
<1> QED BY <1>1, <1>7, <1>9

\* How a call leaves each of its unlocked checks.
Answers(s, reason, pc) ==
    sinkCode'[s] = reason /\ sinkPC'[s] = IF reason = Pass THEN pc ELSE "denied"

LEMMA CheckSteps ==
    ASSUME TypeInv, NEW s \in SinkCalls, SinkStep(s),
           sinkPC[s] \in {"evidence", "activation", "used", "state"}
    PROVE  \/ sinkPC'[s] = "raised"
           \/ sinkPC[s] = "evidence" /\ Answers(s, EvidenceCheck(s), "activation")
           \/ sinkPC[s] = "activation" /\ Answers(s, ActivationCheck(s), "used")
           \/ sinkPC[s] = "used" /\ Answers(s, IF IssuerOf(s) \in used THEN AlreadyUsed
                                               ELSE BoundaryCheck(s), "state")
           \/ sinkPC[s] = "state" /\ SinkCompareEpoch(s)
<1>1. SinkReadEvidence(s) \/ SinkReadActivation(s) \/ SinkReadUsed(s) \/ SinkCompareEpoch(s)
      \/ SinkRaise(s)
  BY DEF SinkStep, SinkTakeLock, SinkTakeNetworkLock, SinkRecheck, SinkConsume, SinkApply,
     SinkApplyRaises, SinkUndo
<1> USE DEF TypeInv, TypeOK, SinkTypeOK, SinkProceed, SinkGoto, Answers
<1>2. CASE SinkReadEvidence(s)
  BY <1>2 DEF SinkReadEvidence
<1>3. CASE SinkReadActivation(s)
  BY <1>3 DEF SinkReadActivation
<1>4. CASE SinkReadUsed(s)
  BY <1>4 DEF SinkReadUsed, IssuerOf, AlreadyUsed
<1>5. CASE SinkCompareEpoch(s)
  BY <1>5 DEF SinkCompareEpoch, CompareEpoch
<1>6. CASE SinkRaise(s)
  BY <1>6 DEF SinkRaise
<1> QED BY <1>1, <1>2, <1>3, <1>4, <1>5, <1>6

-----------------------------------------------------------------------------
(* The replay.                                                             *)

\* The replay is of the request that took effect, and gets no further than
\* its used mark.
ReplayInv ==
    args.replay /\ sinkPC[Second] # "idle" =>
        /\ sinkReq[Second] = sinkReq[First]
        /\ sinkPC[Second] \in {"evidence", "activation", "used", "denied", "raised"}
        /\ sinkPC[Second] = "denied" => sinkCode[Second] \in {AlreadyUsed, Stale}

\* A call that is ok has used its authority up, and its sink is the right one.
LEMMA OkFacts ==
    ASSUME SystemInv, ProgramInv, HeldInv, NEW s \in SinkCalls, sinkPC[s] = "ok"
    PROVE  /\ IssuerOf(s) \in PedCalls /\ released[IssuerOf(s)] # Nil
           /\ sinkReq[s] \in Requests /\ sinkReq[s].auth = IssuerOf(s) /\ sinkReq[s].intact
           /\ sinkReq[s].cand = released[IssuerOf(s)].cand
           /\ sinkReq[s].cand.sink = sinkReq[s].sink
           /\ IssuerOf(s) \in used
<1>1. sinkPC[s] \in Holding /\ Passed(s)
  BY DEF Holding, Passed
<1>2. /\ IssuerOf(s) \in PedCalls /\ released[IssuerOf(s)] # Nil
      /\ sinkReq[s].auth = IssuerOf(s) /\ AuthOf(s) = released[IssuerOf(s)]
      /\ sinkReq[s].cand = AuthOf(s).cand /\ sinkReq[s].intact
  BY <1>1, HoldingFacts
<1>3. activations[IssuerOf(s)] # Nil /\ Faithful(IssuerOf(s))
  BY <1>2, GrantFacts
<1>4. IssuerOf(s) \in used
  BY <1>3 DEF HeldInv, SystemInv, EInv, IInv, UseInv
<1>5. AuthOf(s).boundary = sinkReq[s].sink
  BY <1>1, <1>2 DEF SystemInv, EInv, CheckedInv, Checked
<1>6. sinkReq[s] \in Requests
  BY DEF SystemInv, EInv, IInv, TypeInv, SinkShape
<1> QED BY <1>2, <1>3, <1>4, <1>5, <1>6 DEF Faithful

\* Every step keeps ReplayInv.
LEMMA ReplayStep ==
    ASSUME SystemInv, ProgramInv, EpochInv, ThreadInv, HeldInv, ReplayInv,
           [ClientNext]_allVars
    PROVE  ReplayInv'
<1>0. TypeInv /\ args.fault \in Faults
  BY DEF SystemInv, EInv, IInv, ProgramInv, Arguments, Faults
<1>1. First \in SinkCalls /\ Second \in SinkCalls /\ First # Second
  BY OrderFacts
<1>2. args.replay => round = 1 /\ Verification = First
  BY OrderFacts DEF ProgramInv, Arguments
<1>3. args.replay /\ sinkPC[Second] # "idle" =>
         sinkPC[First] = "ok" /\ client \in {"replayed", "end"}
  <2>1. 2 \in DOMAIN SinkOrder /\ Second = SinkOrder[2]
    BY OrderFacts DEF Second
  <2> QED BY <1>2, <2>1 DEF ThreadInv
<1>4. CASE UNCHANGED <<args, sinkPC, sinkReq, sinkCode>>
  BY <1>4 DEF ReplayInv
<1>5. CASE ClientVerify
  <2>1. /\ SinkCall(Verification, RequestOf(args.fault)) /\ args' = args
        /\ client = "verify"
    BY <1>5 DEF ClientVerify, Resume
  <2>2. RequestOf(args.fault) \in Requests
    BY <1>0, <2>1, CallFacts
  <2>3. args.replay => sinkPC[Second] = "idle" /\ sinkPC'[Second] = "idle"
    BY <1>0, <1>1, <1>2, <1>3, <2>1, <2>2, SinkCallMade DEF SinkKept
  <2> QED BY <2>1, <2>3 DEF ReplayInv
<1>6. CASE ClientReplay
  <2> DEFINE req == RequestOf(args.fault)
  <2>1. SinkCall(Second, req) /\ args' = args /\ client = "replay"
    BY <1>6 DEF ClientReplay, Second, Resume
  <2>2. req \in Requests
    BY <1>0, <2>1, CallFacts
  <2>3. sinkPC[First] = "ok" /\ req = sinkReq[First]
    BY <1>2, <2>1 DEF ThreadInv
  <2>4. EnvelopeCheck(req, clock) \in {Pass, Stale}
    BY <1>1, <2>2, <2>3, OkFacts, EnvelopeAnswer
  <2>5. /\ sinkReq'[Second] = req /\ sinkReq'[First] = sinkReq[First]
        /\ sinkPC'[Second] \in {"evidence", "denied"}
    BY <1>0, <1>1, <2>1, <2>2, SinkCallMade DEF SinkKept
  <2>6. sinkCode'[Second] = EnvelopeCheck(req, clock)
        /\ (sinkPC'[Second] = "denied" => EnvelopeCheck(req, clock) # Pass)
    BY <1>0, <1>1, <2>1 DEF SinkCall, SinkProceed, SinkGoto, TypeInv, TypeOK, SinkTypeOK
  <2> HIDE DEF req
  <2> QED BY <2>3, <2>4, <2>5, <2>6 DEF ReplayInv
<1>7. CASE (\E t \in SinkCalls : SinkStep(t)) /\ UNCHANGED clientVars
  <2> SUFFICES ASSUME args.replay, sinkPC'[Second] # "idle" PROVE ReplayInv'
    BY <1>7 DEF ReplayInv, clientVars
  <2>1. PICK t \in SinkCalls : SinkStep(t)
    BY <1>7
  <2>2. SinkActive(t) /\ sinkReq' = sinkReq /\ \A u \in SinkCalls : u # t => SinkKept(u)
    BY <1>0, <2>1, SinkRunMoves
  <2>3. args' = args
    BY <1>7 DEF clientVars
  <2>4. CASE t # Second
    BY <1>1, <2>2, <2>3, <2>4 DEF ReplayInv, SinkKept
  <2>5. CASE t = Second
    <3>1. /\ sinkPC[Second] \in {"evidence", "activation", "used"} /\ sinkPC[Second] \in Holding
          /\ sinkReq[Second] = sinkReq[First] /\ sinkPC[First] = "ok"
      BY <1>3, <2>2, <2>5 DEF ReplayInv, SinkActive, SinkEnds, Holding
    <3>2. /\ IssuerOf(Second) \in used
          /\ sinkReq[Second].cand.sink = sinkReq[Second].sink
      BY <1>1, <3>1, OkFacts DEF IssuerOf
    <3>3. EvidenceCheck(Second) = Pass /\ ActivationCheck(Second) \in {Pass, Stale}
      BY <1>1, <3>1, <3>2, EvidenceAnswer, ActivationAnswer
    <3>4. /\ sinkPC'[Second] \in {"activation", "used", "denied", "raised"}
          /\ sinkPC'[Second] = "denied" => sinkCode'[Second] \in {AlreadyUsed, Stale}
      BY <1>0, <1>1, <2>1, <2>5, <3>1, <3>2, <3>3, CheckSteps
         DEF Answers, Pass, AlreadyUsed, Stale
    <3> QED BY <2>2, <2>3, <3>1, <3>4 DEF ReplayInv
  <2> QED BY <2>4, <2>5
<1> QED
  BY <1>0, <1>4, <1>5, <1>6, <1>7, ProgramKinds
     DEF ClientMake, ClientDecided, ClientVerdict, ClientReplayed, ClientValidate,
         ClientSimulate, Exit, Resume, vars, sinkVars, clientVars

-----------------------------------------------------------------------------
(* The simulated faults.                                                   *)

\* How far the one call of a faulty demo gets before the check that refuses it.
Reached(fault) ==
    CASE fault = "signature-tamper" -> {}
      [] fault = "sink-substitution" -> {"evidence", "activation"}
      [] OTHER -> {"evidence", "activation", "used", "state"}

FaultInv ==
    args.fault # "none" =>
        /\ used = {}
        /\ \A t \in SinkCalls : sinkPC[t] # "idle" =>
              t = First /\ sinkPC[t] \in Reached(args.fault) \cup {"denied", "raised"}
        /\ sinkPC[First] = "state" /\ args.fault = "topology-change" => sinkIdx[First] <= 2
        /\ sinkPC[First] = "denied" => sinkCode[First] \in {FaultReason[args.fault], Stale}

\* The request of a faulty demo: for the candidate, whole but for the fault.
LEMMA FaultyRequest ==
    ASSUME ProgramInv, ThreadInv, client \in Late, args.fault # "none"
    PROVE  LET req == RequestOf(args.fault) IN
           /\ args.fault \in Faults \ {"none"} /\ Verification = First
           /\ req \in Requests /\ req.auth = Validation /\ req.cand = candidate
           /\ pedCand[Validation] = candidate /\ Validation \in PedCalls
           /\ req.intact <=> args.fault # "signature-tamper"
           /\ IF args.fault = "sink-substitution"
              THEN candidate.sink.id # req.sink.id ELSE candidate.sink = req.sink
           /\ args.fault = "parameter-substitution" =>
                 req.effect = MakeEffect(candidate, "other") /\ candidate.params # "other"
<1>1. args.fault \in Faults /\ args.program = "demo"
  BY OrderFacts DEF ProgramInv, Arguments, Faults
<1>2. client # "make"
  BY DEF Late
<1>3. pedPC[Validation] = "issued" /\ pedCand[Validation] = candidate
  BY <1>1 DEF ThreadInv
<1>4. /\ "id" \in DOMAIN candidate.sink /\ candidate.sink.id # "other-sink"
      /\ candidate.params # "other" /\ RequestOf(args.fault) \in Requests
      /\ Validation \in PedCalls
  BY <1>1, <1>2, CallFacts
<1>5. [candidate.sink EXCEPT !.id = "other-sink"].id = "other-sink"
  BY <1>4
<1> QED BY <1>1, <1>3, <1>4, <1>5, OrderFacts DEF RequestOf

\* A comparison of a faulty demo: it finds the epoch that was moved, or, when
\* none was, the effect that was changed.
LEMMA FaultyComparison ==
    ASSUME SystemInv, ProgramInv, EpochInv, ThreadInv, HeldInv, FaultInv,
           client = "verdict",
           args.fault \in {"topology-change", "revocation", "parameter-substitution"},
           sinkPC[First] = "state", SinkCompareEpoch(First)
    PROVE  \/ /\ sinkPC'[First] = "state"
              /\ args.fault = "topology-change" => sinkIdx'[First] <= 2
           \/ sinkPC'[First] = "denied" /\ sinkCode'[First] = FaultReason[args.fault]
<1> DEFINE i == sinkIdx[First]
           kind == Kinds[i]
<1>1. /\ First \in SinkCalls /\ i \in 1..6 /\ kind \in KindSet /\ Verification = First
      /\ client \in Late
  BY OrderFacts, FaultyRequest, KindFacts
     DEF SystemInv, EInv, IInv, TypeInv, TypeOK, SinkTypeOK, Late
<1>2. AuthOf(First).bind = EpochZero /\ sinkPC[First] \in Holding
  BY <1>1, HoldingFacts, GrantFacts DEF Holding
<1>3. AuthOf(First).bind[kind] = 0 /\ epoch[kind] = IF Assigned(args.fault, kind) THEN 1 ELSE 0
  BY <1>1, <1>2 DEF EpochZero, EpochInv
<1>4. /\ kind = "topology" <=> i = 2
      /\ kind = "revocation" <=> i = 6
  BY <1>1 DEF Kinds
<1>5. AuthOf(First).bind[kind] = epoch[kind] <=>
          ~\/ args.fault = "topology-change" /\ i = 2
           \/ args.fault = "revocation" /\ i = 6
  BY <1>3, <1>4 DEF Assigned
<1>6. args.fault = "topology-change" => i <= 2
  BY DEF FaultInv
<1> DEFINE reason == IF AuthOf(First).bind[kind] # epoch[kind] THEN EpochReason[kind]
                     ELSE IF i = 6 THEN EffectCheck(First) ELSE Pass
<1>7. /\ sinkCode'[First] = reason
      /\ sinkPC'[First] = IF reason # Pass THEN "denied" ELSE IF i = 6 THEN "lock" ELSE "state"
      /\ sinkIdx'[First] = IF i = 6 THEN i ELSE i + 1
  BY <1>1, KindFacts DEF SinkCompareEpoch, CompareEpoch, SinkProceed, SinkGoto, SystemInv,
     EInv, IInv, TypeInv, TypeOK, SinkTypeOK
<1>8. CASE args.fault = "topology-change" /\ i = 2
  <2>1. reason = "NETWORK_STATE_MISMATCH"
    BY <1>4, <1>5, <1>8 DEF EpochReason
  <2> QED BY <1>7, <1>8, <2>1 DEF FaultReason, Faults, Pass
<1>9. CASE args.fault = "revocation" /\ i = 6
  <2>1. reason = "REVOCATION_STATE_MISMATCH"
    BY <1>4, <1>5, <1>9 DEF EpochReason
  <2> QED BY <1>7, <1>9, <2>1 DEF FaultReason, Faults, Pass
<1>10. CASE args.fault = "parameter-substitution" /\ i = 6
  <2>1. EffectCheck(First) = "ACT_MISMATCH"
    BY <1>1, <1>2, <1>10, FaultyRequest, SubstituteAnswer DEF ThreadInv
  <2> QED BY <1>5, <1>7, <1>10, <2>1 DEF FaultReason, Faults, Pass
<1>11. CASE i # 6 /\ ~(args.fault = "topology-change" /\ i = 2)
  <2>1. reason = Pass
    BY <1>5, <1>11
  <2>2. args.fault = "topology-change" => i + 1 <= 2
    BY <1>1, <1>6, <1>11
  <2> QED BY <1>7, <1>11, <2>1, <2>2
<1> QED BY <1>6, <1>8, <1>9, <1>10, <1>11

\* Every step keeps FaultInv.
LEMMA FaultStep ==
    ASSUME SystemInv, ProgramInv, EpochInv, ThreadInv, HeldInv, FaultInv,
           [ClientNext]_allVars
    PROVE  FaultInv'
<1>0. TypeInv /\ First \in SinkCalls /\ args' = args
  <2>1. args' = args
    BY ProgramKinds DEF SystemInv, EInv, IInv, ClientMake, ClientDecided, ClientVerdict,
       ClientReplayed, ClientValidate, ClientSimulate, ClientVerify, ClientReplay, Exit,
       Resume, clientVars
  <2> QED BY <2>1, OrderFacts DEF SystemInv, EInv, IInv
<1> SUFFICES ASSUME args.fault # "none" PROVE FaultInv'
  BY <1>0 DEF FaultInv
<1> DEFINE req == RequestOf(args.fault)
<1>1. CASE UNCHANGED <<used, sinkPC, sinkIdx, sinkCode>>
  BY <1>0, <1>1 DEF FaultInv
<1>2. CASE ClientVerify
  <2>1. /\ SinkCall(First, req) /\ client = "verify" /\ client \in Late
        /\ used' = used
    BY <1>2, OrderFacts DEF ClientVerify, Late, SinkCall, stateVars
  <2>2. /\ req \in Requests /\ req.auth \in PedCalls /\ req.cand = pedCand[req.auth]
        /\ req.intact <=> args.fault # "signature-tamper"
        /\ args.fault \in Faults \ {"none"}
    BY <2>1, FaultyRequest
  <2>3. released[req.auth] # Nil
    BY <2>1, <2>2, StateAssumption DEF SinkCall, StateAssumption
  <2>4. req.cand = released[req.auth].cand
    BY <2>2, <2>3, GrantFacts DEF Faithful
  <2>5. IF args.fault = "signature-tamper"
        THEN EnvelopeCheck(req, clock) \in {"INVALID_AUTHORITY", Stale}
        ELSE EnvelopeCheck(req, clock) \in {Pass, Stale}
    BY <2>2, <2>3, <2>4, EnvelopeAnswer
  <2>6. /\ sinkCode'[First] = EnvelopeCheck(req, clock)
        /\ sinkPC'[First] = IF EnvelopeCheck(req, clock) = Pass THEN "evidence" ELSE "denied"
        /\ \A t \in SinkCalls : t # First => sinkPC'[t] = sinkPC[t]
    BY <1>0, <2>1 DEF SinkCall, SinkProceed, SinkGoto, TypeInv, TypeOK, SinkTypeOK
  <2> HIDE DEF req
  <2>7. args.fault = "signature-tamper" =>
            sinkPC'[First] = "denied" /\ sinkCode'[First] \in {FaultReason[args.fault], Stale}
    BY <2>5, <2>6 DEF FaultReason, Faults, Pass, Stale
  <2>8. args.fault # "signature-tamper" =>
            \/ sinkPC'[First] = "evidence" /\ "evidence" \in Reached(args.fault)
            \/ sinkPC'[First] = "denied" /\ sinkCode'[First] = Stale
    BY <2>2, <2>5, <2>6 DEF Reached, Faults
  <2> QED BY <1>0, <2>1, <2>6, <2>7, <2>8 DEF FaultInv
<1>3. ~ClientReplay
  <2>1. client = "replay" => sinkPC[First] = "ok"
    BY OrderFacts DEF ThreadInv
  <2>2. sinkPC[First] # "ok"
    BY <1>0 DEF FaultInv, Reached
  <2> QED BY <2>1, <2>2 DEF ClientReplay
<1>4. CASE \E t \in SinkCalls : SinkStep(t)
  <2>1. PICK t \in SinkCalls : SinkStep(t)
    BY <1>4
  <2>2. SinkActive(t) /\ \A u \in SinkCalls : u # t => SinkKept(u)
    BY <1>0, <2>1, SinkRunMoves
  <2>3. /\ t = First /\ sinkPC[First] \in Reached(args.fault)
        /\ client = "verdict" /\ Verification = First /\ sinkReq[First] = req
    BY <2>2, OrderFacts DEF FaultInv, ThreadInv, SinkActive, SinkEnds
  <2>4. /\ args.fault \in Faults \ {"none"} /\ args.fault # "signature-tamper"
        /\ sinkPC[First] \in {"evidence", "activation", "used", "state"}
        /\ sinkPC[First] \in {"used", "state"} => args.fault # "sink-substitution"
        /\ sinkPC[First] \in Holding /\ SinkStep(First)
    <3>1. args.fault \in Faults
      BY DEF ProgramInv, Arguments, Faults
    <3> QED BY <2>1, <2>3, <3>1 DEF Reached, Holding
  <2>5. IF args.fault = "sink-substitution"
        THEN sinkReq[First].cand.sink.id # sinkReq[First].sink.id
        ELSE sinkReq[First].cand.sink = sinkReq[First].sink
    BY <2>3, FaultyRequest DEF Late
  <2>6. /\ EvidenceCheck(First) = Pass
        /\ IF args.fault = "sink-substitution"
           THEN ActivationCheck(First) \in {"SINK_MISMATCH", Stale}
           ELSE ActivationCheck(First) \in {Pass, Stale} /\ BoundaryCheck(First) = Pass
    BY <1>0, <2>4, <2>5, EvidenceAnswer, ActivationAnswer, BoundaryAnswer
  <2>7. IssuerOf(First) \notin used /\ used = {}
    BY DEF FaultInv
  <2>8. sinkPC[First] = "used" => sinkIdx[First] = 1
    BY <1>0 DEF SystemInv, BInv, ComparedInv, Compared
  <2>9. \/ sinkPC'[First] = "raised"
        \/ sinkPC'[First] \in {"activation", "used"} /\ sinkPC'[First] \in Reached(args.fault)
        \/ /\ sinkPC'[First] = "state" /\ "state" \in Reached(args.fault)
           /\ args.fault = "topology-change" => sinkIdx'[First] <= 2
        \/ sinkPC'[First] = "denied" /\ sinkCode'[First] \in {FaultReason[args.fault], Stale}
    <3>1. \/ sinkPC'[First] = "raised"
          \/ sinkPC[First] = "evidence" /\ Answers(First, EvidenceCheck(First), "activation")
          \/ sinkPC[First] = "activation" /\ Answers(First, ActivationCheck(First), "used")
          \/ sinkPC[First] = "used" /\ Answers(First, BoundaryCheck(First), "state")
          \/ sinkPC[First] = "state" /\ SinkCompareEpoch(First)
      BY <1>0, <2>4, <2>7, CheckSteps
    <3>2. CASE sinkPC[First] = "evidence" /\ Answers(First, EvidenceCheck(First), "activation")
      BY <2>4, <2>6, <3>2 DEF Answers, Reached
    <3>3. CASE sinkPC[First] = "activation" /\ Answers(First, ActivationCheck(First), "used")
      <4>1. CASE args.fault = "sink-substitution"
        BY <2>6, <3>3, <4>1 DEF Answers, FaultReason, Faults, Pass, Stale
      <4>2. CASE args.fault # "sink-substitution"
        BY <2>4, <2>6, <3>3, <4>2 DEF Answers, Reached, Stale
      <4> QED BY <4>1, <4>2
    <3>4. CASE sinkPC[First] = "used" /\ Answers(First, BoundaryCheck(First), "state")
      <4>1. sinkIdx' = sinkIdx \/ sinkPC'[First] # "state"
        BY <1>0, <2>4, <3>4 DEF SinkStep, SinkReadEvidence, SinkReadActivation, SinkReadUsed,
           SinkCompareEpoch, CompareEpoch, SinkTakeLock, SinkTakeNetworkLock, SinkRecheck,
           SinkConsume, SinkApply, SinkApplyRaises, SinkUndo, SinkRaise
      <4> QED BY <2>4, <2>6, <2>8, <3>4, <4>1 DEF Answers, Reached
    <3>5. CASE sinkPC[First] = "state" /\ SinkCompareEpoch(First)
      <4>1. args.fault \in {"topology-change", "revocation", "parameter-substitution"}
        BY <2>4, <3>5 DEF Faults
      <4> QED BY <2>3, <2>4, <3>5, <4>1, FaultyComparison DEF Reached
    <3> QED BY <3>1, <3>2, <3>3, <3>4, <3>5
  <2>10. used' = {}
    <3>1. SinkNext(First)
      BY <2>4 DEF SinkNext
    <3>2. sinkPC'[First] # "apply"
      BY <2>9
    <3> QED BY <1>0, <2>7, <3>1, <3>2, UseMoves
  <2> QED BY <1>0, <2>2, <2>3, <2>9, <2>10 DEF FaultInv, SinkKept
<1>5. ASSUME NEW q \in PedCalls, PedNext(q) PROVE used' = used
  BY <1>0, <1>5, PedMoves
<1>6. ClientValidate => used' = used
  BY DEF ClientValidate, PedCall, stateVars
<1> QED
  BY <1>0, <1>1, <1>2, <1>3, <1>4, <1>5, <1>6, ProgramKinds
     DEF ClientSimulate, vars, stateVars, storeVars, sinkVars

-----------------------------------------------------------------------------
(* The effects of a program.                                               *)

\* One effect for each iteration that is over, and at most one for the
\* iteration at hand.
CountInv ==
    /\ IsFiniteSet(effects)
    /\ Cardinality(effects) = IF Verification \in effects THEN round ELSE round - 1

\* Every step keeps CountInv: only the verification of the iteration at hand
\* can make an effect, and the next iteration begins once it has.
LEMMA CountStep ==
    ASSUME SystemInv, ProgramInv, EpochInv, ThreadInv, HeldInv, ReplayInv, CountInv,
           [ClientNext]_allVars
    PROVE  CountInv'
<1>0. TypeInv /\ round \in Nat /\ Verification \in SinkCalls /\ Second \in SinkCalls
  BY OrderFacts DEF SystemInv, EInv, IInv
<1>1. CASE UNCHANGED <<effects, round>>
  BY <1>1 DEF CountInv, Verification
<1>2. CASE ClientVerdict /\ UNCHANGED vars
  <2> SUFFICES ASSUME round' # round PROVE CountInv'
    BY <1>1, <1>2 DEF vars, sinkVars
  <2>1. /\ sinkPC[Verification] = "ok" /\ round' = round + 1 /\ client' = "make"
        /\ UNCHANGED <<effects, sinkPC>>
    BY <1>2 DEF ClientVerdict, Exit, Resume, vars, sinkVars
  <2>2. Verification \in effects
    BY <1>0, <2>1 DEF HeldInv
  <2>3. sinkPC'[Verification'] = "idle"
    BY <2>1, ThreadStep, <1>0 DEF ThreadInv, Early
  <2>4. Verification' \notin effects
    BY <2>1, <2>3 DEF SystemInv, EInv, IInv, UseInv
  <2> QED BY <1>0, <2>1, <2>2, <2>4 DEF CountInv
<1>3. ASSUME NEW t \in SinkCalls, SinkNext(t), UNCHANGED round,
             sinkPC[t] = "apply" => t = Verification
      PROVE  CountInv'
  <2>1. CASE effects' = effects
    BY <1>1, <1>3, <2>1
  <2>2. CASE sinkPC[t] = "apply" /\ effects' = effects \cup {Verification}
    <3>1. Verification \notin effects
      BY <1>3, <2>2 DEF SystemInv, EInv, IInv, UseInv
    <3>2. Verification' = Verification
      BY <1>3 DEF Verification
    <3>3. IsFiniteSet(effects') /\ Cardinality(effects') = Cardinality(effects) + 1
      BY <2>2, <3>1, FS_AddElement DEF CountInv
    <3> QED BY <1>0, <1>3, <2>2, <3>1, <3>2, <3>3 DEF CountInv
  <2> QED BY <1>0, <1>3, <2>1, <2>2, EffectMoves
<1>4. CASE (\E t \in SinkCalls : SinkStep(t)) /\ UNCHANGED clientVars
  <2>1. PICK t \in SinkCalls : SinkStep(t)
    BY <1>4
  <2>2. SinkActive(t) /\ SinkNext(t)
    BY <1>0, <2>1, SinkRunMoves DEF SinkNext
  <2>3. t = Verification \/ (args.replay /\ t = Second)
    BY <2>2 DEF ThreadInv
  <2>4. sinkPC[t] = "apply" => t = Verification
    BY <2>3 DEF ReplayInv
  <2> QED BY <1>3, <1>4, <2>2, <2>4 DEF clientVars
<1>5. CASE ClientVerify \/ ClientReplay
  <2>1. PICK t \in SinkCalls, req \in Requests : SinkCall(t, req)
    BY <1>5, CallFacts DEF ClientVerify, ClientReplay, ProgramInv, Arguments, Faults
  <2>2. sinkPC[t] # "apply" /\ SinkNext(t)
    BY <1>0, <2>1, SinkCallMade DEF SinkNext
  <2> QED BY <1>3, <1>5, <2>2 DEF ClientVerify, ClientReplay, Resume
<1> QED
  BY <1>0, <1>1, <1>2, <1>4, <1>5, ProgramKinds
     DEF ClientMake, ClientDecided, ClientReplayed, ClientValidate, ClientSimulate,
         Exit, Resume, vars, sinkVars, clientVars

-----------------------------------------------------------------------------
(* What the programs show.                                                 *)

ClientInv == ProgramInv /\ EpochInv /\ ThreadInv /\ HeldInv /\ ExitInv
             /\ ReplayInv /\ FaultInv /\ CountInv

LEMMA SystemInvariant == ClientSpec => []SystemInv
  BY ProgramsUseTheSystem, InvariantE, InvariantB, PTL DEF SystemInv

LEMMA ClientStart == ClientInit => ClientInv
<1> SUFFICES ASSUME ClientInit PROVE ClientInv
  OBVIOUS
<1>1. /\ client = "make" /\ args \in Arguments /\ round = 1
      /\ sinkPC = [s \in SinkCalls |-> "idle"] /\ used = {} /\ effects = {}
      /\ evidence = [p \in PedCalls |-> Nil] /\ pedBind = [p \in PedCalls |-> EpochZero]
  BY DEF ClientInit, Init, StateInit, PedInit, SinkInit
<1>2. ProgramInv /\ EpochInv /\ ThreadInv
  BY ProgramInit, ThreadInit
<1>3. Second \in SinkCalls /\ First \in SinkCalls
  BY <1>2, OrderFacts
<1>4. HeldInv /\ ExitInv /\ ReplayInv /\ FaultInv
  BY <1>1, <1>3 DEF HeldInv, ExitInv, ReplayInv, FaultInv, Holding, Locking, Critical
<1>5. CountInv
  BY <1>1, FS_EmptySet DEF CountInv
<1> QED BY <1>2, <1>4, <1>5 DEF ClientInv

\* ClientInv holds throughout: each of its conjuncts by its own lemma.
LEMMA ClientInvariant == ClientSpec => [](SystemInv /\ ClientInv)
<1>1. SystemInv /\ ClientInv /\ [ClientNext]_allVars => ClientInv'
  <2> SUFFICES ASSUME SystemInv, ClientInv, [ClientNext]_allVars PROVE ClientInv'
    OBVIOUS
  <2>1. TypeInv /\ EvidenceInv
    BY DEF SystemInv, EInv, IInv
  <2> QED BY <2>1, ProgramStep, ThreadStep, HeldStep, ExitStep, ReplayStep, FaultStep,
             CountStep DEF ClientInv
<1> QED
  BY <1>1, SystemInvariant, ClientStart, PTL DEF ClientSpec

\* Theorem ReplayNeverSucceeds: whatever time passes, the envelope that a demo
\* presents once more is denied, as used or as expired.
THEOREM ReplayNeverSucceeds == ClientSpec => []ReplayIsRefused
<1>1. SystemInv /\ ClientInv => ReplayIsRefused
  <2> SUFFICES ASSUME ClientInv, args.replay, sinkPC[Second] \in SinkEnds \ {"raised"}
               PROVE  /\ sinkPC[Second] = "denied"
                      /\ sinkCode[Second] \in {"AUTHORITY_ALREADY_USED", "STALE_AUTHORITY"}
    BY DEF ReplayIsRefused, Second
  <2> QED BY DEF ClientInv, ReplayInv, SinkEnds, AlreadyUsed, Stale
<1> QED BY <1>1, ClientInvariant, PTL

\* Theorem FaultNeverSucceeds: a demo with a simulated fault never has an
\* effect, and is denied by the check the fault is about, or by an expiry.
THEOREM FaultNeverSucceeds == ClientSpec => []SimulatedFaultIsRefused
<1>1. SystemInv /\ ClientInv => SimulatedFaultIsRefused
  <2> SUFFICES ASSUME SystemInv, ClientInv, args.fault # "none"
               PROVE  /\ effects = {}
                      /\ exit = 3 => sinkCode[Verification] \in
                                        {FaultReason[args.fault], "STALE_AUTHORITY"}
    BY DEF SimulatedFaultIsRefused
  <2>0. ProgramInv /\ FaultInv /\ ExitInv /\ UseInv /\ TypeInv
    BY DEF ClientInv, SystemInv, EInv, IInv
  <2>1. \A t \in SinkCalls : sinkPC[t] # "ok"
    BY <2>0 DEF FaultInv, Reached
  <2>2. effects = {}
    BY <2>0, <2>1 DEF UseInv, TypeInv, TypeOK, SinkTypeOK
  <2>3. ASSUME exit = 3
        PROVE  sinkCode[Verification] \in {FaultReason[args.fault], "STALE_AUTHORITY"}
    <3>1. client = "end"
      BY <2>0, <2>3, ProgramAssumption DEF ProgramInv, ProgramAssumption
    <3>2. args.program = "demo" /\ Verification = First
      BY <2>0, OrderFacts DEF ProgramInv, Arguments
    <3>3. sinkPC[First] = "denied"
      BY <2>0, <2>3, <3>1, <3>2 DEF ExitInv
    <3> QED BY <2>0, <3>2, <3>3 DEF FaultInv, Stale
  <2> QED BY <2>2, <2>3
<1> QED BY <1>1, ClientInvariant, PTL

\* Theorem ExitCodesAreTrue: for any number of iterations, any bounds on time
\* and any --simulate, an exit code of 0, 2 or 3 says how many effects the
\* program had.
THEOREM ExitCodesAreTrue == ClientSpec => []ExitCodeIsTruthful
<1>1. SystemInv /\ ClientInv => ExitCodeIsTruthful
  <2> SUFFICES ASSUME SystemInv, ClientInv, exit \in {0, 2, 3}
               PROVE  ExitCodeIsTruthful
    BY DEF ExitCodeIsTruthful
  <2>0. ProgramInv /\ HeldInv /\ ExitInv /\ CountInv /\ UseInv /\ Verification \in SinkCalls
    BY OrderFacts DEF ClientInv, SystemInv, EInv, IInv
  <2>1. client = "end"
    BY <2>0, ProgramAssumption DEF ProgramInv, ProgramAssumption
  <2>2. CASE args.program = "demo"
    <3>1. round = 1
      BY <2>0, <2>2 DEF ProgramInv
    <3>2. exit = 0 => Cardinality(effects) = 1
      BY <2>0, <2>1, <2>2, <3>1 DEF ExitInv, HeldInv, CountInv
    <3>3. exit \in {2, 3} => Cardinality(effects) = 0
      BY <2>0, <2>1, <2>2, <3>1 DEF ExitInv, UseInv, CountInv
    <3>4. exit \in {2, 3} => effects = {}
      BY <2>0, <3>3, FS_EmptySet DEF CountInv
    <3> QED BY <2>2, <3>2, <3>4 DEF ExitCodeIsTruthful
  <2>3. CASE args.program = "benchmark"
    BY <2>0, <2>1, <2>3 DEF ExitInv, HeldInv, CountInv, ExitCodeIsTruthful
  <2> QED BY <2>2, <2>3 DEF ExitCodeIsTruthful
<1> QED BY <1>1, ClientInvariant, PTL

=============================================================================
