------------------------------- MODULE Clients -------------------------------
(***************************************************************************)
(* The programs the repository ships as callers of the reference system:   *)
(* the command line demo (cli.py), scripts/benchmark.py and                *)
(* scripts/generate_examples.py.  Each builds a system of its own and      *)
(* carries candidates, envelopes and effects from the PED to the sink, one *)
(* call after the other, while time passes.                                *)
(*                                                                         *)
(*   make -> validate -> decided -> simulate -> verdict -> replayed -> end *)
(***************************************************************************)
EXTENDS FinalitySystem

CONSTANTS Template,     \* what make_candidate fills in by default
          Window,       \* its ttl_seconds
          PedOrder,     \* the validate_and_issue calls, in the order made
          SinkOrder,    \* the verify_and_effectuate calls, likewise
          Iterations    \* --iterations of the benchmark

ASSUME ClientAssumption ==
    /\ Window \in Nat \ {0}
    /\ Iterations \in Nat \ {0}
    /\ Iterations <= Len(PedOrder) /\ Iterations <= Len(SinkOrder)
    /\ Len(SinkOrder) > 1

VARIABLES
    client,     \* where the program stands
    args,       \* which program it is, and its options
    round,      \* the iteration of the benchmark; 1 in the others
    candidate,  \* the candidate at hand
    exit        \* its exit code, 1 for a traceback, or Nil while it runs

clientVars == <<client, args, round, candidate, exit>>
allVars == <<vars, clientVars>>

Faults == {"none", "topology-change", "revocation", "parameter-substitution",
           "sink-substitution", "signature-tamper"}
Arguments == [program : {"demo"}, fault : Faults, replay : BOOLEAN]
             \cup [program : {"benchmark", "examples"}, fault : {"none"}, replay : {FALSE}]

ClientInit ==
    /\ Init
    /\ client = "make"
    /\ args \in Arguments
    /\ round = 1
    /\ candidate = Nil
    /\ exit = Nil

Validation == PedOrder[round]
Verification == SinkOrder[round]

Exit(code) == client' = "end" /\ exit' = code /\ UNCHANGED <<args, round, candidate>>
Resume(label) == client' = label /\ UNCHANGED <<args, round, candidate, exit>>

\* make_candidate: a candidate of the present, with an identifier and a nonce
\* of its own in each iteration.
MakeCandidate(i, now) ==
    [Template EXCEPT !.act = i, !.nonce = i, !.created = now, !.expires = now + Window]

\* make_effect: what the candidate asks for, with these parameters.
MakeEffect(c, params) ==
    [resourceType |-> c.resourceType, resources |-> c.resources,
     effectType |-> c.effectType, params |-> params, digest |-> params,
     duration |-> c.duration]

\* Each call is one of its own, and what a program calls with, --simulate
\* included, is among what the instance lets callers hold; make_candidate
\* knows neither substitute.
ASSUME ProgramAssumption ==
    /\ PedOrder \in Seq(PedCalls) /\ SinkOrder \in Seq(SinkCalls)
    /\ \A i, j \in DOMAIN SinkOrder : SinkOrder[i] = SinkOrder[j] => i = j
    /\ Nil \notin 0..3
    /\ {"topology", "revocation"} \subseteq Advancing /\ MaxEpoch > 0
    /\ \A i \in 1..Iterations, now \in 0..MaxClock :
          LET c == MakeCandidate(i, now)
          IN  /\ c \in Candidates
              /\ "id" \in DOMAIN c.sink /\ c.sink.id # "other-sink" /\ c.params # "other"
              /\ {c.sink, [c.sink EXCEPT !.id = "other-sink"]} \subseteq Sinks
              /\ {MakeEffect(c, c.params), MakeEffect(c, "other")} \subseteq Effects

ClientMake ==
    /\ client = "make"
    /\ candidate' = MakeCandidate(round, clock)
    /\ client' = "validate"
    /\ UNCHANGED <<args, round, exit, vars>>

ClientValidate ==
    /\ client = "validate"
    /\ PedCall(Validation, candidate)
    /\ Resume("decided")
    /\ UNCHANGED sinkVars

\* No authority: the demo says so and stops, the benchmark raises; the
\* generator hands None to the sink.
ClientDecided ==
    /\ client = "decided"
    /\ \/ pedPC[Validation] = "issued" /\ Resume("simulate")
       \/ /\ pedPC[Validation] = "denied"
          /\ CASE args.program = "demo" -> Exit(2)
               [] args.program = "benchmark" -> Exit(1)
               [] OTHER -> Resume("simulate")
       \/ pedPC[Validation] = "raised" /\ Exit(1)
    /\ UNCHANGED vars

\* What the program presents, --simulate included: other parameters with a
\* digest that fits them, another sink_id, a scope changed after signing.
RequestOf(fault) ==
    [sink   |-> IF fault = "sink-substitution" THEN [candidate.sink EXCEPT !.id = "other-sink"]
                ELSE candidate.sink,
     auth   |-> IF pedPC[Validation] = "issued" THEN Validation ELSE Nil,
     intact |-> fault # "signature-tamper",
     cand   |-> candidate,
     effect |-> MakeEffect(candidate, IF fault = "parameter-substitution" THEN "other"
                                      ELSE candidate.params)]

\* --simulate of an epoch assigns to the protected state.
Assigned(fault, kind) == (fault = "topology-change" /\ kind = "topology")
                         \/ (fault = "revocation" /\ kind = "revocation")

ClientSimulate ==
    /\ client = "simulate"
    /\ epoch' = [kind \in KindSet |-> IF Assigned(args.fault, kind) THEN epoch[kind] + 1
                                      ELSE epoch[kind]]
    /\ Resume("verify")
    /\ UNCHANGED <<pedVars, sinkVars, clock, boot, counter, storeVars, released>>

ClientVerify ==
    /\ client = "verify"
    /\ SinkCall(Verification, RequestOf(args.fault))
    /\ Resume("verdict")
    /\ UNCHANGED pedVars

\* Mutant of ClientVerdict: --replay without asking whether it was permitted.
ClientVerdictReplays ==
    /\ client = "verdict"
    /\ sinkPC[Verification] \in {"ok", "denied"}
    /\ IF args.replay THEN Resume("replay")
       ELSE Exit(IF sinkPC[Verification] = "ok" THEN 0 ELSE 3)
    /\ UNCHANGED vars

\* The response: the demo may replay, the benchmark goes on to its next
\* iteration or raises, the generator writes its trace either way.
ClientVerdict ==
    /\ client = "verdict"
    /\ \/ /\ sinkPC[Verification] = "ok"
          /\ \/ args.replay /\ Resume("replay")
             \/ ~args.replay /\ (args.program # "benchmark" \/ round = Iterations) /\ Exit(0)
             \/ /\ args.program = "benchmark" /\ round < Iterations
                /\ client' = "make" /\ round' = round + 1
                /\ UNCHANGED <<args, candidate, exit>>
       \/ /\ sinkPC[Verification] = "denied"
          /\ Exit(CASE args.program = "demo" -> 3
                    [] args.program = "benchmark" -> 1
                    [] OTHER -> 0)
       \/ sinkPC[Verification] = "raised" /\ Exit(1)
    /\ UNCHANGED vars

\* --replay presents the same envelope once more.
ClientReplay ==
    /\ client = "replay"
    /\ SinkCall(SinkOrder[2], RequestOf(args.fault))
    /\ Resume("replayed")
    /\ UNCHANGED pedVars

ClientReplayed ==
    /\ client = "replayed"
    /\ sinkPC[SinkOrder[2]] \in SinkEnds
    /\ Exit(IF sinkPC[SinkOrder[2]] = "raised" THEN 1 ELSE 0)
    /\ UNCHANGED vars

\* The one thread of the program, in its own code or in a call.
ClientStep ==
    \/ ClientMake \/ ClientValidate \/ ClientDecided \/ ClientSimulate
    \/ ClientVerify \/ ClientVerdict \/ ClientReplay \/ ClientReplayed
    \/ ((\E q \in PedCalls : PedRuns(q)) \/ (\E t \in SinkCalls : SinkRuns(t)))
       /\ UNCHANGED clientVars

ClientEnded == client = "end" /\ UNCHANGED allVars

ClientNext ==
    \/ ClientStep
    \/ Tick /\ UNCHANGED <<pedVars, sinkVars, clientVars>>
    \/ ClientEnded

ClientSpec == ClientInit /\ [][ClientNext]_allVars

-----------------------------------------------------------------------------

\* ExitCodeIsTruthful: a demo that exits with 0 made exactly one effect, with
\* 2 or 3 none, however long its steps take and even if it replays; a
\* benchmark that exits with 0 made one effect in each iteration
\* (cli.py:29-68, benchmark.py:34-58; README.md:108-114).
ExitCodeIsTruthful ==
    /\ args.program = "demo" =>
          /\ exit = 0 => Cardinality(effects) = 1
          /\ exit \in {2, 3} => effects = {}
    /\ args.program = "benchmark" /\ exit = 0 => Cardinality(effects) = Iterations

\* The reason each simulated fault is to show (README.md:471-499).
FaultReason ==
    [f \in Faults \ {"none"} |->
        CASE f = "topology-change" -> "NETWORK_STATE_MISMATCH"
          [] f = "revocation" -> "REVOCATION_STATE_MISMATCH"
          [] f = "parameter-substitution" -> "ACT_MISMATCH"
          [] f = "sink-substitution" -> "SINK_MISMATCH"
          [] f = "signature-tamper" -> "INVALID_AUTHORITY"]

\* SimulatedFaultIsRefused: a demo with a simulated fault has no effect, and
\* what refuses it is the check the fault is about, unless its authority has
\* expired meanwhile (cli.py:36-52).
SimulatedFaultIsRefused ==
    args.fault # "none" =>
        /\ effects = {}
        /\ exit = 3 => sinkCode[Verification] \in {FaultReason[args.fault], "STALE_AUTHORITY"}

\* ReplayIsRefused: the replay of an envelope that took effect is denied as
\* used, or as expired (cli.py:58-66; README.md:122).
ReplayIsRefused ==
    LET replay == SinkOrder[2]
    IN  args.replay /\ client = "end" /\ sinkPC[replay] \in SinkEnds \ {"raised"} =>
            /\ sinkPC[replay] = "denied"
            /\ sinkCode[replay] \in {"AUTHORITY_ALREADY_USED", "STALE_AUTHORITY"}
=============================================================================
