--------------------------- MODULE FinalityContract ---------------------------
(***************************************************************************)
(* What execution finality promises of one validation decision, whatever   *)
(* threads, stores, clocks and epochs are underneath: a decision has no    *)
(* consequence until its ALLOW evidence is committed and its authority is  *)
(* released, and then it has at most one.                                  *)
(*                                                                         *)
(*    noneffective -> evidenced -> released -> effective                   *)
(***************************************************************************)
CONSTANTS Decisions,   \* validation decisions
          Attempts     \* attempts to effectuate

VARIABLES stage,         \* how far each decision got
          consequences   \* pairs <<decision, attempt>> that took effect

contractVars == <<stage, consequences>>

Stages == {"noneffective", "evidenced", "released", "effective"}

ContractInit ==
    /\ stage = [d \in Decisions |-> "noneffective"]
    /\ consequences = {}

\* The ALLOW evidence of d is committed.
CommitAllow(d) ==
    /\ stage[d] = "noneffective"
    /\ stage' = [stage EXCEPT ![d] = "evidenced"]
    /\ UNCHANGED consequences

\* The authority of d is handed to the caller.
Release(d) ==
    /\ stage[d] = "evidenced"
    /\ stage' = [stage EXCEPT ![d] = "released"]
    /\ UNCHANGED consequences

\* Attempt t makes the consequence of d happen.
Effectuate(d, t) ==
    /\ stage[d] = "released"
    /\ stage' = [stage EXCEPT ![d] = "effective"]
    /\ consequences' = consequences \cup {<<d, t>>}

\* A restart over volatile stores forgets the decisions not yet released.
Forget ==
    /\ stage' = [d \in Decisions |-> IF stage[d] = "evidenced" THEN "noneffective"
                                     ELSE stage[d]]
    /\ UNCHANGED consequences

ContractNext ==
    \/ \E d \in Decisions : CommitAllow(d) \/ Release(d)
    \/ \E d \in Decisions, t \in Attempts : Effectuate(d, t)
    \/ Forget

ContractSpec == ContractInit /\ [][ContractNext]_contractVars
=============================================================================
