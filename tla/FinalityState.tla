---------------------------- MODULE FinalityState ----------------------------
(***************************************************************************)
(* The state the Protected Enforcement Domain and the finality sinks share *)
(* (state.py, evidence.py, network.py), with one operator per operation of *)
(* a store.  Every store operation runs under the store's own lock or in   *)
(* one SQLite transaction, so each is one atomic step of its caller.       *)
(*                                                                         *)
(* A validate_and_issue call creates fresh uuids for its decision, its     *)
(* evidence and its authority; all of them are named by the call, an       *)
(* element of PedCalls.  A digest is the value it is taken of: SHA-256 and *)
(* the canonical encoding are taken to be injective.                       *)
(***************************************************************************)
EXTENDS Policy

CONSTANTS PedCalls,     \* validate_and_issue calls, and what they create
          SinkCalls,    \* verify_and_effectuate calls
          Sinks,        \* the finality sinks, records [id, type]
          Candidates,   \* the candidate acts the callers hold
          Effects,      \* the proposed effects the callers hold
          Advancing,    \* the kinds of epoch that move in this instance
          Persistence,  \* "memory" or "sqlite"
          Signing,      \* "ed25519" or "hmac"
          MaxClock, MaxEpoch, MaxBoot,  \* bounds of the instance
          Nil

\* The epochs bound into an authority, in the order ped.py reads them to
\* build the binding, which is also the order sink.py compares them in.
Kinds == << "reference", "topology", "configuration",
            "policy", "authority", "revocation" >>
KindSet == {Kinds[i] : i \in DOMAIN Kinds}

\* What the first evidence record links to; no digest is like it.
Genesis == "GENESIS"

ASSUME StateAssumption ==
    /\ Advancing \subseteq KindSet
    /\ Persistence \in {"memory", "sqlite"}
    /\ Signing \in {"ed25519", "hmac"}
    /\ MaxClock \in Nat /\ MaxEpoch \in Nat /\ MaxBoot \in Nat
    /\ Nil \notin PedCalls \cup SinkCalls
    /\ Genesis \notin PedCalls
    /\ \A c \in Candidates : WellFormed(c)
    /\ \A e \in Effects : e.duration \subseteq Nat

VARIABLES
    clock,        \* real time, read by datetime.now
    boot,         \* how often the process was restarted
    epoch,        \* the epochs and the reference of ProtectedNetworkState
    counter,      \* ProtectedNetworkState.monotonic_counter
    seen,         \* NonceRegistry._seen
    evidence,     \* evidence[p]: the record call p committed, or Nil
    tail,         \* the digest the next evidence record will link to
    activations,  \* activations[p]: the sink-local record of authority p, or Nil
    used,         \* the authorities whose activation is marked used
    released      \* released[p]: the envelope call p returned, or Nil

storeVars == <<seen, evidence, tail, activations, used>>
stateVars == <<clock, boot, epoch, counter, seen, evidence, tail,
               activations, used, released>>

EpochZero == [k \in KindSet |-> 0]

\* build_reference_system on an empty state directory.
StateInit ==
    /\ clock = 0
    /\ boot = 0
    /\ epoch = EpochZero
    /\ counter = 0
    /\ seen = {}
    /\ evidence = [p \in PedCalls |-> Nil]
    /\ tail = Genesis
    /\ activations = [p \in PedCalls |-> Nil]
    /\ used = {}
    /\ released = [p \in PedCalls |-> Nil]

-----------------------------------------------------------------------------
(* The stores.                                                             *)

\* Mutant of Reserve: the nonce is looked up and never remembered.
ReserveForgets(nonce) == nonce \notin seen /\ UNCHANGED seen

\* NonceRegistry.reserve, when it returns True.
Reserve(nonce) ==
    /\ nonce \notin seen
    /\ seen' = seen \cup {nonce}

\* EvidenceStore.commit: the record links to the tail and becomes the tail.
Commit(p, record) ==
    /\ evidence' = [evidence EXCEPT ![p] = record]
    /\ tail' = p

\* ActivationStore.put, unused.  The identifier is fresh: the ValueError
\* (memory) or IntegrityError (SQLite) of a duplicate cannot arise.
Put(p, record) ==
    activations' = [activations EXCEPT ![p] = record]

\* Mutant of Consume: the update is not committed.
ConsumeUncommitted(p) == UNCHANGED used

\* ActivationStore.consume returns True and marks the record, or False.
CanConsume(p) == activations[p] # Nil /\ p \notin used
Consume(p) == used' = used \cup {p}

\* ActivationStore.unconsume.
Unconsume(p) == used' = used \ {p}

\* Mutant of KeyAccepted: the signing key outlives the process.
KeyKept(auth) == TRUE

\* The verifier accepts an envelope signed by the key it was built with:
\* Ed25519Signer.generate makes a key pair per process, the HMAC secret comes
\* from the environment and is the same in every process.
KeyAccepted(auth) == Signing = "hmac" \/ auth.boot = boot

-----------------------------------------------------------------------------
(* The environment: time, and the owner of the protected state.            *)

Tick ==
    /\ clock < MaxClock
    /\ clock' = clock + 1
    /\ UNCHANGED <<boot, epoch, counter, storeVars, released>>

\* The operator publishes a new policy, revokes, reconfigures, ...: a field
\* of ProtectedNetworkState is replaced while calls run.
AdvanceEpoch(kind) ==
    /\ epoch[kind] < MaxEpoch
    /\ epoch' = [epoch EXCEPT ![kind] = @ + 1]
    /\ UNCHANGED <<clock, boot, counter, storeVars, released>>

\* What every restart does to the state no store keeps.
ForgetVolatile ==
    /\ boot < MaxBoot
    /\ boot' = boot + 1
    /\ epoch' = EpochZero
    /\ counter' = 0
    /\ seen' = {}
    /\ UNCHANGED <<clock, released>>

\* Mutants of Rebuild: only the records are durable, not their used marks;
\* the evidence is kept in memory; only its tail is.
RebuildUnused ==
    /\ ForgetVolatile
    /\ used' = {}
    /\ UNCHANGED <<evidence, tail, activations>>

RebuildNoEvidence ==
    /\ ForgetVolatile
    /\ evidence' = [p \in PedCalls |-> Nil]
    /\ tail' = Genesis
    /\ UNCHANGED <<activations, used>>

RebuildNoTail ==
    /\ ForgetVolatile
    /\ tail' = Genesis
    /\ UNCHANGED <<evidence, activations, used>>

\* The process ends and build_reference_system runs again over the same state
\* directory: the protected state takes its defaults, the nonce registry is
\* empty, and only SQLite stores keep their content.  Callers keep the
\* envelopes they were given.
Rebuild ==
    /\ ForgetVolatile
    /\ IF Persistence = "sqlite"
       THEN UNCHANGED <<evidence, tail, activations, used>>
       ELSE /\ evidence' = [p \in PedCalls |-> Nil]
            /\ tail' = Genesis
            /\ activations' = [p \in PedCalls |-> Nil]
            /\ used' = {}
=============================================================================
