# A formal model of the execution-finality reference implementation

The repository implements *execution finality*: a candidate network act stays
without effect until a Protected Enforcement Domain (PED) has validated it,
committed evidence of the decision and released a signed, scoped, single-use
authority, and a finality sink has verified that authority and consumed it
together with the effect. This directory holds TLA+ modules that model the two
operations, `validate_and_issue` and `verify_and_effectuate`, at the granularity
at which concurrent callers can interleave, the SQLite stores below them statement by statement, the
canonical encoding, and the programs above them; TLC configurations that check
small instances; and TLAPS proofs for all instances. Paths below are relative to
`src/src/network_finality/` unless they say otherwise.

## 1. The system

| Component | State it keeps | Operations | Must be right |
| --- | --- | --- | --- |
| Protected state (`state.py:12`) | six epochs and a reference, a counter | `advance_counter`; fields assigned by the operator | a consequence happens only under the epochs its authority binds |
| Activation store (`state.py:50`, `:76`) | a record per authority, its used mark | `put get consume unconsume is_used` | `consume` succeeds at most once per effect; the mark lives as long as the record |
| Nonce registry (`state.py:157`) | nonces seen | `reserve` | one winner per nonce |
| Evidence store (`evidence.py:33`, `:54`) | chained records, the tail | `commit get` | one chain, no fork, no gap |
| Policy (`policy.py`) | configuration | `validate` | the denial of the first check that fails |
| PED (`ped.py`) | none of its own | `validate_and_issue` | evidence, activation, release in this order; a denial stops after its evidence |
| Sink (`sink.py`) | `_lock` | `verify_and_effectuate` | one effect per authority, that of the validated act, in its window |
| Network (`network.py`) | effects, `lock` | `apply` | an effect only inside both locks |
| Reference system (`engine.py`) | wiring | `build_reference_system` | what a restart keeps and what it forgets fits together |
| Message models (`models.py`) | none | validators | malformed input is rejected |
| Canonical encoding (`canonical.py`, `authority.py`) | none | `_normalize`, `canonical_json_bytes`, `digest_value` | equal content, equal digest; other content, another digest |
| Signing (`crypto.py`) | a key | `sign verify` | only this system's envelopes are accepted |
| Demo, benchmark, generator (`cli.py`, `scripts/`) | a system of their own | `run_demo`, `run`, `main` | the exit code tells what happened; a fault is refused for its reason |
| Schemas, examples | static data | | |

The PED and the sinks call each other never; they meet in shared state. The PED
reserves nonces, advances the counter, commits evidence and installs
activations; the sink reads evidence and activations, and consumes. Both read
the epochs, which the operator may change at any moment. The caller carries the
envelope from one to the other and chooses what it presents to which sink.

What is hard:

* **Interleaving.** Every check of the sink before `sink.py:175` runs with no
  lock held, and so does all of `validate_and_issue`. The six epochs are read one
  after the other, twice in a PED call and once in a sink call.
* **Partial failure.** The network may raise after the authority is consumed
  (`sink.py:190`), and a SQLite store may raise in every operation.
* **Several processes.** SQLite stores can be opened by more than one process at
  once. Each has locks in memory of its own; only the database orders them.
* **Encoding.** The authority binds the parameters of an effect by a digest of
  canonical JSON, over arbitrary nested Python values.
* **Restart.** SQLite stores and the HMAC secret survive a process; the epochs,
  the counter, the nonce registry and an Ed25519 key do not.
* **Time.** The clock is read once per call and compared after waits.

`PROJECT.json` lists these hazards at their lines, each with the properties that
cover it, or with the reason why none does.

## 2. The modules

| Module | Models |
| --- | --- |
| `Policy` | `TelecomPolicy.validate` as three ordered lists of checks, and the time to live `ped.py:119` computes. Operators only. |
| `FinalityState` | the shared state; one operator per store operation; time, the operator's changes of epoch, and what a restart does to each part |
| `PED` | `validate_and_issue`, any number of calls at once |
| `Sink` | `verify_and_effectuate`, any number of calls at once, on one or more sinks that share the network |
| `FinalitySystem` | composes the three with the environment; all properties |
| `FinalityContract` | the abstract specification: a decision is noneffective, evidenced, released, effective, in this order, and has one consequence at most |
| `MCFinality` | the candidates, sinks and effects of its TLC instances |
| `StoreContract` | what the two stores promise: the in-memory stores, one atomic step for each operation |
| `SqliteStores`, `MCStores` | the SQLite stores, one step for each statement, several processes over one database |
| `Canonical` | `_normalize` and `json.dumps` as operators, and when two values have the same content. Operators only. |
| `ParameterBinding`, `MCEncoding` | the digest of the parameters on its way from `make_candidate` to the sink's comparison |
| `Clients`, `MCClients` | the demo with its faults and replay, the benchmark and the generator, as the callers of `FinalitySystem` |
| `FinalityProofs` | the inductive invariant, single use, the lock discipline and the absence of deadlock |
| `ContractProofs` | `FinalitySystem` implements `FinalityContract` |
| `PolicyProofs` | lemmas about the operators of `Policy`: which denial comes first, the bounds of a lifetime |
| `IssueProofs` | nonces, envelopes, the evidence chain and its counters |
| `EffectuationProofs` | what takes effect and when; what the used marks mean |
| `EpochProofs` | the epochs a call compares, binds and misses, and revocation |
| `ClientProofs` | the programs are callers of the system; what their exit codes tell |
| `StoreProofs` | `SqliteStores` implements `StoreContract` |

The proof modules build on one another in the order `FinalityProofs`, `ContractProofs`,
`IssueProofs`, `EffectuationProofs`, `EpochProofs`, `ClientProofs`; `PolicyProofs` and `StoreProofs`
stand alone.

### State and actions against the code

* **Granularity.** A step of a call ends at its next access to state another
  thread can touch. What it computes from its own variables in between belongs
  to the step before. So the comparison of each epoch is a step
  (`PedCompareEpoch`, `SinkCompareEpoch`), each field bound into an authority is
  a step (`PedBindEpoch`), and each store operation is a step, because it runs
  under the store's lock or in one transaction. `advance_counter`
  (`state.py:26-28`) is one step although it takes no lock: an addition to a field
  and a return of it, two statements without a call or a jump between them, where
  CPython 3.11 and later, with the GIL, do not switch threads.
* **Program counters.** `pedPC` and `sinkPC` say which access comes next. The
  ends are `issued`/`ok`, `denied`, `raised` and `crashed`.
* **Names.** `validate_and_issue` creates fresh UUIDs for the decision, the
  evidence and the authority; all are named by the call, an element of
  `PedCalls`. `evidence[p]`, `activations[p]` and `released[p]` are what call `p`
  committed, installed and returned. The random activation commitment, which
  the envelope and the activation record share, is that identity as well.
* **Data.** A digest is the value it is taken of (`ParameterBinding` checks what
  that leaves out). An altered envelope is a
  request that is not `intact`: `verify` refuses it. Nonce and sequence of a
  candidate are one value, and the subscriber scope, which is copied and compared
  exactly like the purpose, is not repeated. Reporting fields (`checks`, messages, the predicates and
  snapshots of the decision object) are left out: nothing reads them back.
* **Restart.** `Rebuild` is `build_reference_system` over the same state
  directory, after a stop at any step of any call. A crash inside SQLite's commit
  is the crash before it or after it. The effects stay: `DemoNetwork`'s
  dictionary stands for consequences that a restart cannot take back.
* **Failure.** `SinkApplyRaises` is a network that raises before it has an effect;
  `SinkUndo` is the handler. `PedRaise` and `SinkRaise` are SQLite errors,
  busy timeout included; the transaction rolls back.
* **Inputs.** `WellFormed` in `Policy` is what the validators of `models.py`
  guarantee of a candidate; it is an assumption on the constant `Candidates`,
  which TLC evaluates for every instance. The exception is in section 6.
* **External.** `Tick` is the clock, taken to be monotonic. `PedCrash` and
  `SinkCrash` are the end of the process.

### The stores

`FinalityState` takes each store operation to be one step. Two modules justify
that. `StoreContract` describes the in-memory stores: an operation is called,
and then *takes effect* at one moment, with the answer that moment gives; or it
raises, and never does. Its steps `Put`, `Get`, `Consume`, `Unconsume`, `Commit` and
`Fetch` correspond one to one to the store operators of `FinalityState`.
`SqliteStores` follows the statements: `_lock` of the object, `BEGIN IMMEDIATE`,
`SELECT`, `INSERT` or `UPDATE`, `COMMIT`, the end of the `with` block. `disk` is what is
committed, `draft` what the open transaction of `writer` would commit; in WAL mode
a reader sees `disk`. `unconsume` opens no transaction, so its one statement
commits itself and needs the write lock only for its own duration. `Raise` is any
SQLite error, a busy timeout or a duplicate key: `with db` rolls back and
`with self._lock` releases. `Crash` ends one process and leaves the others. An
operation takes effect at `CommitTransaction`, `SetUnused` or its read; the
refinement mapping is the identity on calls and answers, and `disk`.

### The encoding

A value is a tree of tagged nodes, and its encoding a sequence of tokens. A
token has a class (a string, a literal or punctuation) and a text, because
`json.dumps` writes `"1"` and `1` differently, but writes `True` as a key and `"true"` as a
key alike. `Raises` stands for every exception: keys that `sorted` cannot compare,
keys that `json` cannot write, and NaN. `SameContent` and `SameJson` say when two values
mean the same without computing an encoding. The first compares keys as Python
does, the second as they are written.

### The programs

`Clients` extends `FinalitySystem` with one more thread, which makes candidates,
calls the PED and then the sink, and draws its exit code from what they
return. Its actions follow the branches of `run_demo` (`cli.py:15-68`), of the loop in
`benchmark.py:34-58` and of `generate_examples.py:37-55`. The clock may advance
between any two steps, so that every expiry is possible at every point, and the
stores and the network may raise, which the program meets as a traceback. The epochs
of a program's system move only by its own `--simulate`.

## 3. The runs

Epochs count from the defaults, times are ticks; the
candidate `base` is what `make_candidate` builds, with a window of three ticks.

| Run | Instance | Checks |
| --- | --- | --- |
| `Contention` | 2 validations, 3 effectuations, 2 sinks, envelopes whole, altered or missing, network may raise; about 1M states | `TypeOK`, `SingleUse`, `LocksAreReleased`, `NoDeadlock`, `NoAuthorityWasted`, `UsedMeansRival` |
| `Admission` | 1 validation, 1 effectuation; ten candidates (one per policy check, four windows and boundaries), three sinks, seven effects, 3 ticks; about 1M states | `EffectIsTheValidatedAct`, `DecidedInWindow` |
| `Epochs` | 1 validation, 1 effectuation, four epochs that each move once, a restart of volatile stores under a surviving key; 210k states | `EpochsWereCurrent`, `BoundBetween`, `RevocationSticks`, `ContractHolds` |
| `Restart` | 2 validations of candidates that share a nonce, one of which is denied, 2 effectuations, SQLite, HMAC, a restart, a revocation; 840k states | `SingleUse`, `ReleasedIsBacked`, `NoNonceWasted`, `OneGrantPerNonce`, `OneEffectPerNonce`, `ChainIsLinear`, `CountersAreDistinct`, `MissedOnlyInFlight`, `ContractHolds` |
| `Liveness` | 1 validation, 2 effectuations, SQLite, Ed25519, a restart, a revocation, weak fairness; 10k states | `CallsReturn`, `RevocationSticks` |
| `Stores` | 3 operations of any kind on either store, two through one object and one from another process, errors, crashes, weak fairness; 440k states | `TypeOK`, `ConsumedOncePerUnconsume`, `StoresImplementContract`, `OperationsReturn` |
| `Encoding` | every ordered pair of about 170 values: scalars of each type, lists of up to two items, dictionaries of one and two keys in both orders, nested ones; 29k states | `SubstitutionIsSeen`, `OrderIsIrrelevant` |
| `Clients` | the demo with each of its six `--simulate` choices, with and without `--replay`; the benchmark with two iterations; the generator; SQLite stores and a network that may raise, 5 ticks; 47k states | `ExitCodeIsTruthful`, `SimulatedFaultIsRefused`, `ReplayIsRefused` |

All but `Stores`, `Encoding` and `Clients` use `MCFinality`, and so do the four runs
of section 4.

**What they show.** However calls interleave, an authority has one effect, and
the second check of `is_used` with `consume` under the locks is what gives it;
the locks never leak, and of the calls that wait for one some other is always able
to go on; a failed `apply` gives the authority back, so that only a
SQLite error or a crash inside the block can cost it its effect; and a call that
is refused as already used was refused for a rival's sake, though the rival may
give the authority back afterwards. The effect is
the one validated, on the sink it names, and the sink's clock reading lies in
the candidate's window. Although the sink reads six epochs one by one while they
move, a call that passes has a binding that was current *as a whole when the
call began*: epochs only grow, so a field that equals its binding at its reading
equals it at every earlier moment after the binding. The exception is an
authority that outlives a restart, which needs a key and stores that do. A
nonce yields one authority per process, is not spent by a candidate the policy
denies, and is lost only to a SQLite store that raises after the reservation.
A nonce of one process has one effect, whichever process applies it.
The evidence records always form one chain, and no two of a process have the same
counter. An authority never binds an older policy state than its candidate was
validated under, nor one its process has not reached: it may bind a newer one, because the
PED reads the epochs twice. An effect never misses more than what came during its own call:
an epoch that has not moved since the call began is the one bound (`MissedOnlyInFlight`).

The SQLite stores are indistinguishable from the in-memory ones, however many
processes share the database: the tail that is selected is still the tail when
the record is inserted, because `BEGIN IMMEDIATE` and not `_lock` orders them.
Parameters whose digest matches are the same JSON document, and the same
content is never refused for the order of a dictionary or the zone of a time.
`SubstitutionIsSeen` says *JSON document* on purpose: a dictionary whose key is the
number 1 and one whose key is the text `"1"` have the same digest. The demo's exit
codes tell the truth for every delay and every error, and each simulated fault is
refused by the check it is about, or by the authority's expiry, which the sink
checks earlier.

**Bounds.** `MaxClock`, `MaxEpoch` and `MaxBoot` bound time, epochs and restarts;
each appears in a guard (`Tick`, `AdvanceEpoch`, `ForgetVolatile`). Two calls that
contend and a third that arrives late are every pattern the two locks
distinguish. Three ticks reach both ends of a window of three with a time to
live of two, and a maximal age of two; a single move of an epoch
separates before from after for each of its readings. One restart separates
what survives from what does not. `PedCalls` and `SinkCalls` are symmetric in
`Contention` and `Restart`: no definition chooses between them. Of three store operations
two share an object's lock and the third does not, which are both ways in
which two operations can meet, with one more to disturb them; one authority
suffices since no statement touches two rows. Two items, two keys and one
level of nesting are what `_normalize` recurses through and what `sorted` compares.
Two iterations show the second one of the benchmark, with a fresh nonce. Five ticks
exceed the candidate's window of three. The theorems of section 5 have no
bounds on the number of calls.

**Fairness.** `FairSpec` is weakly fair to each call under way: the operating
system runs every thread that can run. Nobody is obliged to call, and there is no
fairness on time, epochs or restarts. `Stores` is weakly fair to each operation
under way for the same reason. `RLock` does not queue, but a call takes
each lock once, and finitely many calls exist in an instance, so weak fairness
is enough: when the holder leaves, nobody can overtake for ever. The same holds
for an operation that waits at `BEGIN IMMEDIATE`; the busy timeout is a `Raise`, which
`WF` never forces to be taken while the lock can be had. Deadlock is
checked in every run; `Finished`, or `ClientEnded`, is the only step of a system in
which all may stop.

## 4. Where the code and the documents disagree

Each of these is a run in which TLC finds the counterexample.

| Run | What the documents say | What the code does |
| --- | --- | --- |
| `EpochRace` | the sink "re-checks the following immediately before the demo consequence", and lists the epochs and the revocation state (`README.md:346`); a newer revocation state wins (the draft, `:1159`) | epochs are compared before the locks (`sink.py:118-134`) and not after them; a revocation between the comparison and the effect is missed |
| `BindingRace` | "The Finality Sink SHOULD verify current policy and revocation state immediately before consequence. An old upstream approval MUST NOT automatically override current protected state" (the draft, `:1319-1322`), by an "Exact integer epoch comparison at PED and sink" (`README.md:184`) | `ped.py:148-150` reads the epochs again after the policy compared them: the authority may bind epochs the candidate was not validated under, and passes both comparisons |
| `NonceReplay` | SQLite gives "restart-safe replay state" (`README.md:147`) | the nonce registry is always in memory (`ped.py:56`): after a restart the same candidate is issued a second authority |
| `RevocationLost` | a newer revocation state wins (the draft, `:1159`) | a restart puts the epochs back to their defaults (`engine.py:57`) while the SQLite stores and the HMAC secret survive: a revoked authority works again for the rest of its time to live |

`docs/SECURITY.md:31` lists among the trust assumptions that `ProtectedNetworkState` is
authentic and current. `RevocationLost` is about the restart that makes it stale,
which is the repository's own `build_reference_system`. The clock has the same gap as the
epochs: it is read once, at `sink.py:69`, so that an authority may expire while its
call waits for the locks. The counterexample of `EpochRace` shows the epoch.

What holds beside each of these:

* Next to `EpochRace`, `MissedOnlyInFlight`: what the effect misses came after its
  call began. The gap is one call long, never longer, and a restart does not widen it.
* Next to `BindingRace`, `BoundBetween`: the newer epochs that an authority binds are ones the
  process had when it was bound.
* Next to `NonceReplay`, `OneEffectPerNonce`: in one process a nonce has one effect.
* Next to `RevocationLost`, `RevocationSticks`, where the key or the stores end with
  the process (`Perishable`): the runs `Liveness` and `Epochs` are such deployments.

Not a disagreement, but worth knowing: `advance_counter` and `commit` are two steps
(`ped.py:100-102`), so that the chain may hold a counter followed by a smaller one.
The counters of a process are distinct all the same (`CountersAreDistinct`); over
SQLite a restart begins again at zero, and then they repeat. Nothing reads the counter
back, and the documents promise an order of records, which the chain gives, but
none of counters.

## 5. What is proved

TLAPS checks the following for all values of the constants: any number of calls,
sinks, candidates and effects, either store, either signing backend, any number
of restarts; for the stores any number of operations, authorities and
processes; and for the programs any template of a candidate, any policy, any number of
iterations and any bound on time.

| Theorem | Statement | Module |
| --- | --- | --- |
| `TypeCorrect` | `Spec => []TypeOK` | `FinalityProofs` |
| `Invariant` | `Spec => []IInv` | `FinalityProofs` |
| `AuthorityIsSingleUse` | `Spec => []SingleUse` | `FinalityProofs` |
| `LocksNeverLeak` | `Spec => []LocksAreReleased` | `FinalityProofs` |
| `SomeCallGoesOn` | `Spec => []NoDeadlock` | `FinalityProofs` |
| `ContractImplemented` | `Spec => ContractHolds`, the refinement of `FinalityContract` | `ContractProofs` |
| `NonceGrantsOnce` | `Spec => []OneGrantPerNonce` | `IssueProofs` |
| `NonceIsNotWasted` | `Spec => []NoNonceWasted` | `IssueProofs` |
| `EnvelopeIsBacked` | `Spec => []ReleasedIsBacked` | `IssueProofs` |
| `ChainStaysLinear` | `Spec => []ChainIsLinear` | `IssueProofs` |
| `CounterIsNotRepeated` | `Spec => []CountersAreDistinct` | `IssueProofs` |
| `DecisionIsInWindow` | `Spec => []DecidedInWindow` | `EffectuationProofs` |
| `NonceHasOneEffect` | `Spec => []OneEffectPerNonce` | `EffectuationProofs` |
| `WhatTakesEffect` | `Spec => []EffectIsTheValidatedAct` | `EffectuationProofs` |
| `AuthorityIsNotWasted` | `Spec => []NoAuthorityWasted` | `EffectuationProofs` |
| `RefusalHasRival` | `Spec => []UsedMeansRival` | `EffectuationProofs` |
| `BindingWasCurrent` | `Spec => []EpochsWereCurrent` | `EpochProofs` |
| `RevocationIsFinal` | `Perishable` gives `Spec => RevocationSticks` | `EpochProofs` |
| `BindingIsBetween` | `Spec => []BoundBetween` | `EpochProofs` |
| `OnlyFlightIsMissed` | `Spec => MissedOnlyInFlight` | `EpochProofs` |
| `StoresAreTyped` | `Spec => []TypeOK` of `SqliteStores` | `StoreProofs` |
| `StoresRefineContract` | `Spec => StoresImplementContract` | `StoreProofs` |
| `ConsumeIsCounted` | `Spec => []ConsumedOncePerUnconsume` | `StoreProofs` |
| `ProgramsUseTheSystem` | `ClientSpec => Spec` | `ClientProofs` |
| `ReplayNeverSucceeds` | `ClientSpec => []ReplayIsRefused` | `ClientProofs` |
| `FaultNeverSucceeds` | `ClientSpec => []SimulatedFaultIsRefused` | `ClientProofs` |
| `ExitCodesAreTrue` | `ClientSpec => []ExitCodeIsTruthful` | `ClientProofs` |

**Assumptions.** `PolicyAssumption` and `StateAssumption` are types: bounds and
limits are natural numbers, candidates are `WellFormed`, the durations of an effect are
natural numbers. They also say that `Nil` is no call and that no call is called `GENESIS`, which
the code has from digests and UUIDs. `NilIsNoRecord` and, for the stores,
`NilAssumption` say that `None` differs from every record, request and answer it is
compared with. `ProcessAssumption` is a type. `ClientAssumption` and `ProgramAssumption` say that
a program has a call to make in each iteration and never the same call twice, that what it calls
with is among the candidates, sinks and effects of the instance, that its epochs can move once, and
that what `make_candidate` fills in is neither of the two substitutes of `--simulate`. TLC
evaluates each of them in every run over its module.

One hypothesis belongs to two statements and is no assumption on the model. `Perishable` says
that no authority outlives a restart: Ed25519 keys, stores in memory, or no restart at all
(`MaxBoot = 0`). It is a hypothesis of `RevocationIsFinal`, and part of the statement of
`EpochsWereCurrent`. Without it `RevocationSticks` is false, as the run `RevocationLost` shows.

**Single use.** `SingleUse` is not inductive: nothing in it prevents two calls from
standing at `apply` with the same authority. The inductive invariant `IInv` adds what
the code relies on, in four named parts.

* `TypeInv`: types, and what a call has taken in by the time it stands where it
  stands.
* `IssueInv`: an envelope is held only after its call returned it. So
  `activation_store.put` never touches an authority that has already been
  presented.
* `LockInv`: whoever is inside the `with` block holds the network's lock. Here the
  proof uses the *network's* lock: the sink's own lock does not exclude a call on
  another sink that shares the stores.
* `UseInv`: a call at `apply` or `undo` has consumed an authority that has no
  effect; an authority with an effect is marked used, or its record is gone.
  The alternative is a restart over volatile stores under a surviving key: the
  mark is lost, but so is the record without which `consume` refuses.

`LockInv` also gives `SomeCallGoesOn`. If the network's lock is held, then by a call inside the block,
which waits for nothing. If it is free, whoever holds a sink's lock stands before it and can take it.
If no lock is held, nobody waits.

The proofs go action by action. Steps that touch neither locks nor marks share
one lemma each (`LockQuiet`, `UseQuiet`); consuming, applying and undoing have
their own. For the refinement, `EvidenceInv` adds that the ALLOW record is
there from commit to return; a validation step then maps to `CommitAllow`,
`Release` or a stutter, an effectuation to `Effectuate` or a stutter, and a
restart to `Forget` or a stutter.

**Issue.** `GrantInv` says that a call which *holds* a nonce (it passed `reserve` in this
process, or has released an authority since) finds it in `seen`, and that no two calls
hold the same one. A restart empties `seen` and ends the calls that held. `EnvelopeInv` says that an
envelope says of its call what the call still knows (`Faithful`), and that the
stores hold what was put into them for it (`Backed`), unless they were volatile and a restart came
between. For the chain, `ChainIsLinear` alone does not survive a commit: `ChainInv` adds that
the records committed are finitely many and as many as the distinct links, and that what is linked
to is the genesis and every record but the tail. `CounterInv` is `CountersAreDistinct` with the
calls between `ped.py:100` and `ped.py:102` counted in: their counters are taken but in no record yet, so that
the property says nothing of them and is not inductive. No counter taken exceeds the counter.

**Effectuation.** `CheckedInv` relates where an effectuation stands to the checks behind it: past the
envelope check its candidate is the authority's and its clock was before the expiry;
past the boundary check its sink is the authority's; past the effect check the effect
is inside the scope. `ValidInv` does the same for a validation and the policy, with
`PolicyProofs` turning "no denial" into the comparisons it stands for. `ClockInv` orders the two
clock readings. Together (`EInv`) they give `DecidedInWindow` and
`EffectIsTheValidatedAct`: the sink never looks at the candidate's own window; it is held to it
by the expiry of the authority, which the PED cut to fit. `RefusalHasRival` needs `NoAuthorityWasted` and `RecordInv`: a call that stands
at `consume` has seen the mark absent under the lock, so its refusal could only come from a
record that is missing, which no restart within the call can cause. `NonceHasOneEffect` needs no
invariant of its own: the effects of one nonce are of one authority by `OneGrantPerNonce`,
because the candidate of a passed call is the one its authority was issued for, and one authority has
one effect by `SingleUse`.

**Epochs.** `ComparedInv` carries, for the epochs the sink has compared so far, that they equal the
*entry* values, the ones when the call began. The step is the monotonicity of epochs:
bound value, entry value and value read are in this order (`BindInv` gives the first), so
that equal ends squeeze the middle. A restart breaks the order, which is why `Perishable`
is in it. `RevocationSticks` is stated with nested boxes, but it is a safety property:
a call that begins behind an epoch is `Overtaken`, from then on and until it ends, and
`Overtaken` is inductive together with `BInv`.

`PolicyInv` follows the two readings of each epoch in a validation: what has been compared equalled
the candidate's epoch (`Validated`) and can only have grown since, so that what has been bound
(`HasBound`) is at least that. With `BindInv`, which keeps bindings at or below the epochs of their
process, this is `BoundBetween`. `BetweenInv` is the order that `MissedOnlyInFlight` needs: for
each call past its comparisons, what was bound lies between the value at the call's entry and the
value now, so that an epoch that has not moved leaves it one place. It needs no `Perishable`: a call
in progress has no restart behind it.

**Stores.** `StoreInv` is `TypeOK` with three parts. `CallInv`: which operations reach which
statement, and no answer before the effect. `WriterInv`: the writer of a database is the operation
between `BEGIN IMMEDIATE` and `COMMIT` on it, whatever object and process it belongs to. `DraftInv`: `draft`
differs from `disk` only where a transaction has written, it is then the effect of that one
operation on what is committed *now*, and the tail that was selected is still the tail. The
lock of the store object appears nowhere in it: it is not needed for the contract.
Each commit and each autocommit statement is then `TakeEffect` of the contract and every
other step stutters. `ConsumedOncePerUnconsume` follows over the steps of the contract from `BalanceInv`, which
counts a mark that is set as one more consume: the property itself forgets whether the authority
is used now, and is not inductive.

**Programs.** `ProgramsUseTheSystem` maps each step of a program to a step of the system or a
stutter, so that every theorem above holds under the programs; the proofs below it use `EInv` and
`BInv`. `ClientInv` adds what one thread knows.

* `ProgramInv` and `EpochInv`: the options, the candidate at hand, and that every epoch is at its
  default until `--simulate` moves the one it names.
* `ThreadInv`: only the call the program waits for is under way, the calls of later iterations
  are not made, and a label says what the calls before it returned.
* `HeldInv`: every authority binds the default epochs, its evidence is of the act it is for, and a
  call gets past the envelope check only with an unaltered envelope.
* `ReplayInv`: the replayed request is the one that took effect, so that each check it meets
  passes, up to the used mark, or finds the authority expired.
* `FaultInv`: the one call of a faulty demo stands before the check that the fault is about.
* `CountInv` and `ExitInv`: the effects are as many as the iterations that are over, and the exit
  code is the verdict of the last.

The lemmas `EnvelopeAnswer` to `SubstituteAnswer` say what each check of the sink answers to an envelope
of this process: of all the reasons there are to refuse one, its age and the
fault itself are all that is left.

Only model-checked:

* `SubstitutionIsSeen` and `OrderIsIrrelevant`, whose operators are RECURSIVE: induction over
  data is outside the prover's reach;
* the liveness properties `CallsReturn` and `OperationsReturn`, out of its reach as well.

## 6. What is not modelled

* Hashing and base64url (taken to be injective), the unsigned payload of an
  envelope and cryptography: an altered envelope, or one under another key, is
  refused.
* Of `models.py`, the enumerations, the minimal lengths of identifiers and the
  models that only report. The inputs are ones the validators accept, with one
  exception: an empty resource scope, which a caller gets by changing the lists of
  a candidate it has built (the models are mutable), and which `policy.py:56` is
  there to refuse.
* The decision report of `ped.py:60-89`, the checks a response lists, and what the
  programs print: nothing reads them back.
* A caller that changes the objects it passed while the call runs: the Pydantic models
  are mutable (`models.py:11`), and the code reads the candidate again from `ped.py:117`
  on and the effect at `sink.py:182-188`, after the checks. The models take what a call
  is given to be fixed when the call is made.
* The inside of the in-memory stores' operations: each is one step, under the store's
  own lock. `NonceRegistry.reserve` and `DemoNetwork.apply` likewise.
* A clock that steps backwards; `docs/SECURITY.md:30` trusts the host.
* Several processes in `FinalitySystem`. The stores are checked for it
  (`Stores`); the nonce registry, the counter and the epochs of two processes are
  simply two, as after the restart of `NonceReplay`.
* The CLI's choice of persistence and signing backend in every combination: the
  `Clients` run takes the one in which most can fail.
* Schemas and examples: static data.

## 7. Plan

Done, in this order: `Policy`, `FinalityState`, `PED`, `Sink`, `FinalitySystem`,
`FinalityContract`, `MCFinality`; the invariant and the refinement proof;
`StoreContract` and `SqliteStores`; `Canonical` and `ParameterBinding`; `Clients`; the
proofs of section 5.

The last of them say what does hold beside the findings of section 4, and the safety
that `CallsReturn` rests on: of the calls that wait for locks, some other can always go on.

Next: what `json.dumps` and `_normalize` do to one value, at one level, as theorems.
That needs `Canonical` without RECURSIVE operators.
