-------------------------------- MODULE Sink --------------------------------
(***************************************************************************)
(* NetworkFinalitySink.verify_and_effectuate (sink.py) over the network of *)
(* network.py.  Any number of calls run at once, on one or more sinks that *)
(* share the protected state, the stores and the network.  As in PED, a    *)
(* step of a call ends at its next access to shared state.                 *)
(*                                                                         *)
(*   idle -> evidence -> activation -> used -> state -> lock -> netlock    *)
(*        -> recheck -> consume -> apply -> ok                             *)
(*                                   |                                     *)
(*                                  undo -> raised                         *)
(*                                                                         *)
(* Every check before lock runs with no lock held.  The two locks are held *)
(* from recheck to the end of apply or undo.                               *)
(***************************************************************************)
EXTENDS FinalityState

VARIABLES
    sinkPC,     \* where each call stands
    sinkReq,    \* its arguments: sink, auth, intact, cand, effect
    sinkNow,    \* `now', read once
    sinkIdx,    \* the next epoch to compare
    sinkCode,   \* the reason of its denial, or Pass
    sinkLock,   \* sinkLock[k]: the call that holds the _lock of sink k, or Nil
    netLock,    \* the call that holds the network's lock, or Nil
    effects,    \* the calls whose effect the network has applied
    entry       \* history: the epochs when the call began

sinkVars == <<sinkPC, sinkReq, sinkNow, sinkIdx, sinkCode, sinkLock, netLock,
              effects, entry>>

SinkEnds == {"ok", "denied", "raised", "crashed"}
SinkActive(s) == sinkPC[s] \notin SinkEnds \cup {"idle"}

Requests ==
    [sink : Sinks, auth : PedCalls \cup {Nil}, intact : BOOLEAN,
     cand : Candidates, effect : Effects]

\* The network's effects outlive the process: DemoNetwork's dictionary stands
\* for consequences that a restart does not take back.
SinkInit ==
    /\ sinkPC = [s \in SinkCalls |-> "idle"]
    /\ sinkReq = [s \in SinkCalls |-> Nil]
    /\ sinkNow = [s \in SinkCalls |-> 0]
    /\ sinkIdx = [s \in SinkCalls |-> 1]
    /\ sinkCode = [s \in SinkCalls |-> Pass]
    /\ sinkLock = [k \in Sinks |-> Nil]
    /\ netLock = Nil
    /\ effects = {}
    /\ entry = [s \in SinkCalls |-> EpochZero]

-----------------------------------------------------------------------------
(* The checks, each with the reason of the first one that fails.           *)

\* The envelope presented to call s.
AuthOf(s) == released[sinkReq[s].auth]

\* Key, signature, expiry and the digest of the candidate.
EnvelopeCheck(req, now) ==
    IF req.auth = Nil THEN "NO_FINALITY_AUTHORITY"
    ELSE LET auth == released[req.auth]
         IN  FirstDenial(<<
                <<~KeyAccepted(auth) \/ ~req.intact,   "INVALID_AUTHORITY">>,
                <<now >= auth.expires,                 "STALE_AUTHORITY">>,
                <<req.cand # auth.cand,                "ACT_MISMATCH">> >>)

\* The protected evidence: present, unaltered, an ALLOW for this act.
EvidenceCheck(s) ==
    LET record == evidence[sinkReq[s].auth]
    IN  IF record = Nil THEN "EVIDENCE_MISSING"
        ELSE FirstDenial(<<
                <<record # AuthOf(s).evidence,         "EVIDENCE_MISSING">>,
                <<record.decision # "ALLOW",           "EVIDENCE_MISSING">>,
                <<record.act # sinkReq[s].cand.act,    "EVIDENCE_MISSING">> >>)

\* The sink-local activation record: present, live, of this sink and envelope.
ActivationCheck(s) ==
    LET record == activations[sinkReq[s].auth]
    IN  IF record = Nil THEN "ACTIVATION_MISSING"
        ELSE FirstDenial(<<
                <<sinkNow[s] >= record.expires,        "STALE_AUTHORITY">>,
                <<record.sink # sinkReq[s].sink.id,    "SINK_MISMATCH">>,
                <<record.authority # AuthOf(s),        "PROTECTED_STATE_MISMATCH">>,
                <<record.cand # sinkReq[s].cand,       "PROTECTED_STATE_MISMATCH">> >>)

\* The finality sink and the effectuation boundary.
BoundaryCheck(s) ==
    LET req == sinkReq[s]
    IN  FirstDenial(<<
            <<AuthOf(s).sink # req.sink.id \/ req.cand.sink.id # req.sink.id,
                                                       "SINK_MISMATCH">>,
            <<AuthOf(s).boundary # req.sink \/ req.cand.sink.type # req.sink.type,
                                                       "EFFECTUATION_BOUNDARY_MISMATCH">> >>)

\* Mutant of EffectCheck: the effect's digest is checked against its own
\* parameters and never against the scope.
EffectCheckSelfDigest(s) ==
    LET scope == AuthOf(s).scope
        e == sinkReq[s].effect
    IN  FirstDenial(<<
            <<scope.resourceType # e.resourceType,     "SCOPE_MISMATCH">>,
            <<scope.resources # e.resources,           "SCOPE_MISMATCH">>,
            <<scope.effectType # e.effectType,         "CONSEQUENCE_CLASS_MISMATCH">>,
            <<e.params # e.digest,                     "DESCRIPTOR_MISMATCH">>,
            <<\E limit \in scope.duration : Exceeds(e.duration, limit),
                                                       "SCOPE_MISMATCH">> >>)

\* The proposed effect against the candidate and the scope of the authority.
\* An activation record never changes, so its nonce is the one read before.
EffectCheck(s) ==
    LET scope == AuthOf(s).scope
        c == sinkReq[s].cand
        e == sinkReq[s].effect
    IN  FirstDenial(<<
            <<AuthOf(s).nonce # c.nonce,               "NONCE_FAILURE">>,
            <<activations[sinkReq[s].auth].nonce # c.nonce, "NONCE_FAILURE">>,
            <<scope.type # c.type,                     "CONSEQUENCE_CLASS_MISMATCH">>,
            <<scope.resourceType # e.resourceType,     "SCOPE_MISMATCH">>,
            <<scope.resources # e.resources,           "SCOPE_MISMATCH">>,
            <<scope.purpose # c.purpose,               "PURPOSE_MISMATCH">>,
            <<scope.jurisdiction # c.jurisdiction,     "JURISDICTION_MISMATCH">>,
            <<scope.effectType # e.effectType,         "CONSEQUENCE_CLASS_MISMATCH">>,
            <<e.params # e.digest,                     "DESCRIPTOR_MISMATCH">>,
            <<e.digest # scope.params,                 "ACT_MISMATCH">>,
            <<\E limit \in scope.duration : Exceeds(e.duration, limit),
                                                       "SCOPE_MISMATCH">> >>)

-----------------------------------------------------------------------------
(* The steps of a call.                                                    *)

SinkGoto(s, pc) == sinkPC' = [sinkPC EXCEPT ![s] = pc]

\* The call goes on to pc, or is denied with the reason.
SinkProceed(s, reason, pc) ==
    /\ SinkGoto(s, IF reason = Pass THEN pc ELSE "denied")
    /\ sinkCode' = [sinkCode EXCEPT ![s] = reason]

Unlocked == UNCHANGED <<sinkLock, netLock>>

\* Leaving the `with' block.
ReleaseLocks(s) ==
    /\ sinkLock' = [k \in Sinks |-> IF sinkLock[k] = s THEN Nil ELSE sinkLock[k]]
    /\ netLock' = IF netLock = s THEN Nil ELSE netLock

\* A caller presents an envelope it was given, whole or altered, or none at
\* all, with a candidate and a proposed effect of its own choosing.
SinkCall(s, req) ==
    /\ sinkPC[s] = "idle"
    /\ req.auth # Nil => released[req.auth] # Nil
    /\ sinkReq' = [sinkReq EXCEPT ![s] = req]
    /\ sinkNow' = [sinkNow EXCEPT ![s] = clock]
    /\ entry' = [entry EXCEPT ![s] = epoch]
    /\ SinkProceed(s, EnvelopeCheck(req, clock), "evidence")
    /\ UNCHANGED <<sinkIdx, effects, stateVars>> /\ Unlocked

\* evidence_store.get
SinkReadEvidence(s) ==
    /\ sinkPC[s] = "evidence"
    /\ SinkProceed(s, EvidenceCheck(s), "activation")
    /\ UNCHANGED <<sinkReq, sinkNow, sinkIdx, effects, entry, stateVars>> /\ Unlocked

\* activation_store.get
SinkReadActivation(s) ==
    /\ sinkPC[s] = "activation"
    /\ SinkProceed(s, ActivationCheck(s), "used")
    /\ UNCHANGED <<sinkReq, sinkNow, sinkIdx, effects, entry, stateVars>> /\ Unlocked

\* activation_store.is_used, with no lock held, and the sink binding.
SinkReadUsed(s) ==
    /\ sinkPC[s] = "used"
    /\ SinkProceed(s, IF sinkReq[s].auth \in used THEN "AUTHORITY_ALREADY_USED"
                      ELSE BoundaryCheck(s), "state")
    /\ UNCHANGED <<sinkReq, sinkNow, sinkIdx, effects, entry, stateVars>> /\ Unlocked

\* The comparison of one epoch, when `last' says whether it is the last one
\* and `next' is the one to compare after it.
CompareEpoch(s, last, next) ==
    LET kind == Kinds[sinkIdx[s]]
        current == AuthOf(s).bind[kind] = epoch[kind]
    IN  /\ sinkPC[s] = "state"
        /\ SinkProceed(s, IF ~current THEN EpochReason[kind]
                          ELSE IF last THEN EffectCheck(s) ELSE Pass,
                       IF last THEN "lock" ELSE "state")
        /\ sinkIdx' = [sinkIdx EXCEPT ![s] = next]
        /\ UNCHANGED <<sinkReq, sinkNow, effects, entry, stateVars>> /\ Unlocked

\* Mutant of SinkCompareEpoch: the last epoch is not compared.
CompareEpochEarlyEnd(s) ==
    LET last == sinkIdx[s] = Len(Kinds) - 1
    IN  CompareEpoch(s, last, IF last THEN sinkIdx[s] ELSE sinkIdx[s] + 1)

\* One field of the protected state is compared with the binding; after the
\* last one, the effect with the scope.
SinkCompareEpoch(s) ==
    LET last == sinkIdx[s] = Len(Kinds)
    IN  CompareEpoch(s, last, IF last THEN sinkIdx[s] ELSE sinkIdx[s] + 1)

\* with self._lock ...
SinkTakeLock(s) ==
    LET k == sinkReq[s].sink
    IN  /\ sinkPC[s] = "lock"
        /\ sinkLock[k] = Nil
        /\ sinkLock' = [sinkLock EXCEPT ![k] = s]
        /\ SinkGoto(s, "netlock")
        /\ UNCHANGED <<sinkReq, sinkNow, sinkIdx, sinkCode, netLock, effects, entry, stateVars>>

\* ... , self.network.lock:
SinkTakeNetworkLock(s) ==
    /\ sinkPC[s] = "netlock"
    /\ netLock = Nil
    /\ netLock' = s
    /\ SinkGoto(s, "recheck")
    /\ UNCHANGED <<sinkReq, sinkNow, sinkIdx, sinkCode, sinkLock, effects, entry, stateVars>>

\* Mutant of SinkRecheck: the early return keeps the locks.
SinkRecheckKeepsLocks(s) ==
    /\ sinkPC[s] = "recheck"
    /\ IF sinkReq[s].auth \in used
       THEN SinkProceed(s, "AUTHORITY_ALREADY_USED", "denied")
       ELSE SinkProceed(s, Pass, "consume")
    /\ UNCHANGED <<sinkReq, sinkNow, sinkIdx, effects, entry, stateVars>> /\ Unlocked

\* Mutant of SinkRecheck: it consumes, and SinkConsume does so again.
SinkRecheckConsumes(s) ==
    /\ sinkPC[s] = "recheck"
    /\ sinkReq[s].auth \notin used
    /\ Consume(sinkReq[s].auth)
    /\ SinkProceed(s, Pass, "consume") /\ Unlocked
    /\ UNCHANGED <<sinkReq, sinkNow, sinkIdx, effects, entry, clock, boot, epoch,
                   counter, seen, evidence, tail, activations, released>>

\* is_used once more, now under the locks.
SinkRecheck(s) ==
    /\ sinkPC[s] = "recheck"
    /\ \/ /\ sinkReq[s].auth \in used
          /\ SinkProceed(s, "AUTHORITY_ALREADY_USED", "denied")
          /\ ReleaseLocks(s)
       \/ /\ sinkReq[s].auth \notin used
          /\ SinkProceed(s, Pass, "consume")
          /\ Unlocked
    /\ UNCHANGED <<sinkReq, sinkNow, sinkIdx, effects, entry, stateVars>>

\* activation_store.consume; it may still refuse.
SinkConsume(s) ==
    /\ sinkPC[s] = "consume"
    /\ \/ /\ CanConsume(sinkReq[s].auth)
          /\ Consume(sinkReq[s].auth)
          /\ SinkProceed(s, Pass, "apply")
          /\ Unlocked
       \/ /\ ~CanConsume(sinkReq[s].auth)
          /\ UNCHANGED used
          /\ SinkProceed(s, "AUTHORITY_ALREADY_USED", "denied")
          /\ ReleaseLocks(s)
    /\ UNCHANGED <<sinkReq, sinkNow, sinkIdx, effects, entry, clock, boot, epoch,
                   counter, seen, evidence, tail, activations, released>>

\* network.apply records the effect, and the locks are released.
SinkApply(s) ==
    /\ sinkPC[s] = "apply"
    /\ effects' = effects \cup {s}
    /\ SinkGoto(s, "ok")
    /\ ReleaseLocks(s)
    /\ UNCHANGED <<sinkReq, sinkNow, sinkIdx, sinkCode, entry, stateVars>>

\* Mutant of SinkApplyRaises: the network raises after the effect was made.
SinkApplyRaisesLate(s) ==
    /\ sinkPC[s] = "apply"
    /\ effects' = effects \cup {s}
    /\ SinkGoto(s, "undo")
    /\ UNCHANGED <<sinkReq, sinkNow, sinkIdx, sinkCode, entry, stateVars>> /\ Unlocked

\* network.apply raises, with no effect.
SinkApplyRaises(s) ==
    /\ sinkPC[s] = "apply"
    /\ SinkGoto(s, "undo")
    /\ UNCHANGED <<sinkReq, sinkNow, sinkIdx, sinkCode, effects, entry, stateVars>> /\ Unlocked

\* Mutants of SinkUndo: the locks are not freed when the exception goes on; the
\* handler tries again, with the locks, for as long as the network raises; the
\* store has no unconsume.
SinkUndoKeepsLocks(s) ==
    /\ sinkPC[s] = "undo"
    /\ Unconsume(sinkReq[s].auth)
    /\ SinkGoto(s, "raised")
    /\ UNCHANGED <<sinkReq, sinkNow, sinkIdx, sinkCode, effects, entry, clock, boot, epoch,
                   counter, seen, evidence, tail, activations, released>> /\ Unlocked

SinkUndoRetries(s) ==
    /\ sinkPC[s] = "undo"
    /\ Unconsume(sinkReq[s].auth)
    /\ SinkGoto(s, "recheck")
    /\ UNCHANGED <<sinkReq, sinkNow, sinkIdx, sinkCode, effects, entry, clock, boot, epoch,
                   counter, seen, evidence, tail, activations, released>> /\ Unlocked

SinkUndoNothing(s) ==
    /\ sinkPC[s] = "undo"
    /\ SinkGoto(s, "raised")
    /\ ReleaseLocks(s)
    /\ UNCHANGED <<sinkReq, sinkNow, sinkIdx, sinkCode, effects, entry, stateVars>>

\* The handler gives the authority back and raises again.
SinkUndo(s) ==
    /\ sinkPC[s] = "undo"
    /\ Unconsume(sinkReq[s].auth)
    /\ SinkGoto(s, "raised")
    /\ ReleaseLocks(s)
    /\ UNCHANGED <<sinkReq, sinkNow, sinkIdx, sinkCode, effects, entry, clock, boot, epoch,
                   counter, seen, evidence, tail, activations, released>>

\* A SQLite store raises; its transaction rolls back, the exception ends the
\* call and leaves the `with' block if it is in it.
SinkRaise(s) ==
    /\ Persistence = "sqlite"
    /\ sinkPC[s] \in {"evidence", "activation", "used", "recheck", "consume", "undo"}
    /\ SinkGoto(s, "raised")
    /\ ReleaseLocks(s)
    /\ UNCHANGED <<sinkReq, sinkNow, sinkIdx, sinkCode, effects, entry, stateVars>>

\* The steps of a call under way: what its thread does once it is scheduled.
SinkStep(s) ==
    \/ SinkReadEvidence(s)
    \/ SinkReadActivation(s)
    \/ SinkReadUsed(s)
    \/ SinkCompareEpoch(s)
    \/ SinkTakeLock(s)
    \/ SinkTakeNetworkLock(s)
    \/ SinkRecheck(s)
    \/ SinkConsume(s)
    \/ SinkApply(s)
    \/ SinkApplyRaises(s)
    \/ SinkUndo(s)
    \/ SinkRaise(s)

SinkNext(s) == SinkStep(s) \/ \E req \in Requests : SinkCall(s, req)

\* A restart ends the calls under way and frees the locks of the process.
SinkCrash ==
    /\ sinkPC' = [s \in SinkCalls |-> IF SinkActive(s) THEN "crashed" ELSE sinkPC[s]]
    /\ sinkLock' = [k \in Sinks |-> Nil]
    /\ netLock' = Nil
    /\ UNCHANGED <<sinkReq, sinkNow, sinkIdx, sinkCode, effects, entry>>

SinkTypeOK ==
    /\ sinkPC \in [SinkCalls -> {"idle", "evidence", "activation", "used", "state",
                                 "lock", "netlock", "recheck", "consume", "apply",
                                 "undo"} \cup SinkEnds]
    /\ sinkReq \in [SinkCalls -> Requests \cup {Nil}]
    /\ sinkNow \in [SinkCalls -> Nat]
    /\ sinkIdx \in [SinkCalls -> DOMAIN Kinds]
    /\ DOMAIN sinkCode = SinkCalls
    /\ sinkLock \in [Sinks -> SinkCalls \cup {Nil}]
    /\ netLock \in SinkCalls \cup {Nil}
    /\ effects \subseteq SinkCalls
    /\ entry \in [SinkCalls -> [KindSet -> Nat]]
=============================================================================
