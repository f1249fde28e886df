----------------------------- MODULE SqliteStores -----------------------------
(***************************************************************************)
(* SQLiteActivationStore (state.py) and SQLiteEvidenceStore (evidence.py), *)
(* one step for each statement they send to their database.  Processes     *)
(* that share a state directory have a store object each, with a lock of   *)
(* its own; what serialises them is SQLite's write lock, which a           *)
(* transaction takes at BEGIN IMMEDIATE and an autocommit statement for    *)
(* its own duration.  In WAL mode a reader sees the last commit.           *)
(*                                                                         *)
(*   put, consume:  lock -> begin -> write -> commit -> leave -> done      *)
(*   commit:        lock -> begin -> select -> write -> commit -> ...      *)
(*   unconsume:     lock -> write -> leave -> done                         *)
(*   get, fetch:    read -> done                                           *)
(***************************************************************************)
EXTENDS Naturals, Sequences, FiniteSets

CONSTANTS Ops, Auths, Nil,
          Processes,    \* the processes, with one object of each store
          ProcessOf     \* the process each operation runs in

ASSUME ProcessAssumption == ProcessOf \in [Ops -> Processes]

VARIABLES
    pc,         \* where each operation stands
    call,       \* its request, or Nil
    answer,     \* what it returns once that is durable, or Nil
    local,      \* what its last statement returned: the tail, or a row count
    lock,       \* lock[n][d]: the operation that holds the object's _lock
    writer,     \* writer[d]: the operation whose transaction writes database d
    disk,       \* disk[d]: what is committed
    draft       \* draft[d]: what an open transaction would commit; else disk[d]

vars == <<pc, call, answer, local, lock, writer, disk, draft>>

\* The contract of these stores, over what is committed.
Contract == INSTANCE StoreContract WITH marks <- disk.activation,
                                        chain <- disk.evidence

Databases == {"activation", "evidence"}
Ends == {"done", "raised", "crashed"}
Active(o) == pc[o] \notin Ends \cup {"idle"}

MethodOf(o) == call[o].method
KeyOf(o) == call[o].key
DatabaseOf(o) == IF MethodOf(o) \in {"commit", "fetch"} THEN "evidence" ELSE "activation"
Goto(o, label) == pc' = [pc EXCEPT ![o] = label]

Init ==
    /\ pc = [o \in Ops |-> "idle"]
    /\ call = [o \in Ops |-> Nil]
    /\ answer = [o \in Ops |-> Nil]
    /\ local = [o \in Ops |-> Nil]
    /\ lock = [n \in Processes |-> [d \in Databases |-> Nil]]
    /\ writer = [d \in Databases |-> Nil]
    /\ disk \in [activation : [Auths -> Contract!Marks], evidence : {<<>>}]
    /\ draft = disk

-----------------------------------------------------------------------------
(* The database.                                                           *)

\* What the statements of o see, and what they change: the transaction of o
\* if it has one; else the statement is a transaction of its own, for which
\* nobody else may be writing.
View(o) == IF writer[DatabaseOf(o)] = o THEN draft ELSE disk

Write(o, d, content) ==
    /\ writer[d] \in {o, Nil}
    /\ draft' = [draft EXCEPT ![d] = content]
    /\ disk' = IF writer[d] = o THEN disk ELSE [disk EXCEPT ![d] = content]

\* The transactions of the operations in gone roll back.
RollBack(gone) ==
    /\ writer' = [d \in Databases |-> IF writer[d] \in gone THEN Nil ELSE writer[d]]
    /\ draft' = [d \in Databases |-> IF writer[d] \in gone THEN disk[d] ELSE draft[d]]

LeaveLock(o) ==
    lock' = [n \in Processes |-> [d \in Databases |->
                IF lock[n][d] = o THEN Nil ELSE lock[n][d]]]

-----------------------------------------------------------------------------
(* The steps of an operation.                                              *)

Call(o, req) ==
    /\ pc[o] = "idle"
    /\ req.method = "commit" => req.key = o
    /\ call' = [call EXCEPT ![o] = req]
    /\ Goto(o, IF req.method \in {"get", "fetch"} THEN "read" ELSE "lock")
    /\ UNCHANGED <<answer, local, lock, writer, disk, draft>>

\* with self._lock, self._connect() as db:
TakeLock(o) ==
    LET n == ProcessOf[o]
        d == DatabaseOf(o)
    IN  /\ pc[o] = "lock"
        /\ lock[n][d] = Nil
        /\ lock' = [lock EXCEPT ![n][d] = o]
        /\ Goto(o, IF MethodOf(o) = "unconsume" THEN "write" ELSE "begin")
        /\ UNCHANGED <<call, answer, local, writer, disk, draft>>

\* Mutant of Begin: no BEGIN, every statement commits by itself.
BeginNothing(o) ==
    /\ pc[o] = "begin"
    /\ Goto(o, IF MethodOf(o) = "commit" THEN "select" ELSE "write")
    /\ UNCHANGED <<call, answer, local, lock, writer, disk, draft>>

\* BEGIN IMMEDIATE waits until nobody else writes.
Begin(o) ==
    LET d == DatabaseOf(o)
    IN  /\ pc[o] = "begin"
        /\ writer[d] = Nil
        /\ writer' = [writer EXCEPT ![d] = o]
        /\ Goto(o, IF MethodOf(o) = "commit" THEN "select" ELSE "write")
        /\ UNCHANGED <<call, answer, local, lock, disk, draft>>

\* SELECT digest ... ORDER BY seq DESC LIMIT 1, of the evidence store.
SelectTail(o) ==
    /\ pc[o] = "select"
    /\ local' = [local EXCEPT ![o] = Contract!TailOf(View(o).evidence)]
    /\ Goto(o, "write")
    /\ UNCHANGED <<call, answer, lock, writer, disk, draft>>

\* INSERT INTO evidence, with the previous digest that was selected.
InsertRecord(o) ==
    /\ MethodOf(o) = "commit"
    /\ Write(o, "evidence", Append(View(o).evidence, Contract!RecordAfter(o, local[o])))
    /\ UNCHANGED local

\* INSERT INTO activations; the primary key refuses a duplicate, which raises.
InsertActivation(o) ==
    /\ MethodOf(o) = "put"
    /\ View(o).activation[KeyOf(o)] = "absent"
    /\ Write(o, "activation", [View(o).activation EXCEPT ![KeyOf(o)] = "unused"])
    /\ UNCHANGED local

\* Mutant of SetUsed: UPDATE ... WHERE authority_id=?, whatever the mark.
SetUsedAnyway(o) ==
    LET rows == View(o).activation
        a == KeyOf(o)
    IN  /\ MethodOf(o) = "consume"
        /\ Write(o, "activation", IF rows[a] # "absent" THEN [rows EXCEPT ![a] = "used"]
                                  ELSE rows)
        /\ local' = [local EXCEPT ![o] = IF rows[a] # "absent" THEN 1 ELSE 0]

\* UPDATE activations SET used=1 WHERE authority_id=? AND used=0: the row
\* count says whether there was such a row.
SetUsed(o) ==
    LET rows == View(o).activation
        a == KeyOf(o)
    IN  /\ MethodOf(o) = "consume"
        /\ Write(o, "activation", IF rows[a] = "unused" THEN [rows EXCEPT ![a] = "used"]
                                  ELSE rows)
        /\ local' = [local EXCEPT ![o] = IF rows[a] = "unused" THEN 1 ELSE 0]

WriteInTransaction(o) ==
    /\ pc[o] = "write"
    /\ InsertRecord(o) \/ InsertActivation(o) \/ SetUsed(o)
    /\ Goto(o, "commit")
    /\ UNCHANGED <<call, answer, lock, writer>>

\* UPDATE activations SET used=0 WHERE authority_id=?, which commits itself.
SetUnused(o) ==
    LET rows == View(o).activation
        a == KeyOf(o)
    IN  /\ pc[o] = "write" /\ MethodOf(o) = "unconsume"
        /\ Write(o, "activation", IF rows[a] = "used" THEN [rows EXCEPT ![a] = "unused"]
                                  ELSE rows)
        /\ answer' = [answer EXCEPT ![o] = "unconsumed"]
        /\ Goto(o, "leave")
        /\ UNCHANGED <<call, local, lock, writer>>

\* What the operation returns once its transaction is committed.
AnswerOf(o) ==
    CASE MethodOf(o) = "put" -> "stored"
      [] MethodOf(o) = "consume" -> IF local[o] = 1 THEN "consumed" ELSE "refused"
      [] MethodOf(o) = "commit" -> Contract!RecordAfter(o, local[o])

\* db.commit()
CommitTransaction(o) ==
    /\ pc[o] = "commit"
    /\ disk' = [d \in Databases |-> IF writer[d] = o THEN draft[d] ELSE disk[d]]
    /\ writer' = [d \in Databases |-> IF writer[d] = o THEN Nil ELSE writer[d]]
    /\ answer' = [answer EXCEPT ![o] = AnswerOf(o)]
    /\ Goto(o, "leave")
    /\ UNCHANGED <<call, local, lock, draft>>

\* The end of the `with' block.
Leave(o) ==
    /\ pc[o] = "leave"
    /\ LeaveLock(o)
    /\ Goto(o, "done")
    /\ UNCHANGED <<call, answer, local, writer, disk, draft>>

\* get and is_used of the activation store, get of the evidence store: one
\* SELECT, without _lock.
ReadActivation(o) ==
    /\ pc[o] = "read" /\ MethodOf(o) = "get"
    /\ answer' = [answer EXCEPT ![o] = disk.activation[KeyOf(o)]]
    /\ Goto(o, "done")
    /\ UNCHANGED <<call, local, lock, writer, disk, draft>>

ReadRecord(o) ==
    /\ pc[o] = "read" /\ MethodOf(o) = "fetch"
    /\ answer' = [answer EXCEPT ![o] = Contract!Found(disk.evidence, KeyOf(o))]
    /\ Goto(o, "done")
    /\ UNCHANGED <<call, local, lock, writer, disk, draft>>

Interruptible == {"read", "begin", "select", "write", "commit"}

\* Mutant of Raise: the lock is not taken by a `with'.
RaiseKeepsLock(o) ==
    /\ pc[o] \in Interruptible
    /\ RollBack({o})
    /\ Goto(o, "raised")
    /\ UNCHANGED <<call, answer, local, lock, disk>>

\* A statement raises: the database stayed locked for the five seconds of the
\* connection's timeout, the key was a duplicate, the disk failed.  `with db'
\* rolls back, `with self._lock' releases.
Raise(o) ==
    /\ pc[o] \in Interruptible
    /\ RollBack({o}) /\ LeaveLock(o)
    /\ Goto(o, "raised")
    /\ UNCHANGED <<call, answer, local, disk>>

\* A process ends: its transactions are never committed, its locks are gone.
Crash(n) ==
    LET dead == {o \in Ops : ProcessOf[o] = n /\ Active(o)}
    IN  /\ dead # {}
        /\ pc' = [o \in Ops |-> IF o \in dead THEN "crashed" ELSE pc[o]]
        /\ RollBack(dead)
        /\ lock' = [lock EXCEPT ![n] = [d \in Databases |-> Nil]]
        /\ UNCHANGED <<call, answer, local, disk>>

OpStep(o) ==
    \/ TakeLock(o) \/ Begin(o) \/ SelectTail(o) \/ WriteInTransaction(o)
    \/ SetUnused(o) \/ CommitTransaction(o) \/ Leave(o)
    \/ ReadActivation(o) \/ ReadRecord(o) \/ Raise(o)

Finished == (\A o \in Ops : pc[o] \in Ends) /\ UNCHANGED vars

Next ==
    \/ \E o \in Ops : OpStep(o) \/ \E req \in Contract!Requests : Call(o, req)
    \/ \E n \in Processes : Crash(n)
    \/ Finished

Spec == Init /\ [][Next]_vars

\* Every thread that can run does; nobody has to call.
FairSpec == Spec /\ \A o \in Ops : WF_vars(OpStep(o))

-----------------------------------------------------------------------------
(* Types.                                                                  *)

Records == [id : Ops, previous : Ops \cup {Contract!Genesis}]
Contents == [activation : [Auths -> Contract!Marks], evidence : Seq(Records)]

ASSUME NilAssumption ==
    Nil \notin Ops /\ Nil \notin Contract!Requests /\ Nil \notin {"consumed", "unconsumed"}

\* TypeOK: every variable stays in the set of values the code can give it; a
\* record links to a record or to GENESIS (evidence.py:86-95).
TypeOK ==
    /\ pc \in [Ops -> {"idle", "lock", "begin", "select", "write", "commit", "leave",
                       "read"} \cup Ends]
    /\ call \in [Ops -> Contract!Requests \cup {Nil}]
    /\ DOMAIN answer = Ops /\ DOMAIN local = Ops
    /\ lock \in [Processes -> [Databases -> Ops \cup {Nil}]]
    /\ writer \in [Databases -> Ops \cup {Nil}]
    /\ disk \in Contents
    /\ draft \in Contents

-----------------------------------------------------------------------------
(* What holds.                                                             *)

\* StoresImplementContract: with any number of processes over one database,
\* errors and crashes included, the SQLite stores are the in-memory ones: each
\* operation takes effect once, at its commit, with the answer the in-memory
\* store gives, and one that raises never does (state.py:107-154,
\* evidence.py:80-105).
StoresImplementContract == Contract!ContractSpec

\* The operations of a method on a that took effect with this answer.
Answered(method, a, value) ==
    {o \in Ops : call[o] = [method |-> method, key |-> a] /\ answer[o] = value}

\* ConsumedOncePerUnconsume: whichever objects and processes the callers go
\* through, consume returns True once, and once more for each unconsume
\* (state.py:138-150).
ConsumedOncePerUnconsume ==
    \A a \in Auths : Cardinality(Answered("consume", a, "consumed"))
                        <= 1 + Cardinality(Answered("unconsume", a, "unconsumed"))

\* OperationsReturn: an operation that was called returns, raises or ends with
\* its process; none waits for a lock for ever.
OperationsReturn == \A o \in Ops : Active(o) ~> ~Active(o)
=============================================================================
