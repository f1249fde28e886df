----------------------------- MODULE StoreProofs -----------------------------
(***************************************************************************)
(* SqliteStores implements StoreContract, for any number of operations,    *)
(* processes and authorities: BEGIN IMMEDIATE alone, not the lock of a     *)
(* store object, keeps what a transaction read true until it commits.      *)
(***************************************************************************)
EXTENDS SqliteStores, FiniteSetTheorems, TLAPS

-----------------------------------------------------------------------------
(* The inductive invariant.                                                *)

\* The states of an operation whose effect is still to come, and those it is
\* in between BEGIN and COMMIT.
Before == {"idle", "lock", "begin", "select", "write", "commit", "read"}
InTransaction(o) == pc[o] \in {"select", "write", "commit"} /\ MethodOf(o) # "unconsume"

\* Which operations reach which state; none has an answer before its effect.
CallOK(o) ==
    /\ pc[o] = "idle" => call[o] = Nil
    /\ pc[o] # "idle" => call[o] \in Contract!Requests
    /\ call[o] # Nil /\ MethodOf(o) = "commit" => KeyOf(o) = o
    /\ pc[o] = "read" => MethodOf(o) \in {"get", "fetch"}
    /\ pc[o] \in {"lock", "write"} =>
           MethodOf(o) \in {"put", "consume", "commit", "unconsume"}
    /\ pc[o] \in {"begin", "commit"} => MethodOf(o) \in {"put", "consume", "commit"}
    /\ pc[o] = "select" => MethodOf(o) = "commit"
    /\ pc[o] \in Before => answer[o] = Nil

CallInv == \A o \in Ops : CallOK(o)

\* The writer of a database is the operation between BEGIN and COMMIT on it.
WriterInv ==
    \A o \in Ops, d \in Databases : writer[d] = o <=> InTransaction(o) /\ DatabaseOf(o) = d

\* What the transaction of o would commit is its effect on what is committed.
Drafted(o) ==
    LET a == KeyOf(o)
        rows == disk.activation
    IN  \/ /\ MethodOf(o) = "put" /\ rows[a] = "absent"
           /\ draft.activation = [rows EXCEPT ![a] = "unused"]
        \/ /\ MethodOf(o) = "consume" /\ rows[a] = "unused" /\ local[o] = 1
           /\ draft.activation = [rows EXCEPT ![a] = "used"]
        \/ /\ MethodOf(o) = "consume" /\ rows[a] # "unused" /\ local[o] = 0
           /\ draft.activation = rows
        \/ /\ MethodOf(o) = "commit" /\ local[o] = Contract!TailOf(disk.evidence)
           /\ draft.evidence = Append(disk.evidence, Contract!RecordAfter(o, local[o]))

\* Only a transaction that has written has a draft of its own, and the tail it
\* selected is still the tail.
DraftOK(o) ==
    /\ pc[o] = "write" /\ MethodOf(o) = "commit" =>
          local[o] = Contract!TailOf(disk.evidence)
    /\ pc[o] = "commit" => Drafted(o)

DraftInv ==
    /\ \A d \in Databases : draft[d] # disk[d] =>
          writer[d] # Nil /\ pc[writer[d]] = "commit"
    /\ \A o \in Ops : DraftOK(o)

StoreInv == TypeOK /\ CallInv /\ WriterInv /\ DraftInv

-----------------------------------------------------------------------------
(* Lemmas about the operators.                                             *)

\* What a record links to is in type.
LEMMA TailType ==
    ASSUME NEW records \in Seq(Records)
    PROVE  Contract!TailOf(records) \in Ops \cup {Contract!Genesis}
<1>1. CASE records = <<>>
  BY <1>1 DEF Contract!TailOf
<1>2. CASE records # <<>>
  <2>1. Len(records) \in 1..Len(records)
    BY <1>2
  <2>2. records[Len(records)] \in Records
    BY <2>1
  <2> QED BY <1>2, <2>2 DEF Contract!TailOf, Records
<1> QED BY <1>1, <1>2

LEMMA RecordType ==
    ASSUME NEW o \in Ops, NEW previous \in Ops \cup {Contract!Genesis}
    PROVE  Contract!RecordAfter(o, previous) \in Records
  BY DEF Contract!RecordAfter, Records

\* Each kind of request.
LEMMA RequestFacts ==
    ASSUME NEW req \in Contract!Requests
    PROVE  /\ req # Nil
           /\ req.method \in {"put", "get", "consume", "unconsume"} => req.key \in Auths
           /\ req.method \in {"put", "get", "consume", "unconsume", "commit", "fetch"}
           /\ \A method, a : req = [method |-> method, key |-> a] <=>
                                 req.method = method /\ req.key = a
  BY NilAssumption DEF Contract!Requests, NilAssumption

-----------------------------------------------------------------------------
(* The operations that do not step.                                        *)

\* Operation q is as before.
OpKept(q) == /\ pc'[q] = pc[q] /\ call'[q] = call[q]
             /\ answer'[q] = answer[q] /\ local'[q] = local[q]

\* What holds of an operation outlasts the steps of others that leave its
\* database alone while it is in a transaction.
LEMMA KeptOK ==
    ASSUME StoreInv, NEW q \in Ops, OpKept(q),
           InTransaction(q) => /\ disk'[DatabaseOf(q)] = disk[DatabaseOf(q)]
                               /\ draft'[DatabaseOf(q)] = draft[DatabaseOf(q)]
    PROVE  /\ CallOK(q)' /\ DraftOK(q)'
           /\ InTransaction(q)' <=> InTransaction(q)
           /\ DatabaseOf(q)' = DatabaseOf(q)
<1>1. CallOK(q) /\ DraftOK(q)
  BY DEF StoreInv, CallInv, DraftInv
<1>2. CallOK(q)' /\ (InTransaction(q)' <=> InTransaction(q)) /\ DatabaseOf(q)' = DatabaseOf(q)
  BY <1>1 DEF CallOK, OpKept, MethodOf, KeyOf, Before, InTransaction, DatabaseOf
<1>3. DraftOK(q)'
  <2>1. CASE pc[q] = "write" /\ MethodOf(q) = "commit"
    BY <1>1, <2>1 DEF DraftOK, OpKept, MethodOf, InTransaction, DatabaseOf
  <2>2. CASE pc[q] = "commit"
    <3>1. InTransaction(q) /\ MethodOf(q) \in {"put", "consume", "commit"}
      BY <1>1, <2>2 DEF CallOK, InTransaction
    <3>2. CASE MethodOf(q) = "commit"
      BY <1>1, <2>2, <3>1, <3>2 DEF DraftOK, Drafted, OpKept, MethodOf, KeyOf, DatabaseOf
    <3>3. CASE MethodOf(q) \in {"put", "consume"}
      BY <1>1, <2>2, <3>1, <3>3 DEF DraftOK, Drafted, OpKept, MethodOf, KeyOf, DatabaseOf
    <3> QED BY <3>1, <3>2, <3>3
  <2>3. CASE pc[q] # "commit" /\ ~(pc[q] = "write" /\ MethodOf(q) = "commit")
    BY <2>3 DEF DraftOK, OpKept, MethodOf
  <2> QED BY <2>1, <2>2, <2>3
<1> QED BY <1>2, <1>3

\* A step of operation o alone keeps the invariant, when the transactions of
\* the others are left alone and o itself obeys it.
LEMMA SoloInv ==
    ASSUME StoreInv, TypeOK', NEW o \in Ops, CallOK(o)', DraftOK(o)',
           \A q \in Ops : q # o =>
              /\ OpKept(q)
              /\ InTransaction(q) => /\ disk'[DatabaseOf(q)] = disk[DatabaseOf(q)]
                                     /\ draft'[DatabaseOf(q)] = draft[DatabaseOf(q)],
           \A q \in Ops, d \in Databases : q # o => (writer'[d] = q <=> writer[d] = q),
           \A d \in Databases : writer'[d] = o <=> InTransaction(o)' /\ DatabaseOf(o)' = d,
           \A d \in Databases : draft'[d] # disk'[d] =>
              writer'[d] # Nil /\ pc'[writer'[d]] = "commit"
    PROVE  StoreInv'
<1>1. ASSUME NEW q \in Ops
      PROVE  /\ CallOK(q)' /\ DraftOK(q)'
             /\ \A d \in Databases : writer'[d] = q <=> InTransaction(q)' /\ DatabaseOf(q)' = d
  <2>1. CASE q # o
    BY <2>1, KeptOK DEF StoreInv, WriterInv
  <2>2. CASE q = o
    BY <2>2
  <2> QED BY <2>1, <2>2
<1>2. CallInv' /\ WriterInv'
  BY <1>1 DEF CallInv, WriterInv
<1>3. DraftInv'
  BY <1>1 DEF DraftInv
<1> QED BY <1>2, <1>3 DEF StoreInv

-----------------------------------------------------------------------------
(* The steps of one operation.                                             *)

\* Where the databases stand for an operation in a transaction, and for one
\* in none.
LEMMA TransactionFacts ==
    ASSUME StoreInv, NEW o \in Ops
    PROVE  /\ DatabaseOf(o) \in Databases
           /\ InTransaction(o) => writer[DatabaseOf(o)] = o
           /\ \A d \in Databases : writer[d] = o => InTransaction(o) /\ d = DatabaseOf(o)
           /\ pc[o] # "commit" => \A d \in Databases : writer[d] \in {o, Nil} => draft[d] = disk[d]
  BY NilAssumption DEF StoreInv, TypeOK, WriterInv, DraftInv, DatabaseOf, Databases, NilAssumption

\* The steps that write nothing and open no transaction.
LEMMA QuietInv ==
    ASSUME StoreInv, NEW o \in Ops,
           \/ \E req \in Contract!Requests : Call(o, req)
           \/ TakeLock(o) \/ SelectTail(o) \/ Leave(o) \/ ReadActivation(o) \/ ReadRecord(o)
    PROVE  StoreInv'
<1> USE DEF TypeOK, CallOK, DraftOK, InTransaction, OpKept, Goto, MethodOf, KeyOf, DatabaseOf,
            Before, Ends
<1>1. CallOK(o) /\ TypeOK /\ WriterInv /\ DraftInv
  BY DEF StoreInv, CallInv
<1>2. ASSUME NEW req \in Contract!Requests, Call(o, req) PROVE StoreInv'
  <2>1. TypeOK' /\ CallOK(o)' /\ DraftOK(o)'
    BY <1>1, <1>2, RequestFacts DEF Call
  <2> QED BY <1>1, <1>2, <2>1, SoloInv DEF Call, WriterInv, DraftInv
<1>3. CASE TakeLock(o)
  <2>1. TypeOK' /\ CallOK(o)' /\ DraftOK(o)'
    BY <1>1, <1>3, ProcessAssumption DEF TakeLock, ProcessAssumption, Databases
  <2> QED BY <1>1, <1>3, <2>1, SoloInv DEF TakeLock, WriterInv, DraftInv
<1>4. CASE SelectTail(o)
  <2>1. View(o).evidence = disk.evidence
    BY <1>1, <1>4, TransactionFacts DEF SelectTail, View
  <2>2. TypeOK' /\ CallOK(o)' /\ DraftOK(o)'
    BY <1>1, <1>4, <2>1 DEF SelectTail
  <2> QED BY <1>1, <1>4, <2>2, SoloInv DEF SelectTail, WriterInv, DraftInv
<1>5. CASE Leave(o)
  <2>1. TypeOK' /\ CallOK(o)' /\ DraftOK(o)'
    BY <1>1, <1>5 DEF Leave, LeaveLock
  <2> QED BY <1>1, <1>5, <2>1, SoloInv DEF Leave, WriterInv, DraftInv
<1>6. CASE ReadActivation(o) \/ ReadRecord(o)
  <2>1. TypeOK' /\ CallOK(o)' /\ DraftOK(o)'
    BY <1>1, <1>6 DEF ReadActivation, ReadRecord
  <2> QED BY <1>1, <1>6, <2>1, SoloInv DEF ReadActivation, ReadRecord, WriterInv, DraftInv
<1> QED BY <1>2, <1>3, <1>4, <1>5, <1>6

\* BEGIN IMMEDIATE: nobody else was in a transaction on this database.
LEMMA BeginInv ==
    ASSUME StoreInv, NEW o \in Ops, Begin(o)
    PROVE  StoreInv'
<1> USE DEF StoreInv, TypeOK, Begin, Goto, MethodOf, KeyOf
<1>1. DatabaseOf(o) \in Databases /\ DatabaseOf(o)' = DatabaseOf(o)
  BY DEF DatabaseOf, Databases
<1>2. TypeOK' /\ CallOK(o)' /\ DraftOK(o)' /\ InTransaction(o)'
  BY <1>1 DEF CallInv, CallOK, DraftOK, InTransaction, Before
<1>3. \A d \in Databases : writer'[d] = o <=> d = DatabaseOf(o)
  BY <1>1 DEF WriterInv, InTransaction
<1>4. \A q \in Ops, d \in Databases : q # o => (writer'[d] = q <=> writer[d] = q)
  BY <1>1, NilAssumption DEF NilAssumption
<1>5. \A q \in Ops : q # o => OpKept(q)
  BY DEF OpKept
<1>6. \A d \in Databases : draft'[d] # disk'[d] => writer'[d] # Nil /\ pc'[writer'[d]] = "commit"
  BY <1>1, NilAssumption DEF DraftInv, NilAssumption
<1> QED BY <1>1, <1>2, <1>3, <1>4, <1>5, <1>6, SoloInv

\* INSERT or UPDATE in a transaction: it drafts its effect on what is committed.
LEMMA WriteInv ==
    ASSUME StoreInv, NEW o \in Ops, WriteInTransaction(o)
    PROVE  StoreInv' /\ disk' = disk
<1> DEFINE e == DatabaseOf(o)
<1> USE DEF WriteInTransaction, Goto
<1>1. /\ CallOK(o) /\ DraftOK(o) /\ InTransaction(o) /\ e \in Databases /\ writer[e] = o
      /\ \A d \in Databases : writer[d] = o => d = e
      /\ View(o) = draft /\ draft[e] = disk[e]
  <2>1. CallOK(o) /\ DraftOK(o)
    BY DEF StoreInv, CallInv, DraftInv
  <2>2. InTransaction(o) /\ pc[o] # "commit"
    BY DEF InTransaction, InsertRecord, InsertActivation, SetUsed
  <2> QED BY <2>1, <2>2, TransactionFacts DEF View
<1>2. /\ disk' = disk /\ DatabaseOf(o)' = e /\ DOMAIN local' = Ops
      /\ \E content : draft' = [draft EXCEPT ![e] = content]
      /\ \A q \in Ops : q # o => OpKept(q)
  BY <1>1 DEF StoreInv, TypeOK, InsertRecord, InsertActivation, SetUsed, Write, DatabaseOf,
              MethodOf, OpKept
<1>3. Drafted(o)' /\ draft' \in Contents
  <2> USE DEF Drafted, Contents, Contract!Marks, MethodOf, KeyOf
  <2>1. /\ disk \in Contents /\ draft \in Contents /\ pc[o] = "write" /\ call' = call
        /\ call[o] \in Contract!Requests
    BY <1>1 DEF StoreInv, TypeOK, CallOK
  <2>2. CASE InsertRecord(o)
    <3>1. e = "evidence" /\ local' = local /\ local[o] = Contract!TailOf(disk.evidence)
      BY <1>1, <2>1, <2>2 DEF InsertRecord, DatabaseOf, DraftOK
    <3>2. draft' = [draft EXCEPT !["evidence"] = 
                      Append(disk.evidence, Contract!RecordAfter(o, local[o]))]
      BY <1>1, <2>2, <3>1 DEF InsertRecord, Write
    <3>3. Contract!RecordAfter(o, local[o]) \in Records
      BY <2>1, <3>1, TailType, RecordType
    <3>4. draft' \in Contents
      <4>1. Append(disk.evidence, Contract!RecordAfter(o, local[o])) \in Seq(Records)
        BY <2>1, <3>3
      <4> QED BY <2>1, <3>2, <4>1
    <3>5. Drafted(o)'
      BY <1>2, <2>1, <2>2, <3>1, <3>2 DEF InsertRecord
    <3> QED BY <3>4, <3>5
  <2>3. CASE InsertActivation(o)
    <3>1. e = "activation" /\ KeyOf(o) \in Auths
      BY <2>1, <2>3, RequestFacts DEF InsertActivation, DatabaseOf
    <3> QED BY <1>1, <1>2, <2>1, <2>3, <3>1 DEF InsertActivation, Write
  <2>4. CASE SetUsed(o)
    <3>1. e = "activation" /\ KeyOf(o) \in Auths
      BY <2>1, <2>4, RequestFacts DEF SetUsed, DatabaseOf
    <3> QED BY <1>1, <1>2, <2>1, <2>4, <3>1 DEF SetUsed, Write, StoreInv, TypeOK
  <2> QED BY <2>2, <2>3, <2>4
<1>4. /\ TypeOK' /\ CallOK(o)' /\ DraftOK(o)' /\ InTransaction(o)'
  BY <1>1, <1>2, <1>3 DEF StoreInv, TypeOK, CallOK, DraftOK, InTransaction, Before, MethodOf, KeyOf
<1>5. \A q \in Ops : q # o /\ InTransaction(q) => draft'[DatabaseOf(q)] = draft[DatabaseOf(q)]
  <2>1. ASSUME NEW q \in Ops, q # o, InTransaction(q) PROVE DatabaseOf(q) # e
    BY <1>1, <2>1, TransactionFacts
  <2> QED BY <1>2, <2>1 DEF StoreInv, TypeOK, Contents, DatabaseOf
<1>6. \A d \in Databases : draft'[d] # disk'[d] => writer'[d] # Nil /\ pc'[writer'[d]] = "commit"
  <2>1. ASSUME NEW d \in Databases, draft'[d] # disk'[d], d # e
        PROVE  writer'[d] # Nil /\ pc'[writer'[d]] = "commit"
    BY <1>1, <1>2, <2>1 DEF StoreInv, TypeOK, DraftInv, Contents, Databases
  <2> QED BY <1>1, <2>1, NilAssumption DEF StoreInv, TypeOK, NilAssumption
<1>7. \A d \in Databases : writer'[d] = o <=> InTransaction(o)' /\ DatabaseOf(o)' = d
  BY <1>1, <1>2, <1>4
<1> QED BY <1>2, <1>4, <1>5, <1>6, <1>7, SoloInv

\* The UPDATE of unconsume commits itself: nobody was in a transaction.
LEMMA SetUnusedInv ==
    ASSUME StoreInv, NEW o \in Ops, SetUnused(o)
    PROVE  /\ StoreInv' /\ writer["activation"] = Nil
           /\ disk' = [disk EXCEPT !.activation =
                          IF disk.activation[KeyOf(o)] = "used"
                          THEN [disk.activation EXCEPT ![KeyOf(o)] = "unused"]
                          ELSE disk.activation]
<1> USE DEF SetUnused, Goto
<1>1. /\ TypeOK /\ CallOK(o) /\ ~InTransaction(o) /\ ~InTransaction(o)' /\ KeyOf(o) \in Auths
      /\ DatabaseOf(o) = "activation" /\ DatabaseOf(o)' = DatabaseOf(o)
      /\ DraftOK(o)' /\ CallOK(o)'
  BY RequestFacts DEF StoreInv, TypeOK, CallInv, CallOK, DraftOK, InTransaction, DatabaseOf,
                      MethodOf, KeyOf, Before
<1>2. writer["activation"] = Nil /\ draft.activation = disk.activation
  BY <1>1, TransactionFacts DEF Write, Databases, StoreInv, DraftInv
<1>3. View(o) = disk
  BY <1>1, TransactionFacts DEF View
<1> DEFINE rows == IF disk.activation[KeyOf(o)] = "used"
                   THEN [disk.activation EXCEPT ![KeyOf(o)] = "unused"]
                   ELSE disk.activation
<1>4. disk' = [disk EXCEPT !.activation = rows] /\ draft' = [draft EXCEPT !.activation = rows]
  BY <1>2, <1>3, NilAssumption DEF Write, NilAssumption
<1>5. TypeOK'
  <2>1. rows \in [Auths -> Contract!Marks]
    BY <1>1 DEF TypeOK, Contents, Contract!Marks
  <2> QED BY <1>1, <1>4, <2>1 DEF TypeOK, Contents, Ends
<1>6. \A q \in Ops : q # o =>
         /\ OpKept(q)
         /\ InTransaction(q) => /\ disk'[DatabaseOf(q)] = disk[DatabaseOf(q)]
                                /\ draft'[DatabaseOf(q)] = draft[DatabaseOf(q)]
  <2>1. ASSUME NEW q \in Ops, InTransaction(q) PROVE DatabaseOf(q) = "evidence"
    BY <1>2, <2>1, TransactionFacts, NilAssumption DEF Databases, NilAssumption
  <2> QED BY <1>1, <1>4, <2>1 DEF TypeOK, Contents, OpKept
<1>7. \A d \in Databases : draft'[d] # disk'[d] => writer'[d] # Nil /\ pc'[writer'[d]] = "commit"
  <2>1. draft'["activation"] = disk'["activation"]
    BY <1>1, <1>4 DEF TypeOK, Contents
  <2>2. draft'["evidence"] = draft["evidence"] /\ disk'["evidence"] = disk["evidence"]
    BY <1>1, <1>4 DEF TypeOK, Contents
  <2>3. writer["evidence"] # o
    BY <1>1, TransactionFacts DEF Databases
  <2> QED BY <1>1, <2>1, <2>2, <2>3 DEF StoreInv, TypeOK, DraftInv, Databases
<1>8. \A d \in Databases : writer'[d] = o <=> InTransaction(o)' /\ DatabaseOf(o)' = d
  BY <1>1, TransactionFacts
<1>9. StoreInv'
  BY <1>1, <1>5, <1>6, <1>7, <1>8, SoloInv
<1> QED BY <1>2, <1>4, <1>9

\* COMMIT: what was drafted is committed, and nobody writes.
LEMMA CommitInv ==
    ASSUME StoreInv, NEW o \in Ops, CommitTransaction(o)
    PROVE  /\ StoreInv' /\ Drafted(o) /\ KeyOf(o) \in Auths \cup {o}
           /\ disk' = [disk EXCEPT ![DatabaseOf(o)] = draft[DatabaseOf(o)]]
<1> DEFINE e == DatabaseOf(o)
<1> USE DEF CommitTransaction, Goto
<1>1. CallOK(o) /\ DraftOK(o) /\ TypeOK
  BY DEF StoreInv, CallInv, DraftInv
<1>2. /\ InTransaction(o) /\ ~InTransaction(o)' /\ Drafted(o) /\ DatabaseOf(o)' = e
      /\ KeyOf(o) \in Auths \cup {o} /\ CallOK(o)' /\ DraftOK(o)'
  BY <1>1, RequestFacts DEF TypeOK, CallOK, DraftOK, InTransaction, DatabaseOf, MethodOf, KeyOf,
                            Before
<1>3. e \in Databases /\ writer[e] = o /\ \A d \in Databases : writer[d] = o => d = e
  BY <1>2, TransactionFacts
<1>4. /\ disk' = [disk EXCEPT ![e] = draft[e]] /\ writer' = [writer EXCEPT ![e] = Nil]
      /\ draft' = draft
  BY <1>1, <1>3 DEF TypeOK, Contents, Databases
<1>5. TypeOK'
  BY <1>1, <1>3, <1>4 DEF TypeOK, Contents, Databases, Ends
<1>6. \A q \in Ops : q # o =>
         /\ OpKept(q)
         /\ InTransaction(q) => /\ disk'[DatabaseOf(q)] = disk[DatabaseOf(q)]
                                /\ draft'[DatabaseOf(q)] = draft[DatabaseOf(q)]
  <2>1. ASSUME NEW q \in Ops, q # o, InTransaction(q) PROVE DatabaseOf(q) # e
    BY <1>3, <2>1, TransactionFacts
  <2>2. ASSUME NEW q \in Ops, q # o PROVE OpKept(q)
    BY <1>1, <2>2 DEF TypeOK, OpKept
  <2> QED BY <1>1, <1>4, <2>1, <2>2, TransactionFacts DEF TypeOK, Contents, Databases
<1>7. \A q \in Ops, d \in Databases : q # o => (writer'[d] = q <=> writer[d] = q)
  BY <1>1, <1>3, <1>4, NilAssumption DEF TypeOK, NilAssumption
<1>8. \A d \in Databases : draft'[d] # disk'[d] => writer'[d] # Nil /\ pc'[writer'[d]] = "commit"
  <2>1. draft'[e] = disk'[e]
    BY <1>1, <1>3, <1>4 DEF TypeOK, Contents, Databases
  <2>2. ASSUME NEW d \in Databases, d # e
        PROVE  draft'[d] = draft[d] /\ disk'[d] = disk[d] /\ writer'[d] = writer[d] /\ writer[d] # o
    BY <1>1, <1>3, <1>4, <2>2 DEF TypeOK, Contents, Databases
  <2> QED BY <1>1, <2>1, <2>2 DEF StoreInv, TypeOK, DraftInv
<1>9. \A d \in Databases : writer'[d] = o <=> InTransaction(o)' /\ DatabaseOf(o)' = d
  BY <1>1, <1>2, <1>3, <1>4, NilAssumption DEF TypeOK, NilAssumption
<1>10. StoreInv'
  BY <1>2, <1>5, <1>6, <1>7, <1>8, <1>9, SoloInv
<1> QED BY <1>2, <1>4, <1>10

-----------------------------------------------------------------------------
(* Errors and crashes.                                                     *)

\* The operations in gone end without an answer, and roll back.
LEMMA RollBackInv ==
    ASSUME StoreInv, TypeOK', NEW gone \in SUBSET Ops, RollBack(gone),
           UNCHANGED <<call, answer, local, disk>>,
           \A q \in Ops : IF q \in gone THEN pc[q] # "idle" /\ pc'[q] \in {"raised", "crashed"}
                                        ELSE pc'[q] = pc[q]
    PROVE  StoreInv'
<1>1. \A d \in Databases : IF writer[d] \in gone
                           THEN writer'[d] = Nil /\ draft'[d] = disk[d]
                           ELSE writer'[d] = writer[d] /\ draft'[d] = draft[d]
  BY DEF RollBack
<1>2. ASSUME NEW q \in Ops
      PROVE  /\ CallOK(q)' /\ DraftOK(q)'
             /\ \A d \in Databases : writer'[d] = q <=> InTransaction(q)' /\ DatabaseOf(q)' = d
  <2>1. CASE q \in gone
    <3>1. CallOK(q)' /\ DraftOK(q)' /\ ~InTransaction(q)'
      BY <2>1 DEF StoreInv, CallInv, CallOK, DraftOK, InTransaction, Before, MethodOf, KeyOf
    <3>2. \A d \in Databases : writer'[d] # q
      BY <1>1, <2>1, NilAssumption DEF NilAssumption
    <3> QED BY <3>1, <3>2
  <2>2. CASE q \notin gone
    <3>1. OpKept(q)
      BY <2>2 DEF OpKept
    <3>2. InTransaction(q) => /\ disk'[DatabaseOf(q)] = disk[DatabaseOf(q)]
                              /\ draft'[DatabaseOf(q)] = draft[DatabaseOf(q)]
      BY <1>1, <2>2, TransactionFacts
    <3>3. \A d \in Databases : writer'[d] = q <=> writer[d] = q
      BY <1>1, <2>2, NilAssumption DEF NilAssumption
    <3> QED BY <3>1, <3>2, <3>3, KeptOK DEF StoreInv, WriterInv
  <2> QED BY <2>1, <2>2
<1>3. CallInv' /\ WriterInv'
  BY <1>2 DEF CallInv, WriterInv
<1>4. \A d \in Databases : draft'[d] # disk'[d] => writer'[d] # Nil /\ pc'[writer'[d]] = "commit"
  BY <1>1 DEF StoreInv, TypeOK, DraftInv
<1>5. DraftInv'
  BY <1>2, <1>4 DEF DraftInv
<1> QED BY <1>3, <1>5 DEF StoreInv

\* A roll back keeps the databases in type.
LEMMA RollBackType ==
    ASSUME TypeOK, NEW gone, RollBack(gone)
    PROVE  writer' \in [Databases -> Ops \cup {Nil}] /\ draft' \in Contents
  BY DEF TypeOK, RollBack, Contents, Databases

LEMMA RaiseInv ==
    ASSUME StoreInv, NEW o \in Ops, Raise(o)
    PROVE  StoreInv'
<1>1. TypeOK'
  BY RollBackType DEF StoreInv, TypeOK, Raise, LeaveLock, Goto, Ends
<1> QED BY <1>1, RollBackInv DEF StoreInv, TypeOK, Raise, Goto, Interruptible

LEMMA CrashInv ==
    ASSUME StoreInv, NEW n \in Processes, Crash(n)
    PROVE  StoreInv'
<1> DEFINE dead == {o \in Ops : ProcessOf[o] = n /\ Active(o)}
<1>1. TypeOK'
  BY RollBackType DEF StoreInv, TypeOK, Crash, Ends
<1>2. \A q \in Ops : IF q \in dead THEN pc[q] # "idle" /\ pc'[q] \in {"raised", "crashed"}
                                    ELSE pc'[q] = pc[q]
  BY DEF StoreInv, TypeOK, Crash, Active
<1> QED BY <1>1, <1>2, RollBackInv DEF Crash

-----------------------------------------------------------------------------
(* The invariant is inductive.                                             *)

LEMMA StoreInit == Init => StoreInv
<1> SUFFICES ASSUME Init PROVE StoreInv
  OBVIOUS
<1>1. TypeOK
  <2>1. disk \in Contents
    <3>1. <<>> \in Seq(Records)
      OBVIOUS
    <3> QED BY <3>1 DEF Init, Contents
  <2> QED BY <2>1 DEF Init, TypeOK, Ends
<1>2. CallInv /\ WriterInv /\ DraftInv
  BY NilAssumption DEF Init, CallInv, CallOK, WriterInv, DraftInv, DraftOK, InTransaction,
                       NilAssumption
<1> QED BY <1>1, <1>2 DEF StoreInv

LEMMA StoreStep == StoreInv /\ [Next]_vars => StoreInv'
<1> SUFFICES ASSUME StoreInv, [Next]_vars PROVE StoreInv'
  OBVIOUS
<1>1. ASSUME NEW o \in Ops, OpStep(o) PROVE StoreInv'
  BY <1>1, QuietInv, BeginInv, WriteInv, SetUnusedInv, CommitInv, RaiseInv DEF OpStep
<1>2. ASSUME NEW o \in Ops, NEW req \in Contract!Requests, Call(o, req) PROVE StoreInv'
  BY <1>2, QuietInv
<1>3. CASE UNCHANGED vars
  <2> USE <1>3 DEF vars, InTransaction, DatabaseOf, MethodOf, KeyOf
  <2>1. TypeOK'
    BY DEF StoreInv, TypeOK
  <2>2. CallInv' /\ WriterInv'
    BY DEF StoreInv, CallInv, CallOK, WriterInv
  <2>3. DraftInv'
    BY DEF StoreInv, DraftInv, DraftOK, Drafted
  <2> QED BY <2>1, <2>2, <2>3 DEF StoreInv
<1> QED BY <1>1, <1>2, <1>3, CrashInv DEF Next, Finished

LEMMA StoreInvHolds == Spec => []StoreInv
  BY StoreInit, StoreStep, PTL DEF Spec

\* Theorem StoresAreTyped: every variable of the stores stays in its type (state.py:107-154,
\* evidence.py:80-105).
THEOREM StoresAreTyped == Spec => []TypeOK
  BY StoreInvHolds, PTL DEF StoreInv

-----------------------------------------------------------------------------
(* The stores implement their contract.                                    *)

\* A commit is the effect of its operation.
LEMMA CommitTakesEffect ==
    ASSUME StoreInv, NEW o \in Ops, CommitTransaction(o)
    PROVE  Contract!TakeEffect(o)
<1>1. /\ Drafted(o) /\ CallOK(o) /\ pc[o] = "commit" /\ TypeOK
      /\ disk' = [disk EXCEPT ![DatabaseOf(o)] = draft[DatabaseOf(o)]]
      /\ answer' = [answer EXCEPT ![o] = AnswerOf(o)] /\ call' = call
  BY CommitInv DEF StoreInv, CallInv, CommitTransaction
<1>2. call[o] \in Contract!Requests /\ call[o] # Nil /\ answer[o] = Nil
  BY <1>1, RequestFacts DEF CallOK, Before
<1> USE DEF Contract!TakeEffect, MethodOf, KeyOf, DatabaseOf, Contract!Answers, Contract!MarkAs
<1>3. CASE MethodOf(o) = "put"
  BY <1>1, <1>2, <1>3 DEF AnswerOf, Drafted, TypeOK, Contents, Contract!Put
<1>4. CASE MethodOf(o) = "consume"
  <2>1. DatabaseOf(o) = "activation" /\ disk'.evidence = disk.evidence
        /\ disk'.activation = draft.activation
    BY <1>1, <1>4 DEF TypeOK, Contents
  <2>2. Contract!Consume(o, call[o].key)
    <3>1. AnswerOf(o) = IF local[o] = 1 THEN "consumed" ELSE "refused"
      BY <1>4 DEF AnswerOf
    <3>2. CASE disk.activation[KeyOf(o)] = "unused"
      BY <1>1, <1>4, <2>1, <3>1, <3>2 DEF Drafted, Contract!Consume
    <3>3. CASE disk.activation[KeyOf(o)] # "unused"
      <4>1. local[o] = 0 /\ draft.activation = disk.activation
        BY <1>1, <1>4, <3>3 DEF Drafted
      <4>2. AnswerOf(o) = "refused"
        BY <3>1, <4>1
      <4> QED BY <1>1, <2>1, <3>3, <4>1, <4>2 DEF Contract!Consume
    <3> QED BY <3>2, <3>3
  <2> QED BY <1>1, <1>2, <1>4, <2>2
<1>5. CASE MethodOf(o) = "commit"
  BY <1>1, <1>2, <1>5 DEF AnswerOf, Drafted, CallOK, TypeOK, Contents, Contract!Commit
<1> QED BY <1>1, <1>3, <1>4, <1>5 DEF CallOK

\* So is the UPDATE of unconsume, and each read.
LEMMA StatementTakesEffect ==
    ASSUME StoreInv, NEW o \in Ops, SetUnused(o) \/ ReadActivation(o) \/ ReadRecord(o)
    PROVE  Contract!TakeEffect(o)
<1>1. CallOK(o) /\ TypeOK /\ call' = call /\ pc[o] \in {"write", "read"}
  BY DEF StoreInv, CallInv, SetUnused, ReadActivation, ReadRecord
<1>2. call[o] \in Contract!Requests /\ call[o] # Nil /\ answer[o] = Nil
  BY <1>1, RequestFacts DEF CallOK, Before
<1> USE DEF Contract!TakeEffect, MethodOf, KeyOf, Contract!Answers, Contract!MarkAs
<1>3. CASE SetUnused(o)
  BY <1>1, <1>2, <1>3, SetUnusedInv DEF SetUnused, TypeOK, Contents, Contract!Unconsume
<1>4. CASE ReadActivation(o)
  BY <1>1, <1>2, <1>4 DEF ReadActivation, Contract!Get
<1>5. CASE ReadRecord(o)
  BY <1>1, <1>2, <1>5 DEF ReadRecord, Contract!Fetch
<1> QED BY <1>3, <1>4, <1>5

LEMMA ContractInitHolds == Init => Contract!ContractInit
  BY DEF Init, Contract!ContractInit

LEMMA ContractStep ==
    StoreInv /\ [Next]_vars => [Contract!ContractNext]_(Contract!contractVars)
<1> SUFFICES ASSUME StoreInv, [Next]_vars
             PROVE  Contract!ContractNext \/ UNCHANGED Contract!contractVars
  OBVIOUS
<1> USE DEF Contract!ContractNext, Contract!contractVars
<1>1. ASSUME NEW o \in Ops, OpStep(o)
      PROVE  Contract!ContractNext \/ UNCHANGED Contract!contractVars
  <2>1. CASE CommitTransaction(o) \/ SetUnused(o) \/ ReadActivation(o) \/ ReadRecord(o)
    BY <2>1, CommitTakesEffect, StatementTakesEffect
  <2>2. CASE WriteInTransaction(o)
    BY <2>2, WriteInv DEF WriteInTransaction
  <2>3. CASE TakeLock(o) \/ Begin(o) \/ SelectTail(o) \/ Leave(o) \/ Raise(o)
    BY <2>3 DEF TakeLock, Begin, SelectTail, Leave, Raise
  <2> QED BY <1>1, <2>1, <2>2, <2>3 DEF OpStep
<1>2. ASSUME NEW o \in Ops, NEW req \in Contract!Requests, Call(o, req)
      PROVE  Contract!Invoke(o, req)
  BY <1>2 DEF StoreInv, CallInv, CallOK, Call, Contract!Invoke
<1>3. ASSUME NEW n \in Processes, Crash(n) PROVE UNCHANGED Contract!contractVars
  BY <1>3 DEF Crash
<1>4. CASE UNCHANGED vars
  BY <1>4 DEF vars
<1> QED BY <1>1, <1>2, <1>3, <1>4 DEF Next, Finished

\* Theorem StoresRefineContract: with any number of processes over one database, errors and
\* crashes included, the SQLite stores are the in-memory ones: an operation
\* takes effect once, at its commit, with the answer the in-memory store gives
\* (state.py:107-154, evidence.py:80-105).
THEOREM StoresRefineContract == Spec => StoresImplementContract
<1>1. Spec => Contract!ContractInit /\ [][Contract!ContractNext]_(Contract!contractVars)
  BY StoreInvHolds, ContractInitHolds, ContractStep, PTL DEF Spec
<1> QED BY <1>1 DEF StoresImplementContract, Contract!ContractSpec

-----------------------------------------------------------------------------
(* How often an authority is consumed.                                     *)

Consumed(a) == Answered("consume", a, "consumed")
Unconsumed(a) == Answered("unconsume", a, "unconsumed")

\* The mark keeps the balance: a used authority was consumed once more, at most,
\* than it was unconsumed, and one that is not used no more often.
Balanced(a) ==
    /\ IsFiniteSet(Consumed(a)) /\ IsFiniteSet(Unconsumed(a))
    /\ Cardinality(Consumed(a)) <= Cardinality(Unconsumed(a))
                                     + (IF disk.activation[a] = "used" THEN 1 ELSE 0)

BalanceInv == \A a \in Auths : Balanced(a)

\* The operations that were answered have no place for one more.
LEMMA NotYetAnswered ==
    ASSUME NEW o \in Ops, answer[o] = Nil
    PROVE  \A a : o \notin Consumed(a) /\ o \notin Unconsumed(a)
  BY NilAssumption DEF NilAssumption, Consumed, Unconsumed, Answered

LEMMA EffectBalance ==
    ASSUME StoreInv, BalanceInv, NEW o \in Ops, Contract!TakeEffect(o)
    PROVE  BalanceInv'
<1> SUFFICES ASSUME NEW a \in Auths PROVE Balanced(a)'
  BY DEF BalanceInv
<1> DEFINE marks == disk.activation
           consumes == call[o] = [method |-> "consume", key |-> a]
           unconsumes == call[o] = [method |-> "unconsume", key |-> a]
<1>1. PICK value : answer' = [answer EXCEPT ![o] = value]
  BY DEF Contract!TakeEffect, Contract!Put, Contract!Get, Contract!Consume,
         Contract!Unconsume, Contract!Commit, Contract!Fetch, Contract!Answers
<1>2. /\ call' = call /\ answer[o] = Nil /\ marks \in [Auths -> Contract!Marks]
      /\ call[o] \in Contract!Requests /\ answer'[o] = value
  BY <1>1 DEF StoreInv, TypeOK, Contents, Contract!TakeEffect
<1>3. /\ IsFiniteSet(Consumed(a)) /\ Cardinality(Consumed(a)) \in Nat
      /\ IsFiniteSet(Unconsumed(a)) /\ Cardinality(Unconsumed(a)) \in Nat
      /\ Cardinality(Consumed(a)) <= Cardinality(Unconsumed(a))
                                       + (IF marks[a] = "used" THEN 1 ELSE 0)
  BY FS_CardinalityType DEF BalanceInv, Balanced
<1>4. /\ IsFiniteSet(Consumed(a) \cup {o})
      /\ Cardinality(Consumed(a) \cup {o}) = Cardinality(Consumed(a)) + 1
      /\ IsFiniteSet(Unconsumed(a) \cup {o})
      /\ Cardinality(Unconsumed(a) \cup {o}) = Cardinality(Unconsumed(a)) + 1
  BY <1>2, <1>3, NotYetAnswered, FS_AddElement
<1>5. Consumed(a)' = IF consumes /\ value = "consumed" THEN Consumed(a) \cup {o} ELSE Consumed(a)
  BY <1>1, <1>2, NilAssumption DEF NilAssumption, StoreInv, TypeOK, Consumed, Answered
<1>6. Unconsumed(a)' = IF unconsumes /\ value = "unconsumed" THEN Unconsumed(a) \cup {o}
                                                             ELSE Unconsumed(a)
  BY <1>1, <1>2, NilAssumption DEF NilAssumption, StoreInv, TypeOK, Unconsumed, Answered
<1>7. \/ consumes /\ value = "consumed" /\ marks[a] = "unused" /\ marks'[a] = "used"
      \/ unconsumes /\ value = "unconsumed" /\ marks'[a] # "used"
      \/ /\ ~(consumes /\ value = "consumed") /\ ~(unconsumes /\ value = "unconsumed")
         /\ marks'[a] = "used" <=> marks[a] = "used"
  <2> DEFINE b == call[o].key
  <2> USE <1>2 DEF Contract!TakeEffect, Contract!Answers, Contract!MarkAs
  <2>1. CASE call[o].method = "put"
    <3>1. marks' = [marks EXCEPT ![b] = "unused"] /\ marks[b] = "absent"
      BY <2>1 DEF Contract!Put
    <3> QED BY <2>1, <3>1
  <2>2. CASE call[o].method = "consume"
    <3>1. CASE /\ marks[b] = "unused" /\ marks' = [marks EXCEPT ![b] = "used"]
               /\ answer' = [answer EXCEPT ![o] = "consumed"]
      <4>1. value = "consumed" /\ b \in Auths
        BY <2>2, <3>1, RequestFacts DEF StoreInv, TypeOK
      <4>2. CASE a = b
        BY <2>2, <3>1, <4>1, <4>2, RequestFacts
      <4>3. CASE a # b
        BY <2>2, <3>1, <4>1, <4>3
      <4> QED BY <4>2, <4>3
    <3>2. CASE marks' = marks /\ answer' = [answer EXCEPT ![o] = "refused"]
      BY <1>1, <2>2, <3>2 DEF StoreInv, TypeOK
    <3> QED BY <2>2, <3>1, <3>2 DEF Contract!Consume
  <2>3. CASE call[o].method = "unconsume"
    <3>1. /\ marks' = IF marks[b] = "used" THEN [marks EXCEPT ![b] = "unused"] ELSE marks
          /\ answer' = [answer EXCEPT ![o] = "unconsumed"]
      BY <2>3 DEF Contract!Unconsume
    <3>2. value = "unconsumed"
      BY <3>1 DEF StoreInv, TypeOK
    <3> QED BY <2>3, <3>1, <3>2, RequestFacts
  <2>4. CASE call[o].method \in {"get", "commit", "fetch"}
    <3>1. marks' = marks
      BY <2>4 DEF Contract!Get, Contract!Commit, Contract!Fetch
    <3> QED BY <2>4, <3>1
  <2> QED BY <2>1, <2>2, <2>3, <2>4, RequestFacts
<1> QED BY <1>3, <1>4, <1>5, <1>6, <1>7 DEF Balanced

LEMMA BalanceInit == Init => BalanceInv
<1> SUFFICES ASSUME Init, NEW a \in Auths PROVE Balanced(a)
  BY DEF BalanceInv
<1>1. Consumed(a) = {} /\ Unconsumed(a) = {}
  BY NilAssumption DEF NilAssumption, Init, Consumed, Unconsumed, Answered
<1> QED BY <1>1, FS_EmptySet DEF Balanced

\* A call, and a step that stutters in the contract, answer nobody.
LEMMA BalanceStep ==
    StoreInv /\ BalanceInv /\ [Next]_vars => BalanceInv'
<1> SUFFICES ASSUME StoreInv, BalanceInv, [Next]_vars PROVE BalanceInv'
  OBVIOUS
<1>1. CASE \E o \in Ops : Contract!TakeEffect(o)
  BY <1>1, EffectBalance
<1>2. ASSUME NEW o \in Ops, NEW req \in Contract!Requests, Contract!Invoke(o, req)
      PROVE  BalanceInv'
  <2>1. answer[o] = Nil
    BY <1>2, RequestFacts DEF Contract!Invoke, StoreInv, CallInv, CallOK, Before
  <2>2. ASSUME NEW a PROVE Consumed(a)' = Consumed(a) /\ Unconsumed(a)' = Unconsumed(a)
    BY <1>2, <2>1, NilAssumption
       DEF NilAssumption, Contract!Invoke, StoreInv, TypeOK, Consumed, Unconsumed, Answered
  <2> QED BY <1>2, <2>2 DEF BalanceInv, Balanced, Contract!Invoke
<1>3. CASE UNCHANGED Contract!contractVars
  BY <1>3 DEF Contract!contractVars, BalanceInv, Balanced, Consumed, Unconsumed, Answered
<1> QED BY <1>1, <1>2, <1>3, ContractStep DEF Contract!ContractNext

\* Theorem ConsumeIsCounted: whichever objects and processes the callers go
\* through, for any number of them and of authorities, consume
\* returns True once, and once more for each unconsume (state.py:138-150).
THEOREM ConsumeIsCounted == Spec => []ConsumedOncePerUnconsume
<1>1. StoreInv /\ BalanceInv => ConsumedOncePerUnconsume
  <2> SUFFICES ASSUME StoreInv, BalanceInv, NEW a \in Auths
               PROVE  Cardinality(Consumed(a)) <= 1 + Cardinality(Unconsumed(a))
    BY DEF ConsumedOncePerUnconsume, Consumed, Unconsumed
  <2>1. Cardinality(Consumed(a)) \in Nat /\ Cardinality(Unconsumed(a)) \in Nat
    BY FS_CardinalityType DEF BalanceInv, Balanced
  <2> QED BY <2>1 DEF BalanceInv, Balanced
<1> QED BY <1>1, StoreInvHolds, BalanceInit, BalanceStep, PTL DEF Spec
=============================================================================
