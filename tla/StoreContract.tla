---------------------------- MODULE StoreContract ----------------------------
(***************************************************************************)
(* What the activation store and the evidence store promise their callers. *)
(* It is the in-memory pair, whose every method is one step under the      *)
(* store's lock (state.py:50-79, evidence.py:33-50): an operation is       *)
(* called, takes effect at one moment and so fixes its answer, or raises   *)
(* and never does.  FinalityState's store operators are these steps.       *)
(***************************************************************************)
EXTENDS Naturals, Sequences

CONSTANTS Ops,      \* the operations; a commit names its record after itself
          Auths,    \* authority identifiers
          Nil

Genesis == "GENESIS"

\* A request: a method of a store and the identifier it is called with.
Requests == [method : {"put", "get", "consume", "unconsume"}, key : Auths]
                \cup [method : {"commit", "fetch"}, key : Ops]

Marks == {"absent", "unused", "used"}

VARIABLES call,     \* call[o]: the request of operation o, or Nil
          answer,   \* answer[o]: what o returns, once it took effect, or Nil
          marks,    \* marks[a]: whether a has an activation record, and its mark
          chain     \* the evidence records in the order of their commits

contractVars == <<call, answer, marks, chain>>

\* The activations are those an earlier process left.
ContractInit ==
    /\ call = [o \in Ops |-> Nil]
    /\ answer = [o \in Ops |-> Nil]
    /\ marks \in [Auths -> Marks]
    /\ chain = <<>>

\* Mutant of TailOf: an empty table has no tail, not even GENESIS.
TailOfRow(records) == IF records = <<>> THEN Nil ELSE records[Len(records)].id

\* The digest the next record links to, and that record.
TailOf(records) == IF records = <<>> THEN Genesis ELSE records[Len(records)].id
RecordAfter(id, previous) == [id |-> id, previous |-> previous]

Invoke(o, req) ==
    /\ call[o] = Nil
    /\ req.method = "commit" => req.key = o
    /\ call' = [call EXCEPT ![o] = req]
    /\ UNCHANGED <<answer, marks, chain>>

Answers(o, value) == answer' = [answer EXCEPT ![o] = value]
MarkAs(a, mark) == marks' = [marks EXCEPT ![a] = mark]

\* A duplicate raises: it never takes effect.
Put(o, a) ==
    /\ marks[a] = "absent"
    /\ MarkAs(a, "unused") /\ Answers(o, "stored") /\ UNCHANGED chain

\* get and, by way of it, is_used.
Get(o, a) == Answers(o, marks[a]) /\ UNCHANGED <<marks, chain>>

\* True for one caller at most.
Consume(o, a) ==
    /\ \/ marks[a] = "unused" /\ MarkAs(a, "used") /\ Answers(o, "consumed")
       \/ marks[a] # "unused" /\ Answers(o, "refused") /\ UNCHANGED marks
    /\ UNCHANGED chain

Unconsume(o, a) ==
    /\ IF marks[a] = "used" THEN MarkAs(a, "unused") ELSE UNCHANGED marks
    /\ Answers(o, "unconsumed") /\ UNCHANGED chain

\* commit of the evidence store: the record links to the one before it.
Commit(o) ==
    LET record == RecordAfter(o, TailOf(chain))
    IN  chain' = Append(chain, record) /\ Answers(o, record) /\ UNCHANGED marks

\* get of the evidence store: the record of this identifier, or none.
Found(records, id) == {records[i] : i \in {j \in DOMAIN records : records[j].id = id}}
Fetch(o, id) == Answers(o, Found(chain, id)) /\ UNCHANGED <<marks, chain>>

TakeEffect(o) ==
    /\ call[o] # Nil /\ answer[o] = Nil
    /\ \/ call[o].method = "put" /\ Put(o, call[o].key)
       \/ call[o].method = "get" /\ Get(o, call[o].key)
       \/ call[o].method = "consume" /\ Consume(o, call[o].key)
       \/ call[o].method = "unconsume" /\ Unconsume(o, call[o].key)
       \/ call[o].method = "commit" /\ Commit(o)
       \/ call[o].method = "fetch" /\ Fetch(o, call[o].key)
    /\ UNCHANGED call

ContractNext ==
    \E o \in Ops : TakeEffect(o) \/ \E req \in Requests : Invoke(o, req)

ContractSpec == ContractInit /\ [][ContractNext]_contractVars
=============================================================================
