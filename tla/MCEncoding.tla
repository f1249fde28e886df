------------------------------ MODULE MCEncoding ------------------------------
(***************************************************************************)
(* The values TLC compares with ParameterBinding: each pair of scalars,    *)
(* lists and mappings that a careless encoding would confuse.              *)
(***************************************************************************)
EXTENDS ParameterBinding

IsoHours == 11 :> "11:00Z" @@ 12 :> "12:00Z"

\* Numbers by value, texts in lexicographic order, Enum members by value.
numbers == "true" :> 1 @@ "1" :> 1 @@ "1.0" :> 1 @@ "9" :> 9 @@ "10" :> 10 @@ "nan" :> 0
texts == "1" :> 1 @@ "10" :> 2 @@ "11:00Z" :> 3 @@ "12:00Z" :> 4 @@ "9" :> 5
         @@ "a" :> 6 @@ "b" :> 7
Ranks == [int |-> numbers, float |-> numbers, bool |-> numbers, none |-> "null" :> 1,
          str |-> texts, enum |-> texts]

one == Scalar("int", "1")
nan == Scalar("float", "nan")
a == Text("a")
enumA == Scalar("enum", "a")
noon == [t |-> "datetime", wall |-> 12, offset |-> 0]
noonElsewhere == [t |-> "datetime", wall |-> 13, offset |-> 1]
eleven == [t |-> "datetime", wall |-> 12, offset |-> 1]

Scalars == {Scalar("none", "null"), Scalar("bool", "true"), one, Scalar("float", "1.0"),
            nan, a, Text("1"), Text("12:00Z"), enumA, noon, noonElsewhere, eleven}

List(items) == [t |-> "list", items |-> items]
Pair(key, val) == [key |-> key, val |-> val]
Dict(pairs) == [t |-> "dict", pairs |-> pairs]

SomeItems == {one, a, enumA, List(<<>>), List(<<a>>), Dict(<<>>)}
Lists == {List(s) : s \in {<<>>} \cup {<<x>> : x \in SomeItems}
                          \cup {<<x, y>> : x, y \in SomeItems}}
         \cup {[t |-> "tuple", items |-> <<a, one>>], [t |-> "tuple", items |-> <<>>]}

\* Two pairs in both orders, of keys that compare and of keys that do not.
Keys == {a, Text("b"), Text("9"), Text("10"), Scalar("int", "9"), Scalar("int", "10"),
         Scalar("bool", "true"), Scalar("none", "null")}
TwoKeys == {kl \in Keys \X Keys : kl[1] # kl[2]}
Dicts == {Dict(<<Pair(k, one)>>) : k \in Keys \cup {noon}}
         \cup {Dict(<<Pair(kl[1], one), Pair(kl[2], a)>>) : kl \in TwoKeys}
         \cup {Dict(<<Pair(kl[2], a), Pair(kl[1], one)>>) : kl \in TwoKeys}
         \cup {Dict(<<Pair(a, List(<<one, a>>)), Pair(Text("b"), noon)>>),
               [t |-> "model", pairs |-> <<Pair(Text("b"), eleven), Pair(a, enumA)>>],
               Dict(<<Pair(a, Dict(<<Pair(Text("b"), nan)>>))>>)}

AllValues == Scalars \cup Lists \cup Dicts
=============================================================================
