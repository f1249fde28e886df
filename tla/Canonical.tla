------------------------------ MODULE Canonical ------------------------------
(***************************************************************************)
(* The canonical encoding of canonical.py.  A Python value is a tree:      *)
(*   [t, v]         None, a bool, an int, a float, a str, or an Enum       *)
(*                  member, by the text of its literal or its value        *)
(*   [t, wall, offset]  an aware datetime: its hour and its UTC offset     *)
(*   [t, items]     a list or a tuple                                      *)
(*   [t, pairs]     a dict, its pairs [key, val] in insertion order, or a  *)
(*                  model, its fields in the order they are declared       *)
(* The encoding is a sequence of tokens <<class, text>>: json.dumps writes *)
(* each of them in one way and escapes what a str holds, and UTF-8 and the *)
(* hash are taken to be injective, so bytes and digests are equal when     *)
(* these sequences are.                                                    *)
(***************************************************************************)
EXTENDS Integers, Sequences, SequencesExt, TLC

CONSTANTS Iso,      \* Iso[h]: isoformat of hour h in UTC
          KeyRank   \* KeyRank[t][v]: where a key stands among those of its type

Scalar(t, v) == [t |-> t, v |-> v]
Text(v) == Scalar("str", v)

\* What json.dumps (allow_nan=False) or sorted cannot handle raises.
Raises == <<"error", "raises">>

\* The types that sorted can compare with each other.
Comparable(t) == IF t \in {"int", "float", "bool"} THEN "number" ELSE t
Sortable(pairs) ==
    /\ \A p, q \in ToSet(pairs) : Comparable(p.key.t) = Comparable(q.key.t)
    /\ Len(pairs) > 1 => \A p \in ToSet(pairs) : p.key.t # "none"

\* Mutant of SortPairs: the insertion order is kept.
SortPairsNot(pairs) == pairs

\* sorted(value.items()): keys are distinct, so the values do not matter.
SortPairs(pairs) ==
    SortSeq(pairs, LAMBDA p, q : KeyRank[p.key.t][p.key.v] < KeyRank[q.key.t][q.key.v])

\* Mutant of NormalizedItems: lists are sorted like dictionaries.
NormalizedItemsSorted(items) ==
    SortSeq(items, LAMBDA x, y : "v" \in DOMAIN x /\ "v" \in DOMAIN y
                                 /\ KeyRank[x.t][x.v] < KeyRank[y.t][y.v])
NormalizedItems(items) == items

\* _normalize: datetimes to UTC text, models to dicts, tuples to lists, Enum
\* members to their values, pairs sorted by key; keys stay what they are.
RECURSIVE Normalize(_)
Normalize(x) ==
    CASE x.t = "datetime" -> Text(Iso[x.wall - x.offset])
      [] x.t \in {"dict", "model"} ->
            IF ~Sortable(x.pairs) THEN [t |-> "unsortable"]
            ELSE [t |-> "dict", pairs |->
                    [i \in DOMAIN x.pairs |->
                        [key |-> SortPairs(x.pairs)[i].key,
                         val |-> Normalize(SortPairs(x.pairs)[i].val)]]]
      [] x.t \in {"list", "tuple"} ->
            [t |-> "list", items |-> NormalizedItems(
                    [i \in DOMAIN x.items |-> Normalize(x.items[i])])]
      [] x.t = "enum" -> Text(x.v)
      [] OTHER -> x

\* The tokens between two brackets, with commas.
Enclosed(open, parts, close) ==
    <<<<"mark", open>>>>
    \o FlattenSeq([i \in DOMAIN parts |->
                    IF i = 1 THEN parts[i] ELSE <<<<"mark", ",">>>> \o parts[i]])
    \o <<<<"mark", close>>>>

\* A key that is not a str is written as one, when json knows how.
KeyToken(key) ==
    IF key.t \in {"str", "int", "float", "bool", "none"} THEN <<"str", key.v>> ELSE Raises

\* json.dumps of a normalized value.
RECURSIVE Dumps(_)
Dumps(x) ==
    CASE x.t = "dict" ->
            Enclosed("{", [i \in DOMAIN x.pairs |->
                            <<KeyToken(x.pairs[i].key), <<"mark", ":">>>>
                            \o Dumps(x.pairs[i].val)], "}")
      [] x.t = "list" -> Enclosed("[", [i \in DOMAIN x.items |-> Dumps(x.items[i])], "]")
      [] x.t = "str" -> <<<<"str", x.v>>>>
      [] x.t \in {"int", "float", "bool", "none"} /\ x.v # "nan" -> <<<<"literal", x.v>>>>
      [] OTHER -> <<Raises>>

\* canonical_json_bytes; digest_value, whose hash and base64url keep apart
\* what differs, so that a digest is its input.
CanonicalJson(x) == Dumps(Normalize(x))
Digest(x) == CanonicalJson(x)
IsRaised(tokens) == Raises \in ToSet(tokens)

-----------------------------------------------------------------------------
(* What an encoding ought to tell apart, without computing one.            *)

Textual(x) == x.t \in {"str", "enum", "datetime"}
TextOf(x) == IF x.t = "datetime" THEN Iso[x.wall - x.offset] ELSE x.v
Listed(x) == x.t \in {"list", "tuple"}
Mapped(x) == x.t \in {"dict", "model"}

\* Two keys agree for Python when they are equal, and in the JSON text when
\* they are written alike: there the key 1 is the key "1".
SameKey(k, l, written) == IF written THEN k.v = l.v ELSE k = l

\* a and b have the same content: text by text, lists item by item, and
\* mappings whatever the order of their pairs.
RECURSIVE Agree(_, _, _)
Agree(a, b, written) ==
    \/ Textual(a) /\ Textual(b) /\ TextOf(a) = TextOf(b)
    \/ /\ Listed(a) /\ Listed(b) /\ Len(a.items) = Len(b.items)
       /\ \A i \in DOMAIN a.items : Agree(a.items[i], b.items[i], written)
    \/ /\ Mapped(a) /\ Mapped(b) /\ Len(a.pairs) = Len(b.pairs)
       /\ \A p \in ToSet(a.pairs) : \E q \in ToSet(b.pairs) :
              SameKey(p.key, q.key, written) /\ Agree(p.val, q.val, written)
    \/ /\ a.t = b.t /\ a.t \in {"none", "bool", "int", "float"}
       /\ a.v = b.v

SameContent(a, b) == Agree(a, b, FALSE)
SameJson(a, b) == Agree(a, b, TRUE)
=============================================================================
