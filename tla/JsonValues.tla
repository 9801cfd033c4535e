----------------------------- MODULE JsonValues -----------------------------
(***************************************************************************)
(* The trees that assertions are about (cleanr/engines/assertions.go).  A   *)
(* value is [t, n, has, of]: its JSON type, its number or length, the words *)
(* a text has, and its members; the members of a list are "0", "1", ... as  *)
(* in paths.                                                                *)
(***************************************************************************)
EXTENDS Integers, Sequences, FiniteSets

Value(t, n, has, of) == [t |-> t, n |-> n, has |-> has, of |-> of]
Null == Value("null", 0, {}, <<>>)
Missing == Value("missing", 0, {}, <<>>)
Text(words) == Value("string", Cardinality(words), words, <<>>)
Num(n) == Value("number", n, {}, <<>>)
Object(of) == Value("object", 0, {}, of)
Index == <<"0", "1", "2", "3">>
List(items) ==
  Value("array", Len(items), {},
        [key \in {Index[i] : i \in DOMAIN items} |-> items[CHOOSE i \in DOMAIN items : Index[i] = key]])
Members(v) == IF v.t \in {"object", "array"} THEN DOMAIN v.of ELSE {}

\* A field of a Go struct with omitempty is no member when it is zero.
NonZero(of) == Object([key \in {k \in DOMAIN of : of[k] \notin {Num(0), Text({}), Null}} |-> of[key]])

\* Some values and everything inside them, level by level.
MaxDepth == 6 \* bound on the nesting of an answer

Within(values, MembersOf(_)) ==
  LET reached[n \in 0 .. MaxDepth] ==
        IF n = 0 THEN values
        ELSE LET above == reached[n - 1] IN above \cup UNION {MembersOf(v) : v \in above}
  IN  reached[MaxDepth]

\* What renderAssertionValue shows: the words of all that is inside, names of
\* members aside.
Parts(v) == {v.of[key] : key \in Members(v)}
Words(v) == UNION {u.has : u \in Within({v}, Parts)}

=============================================================================
