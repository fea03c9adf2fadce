----------------------------- MODULE MCPodAnalysis -----------------------------
(***************************************************************************)
(* Libraries of up to four user types for PodAnalysis.  C++ admits no      *)
(* struct which holds itself, so A may hold B and C, and B may hold C; the *)
(* headers list them in any of three orders.                               *)
(***************************************************************************)
EXTENDS PodAnalysis

User == {"A", "B", "C", "D"}
MCName == User \cup {"int", "string", "opaque", "volatile", "uint32_t"}
MCSubstitute == [n \in MCName |-> IF n = "uint32_t" THEN "int" ELSE n]

F(shape, of) == [shape |-> shape, of |-> of]
Struct(n, fields, facts) ==
    [name |-> n, kind |-> "struct", target |-> n, fields |-> fields, facts |-> facts, spellings |-> {n}]
Typedef(n, kind, target) ==
    [name |-> n, kind |-> kind, target |-> target, fields |-> <<>>, facts |-> {}, spellings |-> {n}]
Enum(n, facts) == [Typedef(n, "enum", n) EXCEPT !.facts = facts]

(* The type at the bottom: every kind of field, every fact, every typedef. *)
Bottoms ==
    {Struct("C", <<f>>, {}) : f \in {F("plain", "int"), F("plain", "string"), F("pointer", "string"),
        F("plain", "opaque"), F("array", "opaque"), F("array", "string"), F("plain", "volatile"),
        F("bitfields", "opaque"), F("function pointer", "opaque")}}
    \cup {Struct("C", <<F("padding", "opaque"), F("plain", "int")>>, {fact}) : fact \in Facts \ {"blob"}}
    \cup {Struct("C", <<F("plain", "opaque")>>, {"blob"})}
    \cup {Typedef("C", "alias", n) : n \in {"A", "B", "C", "string", "uint32_t", "volatile"}}
    \cup {Typedef("C", k, "C") : k \in {"pointer alias", "complex", "pod elsewhere", "other"}}
    \cup {Enum("C", {}), Enum("C", {"refused"})}

Middles ==
    {Struct("B", <<F(shape, "C")>>, {}) : shape \in {"plain", "array", "pointer"}}
    \cup {Typedef("B", "alias", "C"), Struct("B", <<F("plain", "int"), F("plain", "D")>>, {})}

Tops == {Struct("A", <<F("plain", "B")>>, {}), Struct("A", <<F("array", "C"), F("plain", "B")>>, {})}

AliasOfTop == Typedef("D", "alias", "A")
AliasOfBottom == Typedef("D", "alias", "C")

(* A struct cannot hold a typedef of itself. *)
Possible(a, b, c, d) ==
    c.kind = "alias" => c.target \notin {"A", "B"} \/ (b.kind = "alias" /\ c.target = "B")

Orders == {<<1, 2, 3, 4>>, <<4, 3, 2, 1>>, <<2, 4, 1, 3>>}

MCSpelling == {"A", "B", "C", "D", "nested", "unheard of"}

Tables ==
    {<<a, b, c, d>> \in Tops \X Middles \X Bottoms \X {AliasOfTop, AliasOfBottom} :
        /\ Possible(a, b, c, d)
        /\ b.kind = "struct" /\ Len(b.fields) = 2 => d = AliasOfBottom}

Library(t, o, pods, blocked) ==
    [apis |-> [i \in 1 .. 4 |-> t[o[i]]], blocklist |-> blocked, pods |-> pods,
     named |-> [r \in MCSpelling |-> IF r \in User THEN r ELSE "volatile"]]

(* Every order; and, in one order, requests which miss or a blocked type. *)
MCPrograms ==
    {Library(t, o, pods, {}) : t \in Tables, o \in Orders, pods \in {<<"D">>, <<"B", "C">>}}
    \cup {Library(t, <<1, 2, 3, 4>>, pods, blocked) :
            t \in {u \in Tables : u[4] = AliasOfTop},
            pods \in {<<"nested">>, <<"A", "unheard of">>}, blocked \in {{}, {"int"}}}

ASSUME LibrariesAssumption == NothingHoldsItself /\ BlobsAreUnnamed
================================================================================
