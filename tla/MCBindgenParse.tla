--------------------------- MODULE MCBindgenParse ---------------------------
(***************************************************************************)
(* Small headers and blocks for the walk: nested classes and overloads in  *)
(* a namespace, every kind of item the walk treats in a way of its own, a  *)
(* header which changes between two attempts, and exception specifications *)
(* under argument lists which say too much.                                *)
(***************************************************************************)
EXTENDS BindgenParse

Ident(stem) == [stem |-> stem, marked |-> FALSE, n |-> 0]
Marked(stem) == [Ident(stem) EXCEPT !.marked = TRUE]
Item(id, parent, kind, stem) ==
    [id |-> id, parent |-> parent, class |-> RootMod, kind |-> kind, ident |-> Ident(stem),
     cppName |-> IF kind \in ReportedKinds \ {"mod"} THEN <<Ident(stem)>> ELSE NoCppName,
     facts |-> [t \in {} |-> ""], members |-> NoMembers, needs |-> {}, shape |-> "whole",
     of |-> <<<<>>, "int">>, refusal |-> None]

Specified(declared, canonical) == "exceptions" :> [declared |-> declared, canonical |-> canonical]
Function(id, parent, stem, n) ==
    [Item(id, parent, "function", stem) EXCEPT
        !.ident = [Marked(stem) EXCEPT !.n = n], !.cppName = <<Marked(stem)>>,
        !.facts = Specified("may throw", "may throw")]
Method(id, class, stem, n, cppName) ==
    [Function(id, class.parent, stem, n) EXCEPT
        !.class = class.id, !.cppName = <<Marked(cppName)>>, !.facts = @ @@ ("method kind" :> "normal")]
Struct(id, parent, stem) == [Item(id, parent, "struct", stem) EXCEPT !.facts = "layout" :> ("layout " \o ToString(id))]
NestedStruct(id, parent, outer, inner) ==
    [Struct(id, parent, outer \o "_" \o inner) EXCEPT !.cppName = <<Ident(outer), Ident(inner)>>]
(* A type really called X_bindgen_original.                                *)
LikeARename(type) ==
    [type EXCEPT !.ident.marked = TRUE, !.cppName = Append(Front(@), [Last(@) EXCEPT !.marked = TRUE])]
Anonymous(type) == [type EXCEPT !.cppName = NoCppName]

Header(items) == [items |-> items, isCpp17 |-> TRUE, argumentsSayCpp17 |-> TRUE]

(* Directives.                                                             *)
Named(directive, name) == [directive |-> directive, name |-> name]
Id(directive, id) == [directive |-> directive, id |-> id]
GenerateAll == [directive |-> "generate_all"]
NoUtilities == [directive |-> "exclude_utilities"]
Block(directives, hs) == [directives |-> Append(directives, NoUtilities), headers |-> hs]

(* namespace N { class A { struct I; get x 3; }; class A_I2 ...; get1 }     *)
N == Item(1, RootMod, "mod", "N")
A == [Struct(2, 1, "A") EXCEPT !.members.bases = <<[base |-> 3, virtual |-> FALSE, public |-> TRUE]>>, !.needs = {3}]
AI == NestedStruct(3, 1, "A", "I")
Overloads(third) ==
    Header({N, A, AI, Method(4, A, "A_get", 0, "get"), Method(5, A, "A_get", 1, "get"),
            Method(6, AI, "A_I_get", 0, "get"), third})
OverloadHeaders ==
    {Overloads(Function(7, 1, "A_get1", 0)), Overloads(Function(7, RootMod, "A_get", 0)),
     Overloads(LikeARename(Struct(7, 1, "A_get")))}
OverloadBlocks ==
    {Block(ds, {h}) : h \in OverloadHeaders,
        ds \in {<<GenerateAll>>, <<Named("generate_ns", <<"N">>)>>,
                <<Named("generate", <<"N", "A", "I">>), Named("generate", <<"N", "A">>), Named("throws", <<"I", "get">>)>>,
                <<Named("generate", <<"N", "A_get1">>), Named("generate_pod", <<"N", "A">>)>>,
                <<GenerateAll, Named("block", <<"N", "A_I">>), Named("block_functions", <<"A", "get">>)>>,
                <<GenerateAll, Named("block", <<"N", "A", "I">>)>>,
                <<GenerateAll, Id("extern_cpp_type", "crate::I") @@ [name |-> <<"N", "A", "I">>],
                  Named("pod", <<"N", "A_I">>)>>,
                <<Named("generate", <<"N", "A">>), Id("extern_cpp_opaque_type", "crate::B") @@ [name |-> <<"N", "B">>]>>}}

(* Every item the walk treats in a way of its own.                         *)
Oddities ==
    {Item(1, RootMod, "union", "U"), Struct(2, RootMod, "X__bindgen_vtable"), Struct(3, RootMod, "B__d"),
     Struct(4, RootMod, "Pin"), Anonymous(Struct(5, RootMod, "R")), Struct(6, RootMod, "function"),
     [NestedStruct(7, RootMod, "O", "Fwd") EXCEPT !.shape = "unused", !.facts = [t \in {} |-> ""]],
     [NestedStruct(8, RootMod, "O", "Hid") EXCEPT !.shape = "address", !.facts = @ @@ ("visibility" :> "private")],
     [Struct(9, RootMod, "T") EXCEPT !.shape = "address", !.facts = "discards" :> "a parameter"],
     Item(10, RootMod, "enum", "E"), Item(11, RootMod, "enum", "F__g"),
     [Item(12, RootMod, "use", "c_char") EXCEPT !.of = <<<<>>, "c_char">>],
     [Item(13, RootMod, "use", "Loop") EXCEPT !.of = <<<<>>, "Loop">>],
     [Item(14, RootMod, "use", "Al") EXCEPT !.of = <<<<>>, "R">>],
     [Item(15, RootMod, "type", "P") EXCEPT !.of = <<<<>>, "Ptr">>],
     Item(16, RootMod, "const", "K"), [Item(17, RootMod, "const", "K2") EXCEPT !.of = <<<<>>, "F__g">>],
     Item(18, RootMod, "static", "s"), [Item(19, RootMod, "static", "v") EXCEPT !.refusal = "volatile variable"],
     Item(20, RootMod, "unexpected", "?"), Struct(21, RootMod, "foo"), Function(22, RootMod, "foo", 0),
     Struct(23, RootMod, "Str")}
Apart(item) == Header({item} \cup {i \in Oddities : i.id \in {10, 15}})
OddityBlocks ==
    {Block(ds, {Apart(item)}) : item \in Oddities,
        ds \in {<<GenerateAll, Named("block", <<"U">>), Named("instantiable", <<"P">>)>>,
                <<GenerateAll, Named("block_constructors", <<"B__d">>), Id("rust_type", "R"),
                  Named("smart_pointer", <<"Ptr">>)>>,
                <<GenerateAll, Named("derive", <<"E">>) @@ [trait |-> "Hash"], Id("rust_type", "R"), Id("extern_rust_type", "R")>>}}
    \cup {Block(ds, {Header({i \in Oddities : i.id \in {21, 22}})}) :
            ds \in {<<Named("generate_pod", <<"foo">>)>>, <<GenerateAll, Named("throws", <<"foo">>)>>}}

(* The header changes between two attempts: the blocked type has gone, or   *)
(* the function which throws has another name; the first attempt may have   *)
(* been refused for an enum that only the second header has.                *)
Was == {Struct(1, RootMod, "Old"), Function(2, RootMod, "might_throw", 0)}
Becomes == {Struct(1, RootMod, "New"), Function(2, RootMod, "never_throws", 0), Item(3, RootMod, "enum", "E")}
RetryBlocks ==
    {Block(<<GenerateAll>> \o ds, {Header(Was), Header(Becomes)}) :
        ds \in {<<Named("block", <<"Old">>)>>, <<Named("throws", <<"might_throw">>)>>,
                <<Named("block", <<"Old">>), Named("derive", <<"E">>) @@ [trait |-> "Hash"]>>,
                <<Named("derive", <<"Old">>) @@ [trait |-> "Default"], Named("pod", <<"Old">>)>>}}

(* noexcept, noexcept(expr), under what is said and what is.                *)
NoexceptBlocks ==
    {Block(<<GenerateAll>>,
        {[items |-> {[Function(1, RootMod, "sure", 0) EXCEPT
                        !.facts = Specified(first, IF first = "never throws" /\ ~is17 THEN "may throw" ELSE first)],
                     [Function(2, RootMod, "asks", 0) EXCEPT
                        !.facts = Specified("computed", IF is17 THEN resolved ELSE "may throw")]},
          isCpp17 |-> is17, argumentsSayCpp17 |-> says17]})
     : first \in {"never throws", "may throw"}, resolved \in {"never throws", "may throw", "computed"},
       is17 \in BOOLEAN, says17 \in BOOLEAN}

(* Blocks which are mostly directives.                                      *)
E == Item(1, RootMod, "enum", "E")
Style(style, name) == [directive |-> "enum_style", style |-> style, name |-> name]
Derive(name, trait) == [directive |-> "derive", name |-> name, trait |-> trait]
WordyBlocks ==
    {Block(ds, {Header({E, Struct(2, RootMod, "S")})}) :
        ds \in {<<[directive |-> "include", header |-> "h.h"], Named("generate", <<"E">>), Named("generate_pod", <<"S">>),
                  Style("BitfieldEnum", <<"E">>), Derive(<<"S">>, "Hash"), Derive(<<"S">>, "Clone"),
                  [directive |-> "concrete", definition |-> "V<S>", id |-> "VS"], Id("name", "other"),
                  Id("extern_rust_function", "called"), [directive |-> "safety", policy |-> "unsafe"],
                  Named("opaque", <<"S">>), [directive |-> "pretty"]>>,
                <<Named("generate", <<"S">>), Id("subclass", "Sub") @@ [superclass |-> <<"S">>],
                  [directive |-> "safety", policy |-> "references wrapped"]>>,
                <<Named("generate", <<"E">>), Derive(<<"E">>, "Default")>>,
                <<GenerateAll, Named("smart_pointer", <<"Ptr">>)>>,
                <<Named("generate", <<"E">>), GenerateAll>>, <<GenerateAll, Named("generate", <<"E">>)>>,
                <<GenerateAll, Style("BitfieldEnum", <<"E">>), Style("NewtypeEnum", <<"E">>)>>,
                <<GenerateAll, Style("BitfieldEnum", <<Pattern>>)>>,
                <<GenerateAll, Derive(<<"S">>, "Hash"), Derive(<<"S">>, "Hash")>>,
                <<[directive |-> "parse_only"], GenerateAll>>, <<Named("pod", <<"S">>)>>}}

AllBlocks == OverloadBlocks \cup OddityBlocks \cup RetryBlocks \cup NoexceptBlocks \cup WordyBlocks

(* What these leave out: a class beside a function of its name, a class     *)
(* named like a renamed function beside one which has the rest of its name, *)
(* and a class within such a class.                                         *)
TypeBesideFunction == {b \in OddityBlocks : \E h \in b.headers : {21, 22} \subseteq {i.id : i \in h.items}}
NestedLikeARename == LikeARename(NestedStruct(7, 1, "A", "I"))
WithinOne == [Struct(8, 1, "C_bindgen_original_I") EXCEPT !.cppName = <<Marked("C"), Ident("I")>>]
ConfusedBlocks ==
    TypeBesideFunction
    \cup {Block(ds, {Header({N, A, AI, NestedLikeARename, Method(9, NestedLikeARename, "A_I_get", 1, "get"), WithinOne})}) :
            ds \in {<<GenerateAll, Id("extern_cpp_type", "crate::I") @@ [name |-> <<"N", "A", "I">>]>>,
                    <<GenerateAll, Named("generate", <<"N", "A", "I">>)>>,
                    <<GenerateAll, Named("block_functions", <<"I", "get">>)>>,
                    <<Named("generate", <<"N", "C_bindgen_original", "I">>)>>}}

TheInvalidIdents == {"B__d", "F__g"}
TheVtableIdents == {"X__bindgen_vtable"}
TheKnownTypes == {<<<<>>, "Pin">>}
TheSubstitutes == {<<<<>>, "Str">>}
TheUnsupportedTypes == {<<<<>>, "function">>}
TheCharacterTypes == {"c_char"}
================================================================================
