---------------------------- MODULE BindgenReports ----------------------------
(***************************************************************************)
(* What bindgen reports beside the Rust it emits, and how it is asked for  *)
(* afterwards (engine/src/parse_callbacks.rs). bindgen reports by the id   *)
(* of an item; the parser asks by the name it finds in the emitted Rust.   *)
(* The index between the two is built once, when bindgen is done.          *)
(*                                                                         *)
(* An item is a record: its id, the id of the mod it is emitted in, its    *)
(* kind, the identifier bindgen gave it, the C++ name it is reported under *)
(* (NoCppName if it or what encloses it is anonymous), and what else       *)
(* bindgen says of it: facts, one value for each table, and members, one   *)
(* list for each.                                                          *)
(*                                                                         *)
(* autocxx has bindgen name every function <name>_bindgen_original, and    *)
(* bindgen numbers the ones which then have the same name: an identifier   *)
(* is [stem, marked, n], n being 0 where no number was needed. The C++     *)
(* name reported is a path of such, classes first, without numbers; that   *)
(* of a function bears the mark, and so does that of a type which really   *)
(* is called X_bindgen_original.                                           *)
(***************************************************************************)
EXTENDS Integers, FiniteSets, Sequences, SequencesExt, TLC

RootMod == 0
NoCppName == <<>>
Unreported == "not reported"

Digits(n) == IF n = 0 THEN "" ELSE ToString(n)
Written(ident) == ident.stem \o (IF ident.marked THEN "_bindgen_original" ELSE "") \o Digits(ident.n)

Mut_StripBindgenOriginalSuffix(ident) ==
    IF ~ident.marked THEN Written(ident) ELSE ident.stem \o Digits(ident.n)
StripBindgenOriginalSuffix(ident) ==
    CASE ~ident.marked -> Written(ident)
      [] ident.marked /\ ident.n = 0 -> ident.stem
      [] OTHER -> ident.stem \o "_autocxx_dedup_" \o ToString(ident.n)

(* The name an item goes by: new_item_found strips functions only, since a  *)
(* type may really be called X_bindgen_original.                            *)
FinalName(item) ==
    IF item.kind = "function" THEN StripBindgenOriginalSuffix(item.ident) ELSE Written(item.ident)

NoMembers == [table \in {"bases", "usings", "templates", "operators"} |-> <<>>]

NoReports == [names |-> [id \in {} |-> ""], mods |-> <<>>, cppNames |-> [id \in {} |-> NoCppName],
              facts |-> [id \in {} |-> <<>>], members |-> [id \in {} |-> <<>>]]

(* Everything is recorded but the visibility of what is public.             *)
KeptFacts(facts) ==
    [table \in {t \in DOMAIN facts : t = "visibility" => facts[t] # "public"} |-> facts[table]]

(* The mark comes off whatever is reported, types included: the last one in *)
(* the name, with all that follows it.                                      *)
WithoutTheMark(path) ==
    LET mark == SelectLastInSeq(path, LAMBDA segment : segment.marked)
    IN [i \in 1..(IF mark = 0 THEN Len(path) ELSE mark) |->
            IF i = mark THEN StripBindgenOriginalSuffix(path[i]) ELSE Written(path[i])]

Denoted(reports, item, cppName) ==
    [reports EXCEPT
        !.mods = Append(@, [id |-> item.id, parent |-> item.parent]),
        !.cppNames = IF item.cppName = NoCppName THEN @ ELSE (item.id :> cppName) @@ @]

Mut_DenoteCppName(reports, item) ==
    Denoted(reports, item, [i \in DOMAIN item.cppName |-> Written(item.cppName[i])])
DenoteCppName(reports, item) == Denoted(reports, item, WithoutTheMark(item.cppName))

NewItemFound(reports, item) == [reports EXCEPT !.names = (item.id :> FinalName(item)) @@ @]

DenoteFacts(reports, item) == [reports EXCEPT !.facts = (item.id :> KeptFacts(item.facts)) @@ @]

DenoteMembers(reports, item) ==
    IF item.members = NoMembers THEN reports
    ELSE [reports EXCEPT !.members = (item.id :> item.members) @@ @]

Report(reports, item) ==
    DenoteMembers(DenoteFacts(NewItemFound(DenoteCppName(reports, item), item), item), item)

(***************************************************************************)
(* Indexing.                                                               *)
(***************************************************************************)
(* The qualified name of what was reported as `id`, walking up its mods.    *)
NamespaceOf(reports, parent) ==
    LET path[id \in {RootMod} \cup {m.id : m \in ToSet(reports.mods)}] ==
            IF id = RootMod THEN <<>>
            ELSE LET up == CHOOSE m \in ToSet(reports.mods) : m.id = id
                 IN Append(path[up.parent], reports.names[id])
    IN  path[parent]

ParentOf(reports, id) == (CHOOSE m \in ToSet(reports.mods) : m.id = id).parent
QualifiedName(reports, id) == <<NamespaceOf(reports, ParentOf(reports, id)), reports.names[id]>>

(* Two items of one mod and one name: the one reported last has the name.   *)
IndexByName(reports) ==
    FoldLeft(LAMBDA index, m : (<<m.parent, reports.names[m.id]>> :> m.id) @@ index,
             [key \in {} |-> 0], reports.mods)

(* The specifications of a function are the pair of what it declares and    *)
(* what clang resolved it to: `noexcept(expr)` is "computed", and           *)
(* "may throw" and "never throws" are the other two.                        *)
SpecificationWasDropped(reports) ==
    \E id \in DOMAIN reports.facts :
        /\ "exceptions" \in DOMAIN reports.facts[id]
        /\ reports.facts[id]["exceptions"].declared = "never throws"
        /\ reports.facts[id]["exceptions"].canonical = "may throw"

(* A base bindgen reported no name for is only known to exist.             *)
BasesOf(reports, declared) ==
    LET named == SelectSeq(declared, LAMBDA b : b.base \in DOMAIN reports.names)
    IN [named |-> [i \in DOMAIN named |-> [name |-> QualifiedName(reports, named[i].base),
                                          virtual |-> named[i].virtual, public |-> named[i].public]],
        anyUnnamed |-> Len(named) < Len(declared),
        anyVirtual |-> \E i \in DOMAIN declared : declared[i].virtual]

MembersByName(reports) ==
    [name \in {QualifiedName(reports, id) : id \in DOMAIN reports.members} |->
        reports.members[CHOOSE id \in DOMAIN reports.members : QualifiedName(reports, id) = name]]

Indexed(reports, partOfTheType) ==
    [index |-> IndexByName(reports), cppNames |-> reports.cppNames, facts |-> reports.facts,
     bases |-> [name \in DOMAIN MembersByName(reports) |->
                    BasesOf(reports, MembersByName(reports)[name].bases)],
     members |-> MembersByName(reports), partOfTheType |-> partOfTheType]

Mut_Index(reports, argumentsSayCpp17) == Indexed(reports, argumentsSayCpp17)
Index(reports, argumentsSayCpp17) ==
    Indexed(reports, argumentsSayCpp17 /\ ~SpecificationWasDropped(reports))

(***************************************************************************)
(* Asking.                                                                 *)
(***************************************************************************)
Nobody == -1
ItemByParentage(results, parent, name) ==
    IF <<parent, name>> \in DOMAIN results.index THEN results.index[<<parent, name>>] ELSE Nobody

ModIdByNamespace(results, ns) ==
    FoldLeft(LAMBDA parent, segment :
                IF parent = Nobody THEN Nobody ELSE ItemByParentage(results, parent, segment),
             RootMod, ns)

IdByName(results, name) ==
    LET parent == ModIdByNamespace(results, name[1])
    IN IF parent = Nobody THEN Nobody ELSE ItemByParentage(results, parent, name[2])

GetOriginalName(results, name) ==
    LET id == IdByName(results, name)
    IN IF id \in DOMAIN results.cppNames THEN results.cppNames[id] ELSE NoCppName

(* get_virtualness, special_member_kind, get_method_kind, get_deprecation,  *)
(* get_deleted_or_defaulted, alias_template_params, data_members,           *)
(* get_layout, discards_template_param, is_scoped_enum: one table each.     *)
GetFact(results, table, name) ==
    LET id == IdByName(results, name)
    IN IF id \in DOMAIN results.facts /\ table \in DOMAIN results.facts[id]
       THEN results.facts[id][table] ELSE Unreported

GetCppVisibility(results, name) ==
    LET visibility == GetFact(results, "visibility", name)
    IN IF visibility = Unreported THEN "public" ELSE visibility

ResolveExceptionSpecification(specifications, partOfTheType) ==
    IF specifications.declared = "computed" /\ partOfTheType
    THEN specifications.canonical ELSE specifications.declared

GetExceptionSpecification(results, name) ==
    LET id == IdByName(results, name)
    IN IF id \in DOMAIN results.facts /\ "exceptions" \in DOMAIN results.facts[id]
       THEN ResolveExceptionSpecification(results.facts[id]["exceptions"], results.partOfTheType)
       ELSE "may throw"

NoBases == [named |-> <<>>, anyUnnamed |-> FALSE, anyVirtual |-> FALSE]
GetBases(results, name) == IF name \in DOMAIN results.bases THEN results.bases[name] ELSE NoBases

(* using_declarations, template_member_functions, member_function_templates, *)
(* conversion_functions and call_operators.                                  *)
GetMembers(results, table, name) ==
    IF name \in DOMAIN results.members THEN results.members[name][table] ELSE <<>>
================================================================================
