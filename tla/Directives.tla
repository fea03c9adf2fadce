------------------------------ MODULE Directives ------------------------------
(***************************************************************************)
(* What the user wrote in include_cpp! (parser/src/config.rs and           *)
(* parser/src/directives.rs): how the directives make a configuration, how *)
(* the configuration is written out again for a reproduction case, which   *)
(* C++ names a directive answers to, and which of the name-matching        *)
(* directives have so far matched something.                               *)
(*                                                                         *)
(* A C++ name is the sequence of its segments: ns::Outer::Inner is         *)
(* <<"ns", "Outer", "Inner">>, and bindgen's flattened spelling of it is   *)
(* <<"ns", "Outer_Inner">>.                                                *)
(***************************************************************************)
EXTENDS Naturals, FiniteSets, Sequences, SequencesExt, TLC

Joined(segments) == FoldLeft(LAMBDA a, b : a \o "_" \o b, Head(segments), Tail(segments))

BindgenSpellings(name) ==
    {Append(SubSeq(name, 1, k), Joined(SubSeq(name, k + 1, Len(name)))) : k \in 0..(Len(name) - 1)}

NameMatchesDirective(cppName, directive) ==
    \E spelling \in BindgenSpellings(directive), candidate \in BindgenSpellings(cppName) :
        IsSuffix(spelling, candidate)

FunctionNameMatchesDirective(cppName, directive) == IsSuffix(directive, cppName)

(* A directive which asks for a type by a regular expression does not name  *)
(* it: what follows stands for every spelling which is not a plain name.    *)
Pattern == ".*"
IsPlainQualifiedName(name) == name # <<>> /\ \A i \in DOMAIN name : name[i] # Pattern

(***************************************************************************)
(* The configuration.                                                      *)
(***************************************************************************)
NameMatchingLists == {"throws", "block", "block_constructors", "block_functions", "instantiable"}
StringListOrder == <<"pod", "block", "opaque", "block_constructors", "block_functions", "instantiable",
                     "smart_pointer", "throws">>
StringLists == ToSet(StringListOrder)
Flags == {"parse_only", "exclude_impls", "exclude_utilities", "pretty"}
NoEntries == [x \in {} |-> {}]
(* A map with an entry put into it. *)
With(entries, key, value) ==
    [k \in DOMAIN entries \cup {key} |-> IF k = key THEN value ELSE entries[k]]

NewConfig ==
    [refused |-> FALSE, mode |-> "unspecified", entries |-> <<>>,
     lists |-> [list \in StringLists |-> <<>>], flags |-> {}, safety |-> "unsafe functions",
     includes |-> <<>>, name |-> "ffi", concretes |-> NoEntries, externs |-> NoEntries,
     rustTypes |-> <<>>, rustFuns |-> <<>>, subclasses |-> <<>>,
     enumStyles |-> NoEntries, derives |-> NoEntries]

Refused(config) == [config EXCEPT !.refused = TRUE]

AllowlistPush(config, entry) ==
    IF config.mode = "all" THEN Refused(config)
    ELSE [config EXCEPT !.mode = "specific", !.entries = Append(@, entry)]

SetAll(config) == IF config.mode = "specific" THEN Refused(config) ELSE [config EXCEPT !.mode = "all"]

AddToList(config, list, name) == [config EXCEPT !.lists[list] = Append(@, name)]

EnumStyleInsert(config, name, style) ==
    IF ~IsPlainQualifiedName(name) \/ (name \in DOMAIN config.enumStyles /\ config.enumStyles[name] # style)
    THEN Refused(config)
    ELSE [config EXCEPT !.enumStyles = With(@, name, style)]

DeriveInsert(config, name, trait) ==
    LET traits == IF name \in DOMAIN config.derives THEN config.derives[name] ELSE <<>>
    IN IF ~IsPlainQualifiedName(name) \/ Contains(traits, trait) THEN Refused(config)
       ELSE [config EXCEPT !.derives = With(@, name, Append(traits, trait))]

(* One directive, by the parser registered for its name: those which say     *)
(* what is asked for, and those which give it a name or a shape in Rust.     *)
ParseGenerate(config, d) ==
    LET Allowing(item) == AllowlistPush(config, [item |-> item, name |-> d.name])
    IN CASE d.directive = "generate" -> Allowing(TRUE)
         [] d.directive = "generate_pod" -> AddToList(Allowing(TRUE), "pod", d.name)
         [] d.directive = "generate_ns" -> Allowing(FALSE)
         [] OTHER -> SetAll(config)

ParseInRust(config, d) ==
    CASE d.directive = "concrete" -> [config EXCEPT !.concretes = With(@, d.definition, d.id)]
      [] d.directive \in {"rust_type", "extern_rust_type"} -> [config EXCEPT !.rustTypes = Append(@, d.id)]
      [] d.directive = "subclass" ->
            [config EXCEPT !.subclasses = Append(@, [superclass |-> d.superclass, subclass |-> d.id])]
      [] d.directive = "extern_rust_function" -> [config EXCEPT !.rustFuns = Append(@, d.id)]
      [] d.directive = "enum_style" -> EnumStyleInsert(config, d.name, d.style)
      [] d.directive = "derive" -> DeriveInsert(config, d.name, d.trait)
      [] OTHER -> [config EXCEPT !.externs =
                    With(@, d.name, [path |-> d.id, opaque |-> d.directive = "extern_cpp_opaque_type"])]

GenerateDirectives == {"generate", "generate_pod", "generate_ns", "generate_all"}
InRustDirectives ==
    {"concrete", "rust_type", "extern_rust_type", "subclass", "extern_rust_function", "enum_style", "derive",
     "extern_cpp_type", "extern_cpp_opaque_type"}

(* A directive of any other name is refused, as whatever follows a refusal.  *)
ParseDirective(config, d) ==
    CASE config.refused -> config
      [] d.directive = "include" -> [config EXCEPT !.includes = Append(@, d.header)]
      [] d.directive \in GenerateDirectives -> ParseGenerate(config, d)
      [] d.directive = "safety" -> [config EXCEPT !.safety = d.policy]
      [] d.directive \in StringLists -> AddToList(config, d.directive, d.name)
      [] d.directive \in Flags -> [config EXCEPT !.flags = @ \cup {d.directive}]
      [] d.directive = "name" -> [config EXCEPT !.name = d.id]
      [] d.directive \in InRustDirectives -> ParseInRust(config, d)
      [] OTHER -> Refused(config)

ParseConfig(directives) ==
    LET after[n \in 0..Len(directives)] ==
            IF n = 0 THEN NewConfig ELSE ParseDirective(after[n - 1], directives[n])
    IN  after[Len(directives)]

ConfirmComplete(config) ==
    IF config.mode = "unspecified" THEN [config EXCEPT !.mode = "specific"] ELSE config

(***************************************************************************)
(* Writing the configuration out again.                                    *)
(***************************************************************************)
Each(seq, Directive(_)) == [i \in DOMAIN seq |-> Directive(seq[i])]
EachKey(f, Directive(_)) == Each(SetToSeq(DOMAIN f), Directive)

(* The entries which ask for an item, or for a namespace.                    *)
EntriesOf(entries, item) ==
    LET kept[n \in 0..Len(entries)] ==
            IF n = 0 THEN <<>>
            ELSE IF entries[n].item = item THEN Append(kept[n - 1], entries[n]) ELSE kept[n - 1]
    IN  kept[Len(entries)]

Mut_OutputAllowlist(config) ==
    LET Items(item) == SelectSeq(EntriesOf(config.entries, item),
                LAMBDA e : ~Contains(config.lists["pod"], e.name))
    IN CASE config.mode = "all" -> <<[directive |-> "generate_all"]>>
         [] config.mode = "specific" ->
                Each(Items(TRUE), LAMBDA e : [directive |-> "generate", name |-> e.name])
                    \o Each(Items(FALSE), LAMBDA e : [directive |-> "generate_ns", name |-> e.name])
OutputAllowlist(config) ==
    CASE config.mode = "all" -> <<[directive |-> "generate_all"]>>
      [] config.mode = "specific" ->
            Each(EntriesOf(config.entries, TRUE), LAMBDA e : [directive |-> "generate", name |-> e.name])
                \o Each(EntriesOf(config.entries, FALSE), LAMBDA e : [directive |-> "generate_ns", name |-> e.name])

OutputLists(config) ==
    FlattenSeq(Each(StringListOrder, LAMBDA list :
        Each(config.lists[list], LAMBDA name : [directive |-> list, name |-> name])))

OutputDerives(config) ==
    FlattenSeq(EachKey(config.derives, LAMBDA name :
        Each(config.derives[name], LAMBDA trait :
            [directive |-> "derive", name |-> name, trait |-> trait])))

Output(config) ==
    Each(config.includes, LAMBDA header : [directive |-> "include", header |-> header])
    \o OutputAllowlist(config)
    \o (IF config.safety = "unsafe functions" THEN <<>>
        ELSE <<[directive |-> "safety", policy |-> config.safety]>>)
    \o OutputLists(config)
    \o Each(SetToSeq(config.flags), LAMBDA flag : [directive |-> flag])
    \o (IF config.name = "ffi" THEN <<>> ELSE <<[directive |-> "name", id |-> config.name]>>)
    \o EachKey(config.concretes, LAMBDA k :
            [directive |-> "concrete", definition |-> k, id |-> config.concretes[k]])
    \o Each(config.rustTypes, LAMBDA id : [directive |-> "extern_rust_type", id |-> id])
    \o Each(config.subclasses, LAMBDA sc :
            [directive |-> "subclass", superclass |-> sc.superclass, id |-> sc.subclass])
    \o Each(config.rustFuns, LAMBDA id : [directive |-> "extern_rust_function", id |-> id])
    \o EachKey(config.externs, LAMBDA k :
            [directive |-> IF config.externs[k].opaque THEN "extern_cpp_opaque_type"
                           ELSE "extern_cpp_type",
             name |-> k, id |-> config.externs[k].path])
    \o EachKey(config.enumStyles, LAMBDA k :
            [directive |-> "enum_style", name |-> k, style |-> config.enumStyles[k]])
    \o OutputDerives(config)

(***************************************************************************)
(* Questions the engine asks of the configuration.                         *)
(***************************************************************************)
PodRequests(config) == ToSet(config.lists["pod"])

MustGenerateList(config) ==
    {e.name : e \in {e \in ToSet(config.entries) : e.item}} \cup PodRequests(config)

ActiveUtilities(config) ==
    IF "exclude_utilities" \in config.flags THEN {} ELSE {<<"autocxx_make_string">>}

SubclassCpp(sc) == sc.subclass \o "Cpp"
SubclassHolder(sc) == sc.subclass \o "Holder"

(* The names bindgen is asked for: "everything" stands for no allowlist, and *)
(* a namespace is asked for as the regular expression ns::.*.               *)
BindgenAllowlist(config) ==
    UNION {IF e.item THEN BindgenSpellings(e.name) ELSE {Append(e.name, Pattern)}
           : e \in ToSet(config.entries)}
    \cup UNION {BindgenSpellings(name) : name \in PodRequests(config)}
    \cup ActiveUtilities(config)
    \cup UNION {{<<SubclassCpp(sc)>>, sc.superclass} : sc \in ToSet(config.subclasses)}

IsRustType(config, id) ==
    Contains(config.rustTypes, id)
        \/ \E i \in DOMAIN config.subclasses : SubclassHolder(config.subclasses[i]) = id

(***************************************************************************)
(* What has matched. The lists keep a note beside each request; here the   *)
(* notes are the set of <<list, request>> pairs.                           *)
(***************************************************************************)
Notes(config, list, Matches(_)) == {<<list, name>> : name \in {n \in ToSet(config.lists[list]) : Matches(n)}}

IsOnBlocklist(config, cppName) == Contains(config.lists["block"], cppName)
NotedByBlocklist(config, cppName) == Notes(config, "block", LAMBDA request : request = cppName)

NotedByConstructorBlocklist(config, cppName) ==
    Notes(config, "block_constructors", LAMBDA request : request = cppName)

NotedByInstantiable(config, cppName) == Notes(config, "instantiable", LAMBDA request : request = cppName)

NotedByFunctionLists(config, cppName) ==
    UNION {Notes(config, list, LAMBDA request : FunctionNameMatchesDirective(cppName, request))
           : list \in {"block_functions", "throws"}}

NoteTypeNamed(config, cppName) ==
    NotedByBlocklist(config, cppName) \cup NotedByConstructorBlocklist(config, cppName)

NoteAliasNamed(config, cppName) == NoteTypeNamed(config, cppName) \cup NotedByInstantiable(config, cppName)

UnmatchedDirectives(config, matched) ==
    UNION {Notes(config, list, LAMBDA request : <<list, request>> \notin matched)
           : list \in NameMatchingLists}
================================================================================
