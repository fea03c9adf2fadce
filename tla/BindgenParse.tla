----------------------------- MODULE BindgenParse -----------------------------
(***************************************************************************)
(* One include_cpp! block from its directives to the list of APIs:         *)
(* IncludeCppEngine::generate (engine/src/lib.rs), the reports it collects *)
(* from bindgen, the walk over the Rust bindgen emitted                    *)
(* (conversion/parse/parse_bindgen.rs and parse_foreign_mod.rs), and the   *)
(* confirmations that every directive was obeyed (conversion/mod.rs).      *)
(*                                                                         *)
(* generate may be called again after it failed, with other headers on the *)
(* include path: the configuration, and the notes of what matched, are the *)
(* same objects. The analyses between the parse and the confirmations are  *)
(* modules of their own; here they may give up any API.                    *)
(***************************************************************************)
EXTENDS BindgenReports, Directives, ApiVec

CONSTANTS
    Blocks,         \* [directives, headers]: what is written, and what may be found on the include path
    MaxAttempts,    \* how often generate is called
    Nightly,        \* whether the toolchain has arbitrary self types
    InvalidIdents,  \* identifiers cxx cannot take
    VtableIdents,   \* the ones ending in __bindgen_vtable
    KnownTypes,     \* qualified names autocxx binds itself, and ...
    Substitutes,    \* ... stand-ins of the prelude
    UnsupportedTypes, \* va_list and std::function, by qualified name
    CharacterTypes, \* the character type aliases every mod has
    MaxDigit        \* bound: overload numbers a directive may name

(***************************************************************************)
(* A header, as bindgen numbers what is in it: every item is in a mod which *)
(* was numbered before it, a function which has a class is in the mod of    *)
(* that class, and what an item needs are types, of which the functions     *)
(* come along by themselves.                                                *)
(***************************************************************************)
ItemKinds == {"mod", "struct", "enum", "union", "type", "use", "const", "function", "static", "unexpected"}
WellFormed(h) ==
    LET Mods == {item.id : item \in {i \in h.items : i.kind = "mod"}}
    IN  /\ IsFiniteSet(h.items)
        /\ \A item \in h.items :
              /\ item.id \in Nat \ {RootMod} /\ item.kind \in ItemKinds
              /\ item.parent \in Mods \cup {RootMod} /\ item.parent < item.id
              /\ item.class # RootMod =>
                    /\ item.kind = "function"
                    /\ \E class \in h.items :
                          /\ class.id = item.class /\ class.kind = "struct"
                          /\ class.class = RootMod /\ class.parent = item.parent
              /\ \A other \in h.items : other.id \in item.needs => other.class = RootMod
        /\ \A item, other \in h.items : item.id = other.id => item = other

ASSUME BlocksAssumption ==
    \A b \in Blocks :
        /\ b.directives \in Seq(ToSet(b.directives))
        /\ \A h \in b.headers : WellFormed(h)

VARIABLES
    config, headers,            \* the block
    attempts, stage, outcome,   \* the engine
    matched,                    \* the notes beside the name-matching directives
    header, unreported, reports, results,   \* what this attempt's bindgen says
    frames, apis                \* the walk: one frame for each mod being parsed

vars == <<config, headers, attempts, stage, outcome, matched, header, unreported, reports, results, frames, apis>>

block == <<config, headers, attempts>>
bindgen == <<header, unreported, reports, results>>

None == "none"
NoOutcome == [why |-> None, about |-> {}]
NoResults == [index |-> <<>>]

(***************************************************************************)
(* What bindgen makes of a header. It is handed the whole of it and emits  *)
(* what the allowlist names, with what that needs.                         *)
(***************************************************************************)
ItemOf(id) == CHOOSE item \in header.items : item.id = id

PathOf(h, id) ==
    LET path[n \in {RootMod} \cup {item.id : item \in h.items}] ==
            IF n = RootMod THEN <<>>
            ELSE LET item == CHOOSE i \in h.items : i.id = n
                 IN Append(path[item.parent], Written(item.ident))
    IN  path[id]

NameInBindgen(h, item) == IF item.class = RootMod THEN PathOf(h, item.id) ELSE PathOf(h, item.class)

Asked(h, item) ==
    \/ config.mode = "all"
    \/ \E wanted \in BindgenAllowlist(config) :
        \/ wanted = NameInBindgen(h, item)
        \/ Last(wanted) = Pattern /\ IsPrefix(Front(wanted), NameInBindgen(h, item))

Emitted(h) ==
    LET asked == {item \in h.items : Asked(h, item)}
    IN {item \in h.items : item \in asked \/ item.kind = "mod"
                           \/ \E other \in asked : item.id \in other.needs}

ReportedKinds == {"mod", "struct", "enum", "union", "type", "use", "function"}
IsReported(item) == item.kind \in ReportedKinds

(* The Rust of a mod, in the order of the header: a class is followed by    *)
(* the functions it declares and by the impl block which calls them.        *)
InIdOrder(items) ==
    [k \in 1..Cardinality(items) |->
        CHOOSE item \in items : Cardinality({other \in items : other.id < item.id}) = k - 1]
MethodsOf(h, class) == InIdOrder({f \in Emitted(h) : f.class = class.id})
EmittedFor(h, item) ==
    CASE item.kind = "struct" /\ MethodsOf(h, item) # <<>> ->
            <<item, [kind |-> "extern", items |-> MethodsOf(h, item)],
              [kind |-> "impl", type |-> Written(item.ident), items |-> MethodsOf(h, item)]>>
      [] item.kind \in {"function", "static"} -> <<[kind |-> "extern", items |-> <<item>>]>>
      [] OTHER -> <<item>>
RustOf(h, mod) ==
    LET own == InIdOrder({item \in Emitted(h) : item.parent = mod /\ item.class = RootMod})
    IN FlattenSeq([i \in DOMAIN own |-> EmittedFor(h, own[i])])

(***************************************************************************)
(* Names.                                                                  *)
(***************************************************************************)
ToCppName(name) == Append(name[1], name[2])
FromCppName(cppName) == <<Front(cppName), Last(cppName)>>

Nested(name, cppName) == IF Len(cppName) > 1 THEN {name[1] \o cppName} ELSE {}
CppNameOf(api) == IF "cppName" \in DOMAIN api THEN api.cppName ELSE NoCppName
CppSpellings(api) == {ToCppName(api.name)} \cup Nested(api.name, CppNameOf(api))

Api(name, kind, cppName) == [name |-> name, kind |-> kind, cppName |-> cppName]
(* An API of which more is known than its name. *)
Knowing(api, facts) ==
    [x \in DOMAIN api \cup DOMAIN facts |-> IF x \in DOMAIN api THEN api[x] ELSE facts[x]]

(***************************************************************************)
(* The engine.                                                             *)
(***************************************************************************)
Init ==
    \E b \in Blocks :
        /\ config = ParseConfig(b.directives)
        /\ headers = b.headers
        /\ stage = CASE config.refused -> "not parsed"
                     [] "parse_only" \in config.flags -> "parse only"
                     [] OTHER -> "not generated"
        /\ attempts = 0 /\ outcome = NoOutcome /\ matched = {}
        /\ header = CHOOSE h \in b.headers : TRUE
        /\ unreported = {} /\ reports = NoReports /\ results = NoResults
        /\ frames = <<>> /\ apis = <<>>

Refuse(why, about) ==
    /\ stage' = "not generated"
    /\ outcome' = [why |-> why, about |-> about]

(* generate, up to where bindgen is run.                                    *)
StartGenerating ==
    /\ stage = "not generated" /\ attempts < MaxAttempts
    /\ attempts' = attempts + 1
    /\ config' = ConfirmComplete(config)
    /\ IF config.safety = "references wrapped" /\ ~Nightly
       THEN Refuse("no arbitrary self types", {}) /\ UNCHANGED bindgen
       ELSE \E h \in headers :
                /\ stage' = "reporting" /\ outcome' = NoOutcome
                /\ header' = h
                /\ reports' = NoReports /\ results' = NoResults
                /\ unreported' = {item \in Emitted(h) : IsReported(item)}
    /\ UNCHANGED <<headers, matched, frames, apis>>

(* A mod before what is in it, a class before its functions, and the types  *)
(* of a mod before the functions of the mod.                                *)
ReportedBefore(earlier, later) ==
    \/ earlier.id \in {later.parent, later.class}
    \/ /\ earlier.parent = later.parent
       /\ earlier.kind # "function" /\ later.kind = "function" /\ later.class = RootMod

ReportItem ==
    /\ stage = "reporting"
    /\ \E item \in unreported :
        /\ \A other \in unreported : ~ReportedBefore(other, item)
        /\ reports' = Report(reports, item)
        /\ unreported' = unreported \ {item}
    /\ UNCHANGED <<block, stage, outcome, matched, header, results, frames, apis>>

(* Clang refuses the headers, or they cannot be read as Rust again.         *)
BindgenFails ==
    /\ stage = "reporting"
    /\ Refuse("bindgen", {})
    /\ UNCHANGED <<block, matched, bindgen, frames, apis>>

Frame(ns, mod) ==
    [ns |-> ns, todo |-> RustOf(header, mod), functions |-> <<>>, receivers |-> [ident \in {} |-> <<>>],
     ignored |-> <<>>, statics |-> <<>>, more |-> <<>>]

ApisFromConfig ==
    (IF ActiveUtilities(config) = {} THEN <<>> ELSE <<Api(<<<<>>, "make_string">>, "utility", NoCppName)>>)
    \o Each(config.subclasses, LAMBDA sc : Api(<<<<>>, sc.subclass>>, "subclass", NoCppName))
    \o Each(config.rustFuns, LAMBDA id : Api(<<<<>>, id>>, "rust function", NoCppName))
    \o Each(SetToSeq(ToSet(config.rustTypes)), LAMBDA id : Api(<<<<>>, id>>, "rust type", NoCppName))
    \o EachKey(config.concretes, LAMBDA k : Api(<<<<>>, config.concretes[k]>>, "concrete", NoCppName))

(* The conversion begins: what an earlier attempt matched is forgotten.     *)
Mut_StartConverting ==
    /\ stage = "reporting" /\ unreported = {}
    /\ stage' = "parsing"
    /\ results' = Index(reports, header.argumentsSayCpp17)
    /\ reports' = NoReports
    /\ apis' = PushAll(<<>>, ApisFromConfig)
    /\ frames' = <<Frame(<<>>, RootMod)>>
    /\ UNCHANGED <<block, outcome, matched, header, unreported>>
StartConverting ==
    /\ stage = "reporting" /\ unreported = {}
    /\ stage' = "parsing"
    /\ matched' = {}
    /\ results' = Index(reports, header.argumentsSayCpp17)
    /\ reports' = NoReports
    /\ apis' = PushAll(<<>>, ApisFromConfig)
    /\ frames' = <<Frame(<<>>, RootMod)>>
    /\ UNCHANGED <<block, outcome, header, unreported>>

(***************************************************************************)
(* The walk.                                                               *)
(***************************************************************************)
Top == Last(frames)
Node == Head(Top.todo)
NameOf(node) == <<Top.ns, Written(node.ident)>>
At(kinds) == stage = "parsing" /\ frames # <<>> /\ Top.todo # <<>> /\ Node.kind \in kinds

Walked(frame) == Append(Front(frames), [frame EXCEPT !.todo = Tail(@)])
Converter == <<block, stage, outcome, bindgen>>

(* What report_any_error leaves of an item which was refused: nothing if the *)
(* error does not say whose it is.                                          *)
WithError(vec, err, name) == Push(vec, Ignored(name, err, name))
RefuseItem(err) ==
    /\ frames' = Walked([Top EXCEPT !.more = WithError(@, err, NameOf(Node))])
    /\ UNCHANGED apis

Skip == frames' = Walked(Top) /\ UNCHANGED apis
Add(api) ==
    /\ frames' = Walked(Top)
    /\ apis' = IF IsOnBlocklist(config, ToCppName(api.name)) THEN apis ELSE Push(apis, api)

FatalAttr(name) ==
    CASE name \in UnsupportedTypes -> "unsupported type"
      [] GetFact(results, "discards", name) # Unreported -> "unused template parameter"
      [] GetCppVisibility(results, name) # "public" -> "non-public nested type"
      [] OTHER -> None

ForwardDeclaration(name, cppName) ==
    LET err == IF FatalAttr(name) = None /\ Len(cppName) > 1
               THEN "forward declared nested type" ELSE FatalAttr(name)
    IN Knowing(Api(name, "forward declaration", cppName), [err |-> err])

ParseStruct ==
    /\ At({"struct"})
    /\ LET name == NameOf(Node)
           cppName == GetOriginalName(results, name)
       IN /\ matched' = matched \cup NoteTypeNamed(config, ToCppName(name))
          /\ CASE name[2] \in VtableIdents -> Skip
               [] name[2] \in InvalidIdents -> RefuseItem("invalid identifier")
               [] name \in Substitutes -> Skip
               [] name \in KnownTypes \/ (Top.ns = <<>> /\ IsRustType(config, name[2])) -> Skip
               [] Node.shape = "unused" \/ (Node.shape = "address" /\ FatalAttr(name) # None) ->
                    Add(ForwardDeclaration(name, cppName))
               [] OTHER ->
                    Add(Knowing(Api(name, "struct", cppName), [layout |-> GetFact(results, "layout", name)]))
    /\ UNCHANGED Converter

ParseEnum ==
    /\ At({"enum"})
    /\ matched' = matched \cup NoteTypeNamed(config, ToCppName(NameOf(Node)))
    /\ IF NameOf(Node)[2] \in InvalidIdents THEN RefuseItem("invalid identifier")
       ELSE Add(Api(NameOf(Node), "enum", GetOriginalName(results, NameOf(Node))))
    /\ UNCHANGED Converter

(* A union, or an item nobody expects: the error names nobody.              *)
ParseUnexpected ==
    /\ At({"union", "unexpected"})
    /\ matched' = IF Node.kind = "union" THEN matched \cup NoteTypeNamed(config, ToCppName(NameOf(Node)))
                  ELSE matched
    /\ Skip
    /\ UNCHANGED Converter

AddTypedef(old) ==
    /\ frames' = Walked(Top)
    /\ apis' = Push(apis, Knowing(Api(NameOf(Node), "typedef", GetOriginalName(results, NameOf(Node))),
                                  [old |-> old]))

ParseTypedef ==
    /\ At({"type"})
    /\ matched' = matched \cup NoteAliasNamed(config, ToCppName(NameOf(Node)))
    /\ AddTypedef(Node.of)
    /\ UNCHANGED Converter

ParseUse ==
    /\ At({"use"})
    /\ matched' = matched \cup NoteAliasNamed(config, ToCppName(NameOf(Node)))
    /\ CASE NameOf(Node)[2] \in CharacterTypes -> Skip
         [] Node.of = NameOf(Node) -> RefuseItem("infinitely recursive typedef")
         [] OTHER -> AddTypedef(Node.of)
    /\ UNCHANGED Converter

ParseConst ==
    /\ At({"const"})
    /\ frames' = Walked(Top)
    /\ apis' = IF Node.of[2] \in InvalidIdents THEN apis
               ELSE Push(apis, Api(NameOf(Node), "const", GetOriginalName(results, NameOf(Node))))
    /\ UNCHANGED <<Converter, matched>>

FunctionTables == {"virtualness", "special member", "method kind", "explicitness", "deprecation"}
FunctionToConvert(ns, item) ==
    LET name == <<ns, StripBindgenOriginalSuffix(item.ident)>>
        said == [stem |-> IF item.ident.n = 0 THEN None ELSE item.ident.stem,
                 visibility |-> GetCppVisibility(results, name),
                 exceptions |-> GetExceptionSpecification(results, name)]
    IN Knowing(Api(name, "function", GetOriginalName(results, name)),
               Knowing(said, [table \in FunctionTables |-> GetFact(results, table, name)]))

ConvertForeignItem(frame, item) ==
    CASE item.kind = "function" ->
            [frame EXCEPT !.functions = Append(@, FunctionToConvert(frame.ns, item))]
      [] item.kind = "static" /\ item.refusal # None ->
            [frame EXCEPT !.ignored = WithError(@, item.refusal, <<frame.ns, Written(item.ident)>>)]
      [] OTHER ->
            [frame EXCEPT !.statics = Push(@, Api(<<frame.ns, Written(item.ident)>>, "static", NoCppName))]

ConvertForeignItems(frame, items) ==
    LET after[n \in 0..Len(items)] ==
            IF n = 0 THEN frame ELSE ConvertForeignItem(after[n - 1], items[n])
    IN  after[Len(items)]

ParseForeignItems ==
    /\ At({"extern"})
    /\ frames' = Walked(ConvertForeignItems(Top, Node.items))
    /\ UNCHANGED <<Converter, matched, apis>>

(* The only place which says what class a function is a method of.          *)
ConvertImplItem(frame, type, item) ==
    [frame EXCEPT !.receivers = (StripBindgenOriginalSuffix(item.ident) :> <<frame.ns, type>>) @@ @]

ConvertImplItems(frame, type, items) ==
    LET after[n \in 0..Len(items)] ==
            IF n = 0 THEN frame ELSE ConvertImplItem(after[n - 1], type, items[n])
    IN  after[Len(items)]

ParseImpl ==
    /\ At({"impl"})
    /\ frames' = Walked(ConvertImplItems(Top, Node.type, Node.items))
    /\ UNCHANGED <<Converter, matched, apis>>

EnterMod ==
    /\ At({"mod"})
    /\ frames' = Append(Walked(Top), Frame(Append(Top.ns, Written(Node.ident)), Node.id))
    /\ UNCHANGED <<Converter, matched, apis>>

WithReceivers(frame) ==
    Each(frame.functions, LAMBDA f :
        Knowing(f, [self |-> IF f.name[2] \in DOMAIN frame.receivers THEN frame.receivers[f.name[2]]
                             ELSE NoCppName]))

(* A mod is done: what was refused, the statics, and now that every impl    *)
(* block has been seen, the functions.                                      *)
Mut_LeaveMod ==
    /\ stage = "parsing" /\ frames # <<>> /\ Top.todo = <<>>
    /\ apis' = PushAll(apis, Top.more \o Top.statics \o WithReceivers(Top))
    /\ frames' = Front(frames)
    /\ UNCHANGED <<Converter, matched>>
LeaveMod ==
    /\ stage = "parsing" /\ frames # <<>> /\ Top.todo = <<>>
    /\ apis' = PushAll(apis, Top.more \o Top.ignored \o Top.statics \o WithReceivers(Top))
    /\ frames' = Front(frames)
    /\ UNCHANGED <<Converter, matched>>

(***************************************************************************)
(* After the walk.                                                         *)
(***************************************************************************)
Spellings(vec) == UNION {CppSpellings(vec[i]) : i \in DOMAIN vec}

NamesAnOverload(directive) ==
    \E i \in DOMAIN apis, n \in 0..MaxDigit :
        /\ apis[i].kind = "function" /\ apis[i].stem # None
        /\ directive = Append(apis[i].name[1], apis[i].stem \o ToString(n))

NotGenerated == {d \in MustGenerateList(config) : d \notin Spellings(apis) /\ ~NamesAnOverload(d)}

(* extern_cpp_type!: whatever was parsed under that C++ name makes way.     *)
ExternApi(cppName) ==
    LET spelt == {i \in DOMAIN apis : cppName \in CppSpellings(apis[i])}
        named == IF spelt = {} THEN Api(FromCppName(cppName), "extern", NoCppName)
                 ELSE LET last == apis[CHOOSE i \in spelt : \A j \in spelt : j <= i]
                      IN Api(last.name, "extern", CppNameOf(last))
    IN Knowing(named, [pod |-> CppSpellings(named) \cap PodRequests(config) # {}])

ReplaceExternCppTypes(vec) ==
    LET replacements == {ExternApi(cppName) : cppName \in DOMAIN config.externs}
    IN PushAll(WithoutAll(vec, {r.name : r \in replacements}), SetToSeq(replacements))

FinishParsing ==
    /\ stage = "parsing" /\ frames = <<>>
    /\ IF NotGenerated # {}
       THEN Refuse("did not generate anything", NotGenerated) /\ UNCHANGED apis
       ELSE /\ stage' = "analysing" /\ UNCHANGED outcome
            /\ apis' = ReplaceExternCppTypes(apis)
    /\ UNCHANGED <<block, matched, bindgen, frames>>

(***************************************************************************)
(* The analyses, as far as the directives can tell: they give up what they *)
(* give up, and ask of each function and alias they get to whether a       *)
(* directive names it.                                                     *)
(***************************************************************************)
AllSpellingsOf(name) == UNION {CppSpellings(apis[i]) : i \in {j \in DOMAIN apis : apis[j].name = name}}

FunctionSpellings(api) ==
    LET own == IF api.cppName = NoCppName THEN api.name[2] ELSE Last(api.cppName)
    IN IF api.self = NoCppName THEN {Append(api.name[1], own)}
       ELSE {Append(class, own) : class \in AllSpellingsOf(api.self)}

NotedByAnalyses(reached) ==
    UNION {UNION {NotedByFunctionLists(config, spelling) : spelling \in FunctionSpellings(api)}
           : api \in {a \in reached : a.kind = "function"}}
    \cup UNION {UNION {NotedByInstantiable(config, spelling) : spelling \in CppSpellings(api)}
               : api \in {a \in reached : a.kind = "typedef"}}

GiveUp(vec, lost) ==
    Each(vec, LAMBDA api : IF api \in lost THEN Ignored(api.name, "given up", api.name) ELSE api)

Analyse ==
    /\ stage = "analysing"
    /\ \E unreached, lost \in {{}} \cup {{a} : a \in {b \in ToSet(apis) : b.kind \in {"struct", "function"}}} :
        /\ matched' = matched \cup NotedByAnalyses(ToSet(apis) \ unreached)
        /\ apis' = GiveUp(apis, unreached \cup lost)
    /\ stage' = "confirming"
    /\ UNCHANGED <<block, outcome, bindgen, frames>>

(***************************************************************************)
(* The confirmations, in the order in which they may refuse.               *)
(***************************************************************************)
Kept == SelectSeq(apis, LAMBDA api : api.kind # "ignored")

NoLongerGenerated == {d \in MustGenerateList(config) : d \notin Spellings(Kept) /\ ~NamesAnOverload(d)}

(* An alias of an instantiation becomes a holder if a directive names its   *)
(* template.                                                                *)
SmartPointersUnmatched ==
    {d \in ToSet(config.lists["smart_pointer"]) :
        ~\E api \in ToSet(Kept) : api.kind = "typedef" /\ NameMatchesDirective(ToCppName(api.old), d)}

HasRustDefinition(api) ==
    \/ api.kind = "enum"
    \/ api.kind = "struct" /\ CppSpellings(api) \cap PodRequests(config) # {}
DerivesRefused ==
    {d \in DOMAIN config.derives :
        LET targets == {api \in ToSet(Kept) : d \in CppSpellings(api) /\ HasRustDefinition(api)}
        IN \/ targets = {}
           \/ \E api \in targets : api.kind = "enum" /\ Contains(config.derives[d], "Default")}

Confirm ==
    /\ stage = "confirming"
    /\ CASE NoLongerGenerated # {} -> Refuse("did not generate anything", NoLongerGenerated)
         [] SmartPointersUnmatched # {} -> Refuse("smart pointer directive", SmartPointersUnmatched)
         [] DerivesRefused # {} -> Refuse("derive directive", DerivesRefused)
         [] UnmatchedDirectives(config, matched) # {} ->
                Refuse("matched nothing", UnmatchedDirectives(config, matched))
         [] OTHER -> stage' = "generated" /\ UNCHANGED outcome
    /\ UNCHANGED <<block, matched, bindgen, frames, apis>>

Parse ==
    \/ ParseStruct \/ ParseEnum \/ ParseUnexpected \/ ParseTypedef \/ ParseUse \/ ParseConst
    \/ ParseForeignItems \/ ParseImpl \/ EnterMod \/ LeaveMod

Next ==
    \/ StartGenerating \/ ReportItem \/ BindgenFails \/ StartConverting
    \/ Parse \/ FinishParsing \/ Analyse \/ Confirm

Spec == Init /\ [][Next]_vars

(***************************************************************************)
(* Properties.                                                             *)
(***************************************************************************)
Converted == stage \in {"parsing", "analysing", "confirming", "generated"}
Parsed == stage \in {"analysing", "confirming", "generated"}

HasNameToItself(item) ==
    ~\E other \in Emitted(header) :
        /\ IsReported(other) /\ (other.kind = "function") # (item.kind = "function")
        /\ other.parent = item.parent /\ FinalName(other) = FinalName(item)
NameInRust(item) == <<PathOf(header, item.parent), FinalName(item)>>

(* What the headers call an item, which for a function is not quite what    *)
(* bindgen was made to report; and a type whose name ends, or whose class's *)
(* name ends, like the names autocxx has bindgen give to functions.         *)
NameInCpp(item) ==
    [i \in DOMAIN item.cppName |->
        IF item.kind = "function" THEN item.cppName[i].stem ELSE Written(item.cppName[i])]
NamedLikeARename(item) ==
    item.kind # "function" /\ \E i \in DOMAIN item.cppName : item.cppName[i].marked

(* Whatever order bindgen reports in, what it said of an item is what the   *)
(* walk and the analyses are told when they ask by the name the item has in *)
(* the emitted Rust: the third `get` of a class is not confused with a      *)
(* function called get2, nor A in one namespace with A in another. A class  *)
(* and a function of one name are the exception; and a type named like a    *)
(* renamed function keeps everything but its C++ name.                      *)
FactsReachTheirOwner ==
    Converted =>
        \A item \in Emitted(header) :
            (IsReported(item) /\ item.kind # "mod" /\ HasNameToItself(item)) =>
                LET name == NameInRust(item)
                IN /\ NamedLikeARename(item) \/ GetOriginalName(results, name) = NameInCpp(item)
                   /\ \A table \in DOMAIN item.facts \ {"visibility"} :
                        GetFact(results, table, name) = item.facts[table]
                   /\ "visibility" \in DOMAIN item.facts =>
                        GetCppVisibility(results, name) = item.facts["visibility"]
                   /\ Len(GetBases(results, name).named) = Len(item.members.bases)
                   /\ \A i \in DOMAIN item.members.bases :
                        GetBases(results, name).named[i].name = NameInRust(ItemOf(item.members.bases[i].base))
                   /\ \A table \in DOMAIN item.members \ {"bases"} :
                        GetMembers(results, table, name) = item.members[table]

Unsettled(item) == item.facts["exceptions"].declared = "computed"
ShowsItsStandard ==
    \E item \in Emitted(header) :
        item.kind = "function" /\ item.facts["exceptions"].declared = "never throws"

(* The walk meets the functions of a class before the impl block which says *)
(* whose they are, and asks about each by its stripped name: a function is  *)
(* still a method of the class which declares it and of no other. And one   *)
(* whose `noexcept(...)` bindgen could not settle is never taken to be      *)
(* allowed to throw on the word of an argument list which says C++17 where  *)
(* the parse shows it was not.                                              *)
FunctionsAreTheirOwn ==
    Parsed =>
        \A item \in Emitted(header), i \in DOMAIN apis :
            /\ item.kind = "function" /\ HasNameToItself(item)
            /\ apis[i].kind = "function" /\ apis[i].name = NameInRust(item)
            => /\ apis[i].self = IF item.class = RootMod THEN NoCppName
                                 ELSE NameInRust(ItemOf(item.class))
               /\ apis[i].cppName = NameInCpp(item)
               /\ (Unsettled(item) /\ ~header.isCpp17 /\ ShowsItsStandard) => apis[i].exceptions = "computed"

(* What bindgen said reaches whom it is about, in the parse and after it.  *)
ReportsReachTheirOwner == FactsReachTheirOwner /\ FunctionsAreTheirOwn

LeftOut(item) ==
    LET name == NameInRust(item)
    IN CASE item.kind = "struct" ->
                \/ name[2] \in VtableIdents \/ name \in Substitutes \cup KnownTypes
                \/ name[1] = <<>> /\ IsRustType(config, name[2])
                \/ IsOnBlocklist(config, ToCppName(name))
         [] item.kind = "enum" -> IsOnBlocklist(config, ToCppName(name))
         [] item.kind = "use" -> name[2] \in CharacterTypes
         [] item.kind = "const" -> item.of[2] \in InvalidIdents
         [] OTHER -> item.kind \in {"union", "unexpected"}

(* A declaration bindgen emitted is an API when the walk is over, if only   *)
(* one which says why there is none: the ones left out without a word are   *)
(* those autocxx or the user replaces, and the unions.                      *)
NothingVanishes ==
    Parsed =>
        \A item \in Emitted(header) :
            item.kind = "mod" \/ LeftOut(item) \/ NameInRust(item) \in Names(apis)

BearsTheName(item, list, name) ==
    LET cppName == ToCppName(NameInRust(item))
        spellings == {cppName} \cup Nested(NameInRust(item), NameInCpp(item))
        own == IF item.cppName = NoCppName THEN NameInRust(item)[2] ELSE Last(NameInCpp(item))
        class == ItemOf(item.class)
        scopes == IF item.class = RootMod THEN {NameInRust(item)[1]}
                  ELSE {ToCppName(NameInRust(class))} \cup Nested(NameInRust(class), NameInCpp(class))
    IN CASE list \in {"block", "block_constructors"} ->
                item.kind \in {"struct", "enum", "union", "type", "use"} /\ name = cppName
         [] list = "instantiable" -> item.kind \in {"type", "use"} /\ name \in spellings
         [] OTHER -> /\ item.kind = "function"
                     /\ \E scope \in scopes : FunctionNameMatchesDirective(Append(scope, own), name)

Borne(list, name) == \E item \in Emitted(header) : BearsTheName(item, list, name)

(* An engine which has generated has answered every directive out of the    *)
(* headers of this attempt: a block!, throws! or the like named something   *)
(* bindgen reported this time, an extern type has the place of whatever was *)
(* parsed under its name, and only that. And no block! is refused as naming *)
(* nothing when it named a type, however little autocxx made of that type.  *)
DirectivesAreAnswered ==
    /\ stage = "generated" =>
        /\ \A list \in NameMatchingLists : \A name \in ToSet(config.lists[list]) : Borne(list, name)
        /\ \A name \in DOMAIN config.externs :
            Cardinality({i \in DOMAIN apis : name \in CppSpellings(apis[i])}) = 1
                /\ \E i \in DOMAIN apis : apis[i].kind = "extern" /\ name \in CppSpellings(apis[i])
    /\ outcome.why = "matched nothing" =>
        \A note \in outcome.about : note[1] \in {"block", "block_constructors"} => ~Borne(note[1], note[2])

(* A configuration written out for a reproduction case, read again, is the  *)
(* configuration: the same types by value, the same withheld, the same      *)
(* style for each enum, whatever order the directives come in.              *)
Same(a, b) == [a EXCEPT !.entries = ToSet(@)] = [b EXCEPT !.entries = ToSet(@)]
ReproductionSaysTheSame ==
    config.mode # "unspecified" /\ ~config.refused =>
        Same(ConfirmComplete(ParseConfig(Output(config))), config)

(* What get_layout is documented to do: a name without a layout is one      *)
(* bindgen reported none for.                                               *)
NoneIsUnreported ==
    Converted =>
        \A item \in Emitted(header) :
            item.kind \in {"struct", "enum"} /\ "layout" \in DOMAIN item.facts =>
                GetFact(results, "layout", NameInRust(item)) # Unreported

(* What the C++ name of an item is documented to be: the one it has in the  *)
(* headers.                                                                 *)
CppNamesAreOriginal ==
    Converted =>
        \A item \in Emitted(header) :
            IsReported(item) /\ item.kind # "mod" /\ HasNameToItself(item) =>
                GetOriginalName(results, NameInRust(item)) = NameInCpp(item)
================================================================================
