------------------------------ MODULE BridgeNames ------------------------------
(***************************************************************************)
(* The last word on names (bridge_type_names.rs, name_check.rs).  The      *)
(* bridge is one flat mod: types of one name in two namespaces have to be  *)
(* told apart there, and from everything whose name is not autocxx's to    *)
(* choose; what still collides is refused.                                 *)
(***************************************************************************)
EXTENDS FunctionAnalysis

CxxReservedNames ==
    {"Box", "UniquePtr", "SharedPtr", "WeakPtr", "Vec", "CxxVector", "str", "bool", "c_char", "u8", "u16",
     "u32", "u64", "usize", "i8", "i16", "i32", "i64", "isize", "f32", "f64", "CxxString", "String"}

DeclaresBridgeType(api) ==
    api.kind \in {"struct", "enum", "forward declaration", "opaque typedef", "concrete", "extern C++ type"}

FixedBridgeNames(api) ==
    CASE api.kind = "function" -> <<api.bridge>>
      [] api.kind \in {"ctype", "rust type", "rust function", "subclass function", "string constructor"} -> <<api.name[2]>>
      [] api.kind = "subclass" -> <<api.name[2], Holder(api.name[2]), PeerClass(api.name[2])>>
      [] OTHER -> <<>>

(* collapse_underscore_runs *)
Collapsed(id) ==
    LET from[n \in 0..Len(id)] ==
            IF n = 0 THEN ""
            ELSE IF SubSeq(id, n, n) = "_" /\ EndsWithUnderscore(from[n - 1]) THEN from[n - 1]
            ELSE from[n - 1] \o SubSeq(id, n, n)
    IN from[Len(id)]

OkForCxx(id) == id \notin program.invalidIdents /\ Collapsed(id) = id

(* allocate: its own name, its namespace's, or a numbered one. *)
Mut_Allocate(name, taken) ==
    LET qualified == Collapsed(Joined(name[1], "none", name[2]))
    IN IF name[2] \notin taken THEN name[2] ELSE qualified

Allocate(name, taken) ==
    LET qualified == Collapsed(Joined(name[1], "none", name[2]))
        stem == IF OkForCxx(qualified) THEN qualified ELSE name[2]
        Numbered(n) == Collapsed(stem \o "_autocxx" \o ToString(n))
        free == {n \in 1..(Cardinality(taken) + 1) : Numbered(n) \notin taken}
    IN CASE name[2] \notin taken -> name[2]
         [] name[2] \in taken /\ OkForCxx(qualified) /\ qualified \notin taken -> qualified
         [] OTHER -> Numbered(CHOOSE n \in free : \A m \in free : n <= m)

(* BridgeTypeNames::new: every type's name, in the order of the APIs. *)
AllocateNext(names, api) ==
    LET chosen == Allocate(api.name, names.taken)
    IN [taken |-> names.taken \cup {chosen}, of |-> (api.name :> chosen) @@ names.of]

BridgeTypeNames(list) ==
    LET fixed == UNION {ToSet(FixedBridgeNames(api)) : api \in ToSet(list)}
    IN FoldLeft(AllocateNext, [taken |-> CxxReservedNames \cup fixed, of |-> << >>],
                SelectSeq(list, DeclaresBridgeType)).of

-----------------------------------------------------------------------------
(* check_names. *)

Refuse(api, err) == Ignored(api.name, err, api.name)

IsMisnamed(api) ==
    LET validated == {"typedef", "forward declaration", "opaque typedef", "const", "static", "enum", "struct",
                      "subclass", "function"}
        segments == {api.name[1], api.name[2]} \cup (IF api.kind \in {"struct", "enum"} THEN {NestedTypeIdent(api.name[2])} ELSE {})
                    \cup (IF api.kind = "subclass" THEN {api.superclass} ELSE {})
    IN api.kind \in validated /\ \E s \in segments : ~OkForCxx(s)

WithValidNames(list) ==
    [i \in DOMAIN list |-> IF IsMisnamed(list[i]) THEN Refuse(list[i], "invalid identifier") ELSE list[i]]

(* Only the first of several names an API brings is looked at. *)
BridgeName(api, names) ==
    CASE DeclaresBridgeType(api) -> names[api.name]
      [] OTHER -> IF FixedBridgeNames(api) = <<>> THEN "none" ELSE Head(FixedBridgeNames(api))

WithoutDuplicates(list, names) ==
    LET Shares(i) == /\ BridgeName(list[i], names) # "none"
                     /\ \E j \in DOMAIN list \ {i} : BridgeName(list[j], names) = BridgeName(list[i], names)
    IN [i \in DOMAIN list |-> IF Shares(i) THEN Refuse(list[i], "duplicate cxx bridge name") ELSE list[i]]

(* What was refused before is noted, and declares nothing. *)
IsDeclared(api) == api.kind = "function" => api.err = "none"
Settled ==
    LET valid == WithValidNames(SelectSeq(apis, IsDeclared))
        names == BridgeTypeNames(valid)
    IN [apis |-> WithoutDuplicates(valid, names), names |-> names]

-----------------------------------------------------------------------------
(* Properties. *)

NamesInBridge(api, names) ==
    IF DeclaresBridgeType(api) THEN {names[api.name]} ELSE ToSet(FixedBridgeNames(api))

(* Nothing in the bridge has another's name or one cxx keeps for itself,   *)
(* and that costs no type which has a name C++ and Rust can both write.    *)
BridgeIsFlat ==
    \A settled \in IF phase = "done" THEN {Settled} ELSE {} :
        LET named == settled.apis
        IN /\ \A i, j \in DOMAIN named : i # j =>
                 NamesInBridge(named[i], settled.names) \cap NamesInBridge(named[j], settled.names) = {}
           /\ \A i \in DOMAIN named :
                 DeclaresBridgeType(named[i]) => /\ settled.names[named[i].name] \notin CxxReservedNames
                                                 /\ OkForCxx(settled.names[named[i].name])
           /\ \A api \in ToSet(apis) : DeclaresBridgeType(api) /\ ~IsMisnamed(api) => api \in ToSet(named)

(* No two functions, and no two declarations of the bridge, are taken for  *)
(* each other by Rust, by cxx or by C++.                                   *)
NamesAreSound ==
    /\ RustNamesAreDistinct /\ SoleOfItsNameKeepsIt /\ BridgeNamesAreUnique /\ PeersDeclareEachNameOnce
    /\ BridgeIsFlat
================================================================================
