------------------------------- MODULE KnownTypes -------------------------------
(***************************************************************************)
(* The database of types autocxx knows without reading a header, and the   *)
(* questions the analyses ask of it (known_types.rs).  Every row is one    *)
(* type: the name Rust calls it by, its C++ name, its behaviour, and the   *)
(* other names under which bindgen may report it.                          *)
(***************************************************************************)
EXTENDS FiniteSets

Row(rs, cpp, behavior, others) ==
    [rs |-> rs, cpp |-> cpp, behavior |-> behavior, others |-> others,
     ownsCpp |-> TRUE, glue |-> TRUE]

SharingCppName(row) == [row EXCEPT !.ownsCpp = FALSE]
WithoutContainerGlue(row) == [row EXCEPT !.glue = FALSE]

StdTypes ==
    {Row("cxx::UniquePtr", "std::unique_ptr", "CxxContainerUniquePtr", {}),
     Row("cxx::CxxVector", "std::vector", "CxxContainerVector", {}),
     Row("cxx::SharedPtr", "std::shared_ptr", "CxxContainerSharedPtr", {}),
     Row("cxx::WeakPtr", "std::weak_ptr", "CxxContainerSharedPtr", {}),
     Row("cxx::CxxString", "std::string", "CxxString", {}),
     WithoutContainerGlue(Row("autocxx::CppStringView", "std::string_view", "CxxStringView", {})),
     Row("str", "rust::Str", "RustStr", {}),
     Row("String", "rust::String", "RustString", {}),
     Row("std::boxed::Box", "rust::Box", "RustContainerByValueSafe", {}),
     Row("core::pin::Pin", "Pin", "RustByValue", {"std::pin::Pin"})}

(* The integers of fixed width, as cxx's own atoms. *)
Atoms ==
    {Row("i8", "int8_t", "CByValueVecSafe", {"std::os::raw::c_schar"}),
     Row("u8", "uint8_t", "CByValueVecSafe", {"std::os::raw::c_uchar"}),
     Row("i16", "int16_t", "CByValueVecSafe", {}), Row("u16", "uint16_t", "CByValueVecSafe", {}),
     Row("i32", "int32_t", "CByValueVecSafe", {}), Row("u32", "uint32_t", "CByValueVecSafe", {}),
     Row("i64", "int64_t", "CByValueVecSafe", {}), Row("u64", "uint64_t", "CByValueVecSafe", {}),
     Row("f32", "float", "CByValueVecSafe", {}), Row("f64", "double", "CByValueVecSafe", {}),
     Row("usize", "size_t", "CByValueVecSafe", {}),
     Row("bool", "bool", "CByValue", {}),
     Row("std::os::raw::c_char", "char", "CChar", {}),
     Row("autocxx::c_void", "void", "CVoid", {"std::os::raw::c_void"})}

(* The wrappers of autocxx's own, which name an atom's C++ type where cxx  *)
(* does not take the atom.                                                 *)
PayloadWrapper ==
    [atom \in {"i8", "u8", "i16", "u16", "i32", "u32", "i64", "u64"} |->
        CASE atom = "i8" -> "autocxx::c_i8" [] atom = "u8" -> "autocxx::c_u8"
          [] atom = "i16" -> "autocxx::c_i16" [] atom = "u16" -> "autocxx::c_u16"
          [] atom = "i32" -> "autocxx::c_i32" [] atom = "u32" -> "autocxx::c_u32"
          [] atom = "i64" -> "autocxx::c_i64" [] OTHER -> "autocxx::c_u64"]

Wrappers ==
    {SharingCppName(Row(PayloadWrapper[row.rs], row.cpp, "CIntegerWrapper", {})) :
        row \in {r \in Atoms : r.rs \in DOMAIN PayloadWrapper}}

CTypes ==
    {Row("autocxx::c_long", "long", "CIntegerWrapper", {"std::os::raw::c_long"}),
     Row("autocxx::c_ulong", "unsigned long", "CIntegerWrapper", {"std::os::raw::c_ulong"}),
     Row("autocxx::c_int", "int", "CIntegerWrapper", {"std::os::raw::c_int"}),
     Row("autocxx::c_uint", "unsigned int", "CIntegerWrapper", {"std::os::raw::c_uint"}),
     Row("autocxx::c_short", "short", "CIntegerWrapper", {"std::os::raw::c_short"}),
     Row("autocxx::c_ushort", "unsigned short", "CIntegerWrapper", {"std::os::raw::c_ushort"}),
     Row("autocxx::c_longlong", "long long", "CIntegerWrapper", {"std::os::raw::c_longlong"}),
     Row("autocxx::c_ulonglong", "unsigned long long", "CIntegerWrapper", {"std::os::raw::c_ulonglong"}),
     WithoutContainerGlue(Row("autocxx::c_i128", "__int128", "CIntegerWrapper", {"i128"})),
     WithoutContainerGlue(Row("autocxx::c_u128", "unsigned __int128", "CIntegerWrapper", {"u128"}))}

(* Each under its C++ name, its last segment, and the name bindgen invents. *)
Characters ==
    {Row("autocxx::c_char16_t", "char16_t", "CCharacter", {"c_char16_t", "bindgen_cchar16_t"}),
     Row("autocxx::c_wchar_t", "wchar_t", "CCharacter", {"c_wchar_t", "bindgen_cwchar_t"}),
     Row("autocxx::c_char32_t", "char32_t", "CCharacter", {"c_char32_t", "bindgen_cchar32_t"}),
     WithoutContainerGlue(Row("autocxx::c_char8_t", "char8_t", "CCharacter", {"c_char8_t", "bindgen_cchar8_t"}))}

Database == StdTypes \cup Atoms \cup Wrappers \cup CTypes \cup Characters

CanonicalNames(row) == row.others \cup IF row.ownsCpp THEN {row.cpp} ELSE {}

AnsweringTo(row) == CanonicalNames(row) \cup {row.rs}

(* TypeDatabase::get, for every name a row answers to: a canonical name     *)
(* speaks before a Rust name.                                              *)
Indexed(rows) ==
    [n \in UNION {AnsweringTo(row) : row \in rows} |->
        LET named == {row \in rows : n \in CanonicalNames(row)}
        IN CHOOSE row \in rows : IF named = {} THEN row.rs = n ELSE row \in named]

RowOf == Indexed(Database)

(* What a database says of a name: of one it has never heard of, nothing   *)
(* but the name.                                                           *)
RowIn(rows, n) == IF n \in DOMAIN rows THEN rows[n] ELSE Row(n, n, "unknown", {})

Known(n) == RowIn(RowOf, n)

-----------------------------------------------------------------------------
(* The questions. *)

IsKnownType(n) == n \in DOMAIN RowOf
Behaves(n, behaviors) == Known(n).behavior \in behaviors

ConsiderSubstitution(n) == Known(n).rs
CppName(n) == Known(n).cpp

GenericBehavior(behavior) ==
    CASE behavior = "CxxContainerUniquePtr" -> "CppUniquePtr"
      [] behavior = "CxxContainerSharedPtr" -> "CppSharedPtr"
      [] behavior = "CxxContainerVector" -> "CppVector"
      [] behavior = "RustContainerByValueSafe" -> "Rust"
      [] OTHER -> "Not"
CxxGenericBehavior(n) == GenericBehavior(Known(n).behavior)

ShouldDereferenceInCpp(n) == Behaves(n, {"RustStr"})
IsStringView(n) == Behaves(n, {"CxxStringView"})

(* What cxx takes inside each container; of a type it has never heard of,  *)
(* anything.                                                               *)
TakenAmong(row, behaviors) == row.behavior = "unknown" \/ (row.glue /\ row.behavior \in behaviors)
PermissibleWithin(n, behaviors) == TakenAmong(Known(n), behaviors)

PermissibleWithinVector(n) ==
    PermissibleWithin(n, {"CxxString", "CByValueVecSafe", "CIntegerWrapper", "CCharacter"})
PermissibleWithinUniquePtr(n) ==
    PermissibleWithin(n, {"CxxString", "CxxContainerVector", "CIntegerWrapper", "CCharacter"})
PermissibleWithinSharedOrWeakPtr(n) ==
    PermissibleWithin(n, {"CxxString", "CByValue", "CByValueVecSafe", "CIntegerWrapper", "CCharacter"})

(* Types whose prelude class stands in for the real one in bindgen's eyes, *)
(* and the inner types that class declares.                                *)
HasPreludeEntry(behavior) ==
    behavior \in {"RustString", "RustStr", "CxxString", "CxxStringView", "CxxContainerUniquePtr",
                  "CxxContainerSharedPtr", "CxxContainerVector", "RustContainerByValueSafe"}

InnerTypes(behavior) ==
    IF behavior \in {"CxxString", "CxxStringView"} THEN {"value_type", "size_type", "difference_type"} ELSE {}

LacksInner(behavior, inner) == HasPreludeEntry(behavior) /\ inner \notin InnerTypes(behavior)
LacksInnerType(n, inner) == LacksInner(Known(n).behavior, inner)

(* get_pod_safe_types. *)
PodSafe(n) == ~Behaves(n, {"unknown", "CxxString", "CxxStringView", "CxxContainerVector", "CVoid"})

(* get_moveit_safe_types. *)
MoveitSafe(n) == ~Behaves(n, {"unknown", "CxxString", "CxxStringView", "CxxContainerVector"})

LacksCopyConstructor(n) ==
    Behaves(n, {"CxxContainerUniquePtr", "CxxContainerSharedPtr", "CxxContainerVector", "RustContainerByValueSafe"})

CopyableFromVolatile(n) == Behaves(n, {"CByValue", "CByValueVecSafe", "CChar", "CCharacter", "CIntegerWrapper"})
PermissibleWithinArray(n) == Behaves(n, {"CByValue", "CByValueVecSafe", "CChar"})
RelocatableNewtype(n) == Behaves(n, {"CIntegerWrapper", "CCharacter"})
ConvertibleFromStrs(n) == Behaves(n, {"CxxString"})
================================================================================
