------------------------------ MODULE Conversions ------------------------------
(***************************************************************************)
(* How one parameter or return value crosses between Rust and C++          *)
(* (function_wrapper.rs, and what function_wrapper_cpp.rs and              *)
(* function_wrapper_rs.rs write for it).  A policy is what the bridge      *)
(* declares, with the work C++ does on it and the work Rust does on it.    *)
(***************************************************************************)
EXTENDS KnownTypes, Naturals, Sequences

(* A type as the bridge spells it: a path, a raw pointer, `&T`,            *)
(* `Pin<&mut T>`, `UniquePtr<T>`, `&[u8]`, an array, a pointer to one.     *)
RustType(form, of, mut) == [form |-> form, of |-> of, mut |-> mut]
PathTo(n) == RustType("path", n, FALSE)
PointerTo(n, mut) == RustType("ptr", n, mut)
ReferenceTo(n) == RustType("ref", n, FALSE)
PinTo(n) == RustType("pin", n, TRUE)
UniquePtrOf(n) == RustType("unique_ptr", n, FALSE)
ByteSlice == RustType("bytes", "u8", FALSE)

(* One shape serves both variants: a pointer policy's `ty` is its          *)
(* BridgePointer, whose pointee and mutability are the type's.             *)
Policy(shape, ty, cpp, rust) == [shape |-> shape, ty |-> ty, cpp |-> cpp, rust |-> rust]
Whole(ty, cpp, rust) == Policy("whole", ty, cpp, rust)
Pointer(ty, cpp, rust) == Policy("pointer", ty, cpp, rust)
Unconverted(ty) == Whole(ty, "none", "none")
ToUniquePtr(ty) == Whole(ty, "value to unique_ptr", "none")
PlacementReturn(ty) == Whole(ty, "return value to placement", "none")

(* reference_return_as_pointer: whatever form a returned reference took.   *)
StandsForAReference(ty) == ty.form \in {"ref", "pin", "ptr"}
ReferenceAsPointer(ty) == PointerTo(ty.of, ty.mut)

WrappedReferenceReturn(ty) ==
    Pointer(ReferenceAsPointer(ty), "reference to pointer", "pointer to wrapper")
RValueReferenceReturn(ty, wrap) ==
    Pointer(ReferenceAsPointer(ty), "rvalue reference to pointer",
            IF wrap THEN "pointer to wrapper" ELSE "none")

-----------------------------------------------------------------------------
(* Questions asked of a policy. *)

PointeeWasVolatile(p) == p.rust = "volatile handle to pointer"
CppWorkNeeded(p) == p.cpp \notin {"none", "move or copy"}
RustWorkNeeded(p) == p.rust # "none"
IsPlacementParameter(p) == p.cpp = "ignored placement"
PopulatesReturnValue(p) == p.cpp # "return value to placement"
IsValueParam(p) == p.rust = "value param to pointer"
TakesReferenceWrapper(p) == p.rust = "wrapper to pointer"
ReturnsReferenceWrapper(p) == p.rust = "pointer to wrapper"

BridgeUnsafeNeeded(p) ==
    p.rust \in {"placement to new return", "pointer to wrapper", "wrapper to pointer",
                "value param to pointer", "rvalue param to pointer"}

(* The type in the bridge before Rust's side has done its work, and after. *)
UnconvertedRustType(p) == IF p.cpp = "value to unique_ptr" THEN UniquePtrOf(p.ty.of) ELSE p.ty

ConvertedRustType(p) ==
    CASE p.cpp = "unique_ptr to value" -> UniquePtrOf(p.ty.of)
      [] p.cpp = "bytes to string_view" -> ByteSlice
      [] p.cpp = "pointer to value" -> PointerTo(p.ty.of, TRUE)
      [] OTHER -> p.ty

(* What C++ does with a parameter going one way, undone for the way back.  *)
(* Most things that have no opposite say so.                               *)
Mut_InverseOfCpp ==
    [c \in {"none", "pointer to reference", "reference to pointer", "pointer to rvalue reference",
            "rvalue reference to pointer", "move or copy", "unique_ptr to value", "pointer to value",
            "value to unique_ptr", "move"} |->
        CASE c = "value to unique_ptr" -> "unique_ptr to value"
          [] c = "unique_ptr to value" -> "value to unique_ptr"
          [] OTHER -> "none"]
InverseOfCpp ==
    [c \in {"none", "pointer to reference", "reference to pointer", "pointer to rvalue reference",
            "rvalue reference to pointer", "move or copy", "unique_ptr to value", "pointer to value",
            "value to unique_ptr", "move"} |->
        CASE c \in {"none", "move or copy"} -> "none"
          [] c = "pointer to reference" -> "reference to pointer"
          [] c = "reference to pointer" -> "pointer to reference"
          [] c = "pointer to rvalue reference" -> "rvalue reference to pointer"
          [] c = "rvalue reference to pointer" -> "pointer to rvalue reference"
          [] c \in {"unique_ptr to value", "pointer to value"} -> "value to unique_ptr"
          [] c = "value to unique_ptr" -> "unique_ptr to value"
          [] OTHER -> "move"]

HasInverse(p) == p.cpp \in DOMAIN InverseOfCpp
Inverted(p) == [p EXCEPT !.cpp = InverseOfCpp[@]]

-----------------------------------------------------------------------------
(* The C++ side.  A C++ type: how it refers to `of`, whether the object it *)
(* refers to may be changed through it, whether it is volatile, whether it *)
(* is a std::unique_ptr to it.                                             *)
CppType(by, of, mut) == [by |-> by, of |-> of, mut |-> mut, volatile |-> FALSE, own |-> FALSE]
Owning(t) == [t EXCEPT !.own = TRUE]
Volatile(t) == [t EXCEPT !.volatile = TRUE]
ByteSliceInCpp == CppType("value", "rust::Slice", FALSE)
NoCppType == CppType("value", "void", TRUE)

(* type_to_cpp, for the forms a bridge type takes. *)
TypeToCpp(ty) ==
    CASE ty.form = "path" -> CppType("value", ty.of, TRUE)
      [] ty.form = "ptr" -> CppType("ptr", ty.of, ty.mut)
      [] ty.form \in {"ref", "pin"} -> CppType("lref", ty.of, ty.mut)
      [] ty.form = "unique_ptr" -> Owning(CppType("value", ty.of, TRUE))
      [] ty.form = "bytes" -> ByteSliceInCpp
      [] OTHER -> CppType("array", ty.of, TRUE)

UniquePtrInCpp(p) == Owning(TypeToCpp(p.ty))

UnconvertedCppType(p) ==
    CASE p.cpp = "unique_ptr to value" -> UniquePtrInCpp(p)
      [] p.cpp = "pointer to value" -> CppType("ptr", p.ty.of, TRUE)
      [] p.cpp = "bytes to string_view" -> ByteSliceInCpp
      [] p.cpp = "reference to pointer" -> CppType("lref", p.ty.of, p.ty.mut)
      [] p.cpp = "rvalue reference to pointer" -> CppType("rref", p.ty.of, p.ty.mut)
      [] OTHER -> TypeToCpp(p.ty)

ConvertedCppType(p) ==
    CASE p.cpp = "value to unique_ptr" -> UniquePtrInCpp(p)
      [] p.cpp \in {"reference to pointer", "rvalue reference to pointer"} -> CppType("ptr", p.ty.of, p.ty.mut)
      [] p.cpp = "pointer to reference" -> CppType("lref", p.ty.of, p.ty.mut)
      [] p.cpp = "pointer to rvalue reference" -> CppType("rref", p.ty.of, p.ty.mut)
      [] OTHER -> TypeToCpp(p.ty)

(* An expression in the generated C++: its value category and its type.    *)
Expression(category, type) == [category |-> category, type |-> type]
Object(e) == [e.type EXCEPT !.by = "value"]
Variable(t) == Expression("lvalue", [t EXCEPT !.by = IF @ \in {"lref", "rref"} THEN "value" ELSE @])
CallOf(t) ==
    CASE t.by = "lref" -> Expression("lvalue", [t EXCEPT !.by = "value"])
      [] t.by = "rref" -> Expression("xvalue", [t EXCEPT !.by = "value"])
      [] OTHER -> Expression("prvalue", t)
Dereference(e) == Expression("lvalue", Object([e EXCEPT !.type.own = FALSE]))
StdMove(e) == Expression("xvalue", e.type)
Addressof(e) == Expression("prvalue", [e.type EXCEPT !.by = "ptr"])
MovedOrCopied(e) == Expression("prvalue", [Object(e) EXCEPT !.mut = TRUE])

(* cpp_conversion: the expression handed on, for one of the policy's       *)
(* unconverted type.  A placement parameter is handed to nobody.           *)
CppConversion(p, e, isReturn) ==
    CASE p.cpp = "pointer to reference" -> Dereference(e)
      [] p.cpp = "move" -> StdMove(e)
      [] p.cpp = "pointer to move" -> StdMove(Dereference(e))
      [] p.cpp = "unique_ptr to value" -> MovedOrCopied(Dereference(e))
      [] p.cpp = "move or copy" -> MovedOrCopied(e)
      [] p.cpp = "value to unique_ptr" -> Expression("prvalue", Owning(Object(e)))
      [] p.cpp = "pointer to value" -> IF isReturn THEN Dereference(e) ELSE MovedOrCopied(Dereference(e))
      [] p.cpp = "bytes to string_view" -> Expression("prvalue", CppType("value", "autocxx::CppStringView", TRUE))
      [] p.cpp = "reference to pointer" -> Addressof(e)
      [] p.cpp = "volatile pointer to pointer" -> Expression("prvalue", [e.type EXCEPT !.volatile = FALSE])
      [] p.cpp = "volatile reference to pointer" -> Expression("prvalue", [Addressof(e).type EXCEPT !.volatile = FALSE])
      [] p.cpp = "pointer to volatile pointer" -> Expression("prvalue", Volatile(e.type))
      [] p.cpp = "pointer to volatile reference" -> Expression("lvalue", Volatile(Dereference(e).type))
      [] p.cpp = "pointer to rvalue reference" -> StdMove(Dereference(e))
      [] OTHER -> e

(* A `T&&` return has no conversion on the way to Rust: cpp_conversion     *)
(* reports it.                                                             *)
ConvertsInCpp(p) == p.cpp # "rvalue reference to pointer"

-----------------------------------------------------------------------------
(* The Rust side: the type the wrapper shows its caller, and whether the   *)
(* expression that reaches the bridge needs an unsafe block.               *)
RustSide(shown, ty, needsUnsafe) == [shown |-> shown, ty |-> ty, needsUnsafe |-> needsUnsafe]

HandleFor(p, mutable, const) == RustSide(IF p.ty.mut THEN mutable ELSE const, p.ty, FALSE)

RustConversion(p) ==
    CASE p.rust = "none" -> RustSide("bridge type", ConvertedRustType(p), FALSE)
      [] p.rust = "from str" -> RustSide("impl ToCppString", p.ty, FALSE)
      [] p.rust = "from bytes" -> RustSide("impl AsCppStringView", p.ty, FALSE)
      [] p.rust = "boxed holder" -> RustSide("CppSubclassRustPeerHolder", p.ty, FALSE)
      [] p.rust = "pin maybe uninit to pointer" -> RustSide("Pin<&mut MaybeUninit>", p.ty, TRUE)
      [] p.rust = "pin move ref to pointer" -> RustSide("Pin<MoveRef>", p.ty, TRUE)
      [] p.rust = "type to pointer" -> RustSide("&mut", p.ty, FALSE)
      [] p.rust = "value param to pointer" -> RustSide("impl ValueParam", p.ty, FALSE)
      [] p.rust = "rvalue param to pointer" -> RustSide("impl RValueParam", p.ty, FALSE)
      [] p.rust = "placement to new return" -> RustSide("returned", p.ty, FALSE)
      [] p.rust = "pointer to wrapper" -> HandleFor(p, "CppMutLtRef", "CppLtRef")
      [] p.rust = "wrapper to pointer" -> HandleFor(p, "CppMutRef", "CppRef")
      [] OTHER -> HandleFor(p, "VolatilePtr", "VolatileConstPtr")
================================================================================
