----------------------------- MODULE MCBuildScript -----------------------------
(* Instances of BuildScript: three builders whose inputs overlap. *)
EXTENDS BuildScript

(* b1 and b2 both have an unnamed block, so both write one bindings file and   *)
(* one autocxxgen header; b3 is named apart, and has a cxx::bridge as well.    *)
Ffi(body) == [kind |-> "include_cpp", body |-> body, extra |-> "autocxxgen_ffi.h",
              extraImpl |-> FALSE, rs |-> "ffi.rs"]
Named(body) == [kind |-> "include_cpp", body |-> body, extra |-> "autocxxgen_b3.h",
                extraImpl |-> TRUE, rs |-> "b3.rs"]
Plain(body) == [kind |-> "include_cpp", body |-> body, extra |-> "-",
                extraImpl |-> FALSE, rs |-> "plain.rs"]
Bridge(body) == [kind |-> "bridge", body |-> body, extra |-> "-",
                 extraImpl |-> FALSE, rs |-> "-"]

MCBuilder == {"b1", "b2", "b3"}
MCBody == {"p", "x", "y", "z"}
MCBytes == Rendered
MCNumber == 7
MCGenName == [n \in 0..MCNumber |->
    <<"gen0.cxx", "gen1.cxx", "gen2.cxx", "gen3.cxx",
      "gen4.cxx", "gen5.cxx", "gen6.cxx", "gen7.cxx">>[n + 1]]
MCHeaders == [n \in 0..MCNumber |->
    <<"cxxgen.h", "cxxgen1.h", "cxxgen2.h", "cxxgen3.h",
      "cxxgen4.h", "cxxgen5.h", "cxxgen6.h", "cxxgen7.h">>[n + 1]]
Chosen == {MCGenName[n] : n \in 0..MCNumber} \cup {MCHeaders[n] : n \in 0..MCNumber}
MCPath == Chosen \cup {"cxx.h", "-", "autocxxgen_ffi.h", "autocxxgen_b3.h",
                       "ffi.rs", "FFI.rs", "b3.rs", "plain.rs"}
Exactly == [p \in MCPath |-> p]
IgnoringCase == [p \in MCPath |-> IF p = "FFI.rs" THEN "ffi.rs" ELSE p]

SamePrelude == [b \in MCBuilder |-> "p"]
DefaultNamers == [b \in MCBuilder |-> MCHeaders]
(* b2's caller names headers itself, and has only one name to give. *)
OneNamer == [DefaultNamers EXCEPT !["b2"] = [n \in 0..MCNumber |-> MCHeaders[0]]]

Overlapping == [b \in MCBuilder |->
    CASE b = "b1" -> <<Ffi("x")>>
      [] b = "b2" -> <<Ffi("y")>>
      [] OTHER -> <<Bridge("z"), Named("z")>>]

(* Two builders, one after the other: b2's bindings differ from b1's in the    *)
(* case of their name and in what they say, as after a failed build which the  *)
(* caller handled by building again from an edited input, and its namer is its *)
(* caller's.                                                                   *)
Two == {"b1", "b2"}
InTurn == [b \in Two |->
    IF b = "b1" THEN <<Ffi("x")>>
    ELSE <<[Ffi("y") EXCEPT !.rs = "FFI.rs", !.extra = "-"]>>]
TwoPreludes == [b \in Two |-> "p"]
TwoNamers == [b \in Two |-> OneNamer[b]]

(* The least that makes the two races of three builders: one bindings file. *)
Races == [b \in MCBuilder |-> IF b = "b2" THEN <<Plain("y")>> ELSE <<Plain("x")>>]
===============================================================================
