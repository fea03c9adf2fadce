------------------------------ MODULE MCGenTool ------------------------------
(* Instances of GenTool for TLC: command lines of one or two small files. *)
EXTENDS GenTool

Block(key, name, only) == [key |-> key, name |-> name, only |-> only]
File(written, found) == [blocks |-> written, found |-> found]

Ffi == Block("k1", "", FALSE)
FfiToo == Block("k2", "", FALSE)
Lower == Block("k3", "other", FALSE)
Upper == Block("k4", "Other", FALSE)
Parse == Block("k5", "docs", TRUE)

\* The files worth pairing: the same block twice, blocks of one name,
\* names which differ in case, discoveries with and without a block to join.
SomeFiles ==
    { File(<<Ffi>>, ""), File(<<Ffi>>, "fun"), File(<<Ffi>>, "type"),
      File(<<FfiToo>>, ""), File(<<Ffi, Lower>>, ""), File(<<Ffi, Lower>>, "fun"),
      File(<<Upper>>, ""), File(<<Ffi, FfiToo>>, ""), File(<<>>, "fun"), File(<<>>, "type"),
      File(<<>>, "") }
WithParseOnly == { File(<<Parse, Ffi>>, "fun"), File(<<Parse>>, "fun") }

\* Any file alone, and any file after one which makes bindings.
Pairs(First, Second) == {<<f>> : f \in First \cup Second} \cup {<<f, g>> : f \in First, g \in Second}
CommandLines ==
    Pairs({ File(<<Ffi>>, ""), File(<<Ffi, Lower>>, "") }, SomeFiles \cup WithParseOnly)

EveryWay == {{"cpp", "include"}, {"cpp", "include", "exact"}, {"archive"}}

Folded(mod) == IF mod = "Other" THEN "other" ELSE mod
IgnoringCase(n, m) == [n EXCEPT !.mod = Folded(@)] = [m EXCEPT !.mod = Folded(@)]
=============================================================================
