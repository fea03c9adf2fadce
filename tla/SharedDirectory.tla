---------------------------- MODULE SharedDirectory ----------------------------
(* What builders which share a generation directory owe each other, whatever   *)
(* they keep a record of and in how many steps they write: a file is promised  *)
(* the contents its first writer asks for; who asks for the same is given them, *)
(* who asks for others is refused; and a promise is kept for as long as anyone *)
(* has the file or asks for it.                                                *)
(*                                                                             *)
(* Nothing here says how a file is named, when it is looked at, or what comes  *)
(* between asking, being promised and being given.                             *)
CONSTANTS
    Builder,
    File,
    Bytes       \* whole contents

VARIABLES
    contents,   \* the files whoever reads the directory finds
    promised,   \* what files are promised to contain
    asked,      \* the writes asked for
    given,      \* the writes which were reported done
    refused     \* the builders which were refused a write

vars == <<contents, promised, asked, given, refused>>

FileWith == [file : File, bytes : Bytes]
Write == [by : Builder, file : File, bytes : Bytes]
Wanted(w) == [file |-> w.file, bytes |-> w.bytes]
(* Other contents than w wants are promised. *)
Conflicts(w) == \E p \in promised : p.file = w.file /\ p.bytes # w.bytes

(* The directory may hold what an earlier process left. *)
Init ==
    /\ contents \in SUBSET FileWith
    /\ \A c, d \in contents : c.file = d.file => c = d
    /\ promised = {}
    /\ asked = {} /\ given = {} /\ refused = {}

(* Builders ask for whatever they want written. *)
Ask ==
    /\ asked' \in SUBSET Write
    /\ asked \subseteq asked'
    /\ UNCHANGED <<contents, promised, given, refused>>

Promise(w) ==
    /\ ~Conflicts(w)
    /\ promised' = promised \cup {Wanted(w)}
    /\ UNCHANGED <<contents, asked, given, refused>>

Refuse(w) ==
    /\ Conflicts(w)
    /\ asked' = asked \ {w}
    /\ refused' = refused \cup {w.by}
    /\ UNCHANGED <<contents, promised, given>>

(* The file is replaced whole, if it has to be, as its write is reported. *)
Give(w) ==
    /\ Wanted(w) \in promised
    /\ contents' = {c \in contents : c.file # w.file} \cup {Wanted(w)}
    /\ asked' = asked \ {w}
    /\ given' = given \cup {w}
    /\ UNCHANGED <<promised, refused>>

(* Promises are dropped all at once, and only when nobody counts on any. *)
StartOver ==
    /\ asked = {} /\ given = {}
    /\ promised' = {}
    /\ UNCHANGED <<contents, asked, given, refused>>

(* Somebody removes the directory while nothing is being written. *)
Remove ==
    /\ asked = {}
    /\ contents' = {} /\ given' = {}
    /\ UNCHANGED <<promised, asked, refused>>

(* The process ends, however far it got. *)
Restart ==
    /\ promised' = {}
    /\ asked' = {} /\ given' = {} /\ refused' = {}
    /\ UNCHANGED contents

Next ==
    \/ Ask
    \/ \E w \in asked : Promise(w) \/ Refuse(w) \/ Give(w)
    \/ StartOver \/ Remove \/ Restart

Spec == Init /\ [][Next]_vars

(* Whoever was given a file finds it as it was given, and nothing else there. *)
Kept == \A w \in given : \A f \in FileWith : f.file = w.file => (f \in contents <=> f = Wanted(w))

(* ... because one thing at most is promised of a file, and what was given is. *)
Promises ==
    /\ asked \subseteq Write /\ given \subseteq Write /\ promised \subseteq FileWith
    /\ \A p, q \in promised : p.file = q.file => p = q
    /\ \A w \in given : Wanted(w) \in promised
================================================================================
