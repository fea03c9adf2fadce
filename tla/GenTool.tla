------------------------------- MODULE GenTool -------------------------------
(***************************************************************************)
(* autocxx_gen, the code generator for build systems other than cargo, and *)
(* the include_cpp! macro which later looks up what it wrote.  The two are *)
(* separate processes and share no state but the files: the macro has the  *)
(* block as its author wrote it, the tool a config it has since augmented. *)
(* One run of the tool parses every input, generates bindings block by     *)
(* block, claims a name for every output, and only then writes them, any   *)
(* of which may fail; it may be killed at any point and run again.         *)
(***************************************************************************)
EXTENDS Integers, FiniteSets, Sequences, SequencesExt

CONSTANTS
    InputLists,     \* the command lines: sequences of source files
    Requests,       \* what may be asked for: sets of "cpp", "include", "archive" and "exact"
    Exact,          \* the number of files of each kind --generate-exact promises
    SameFile(_, _), \* whether the filesystem takes two names for one file
    Failures,       \* whether headers may fail to parse
    MaxRuns         \* bound: runs of the tool

ASSUME InputsAssumption ==
    InputLists \subseteq
        Seq([blocks : Seq([key : STRING, name : STRING, only : BOOLEAN]), found : STRING]) \ {<<>>}
ASSUME RequestsAssumption == Requests \subseteq SUBSET {"cpp", "include", "archive", "exact"}
ASSUME BoundsAssumption == Exact \in Nat /\ MaxRuns \in Nat \ {0}

\* A source file has blocks, in order, and may have items outside them which
\* autocxx discovers.  A block is as written: the hash of its text, its mod
\* name, whether it says parse_only!.  `found` is "" where nothing is discovered.
VARIABLES
    inputs,         \* the files named on the command line of this run
    asked,          \* the outputs named on it
    phase,          \* "parse", "generate", "list", "outputs", "write", "depfile", "done"
    at,             \* the input, block or output it has reached
    blocks,         \* the engines made so far, with what each has generated
    todo,           \* the outputs not yet claimed
    pending,        \* the outputs claimed, in order
    disk,           \* name -> the contents of its file, if there is one
    before,         \* the same when the run began
    depfile,        \* the .d file: "absent", "empty" or "listing"
    result,         \* "", "ok", or why the run failed
    runs            \* how many runs have begun

vars == <<inputs, asked, phase, at, blocks, todo, pending, disk, before, depfile, result, runs>>

Init ==
    /\ inputs \in InputLists /\ asked \in Requests
    /\ phase = "parse" /\ at = 1 /\ blocks = <<>> /\ todo = <<>> /\ pending = <<>>
    /\ disk = <<>> /\ before = disk
    /\ depfile = "empty" /\ result = "" /\ runs = 1

Stop(why) == phase' = "done" /\ result' = why

\* The end of one loop is the start of the next.
Loop(last, next) ==
    IF at < last THEN at' = at + 1 /\ phase' = phase ELSE at' = 1 /\ phase' = next

(* parse_file *)

Generating(file) == SelectSeq(file.blocks, LAMBDA b : ~b.only)

\* The key bindings are filed under: the hash of the block as written, whatever
\* the tool adds to its config.
Mut_KeyOf(text, extra) == <<text, extra>>
KeyOf(text, extra) == <<text, "">>

\* Engines for the blocks of a file, with what it discovered given to the only
\* generating one, or to a block made for the purpose if it has none at all.
Engine(b, input, extra, written) ==
    [input |-> input, text |-> b.key, key |-> KeyOf(b.key, extra), name |-> b.name,
     only |-> b.only, extra |-> extra, written |-> written, made |-> FALSE]
AutoDiscover == [key |-> "auto", name |-> "", only |-> FALSE]
EnginesOf(file, input) ==
    IF file.found # "" /\ file.blocks = <<>>
    THEN <<Engine(AutoDiscover, input, file.found, FALSE)>>
    ELSE [j \in 1..Len(file.blocks) |->
            Engine(file.blocks[j], input,
                   IF file.blocks[j].only THEN "" ELSE file.found, TRUE)]

ParseInput ==
    /\ phase = "parse"
    /\ LET file == inputs[at]
       IN  IF file.found # "" /\ Len(Generating(file)) > 1
           THEN Stop("discovery") /\ UNCHANGED <<at, blocks>>
           ELSE /\ blocks' = blocks \o EnginesOf(file, at)
                /\ Loop(Len(inputs), IF blocks' = <<>> THEN "list" ELSE "generate")
                /\ UNCHANGED result
    /\ UNCHANGED <<inputs, asked, todo, pending, disk, before, depfile, runs>>

(* ParsedFile::resolve_all, IncludeCppEngine::generate *)

\* check_mod_names, before the first block of an input is generated: an
\* unnamed block's mod is called ffi.
ModName(b) == IF b.name = "" THEN "ffi" ELSE b.name
NamesCollide ==
    \E b \in 1..Len(blocks) :
        /\ b # at /\ blocks[b].input = blocks[at].input
        /\ ModName(blocks[b]) = ModName(blocks[at])

Generate ==
    /\ phase = "generate"
    /\ IF NamesCollide
       THEN Stop("names") /\ UNCHANGED <<at, blocks>>
       ELSE /\ blocks' = [blocks EXCEPT ![at].made = ~blocks[at].only]
            /\ Loop(Len(blocks), "list")
            /\ UNCHANGED result
    /\ UNCHANGED <<inputs, asked, todo, pending, disk, before, depfile, runs>>

(* The names and contents of the outputs *)

Name(kind, mod, num) == [kind |-> kind, mod |-> mod, num |-> num]
\* How many blocks before b generated something: header namers count them.
Mut_Before(b) == 0
Before(b) == Cardinality({e \in 1..b - 1 : blocks[e].made})
Made == Before(Len(blocks) + 1)
\* With --generate-exact, and fixed include names, names are numbers.
Counted == "exact" \in asked
HeaderName(b) ==
    IF Counted THEN Name("autocxxgen", "", Before(b))
                 ELSE Name("autocxxgen", ModName(blocks[b]), 0)
RsName(b) == IF Counted THEN Name("rs", "", b - 1) ELSE Name("rs", blocks[b].name, 0)

\* What is generated for a block tells its text, what was discovered for it and
\* the header its bindings include.  The Rust of a parse-only block is empty.
Empty == [what |-> "empty", of |-> <<>>]
Content(what, b) ==
    [what |-> what, of |-> <<blocks[b].text, blocks[b].extra, HeaderName(b)>>]
RsContent(b) == IF blocks[b].only THEN Empty ELSE Content("rs", b)

\* An output to be claimed, or a point at which listing them gives up.
Item(name, content) == [name |-> name, content |-> content, why |-> ""]
GivesUp(why) == [name |-> Name("none", "", 0), content |-> Empty, why |-> why]

CppOutputs(b) ==
    IF blocks[b].only THEN [k \in 1..4 |-> GivesUp("panic")]
    ELSE << Item(Name("cc", "", 2 * Before(b)), Content("cxxgen.cc", b)),
            Item(Name("cxxgen", "", Before(b)), Content("cxxgen.h", b)),
            Item(Name("cc", "", 2 * Before(b) + 1), Content("autocxxgen.cc", b)),
            Item(HeaderName(b), Content("autocxxgen.h", b)) >>
AllCppOutputs ==
    [n \in 1..4 * Len(blocks) |-> CppOutputs(((n - 1) \div 4) + 1)[((n - 1) % 4) + 1]]
RsOutputs == [b \in 1..Len(blocks) |-> Item(RsName(b), RsContent(b))]

\* add_placeholders: exactly as many files of each kind as were promised.
Placeholders(kind, used) ==
    IF ~Counted THEN <<>>
    ELSE IF used > Exact THEN <<GivesUp("exact")>>
    ELSE [n \in 1..(Exact - used) |->
            Item(Name(kind, "", used + n - 1), [what |-> "blank", of |-> <<>>])]

\* generate_rs_archive: one entry for each key, an equal entry accepted.
Clash(c, d) == blocks[c].key = blocks[d].key /\ RsContent(c) # RsContent(d)
Archive ==
    IF \E c, d \in 1..Len(blocks) : Clash(c, d) THEN GivesUp("archive")
    ELSE Item(Name("archive", "", 0),
              [what |-> "archive",
               of |-> {<<blocks[b].key, RsContent(b)>> : b \in 1..Len(blocks)}])

Asked(kind, items) == IF kind \in asked THEN items ELSE <<>>
Outputs ==
    Asked("cpp", AllCppOutputs \o Placeholders("cc", 2 * Made)
                    \o Placeholders("cxxgen", Made) \o Placeholders("autocxxgen", Made))
    \o Asked("include", RsOutputs \o Placeholders("rs", Len(blocks)))
    \o Asked("archive", <<Archive>>)

ListOutputs ==
    /\ phase = "list"
    /\ todo' = Outputs
    /\ phase' = IF Outputs = <<>> THEN "depfile" ELSE "outputs"
    /\ UNCHANGED <<inputs, asked, at, blocks, pending, disk, before, depfile, result, runs>>

(* FileWriter::add_output, FileWriter::write_all *)

\* Claims a name for an output.  The same bytes under one name are one output.
Claimed(item) == {p \in ToSet(pending) : p.name = item.name}
Claim(item) ==
    /\ todo' = Tail(todo)
    /\ pending' = IF Claimed(item) = {} THEN Append(pending, item) ELSE pending
    /\ phase' = IF Len(todo) = 1 THEN "write" ELSE phase
    /\ UNCHANGED result
Refused(item) == \E p \in Claimed(item) : p.content # item.content

\* An output takes the place of its file, whatever name that had before.
Replaced(item) ==
    [n \in DOMAIN disk \cup {item.name} |->
        IF SameFile(n, item.name) THEN item.content ELSE disk[n]]

\* As if each output were written when its name is claimed.
Mut_AddOutput ==
    /\ phase = "outputs"
    /\ LET item == Head(todo)
       IN  CASE item.why # "" -> Stop(item.why) /\ UNCHANGED <<todo, pending, disk>>
             [] item.why = "" /\ Refused(item) ->
                    Stop("conflict") /\ UNCHANGED <<todo, pending, disk>>
             [] OTHER -> Claim(item) /\ disk' = Replaced(item)
    /\ UNCHANGED <<inputs, asked, at, blocks, before, depfile, runs>>
AddOutput ==
    /\ phase = "outputs"
    /\ LET item == Head(todo)
       IN  CASE item.why # "" -> Stop(item.why) /\ UNCHANGED <<todo, pending>>
             [] item.why = "" /\ Refused(item) ->
                    Stop("conflict") /\ UNCHANGED <<todo, pending>>
             [] OTHER -> Claim(item)
    /\ UNCHANGED <<inputs, asked, at, blocks, disk, before, depfile, runs>>

\* Whether an output written already in this run went to the same file.
Mut_Published(item) == FALSE
Published(item) == \E p \in 1..at - 1 : SameFile(pending[p].name, item.name)

\* One output reaches its file, by a rename; a file which says the same already
\* is left alone.
Mut_UpToDate(item) == item.name \in DOMAIN disk
UpToDate(item) == item.name \in DOMAIN disk /\ disk[item.name] = item.content
WriteOutput ==
    /\ phase = "write"
    /\ IF Published(pending[at])
       THEN Stop("one file") /\ UNCHANGED <<at, disk>>
       ELSE /\ disk' = IF UpToDate(pending[at]) THEN disk ELSE Replaced(pending[at])
            /\ Loop(Len(pending), "depfile")
            /\ UNCHANGED result
    /\ UNCHANGED <<inputs, asked, blocks, todo, pending, before, depfile, runs>>

\* The .d file is truncated when the run begins and written last.
WriteDepfile ==
    /\ phase = "depfile"
    /\ depfile' = "listing"
    /\ Stop("ok")
    /\ UNCHANGED <<inputs, asked, at, blocks, todo, pending, disk, before, runs>>

\* Inputs do not parse, headers do not, cxx rejects the bridge, a write fails;
\* or the process is killed.
Fail ==
    /\ Failures
    /\ \/ phase \in {"parse", "outputs"} /\ Stop("failed")
       \/ phase = "generate" /\ ~blocks[at].only /\ Stop("failed")
       \/ phase \in {"write", "depfile"} /\ Stop("part written")
       \/ phase # "done" /\ Stop("killed")
    /\ UNCHANGED <<inputs, asked, at, blocks, todo, pending, disk, before, depfile, runs>>

\* Depfile::new truncates the file before anything is read.
Mut_NewDepfile == depfile
NewDepfile == "empty"

\* The build runs the tool again, on the same sources or on edited ones.
Rerun ==
    /\ phase = "done" /\ runs < MaxRuns
    /\ inputs' \in InputLists
    /\ phase' = "parse" /\ at' = 1 /\ blocks' = <<>> /\ todo' = <<>> /\ pending' = <<>>
    /\ before' = disk /\ depfile' = NewDepfile /\ result' = "" /\ runs' = runs + 1
    /\ UNCHANGED <<asked, disk>>

Next ==
    \/ ParseInput \/ Generate \/ ListOutputs \/ AddOutput
    \/ WriteOutput \/ WriteDepfile \/ Fail \/ Rerun

Spec == Init /\ [][Next]_vars

(* The macro: FileLocationStrategy::make_include *)

\* The file include!d for a block: by its mod name in a directory of bindings,
\* or the file the build system names, one for each block.
Included(b) == disk[RsName(b)]
\* The bindings the archive holds for the block as it is written.
Retrieved(b) ==
    {entry[2] : entry \in {e \in disk[Name("archive", "", 0)].of : e[1] = <<blocks[b].text, "">>}}

-----------------------------------------------------------------------------
(* Properties *)

\* Every variable holds a value of its type.
TypeOK ==
    /\ inputs \in InputLists /\ asked \in Requests
    /\ phase \in {"parse", "generate", "list", "outputs", "write", "depfile", "done"}
    /\ at \in Nat /\ at >= 1
    /\ \A b \in 1..Len(blocks) : blocks[b].made => ~blocks[b].only
    /\ {n.kind : n \in DOMAIN disk \cup DOMAIN before} \subseteq
           {"cc", "cxxgen", "autocxxgen", "rs", "archive"}
    /\ depfile \in {"empty", "listing"}
    /\ result \in {"", "ok", "discovery", "names", "panic", "exact", "archive", "conflict",
                   "one file", "failed", "part written", "killed"}
    /\ runs \in 1..MaxRuns

Succeeded == phase = "done" /\ result = "ok"

\* After a successful run every block of every input is expanded to the
\* bindings made from it, however many blocks look alike: by file name, and by
\* the hash of the block as its author wrote it.
BlocksFindTheirOwn ==
    Succeeded => \A b \in 1..Len(blocks) :
        blocks[b].written /\ ~blocks[b].only =>
            /\ "include" \in asked => Included(b) = Content("rs", b)
            /\ "archive" \in asked => Retrieved(b) = {Content("rs", b)}

\* A run refused over names, or over anything else before it writes, leaves
\* every file as the last run left it (FileWriter's "refused before either is
\* written").
RefusedBeforeWriting ==
    result \in {"failed", "discovery", "names", "panic", "exact", "archive", "conflict"}
        => disk = before

\* Blocks whose names reach different files are never refused, however the
\* outputs of their two halves are numbered (add_output's advice: "Give each
\* include_cpp! its own name!").
DistinctNamesAreAccepted ==
    result \in {"names", "conflict", "one file"} =>
        \E b, c \in 1..Len(blocks) :
            b # c /\ SameFile(Name("rs", ModName(blocks[b]), 0), Name("rs", ModName(blocks[c]), 0))

\* A refusal is deserved, and costs nothing.
RefusalIsJust == RefusedBeforeWriting /\ DistinctNamesAreAccepted

\* A .d file which lists outputs lists only outputs which were written, each as
\* the run which lists it made it: no output has taken the file of another,
\* whatever names the filesystem takes for one, and no earlier run's list
\* outlives its outputs.
ListedOutputsExist ==
    depfile = "listing" =>
        \A i \in 1..Len(pending) :
            pending[i].name \in DOMAIN disk /\ disk[pending[i].name] = pending[i].content

=============================================================================
