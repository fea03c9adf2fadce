---------------------------- MODULE GenToolProofs ----------------------------
(* Proofs about GenTool: for any command lines and contents, whatever fails   *)
(* or is killed and however often the tool runs again.  What is asked of the  *)
(* filesystem is named where it is needed.                                    *)
EXTENDS GenTool, TLAPS, SequenceTheorems, FiniteSetTheorems

(* Strings, those the module writes out among them: the provers know of no     *)
(* literal that it is a string.                                                *)
Text == STRING \cup {"", "auto", "ffi"}

(* A block as written, a file of them, and an engine as parse_file makes it. *)
BlockType == [key : Text, name : Text, only : BOOLEAN]
FileType == [blocks : Seq(BlockType), found : Text]
EngineType ==
    [input : Nat, text : Text, key : Text \X Text, name : Text, only : BOOLEAN,
     extra : Text, written : BOOLEAN, made : BOOLEAN]

LEMMA NoneYet == ASSUME NEW S PROVE <<>> \in Seq(S) /\ Len(<<>>) = 0 /\ 1..Len(<<>>) = {}
OBVIOUS

LEMMA Alone ==
    ASSUME NEW S, NEW e \in S
    PROVE  <<e>> \in Seq(S) /\ Len(<<e>>) = 1 /\ <<e>>[1] = e
OBVIOUS

(* A function over an initial segment is a sequence. *)
LEMMA Listed ==
    ASSUME NEW S, NEW n \in Nat, NEW f, f = [i \in 1..n |-> f[i]], \A i \in 1..n : f[i] \in S
    PROVE  f \in Seq(S) /\ Len(f) = n
OBVIOUS

-------------------------------------------------------------------------------
(* Why a run may end before it has written anything. *)
Early == {"failed", "discovery", "names", "panic", "exact", "archive", "conflict"}

(* Until the last output is claimed the files are as they were, and a run      *)
(* which gets further is refused for no early reason.                          *)
UntouchedInv ==
    /\ phase # "done" => result = ""
    /\ phase \in {"parse", "generate", "list", "outputs"} => disk = before
    /\ result \in Early => disk = before

LEMMA UntouchedStep == UntouchedInv /\ [Next]_vars => UntouchedInv'
<1> SUFFICES ASSUME UntouchedInv, [Next]_vars PROVE UntouchedInv'
    OBVIOUS
<1>1. CASE ParseInput
    BY <1>1 DEF ParseInput, UntouchedInv, Stop, Loop, Early
<1>2. CASE Generate
    BY <1>2 DEF Generate, UntouchedInv, Stop, Loop, Early
<1>3. CASE ListOutputs
    BY <1>3 DEF ListOutputs, UntouchedInv, Early
<1>4. CASE AddOutput
    <2>1. phase = "outputs" /\ UNCHANGED <<disk, before>>
        BY <1>4 DEF AddOutput
    <2>2. (phase' = "done") \/ UNCHANGED result
        BY <1>4 DEF AddOutput, Stop, Claim
    <2> QED
        BY <2>1, <2>2 DEF UntouchedInv
<1>5. CASE WriteOutput
    <2>1. phase = "write" /\ result = ""
        BY <1>5 DEF WriteOutput, UntouchedInv
    <2>2. \/ phase' = "done" /\ result' = "one file"
          \/ phase' \in {"write", "depfile"} /\ result' = ""
        BY <1>5, <2>1 DEF WriteOutput, Stop, Loop
    <2> QED
        BY <2>2 DEF UntouchedInv, Early
<1>6. CASE WriteDepfile
    BY <1>6 DEF WriteDepfile, UntouchedInv, Stop, Early
<1>7. CASE Fail
    BY <1>7 DEF Fail, UntouchedInv, Stop, Early
<1>8. CASE Rerun
    BY <1>8 DEF Rerun, UntouchedInv, Early
<1>9. CASE UNCHANGED vars
    BY <1>9 DEF vars, UntouchedInv
<1> QED
    BY <1>1, <1>2, <1>3, <1>4, <1>5, <1>6, <1>7, <1>8, <1>9 DEF Next

(* A run refused before it wrote has left every file as it was, on any         *)
(* filesystem, whatever failed or was killed before (FileWriter::write_all).   *)
THEOREM RefusalsCostNothing == Spec => []RefusedBeforeWriting
<1>1. Init => UntouchedInv
    BY DEF Init, UntouchedInv, Early
<1>2. UntouchedInv => RefusedBeforeWriting
    BY DEF UntouchedInv, RefusedBeforeWriting, Early
<1> QED
    BY <1>1, <1>2, UntouchedStep, PTL DEF Spec

-------------------------------------------------------------------------------
(* The engines. *)

(* Filed under the hash of the text as written; and its turn to generate over. *)
Filed(e) == e.key = <<e.text, "">> /\ (e.made => ~e.only)
Treated(e) == e.made <=> ~e.only

(* Where a run is, its engines, and which of them have had their turn.         *)
PlaceInv ==
    /\ inputs \in InputLists /\ asked \in Requests
    /\ phase \in {"parse", "generate", "list", "outputs", "write", "depfile", "done"}
    /\ at \in Nat /\ at >= 1
    /\ phase = "parse" => at <= Len(inputs)
    /\ phase = "generate" => at <= Len(blocks)
    /\ phase \in {"list", "outputs"} => at = 1
FiledInv == blocks \in Seq(EngineType) /\ \A b \in 1..Len(blocks) : Filed(blocks[b])
TreatedInv ==
    /\ phase = "generate" => \A b \in 1..at - 1 : Treated(blocks[b])
    /\ phase \in {"list", "outputs", "write", "depfile"} =>
        \A b \in 1..Len(blocks) : Treated(blocks[b])
BlocksInv == PlaceInv /\ FiledInv /\ TreatedInv

(* An input is a file, and there is one at least. *)
LEMMA InputsAreFiles ==
    ASSUME NEW in \in InputLists
    PROVE  in \in Seq(FileType) /\ Len(in) \in Nat /\ Len(in) >= 1
<1> DEFINE Blk == [key : STRING, name : STRING, only : BOOLEAN]
           Fil == [blocks : Seq(Blk), found : STRING]
<1>1. in \in Seq(Fil) /\ in # <<>>
    BY InputsAssumption
<1>2. Seq(Blk) \subseteq Seq(BlockType)
    <2>1. Blk \subseteq BlockType
        BY DEF BlockType, Text
    <2> QED
        BY <2>1, SeqMonotonic
<1>3. Fil \subseteq FileType
    BY <1>2 DEF FileType, Text
<1> HIDE DEF Fil
<1>4. in \in Seq(FileType)
    BY <1>1, <1>3, SeqMonotonic
<1>5. Len(in) \in Nat \ {0}
    BY <1>1, <1>4, EmptySeq
<1> QED
    BY <1>4, <1>5

(* The engines of a file, none of which has generated, are filed as written. *)
LEMMA EnginesAreFiledAsWritten ==
    ASSUME NEW file \in FileType, NEW input \in Nat
    PROVE  /\ EnginesOf(file, input) \in Seq(EngineType)
           /\ \A b \in 1..Len(EnginesOf(file, input)) : Filed(EnginesOf(file, input)[b])
<1> DEFINE Fresh(e) == e \in EngineType /\ Filed(e)
<1>1. ASSUME NEW b \in BlockType, NEW extra \in Text, NEW written \in BOOLEAN
      PROVE  Fresh(Engine(b, input, extra, written))
    <2>1. b.key \in Text /\ b.name \in Text /\ b.only \in BOOLEAN /\ "" \in Text
        BY DEF BlockType, Text
    <2> QED
        BY <2>1 DEF Engine, EngineType, KeyOf, Filed
<1> HIDE DEF Fresh
<1>2. AutoDiscover \in BlockType
    BY DEF AutoDiscover, BlockType, Text
<1>3. file.found \in Text /\ file.blocks \in Seq(BlockType)
    BY DEF FileType
<1>4. CASE file.found # "" /\ file.blocks = <<>>
    <2>1. EnginesOf(file, input) = <<Engine(AutoDiscover, input, file.found, FALSE)>>
        BY <1>4 DEF EnginesOf
    <2>2. Fresh(Engine(AutoDiscover, input, file.found, FALSE))
        BY <1>1, <1>2, <1>3
    <2>3. Engine(AutoDiscover, input, file.found, FALSE) \in EngineType
        BY <2>2 DEF Fresh
    <2> DEFINE f == <<Engine(AutoDiscover, input, file.found, FALSE)>>
    <2>4. f \in Seq(EngineType) /\ Len(f) = 1 /\ Fresh(f[1])
        BY <2>2, <2>3, Alone
    <2> HIDE DEF f
    <2>5. \A b \in 1..Len(f) : Fresh(f[b])
        BY <2>4
    <2> QED
        BY <2>1, <2>4, <2>5 DEF f, Fresh
<1>5. CASE ~(file.found # "" /\ file.blocks = <<>>)
    <2> DEFINE e(j) == Engine(file.blocks[j], input,
                              IF file.blocks[j].only THEN "" ELSE file.found, TRUE)
               f == EnginesOf(file, input)
    <2>1. f = [j \in 1..Len(file.blocks) |-> e(j)]
        BY <1>5 DEF EnginesOf
    <2>2. Len(file.blocks) \in Nat
        BY <1>3
    <2>3. ASSUME NEW j \in 1..Len(file.blocks)
          PROVE  Fresh(e(j))
        <3>1. file.blocks[j] \in BlockType
            BY <1>3, ElementOfSeq
        <3>2. (IF file.blocks[j].only THEN "" ELSE file.found) \in Text
            BY <1>3, <3>1 DEF Text
        <3> QED
            BY <1>1, <3>1, <3>2
    <2> HIDE DEF e, f
    <2>4. \A j \in 1..Len(file.blocks) : Fresh(f[j])
        BY <2>1, <2>3
    <2>5. f = [j \in 1..Len(file.blocks) |-> f[j]]
        BY <2>1
    <2>6. \A j \in 1..Len(file.blocks) : f[j] \in EngineType
        BY <2>4 DEF Fresh
    <2>7. f \in Seq(EngineType) /\ Len(f) = Len(file.blocks)
        BY <2>2, <2>5, <2>6, Listed
    <2> QED
        BY <2>4, <2>7 DEF f, Fresh
<1> QED
    BY <1>4, <1>5

(* An engine whose turn it is. *)
LEMMA TurnsAreTaken ==
    ASSUME NEW e \in EngineType, Filed(e), NEW t, t = [e EXCEPT !.made = ~e.only]
    PROVE  t \in EngineType /\ Filed(t) /\ Treated(t)
<1>1. e.made \in BOOLEAN /\ e.only \in BOOLEAN /\ (~e.only) \in BOOLEAN
    BY DEF EngineType
<1>2. t \in EngineType /\ t.key = e.key /\ t.text = e.text /\ t.only = e.only
    BY DEF EngineType
<1>3. t.made = ~e.only
    BY DEF EngineType
<1> QED
    BY <1>1, <1>2, <1>3, Zenon DEF Filed, Treated

LEMMA ParseInputKeepsBlocks == BlocksInv /\ ParseInput => BlocksInv'
<1> SUFFICES ASSUME BlocksInv, ParseInput PROVE BlocksInv'
    OBVIOUS
<1>1. phase = "parse" /\ inputs' = inputs /\ asked' = asked
    BY DEF ParseInput
<1>2. /\ inputs \in InputLists /\ at \in Nat /\ at >= 1 /\ at <= Len(inputs)
      /\ blocks \in Seq(EngineType) /\ \A b \in 1..Len(blocks) : Filed(blocks[b])
      /\ asked \in Requests
    BY <1>1 DEF BlocksInv, PlaceInv, FiledInv
<1>3. inputs[at] \in FileType /\ Len(inputs) \in Nat
    BY <1>2, InputsAreFiles, ElementOfSeq
<1>4. CASE UNCHANGED <<at, blocks>> /\ phase' = "done"
    BY <1>1, <1>2, <1>4 DEF BlocksInv, PlaceInv, FiledInv, TreatedInv
<1>5. CASE /\ blocks' = blocks \o EnginesOf(inputs[at], at)
           /\ Loop(Len(inputs), IF blocks' = <<>> THEN "list" ELSE "generate")
    <2> DEFINE new == EnginesOf(inputs[at], at)
    <2>1. new \in Seq(EngineType) /\ \A b \in 1..Len(new) : Filed(new[b])
        BY <1>2, <1>3, EnginesAreFiledAsWritten
    <2>2. blocks' = blocks \o new
        BY <1>5
    <2> HIDE DEF new
    <2>3. /\ blocks' \in Seq(EngineType) /\ Len(blocks') = Len(blocks) + Len(new)
          /\ Len(blocks) \in Nat /\ Len(new) \in Nat
        BY <1>2, <2>1, <2>2, ConcatProperties, LenProperties
    <2>4. \A b \in 1..Len(blocks') : blocks'[b] =
              IF b <= Len(blocks) THEN blocks[b] ELSE new[b - Len(blocks)]
        BY <1>2, <2>1, <2>2, <2>3, ConcatProperties
    <2>5. ASSUME NEW b \in 1..Len(blocks') PROVE Filed(blocks'[b])
        <3>1. CASE b <= Len(blocks)
            BY <1>2, <2>3, <2>4, <3>1
        <3>2. CASE ~(b <= Len(blocks))
            <4>1. b - Len(blocks) \in 1..Len(new) /\ blocks'[b] = new[b - Len(blocks)]
                BY <2>3, <2>4, <3>2
            <4> QED
                BY <2>1, <4>1
        <3> QED
            BY <3>1, <3>2
    <2>6. FiledInv'
        BY <2>3, <2>5 DEF FiledInv
    <2>7. \/ at < Len(inputs) /\ at' = at + 1 /\ phase' = "parse"
          \/ at' = 1 /\ phase' = "list" /\ blocks' = <<>>
          \/ at' = 1 /\ phase' = "generate" /\ blocks' # <<>>
        BY <1>1, <1>5 DEF Loop
    <2>8. Len(blocks') \in Nat /\ (blocks' # <<>> => Len(blocks') >= 1)
        BY <2>3, EmptySeq
    <2>9. PlaceInv'
        BY <1>1, <1>2, <1>3, <2>7, <2>8 DEF PlaceInv
    <2>10. TreatedInv'
        <3>1. CASE phase' = "parse"
            BY <3>1 DEF TreatedInv
        <3>2. CASE phase' = "list" /\ blocks' = <<>>
            BY <3>2, NoneYet DEF TreatedInv
        <3>3. CASE phase' = "generate" /\ at' = 1
            BY <3>3 DEF TreatedInv
        <3> QED
            BY <2>7, <3>1, <3>2, <3>3
    <2> QED
        BY <2>6, <2>9, <2>10 DEF BlocksInv
<1> QED
    BY <1>4, <1>5 DEF ParseInput, Stop

LEMMA GenerateKeepsBlocks == BlocksInv /\ Generate => BlocksInv'
<1> SUFFICES ASSUME BlocksInv, Generate PROVE BlocksInv'
    OBVIOUS
<1>1. phase = "generate" /\ inputs' = inputs /\ asked' = asked
    BY DEF Generate
<1>2. /\ inputs \in InputLists /\ asked \in Requests
      /\ at \in Nat /\ at >= 1 /\ at <= Len(blocks)
      /\ blocks \in Seq(EngineType) /\ \A b \in 1..Len(blocks) : Filed(blocks[b])
      /\ \A b \in 1..at - 1 : Treated(blocks[b])
    BY <1>1 DEF BlocksInv, PlaceInv, FiledInv, TreatedInv
<1>3. Len(blocks) \in Nat /\ at \in 1..Len(blocks) /\ blocks[at] \in EngineType
    BY <1>2, LenProperties, ElementOfSeq
<1>4. CASE UNCHANGED <<at, blocks>> /\ phase' = "done"
    BY <1>1, <1>2, <1>4 DEF BlocksInv, PlaceInv, FiledInv, TreatedInv
<1>5. CASE blocks' = [blocks EXCEPT ![at].made = ~blocks[at].only] /\ Loop(Len(blocks), "list")
    <2> DEFINE turn == [blocks[at] EXCEPT !.made = ~blocks[at].only]
    <2>1. turn \in EngineType /\ Filed(turn) /\ Treated(turn)
        BY <1>2, <1>3, TurnsAreTaken
    <2>2. blocks' = [blocks EXCEPT ![at] = turn]
        BY <1>5
    <2> HIDE DEF turn
    <2>3. /\ blocks' \in Seq(EngineType) /\ Len(blocks') = Len(blocks)
          /\ \A b \in 1..Len(blocks) : blocks'[b] = IF b = at THEN turn ELSE blocks[b]
        BY <1>2, <1>3, <2>1, <2>2, ExceptSeq
    <2>4. FiledInv'
        BY <1>2, <2>1, <2>3 DEF FiledInv
    <2>5. ASSUME NEW b \in 1..at PROVE Treated(blocks'[b])
        <3>1. b \in 1..Len(blocks) /\ (b = at \/ b \in 1..at - 1)
            BY <1>3
        <3> QED
            BY <1>2, <2>1, <2>3, <3>1
    <2>6. \/ at < Len(blocks) /\ at' = at + 1 /\ phase' = "generate"
          \/ at = Len(blocks) /\ at' = 1 /\ phase' = "list"
        BY <1>1, <1>3, <1>5 DEF Loop
    <2>7. PlaceInv'
        BY <1>1, <1>2, <1>3, <2>3, <2>6 DEF PlaceInv
    <2>8. TreatedInv'
        <3>1. CASE at' = at + 1 /\ phase' = "generate"
            <4>1. at' - 1 = at
                BY <1>2, <3>1
            <4> QED
                BY <2>5, <3>1, <4>1 DEF TreatedInv
        <3>2. CASE at = Len(blocks) /\ phase' = "list"
            BY <2>3, <2>5, <3>2 DEF TreatedInv
        <3> QED
            BY <2>6, <3>1, <3>2
    <2> QED
        BY <2>4, <2>7, <2>8 DEF BlocksInv
<1> QED
    BY <1>4, <1>5 DEF Generate, Stop

LEMMA BlocksStep == BlocksInv /\ [Next]_vars => BlocksInv'
<1> SUFFICES ASSUME BlocksInv, [Next]_vars PROVE BlocksInv'
    OBVIOUS
<1> USE DEF BlocksInv
<1>1. CASE ParseInput
    BY <1>1, ParseInputKeepsBlocks
<1>2. CASE Generate
    BY <1>2, GenerateKeepsBlocks
<1>3. CASE ListOutputs
    BY <1>3 DEF ListOutputs, PlaceInv, FiledInv, TreatedInv
<1>4. CASE AddOutput
    <2>1. phase = "outputs" /\ UNCHANGED <<inputs, asked, at, blocks>>
        BY <1>4 DEF AddOutput
    <2>2. phase' \in {"done", "write", "outputs"}
        BY <1>4, <2>1 DEF AddOutput, Stop, Claim
    <2> QED
        BY <2>1, <2>2 DEF PlaceInv, FiledInv, TreatedInv
<1>5. CASE WriteOutput
    <2>1. phase = "write" /\ UNCHANGED <<inputs, asked, blocks>>
        BY <1>5 DEF WriteOutput
    <2>2. phase' \in {"done", "write", "depfile"} /\ at' \in {1, at, at + 1}
        BY <1>5, <2>1 DEF WriteOutput, Stop, Loop
    <2>3. at' \in Nat /\ at' >= 1
        BY <2>2 DEF PlaceInv
    <2> QED
        BY <2>1, <2>2, <2>3 DEF PlaceInv, FiledInv, TreatedInv
<1>6. CASE WriteDepfile
    BY <1>6 DEF WriteDepfile, PlaceInv, FiledInv, TreatedInv, Stop
<1>7. CASE Fail
    BY <1>7 DEF Fail, PlaceInv, FiledInv, TreatedInv, Stop
<1>8. CASE Rerun
    <2>1. Len(inputs') \in Nat /\ Len(inputs') >= 1
        BY <1>8, InputsAreFiles DEF Rerun
    <2>2. blocks' \in Seq(EngineType) /\ 1..Len(blocks') = {}
        BY <1>8, NoneYet DEF Rerun
    <2>3. inputs' \in InputLists /\ asked' \in Requests /\ at' = 1 /\ phase' = "parse"
        BY <1>8 DEF Rerun, PlaceInv
    <2>4. PlaceInv'
        BY <2>1, <2>3 DEF PlaceInv
    <2> QED
        BY <2>2, <2>3, <2>4 DEF FiledInv, TreatedInv
<1>9. CASE UNCHANGED vars
    BY <1>9 DEF vars, PlaceInv, FiledInv, TreatedInv
<1> QED
    BY <1>1, <1>2, <1>3, <1>4, <1>5, <1>6, <1>7, <1>8, <1>9 DEF Next

LEMMA BlocksAlways == Spec => []BlocksInv
<1>1. Init => BlocksInv
    <2> SUFFICES ASSUME Init PROVE BlocksInv
        OBVIOUS
    <2>1. Len(inputs) \in Nat /\ Len(inputs) >= 1
        BY InputsAreFiles DEF Init
    <2>2. blocks \in Seq(EngineType) /\ 1..Len(blocks) = {}
        BY NoneYet DEF Init
    <2>3. inputs \in InputLists /\ asked \in Requests /\ at = 1 /\ phase = "parse"
        BY DEF Init
    <2>4. PlaceInv
        BY <2>1, <2>3 DEF PlaceInv
    <2>5. FiledInv /\ TreatedInv
        BY <2>2, <2>3 DEF FiledInv, TreatedInv
    <2> QED
        BY <2>4, <2>5 DEF BlocksInv
<1> QED
    BY <1>1, BlocksStep, PTL DEF Spec

-------------------------------------------------------------------------------
(* The outputs: that they are a list, and what is on it. *)

IsList(s) == s \in Seq(ToSet(s))

LEMMA ListsOfAny ==
    ASSUME NEW S, NEW s \in Seq(S)
    PROVE  IsList(s) /\ \A e : e \in ToSet(s) <=> \E i \in 1..Len(s) : e = s[i]
<1>1. ToSet(s) = {s[i] : i \in 1..Len(s)}
    BY DEF ToSet
<1>2. \A i \in 1..Len(s) : s[i] \in ToSet(s)
    BY <1>1
<1>3. Len(s) \in Nat /\ s = [i \in 1..Len(s) |-> s[i]]
    BY LenProperties
<1>4. s \in Seq(ToSet(s))
    BY <1>2, <1>3, Listed
<1> QED
    BY <1>1, <1>4 DEF IsList

LEMMA JoinedLists ==
    ASSUME NEW s, NEW t, IsList(s), IsList(t)
    PROVE  IsList(s \o t) /\ \A e : e \in ToSet(s \o t) <=> e \in ToSet(s) \/ e \in ToSet(t)
<1> DEFINE S == ToSet(s) \cup ToSet(t)
<1>1. s \in Seq(S) /\ t \in Seq(S)
    BY SeqMonotonic DEF IsList
<1> HIDE DEF S
<1>2. /\ s \o t \in Seq(S) /\ Len(s \o t) = Len(s) + Len(t)
      /\ \A i \in 1..Len(s) + Len(t) :
            (s \o t)[i] = IF i <= Len(s) THEN s[i] ELSE t[i - Len(s)]
      /\ Len(s) \in Nat /\ Len(t) \in Nat
    BY <1>1, ConcatProperties, LenProperties
<1>3. /\ \A e : e \in ToSet(s) <=> \E i \in 1..Len(s) : e = s[i]
      /\ \A e : e \in ToSet(t) <=> \E i \in 1..Len(t) : e = t[i]
      /\ \A e : e \in ToSet(s \o t) <=> \E i \in 1..Len(s \o t) : e = (s \o t)[i]
      /\ IsList(s \o t)
    BY <1>1, <1>2, ListsOfAny
<1>4. ASSUME NEW e \in ToSet(s \o t) PROVE e \in ToSet(s) \/ e \in ToSet(t)
    <2>1. PICK i \in 1..Len(s) + Len(t) : e = (s \o t)[i]
        BY <1>2, <1>3
    <2>2. i <= Len(s) => i \in 1..Len(s) /\ e = s[i]
        BY <1>2, <2>1
    <2>3. ~(i <= Len(s)) => i - Len(s) \in 1..Len(t) /\ e = t[i - Len(s)]
        BY <1>2, <2>1
    <2> QED
        BY <1>3, <2>2, <2>3
<1>5. ASSUME NEW e \in ToSet(s) PROVE e \in ToSet(s \o t)
    <2>1. PICK i \in 1..Len(s) : e = s[i]
        BY <1>3
    <2>2. i \in 1..Len(s \o t) /\ e = (s \o t)[i]
        BY <1>2, <2>1
    <2> QED
        BY <1>3, <2>2
<1>6. ASSUME NEW e \in ToSet(t) PROVE e \in ToSet(s \o t)
    <2>1. PICK i \in 1..Len(t) : e = t[i]
        BY <1>3
    <2>2. Len(s) + i \in 1..Len(s \o t) /\ ~(Len(s) + i <= Len(s)) /\ (Len(s) + i) - Len(s) = i
        BY <1>2, <2>1
    <2>3. e = (s \o t)[Len(s) + i]
        BY <1>2, <2>1, <2>2
    <2> QED
        BY <1>3, <2>2, <2>3
<1> QED
    BY <1>3, <1>4, <1>5, <1>6

(* The blocks, in order, which have generated. *)
MadeBefore(b) == {e \in 1..b - 1 : blocks[e].made}
LEMMA CountsAreNat == ASSUME NEW b \in Int PROVE IsFiniteSet(MadeBefore(b)) /\ Before(b) \in Nat
<1>1. IsFiniteSet(1..b - 1)
    BY FS_Interval
<1>2. IsFiniteSet(MadeBefore(b))
    BY <1>1, FS_Subset DEF MadeBefore
<1> QED
    BY <1>2, FS_CardinalityType DEF Before, MadeBefore

(* Every block that generates is counted by those after it. *)
LEMMA CountsGrow ==
    ASSUME NEW b \in Nat \ {0}, NEW c \in Nat, b < c, blocks[b].made
    PROVE  Before(b) < Before(c)
<1>1. MadeBefore(b) \subseteq MadeBefore(c) /\ b \in MadeBefore(c) /\ b \notin MadeBefore(b)
    BY DEF MadeBefore
<1>2. IsFiniteSet(MadeBefore(c)) /\ IsFiniteSet(MadeBefore(b))
    BY CountsAreNat
<1>3. Cardinality(MadeBefore(b)) < Cardinality(MadeBefore(c))
    BY <1>1, <1>2, FS_Subset, FS_CardinalityType
<1> QED
    BY <1>3 DEF Before, MadeBefore

LEMMA ListsByNumber ==
    ASSUME NEW n \in Nat, NEW f, f = [i \in 1..n |-> f[i]]
    PROVE  IsList(f) /\ \A e : e \in ToSet(f) <=> \E i \in 1..n : e = f[i]
<1>1. f \in Seq({f[i] : i \in 1..n}) /\ Len(f) = n
    BY Listed
<1> QED
    BY <1>1, ListsOfAny

(* Where listing the outputs gives up. *)
GaveUp(e) == e.why \in {"panic", "exact", "archive"}
Blank == [what |-> "blank", of |-> <<>>]
LEMMA PlaceholdersAreBlank ==
    ASSUME NEW kind, NEW used \in Nat
    PROVE  /\ IsList(Placeholders(kind, used))
           /\ \A e \in ToSet(Placeholders(kind, used)) :
                \/ GaveUp(e)
                \/ Counted /\ \E n \in Nat : n >= used /\ e = Item(Name(kind, "", n), Blank)
<1>1. CASE ~Counted
    <2>1. Placeholders(kind, used) = <<>>
        BY <1>1 DEF Placeholders
    <2>2. <<>> \in Seq({}) /\ 1..Len(<<>>) = {}
        BY NoneYet
    <2>3. IsList(<<>>) /\ \A e : e \notin ToSet(<<>>)
        BY <2>2, ListsOfAny
    <2> QED
        BY <2>1, <2>3
<1>2. CASE Counted /\ used > Exact
    <2>1. Placeholders(kind, used) = <<GivesUp("exact")>>
        BY <1>2 DEF Placeholders
    <2>2. GaveUp(GivesUp("exact"))
        BY DEF GivesUp, GaveUp
    <2> DEFINE up == GivesUp("exact")
    <2> HIDE DEF up
    <2>3. <<up>> \in Seq({up}) /\ Len(<<up>>) = 1 /\ <<up>>[1] = up
        BY Alone
    <2> DEFINE s == <<up>>
    <2>4. s \in Seq({up}) /\ Len(s) = 1 /\ s[1] = up
        BY <2>3
    <2> HIDE DEF s
    <2>5. IsList(s) /\ \A e : e \in ToSet(s) <=> \E i \in 1..1 : e = s[i]
        BY <2>4, ListsOfAny
    <2>6. \A e \in ToSet(s) : e = up
        BY <2>4, <2>5
    <2> QED
        BY <2>1, <2>2, <2>5, <2>6 DEF up, s
<1>3. CASE Counted /\ ~(used > Exact)
    <2> DEFINE f == Placeholders(kind, used)
               m == Exact - used
    <2>1. f = [n \in 1..m |-> Item(Name(kind, "", used + n - 1), [what |-> "blank", of |-> <<>>])]
        BY <1>3 DEF Placeholders
    <2>2. m \in Nat
        BY <1>3, BoundsAssumption
    <2>3. \A n \in 1..m : f[n] = Item(Name(kind, "", used + n - 1), Blank)
        BY <2>1 DEF Blank
    <2>4. f = [n \in 1..m |-> f[n]]
        BY <2>1
    <2> HIDE DEF f, m
    <2>5. IsList(f) /\ \A e : e \in ToSet(f) <=> \E n \in 1..m : e = f[n]
        BY <2>2, <2>4, ListsByNumber
    <2>6. ASSUME NEW e \in ToSet(f)
          PROVE  \E n \in Nat : n >= used /\ e = Item(Name(kind, "", n), Blank)
        <3>1. PICK n \in 1..m : e = f[n]
            BY <2>5
        <3> DEFINE k == used + n - 1
        <3>2. k \in Nat /\ k >= used
            BY <2>2
        <3>3. e = Item(Name(kind, "", k), Blank)
            BY <2>3, <3>1
        <3> HIDE DEF k
        <3> QED
            BY <3>2, <3>3
    <2> QED
        BY <1>3, <2>5, <2>6 DEF f
<1> QED
    BY <1>1, <1>2, <1>3

LEMMA CppOutputsAreListed ==
    ASSUME blocks \in Seq(EngineType)
    PROVE  /\ IsList(AllCppOutputs)
           /\ \A e \in ToSet(AllCppOutputs) :
                \E b \in 1..Len(blocks) : \E k \in 1..4 : e = CppOutputs(b)[k]
<1> DEFINE f == AllCppOutputs
           m == 4 * Len(blocks)
<1>1. Len(blocks) \in Nat /\ m \in Nat
    BY LenProperties
<1>2. f = [n \in 1..m |-> CppOutputs(((n - 1) \div 4) + 1)[((n - 1) % 4) + 1]]
    BY DEF AllCppOutputs
<1>3. f = [n \in 1..m |-> f[n]]
    BY <1>2
<1>4. \A n \in 1..m : f[n] = CppOutputs(((n - 1) \div 4) + 1)[((n - 1) % 4) + 1]
    BY <1>2
<1>5. ASSUME NEW n \in 1..m
      PROVE  ((n - 1) \div 4) + 1 \in 1..Len(blocks) /\ ((n - 1) % 4) + 1 \in 1..4
    BY <1>1
<1> HIDE DEF f, m
<1>6. IsList(f) /\ \A e : e \in ToSet(f) <=> \E n \in 1..m : e = f[n]
    BY <1>1, <1>3, ListsByNumber
<1> QED
    BY <1>4, <1>5, <1>6 DEF f

LEMMA RsOutputsAreListed ==
    ASSUME blocks \in Seq(EngineType)
    PROVE  /\ IsList(RsOutputs)
           /\ \A e : e \in ToSet(RsOutputs)
                        <=> \E b \in 1..Len(blocks) : e = Item(RsName(b), RsContent(b))
<1> DEFINE f == RsOutputs
<1>1. Len(blocks) \in Nat
    BY LenProperties
<1>2. f = [b \in 1..Len(blocks) |-> Item(RsName(b), RsContent(b))]
    BY DEF RsOutputs
<1>3. f = [b \in 1..Len(blocks) |-> f[b]]
    BY <1>2
<1>4. \A b \in 1..Len(blocks) : f[b] = Item(RsName(b), RsContent(b))
    BY <1>2
<1> HIDE DEF f
<1>5. IsList(f) /\ \A e : e \in ToSet(f) <=> \E b \in 1..Len(blocks) : e = f[b]
    BY <1>1, <1>3, ListsByNumber
<1> QED
    BY <1>4, <1>5 DEF f

(* The spare files of the four kinds of which a fixed number is promised. *)
Spare(e) ==
    /\ Counted
    /\ \/ \E n \in Nat : n >= 2 * Made /\ e = Item(Name("cc", "", n), Blank)
       \/ \E n \in Nat : n >= Made /\ e = Item(Name("cxxgen", "", n), Blank)
       \/ \E n \in Nat : n >= Made /\ e = Item(Name("autocxxgen", "", n), Blank)
       \/ \E n \in Nat : n >= Len(blocks) /\ e = Item(Name("rs", "", n), Blank)

LEMMA AskedLists ==
    ASSUME NEW kind, NEW s, IsList(s)
    PROVE  /\ IsList(Asked(kind, s))
           /\ \A e : e \in ToSet(Asked(kind, s)) <=> kind \in asked /\ e \in ToSet(s)
<1>1. IsList(<<>>) /\ \A e : e \notin ToSet(<<>>)
    <2>1. <<>> \in Seq({}) /\ 1..Len(<<>>) = {}
        BY NoneYet
    <2> QED
        BY <2>1, ListsOfAny
<1> QED
    BY <1>1 DEF Asked

(* An output for the cxx pair and the autocxxgen pair of a block. *)
OfBlock(e, b) ==
    \/ e = Item(Name("cc", "", 2 * Before(b)), Content("cxxgen.cc", b))
    \/ e = Item(Name("cxxgen", "", Before(b)), Content("cxxgen.h", b))
    \/ e = Item(Name("cc", "", 2 * Before(b) + 1), Content("autocxxgen.cc", b))
    \/ e = Item(HeaderName(b), Content("autocxxgen.h", b))

LEMMA FourOutputs == \A k \in 1..4 : k = 1 \/ k = 2 \/ k = 3 \/ k = 4
OBVIOUS
LEMMA NoneFromParseOnly == GaveUp(GivesUp("panic"))
BY DEF GivesUp, GaveUp

LEMMA CppOutputsOfABlock ==
    ASSUME NEW b, NEW k \in 1..4, NEW e, e = CppOutputs(b)[k]
    PROVE  GaveUp(e) \/ (~blocks[b].only /\ OfBlock(e, b))
<1>1. CASE blocks[b].only
    <2>1. e = GivesUp("panic")
        BY <1>1 DEF CppOutputs
    <2> QED
        BY <2>1, NoneFromParseOnly
<1>2. CASE ~blocks[b].only
    <2>1. k = 1 \/ k = 2 \/ k = 3 \/ k = 4
        BY FourOutputs
    <2> DEFINE c1 == Item(Name("cc", "", 2 * Before(b)), Content("cxxgen.cc", b))
               h1 == Item(Name("cxxgen", "", Before(b)), Content("cxxgen.h", b))
               c2 == Item(Name("cc", "", 2 * Before(b) + 1), Content("autocxxgen.cc", b))
               h2 == Item(HeaderName(b), Content("autocxxgen.h", b))
    <2>2. CppOutputs(b) = <<c1, h1, c2, h2>>
        BY <1>2 DEF CppOutputs
    <2> HIDE DEF c1, h1, c2, h2
    <2>3. e = c1 \/ e = h1 \/ e = c2 \/ e = h2
        BY <2>1, <2>2
    <2> QED
        BY <1>2, <2>3 DEF OfBlock, c1, h1, c2, h2
<1> QED
    BY <1>1, <1>2

(* What is listed: the outputs of blocks, spare files and the archive; and     *)
(* where Rust is asked for, that of every block.                               *)
LEMMA WhatIsListed ==
    ASSUME blocks \in Seq(EngineType)
    PROVE  /\ IsList(Outputs)
           /\ \A e \in ToSet(Outputs) :
                \/ GaveUp(e)
                \/ \E b \in 1..Len(blocks) : ~blocks[b].only /\ OfBlock(e, b)
                \/ \E b \in 1..Len(blocks) : e = Item(RsName(b), RsContent(b))
                \/ Spare(e)
                \/ e = Archive
           /\ "include" \in asked =>
                \A b \in 1..Len(blocks) : Item(RsName(b), RsContent(b)) \in ToSet(Outputs)
           /\ "archive" \in asked => Archive \in ToSet(Outputs)
<1> DEFINE cc == Placeholders("cc", 2 * Made)
           cx == Placeholders("cxxgen", Made)
           hh == Placeholders("autocxxgen", Made)
           rs == Placeholders("rs", Len(blocks))
           one == <<Archive>>
           cpp == ((AllCppOutputs \o cc) \o cx) \o hh
           rust == RsOutputs \o rs
<1>1. Made \in Nat /\ 2 * Made \in Nat /\ Len(blocks) \in Nat
    BY CountsAreNat, LenProperties DEF Made
<1>2. /\ IsList(cc) /\ IsList(cx) /\ IsList(hh) /\ IsList(rs)
      /\ \A e \in ToSet(cc) : GaveUp(e) \/ Spare(e)
      /\ \A e \in ToSet(cx) : GaveUp(e) \/ Spare(e)
      /\ \A e \in ToSet(hh) : GaveUp(e) \/ Spare(e)
      /\ \A e \in ToSet(rs) : GaveUp(e) \/ Spare(e)
    BY <1>1, PlaceholdersAreBlank DEF Spare
<1>3. IsList(one) /\ \A e : e \in ToSet(one) <=> e = Archive
    <2>1. one \in Seq({Archive}) /\ Len(one) = 1 /\ one[1] = Archive
        BY Alone
    <2> HIDE DEF one
    <2>2. IsList(one) /\ \A e : e \in ToSet(one) <=> \E i \in 1..1 : e = one[i]
        BY <2>1, ListsOfAny
    <2> QED
        BY <2>1, <2>2
<1>4. Outputs = (Asked("cpp", cpp) \o Asked("include", rust)) \o Asked("archive", one)
    BY DEF Outputs
<1> HIDE DEF cc, cx, hh, rs, one
<1>5. /\ IsList(cpp)
      /\ \A e : e \in ToSet(cpp) <=> \/ e \in ToSet(AllCppOutputs) \/ e \in ToSet(cc)
                                     \/ e \in ToSet(cx) \/ e \in ToSet(hh)
    <2>1. IsList(AllCppOutputs)
        BY CppOutputsAreListed
    <2> DEFINE s == AllCppOutputs \o cc
               t == s \o cx
    <2>2. IsList(s) /\ \A e : e \in ToSet(s) <=> e \in ToSet(AllCppOutputs) \/ e \in ToSet(cc)
        BY <1>2, <2>1, JoinedLists
    <2> HIDE DEF s
    <2>3. IsList(t) /\ \A e : e \in ToSet(t) <=> e \in ToSet(s) \/ e \in ToSet(cx)
        BY <1>2, <2>2, JoinedLists
    <2> HIDE DEF t
    <2>4. IsList(t \o hh) /\ \A e : e \in ToSet(t \o hh) <=> e \in ToSet(t) \/ e \in ToSet(hh)
        BY <1>2, <2>3, JoinedLists
    <2> QED
        BY <2>2, <2>3, <2>4 DEF t, s
<1>6. IsList(rust) /\ \A e : e \in ToSet(rust) <=> e \in ToSet(RsOutputs) \/ e \in ToSet(rs)
    BY <1>2, RsOutputsAreListed, JoinedLists
<1> HIDE DEF cpp, rust
<1>7. /\ IsList(Outputs)
      /\ \A e : e \in ToSet(Outputs) <=> \/ "cpp" \in asked /\ e \in ToSet(cpp)
                                         \/ "include" \in asked /\ e \in ToSet(rust)
                                         \/ "archive" \in asked /\ e \in ToSet(one)
    <2> DEFINE a == Asked("cpp", cpp)
               b == Asked("include", rust)
               c == Asked("archive", one)
    <2>1. /\ IsList(a) /\ \A e : e \in ToSet(a) <=> "cpp" \in asked /\ e \in ToSet(cpp)
          /\ IsList(b) /\ \A e : e \in ToSet(b) <=> "include" \in asked /\ e \in ToSet(rust)
          /\ IsList(c) /\ \A e : e \in ToSet(c) <=> "archive" \in asked /\ e \in ToSet(one)
        BY <1>3, <1>5, <1>6, AskedLists
    <2>2. Outputs = (a \o b) \o c
        BY <1>4
    <2> HIDE DEF a, b, c
    <2>3. IsList(a \o b) /\ \A e : e \in ToSet(a \o b) <=> e \in ToSet(a) \/ e \in ToSet(b)
        BY <2>1, JoinedLists
    <2> DEFINE d == a \o b
    <2>4. IsList(d) /\ \A e : e \in ToSet(d) <=> e \in ToSet(a) \/ e \in ToSet(b)
        BY <2>3
    <2> HIDE DEF d
    <2>5. IsList(d \o c) /\ \A e : e \in ToSet(d \o c) <=> e \in ToSet(d) \/ e \in ToSet(c)
        BY <2>1, <2>4, JoinedLists
    <2>6. Outputs = d \o c
        BY <2>2 DEF d
    <2> QED
        BY <2>1, <2>4, <2>5, <2>6
<1>8. ASSUME NEW e \in ToSet(AllCppOutputs)
      PROVE  GaveUp(e) \/ \E b \in 1..Len(blocks) : ~blocks[b].only /\ OfBlock(e, b)
    <2>1. PICK b \in 1..Len(blocks) : \E k \in 1..4 : e = CppOutputs(b)[k]
        BY CppOutputsAreListed
    <2>2. PICK k \in 1..4 : e = CppOutputs(b)[k]
        BY <2>1
    <2> QED
        BY <2>2, CppOutputsOfABlock
<1>9. \A e \in ToSet(RsOutputs) : \E b \in 1..Len(blocks) : e = Item(RsName(b), RsContent(b))
    BY RsOutputsAreListed
<1>10. \A b \in 1..Len(blocks) : Item(RsName(b), RsContent(b)) \in ToSet(RsOutputs)
    BY RsOutputsAreListed
<1> QED
    BY <1>2, <1>3, <1>5, <1>6, <1>7, <1>8, <1>9, <1>10

LEMMA WhyListingEnds ==
    ASSUME blocks \in Seq(EngineType), NEW e \in ToSet(Outputs)
    PROVE  e.why = "" \/ GaveUp(e)
<1>1. \A name, content : Item(name, content).why = ""
    BY DEF Item
<1>2. CASE \E b \in 1..Len(blocks) : ~blocks[b].only /\ OfBlock(e, b)
    BY <1>1, <1>2 DEF OfBlock
<1>3. CASE \E b \in 1..Len(blocks) : e = Item(RsName(b), RsContent(b))
    BY <1>1, <1>3
<1>4. CASE Spare(e)
    BY <1>1, <1>4 DEF Spare
<1>5. CASE e = Archive
    <2>1. GaveUp(GivesUp("archive"))
        BY DEF GivesUp, GaveUp
    <2> QED
        BY <1>1, <1>5, <2>1 DEF Archive
<1> QED
    BY <1>2, <1>3, <1>4, <1>5, WhatIsListed

-------------------------------------------------------------------------------
(* The claims. *)

Wanted(e) == e.why = ""
Claimable == {e \in ToSet(Outputs) : Wanted(e)}
Settled(e) ==
    Wanted(e) /\ \E p \in 1..Len(pending) :
        pending[p].name = e.name /\ pending[p].content = e.content
Distinct == \A p, q \in 1..Len(pending) : pending[p].name = pending[q].name => p = q

(* Nothing is claimed until the outputs are listed; then no name twice, each   *)
(* for an output on the list; and what is on the list is settled or to come.   *)
EarlyInv == phase \in {"parse", "generate", "list"} => pending = <<>>
ToComeInv ==
    phase = "outputs" =>
        /\ todo \in Seq(ToSet(Outputs)) /\ todo # <<>>
        /\ \A e \in ToSet(Outputs) : Settled(e) \/ \E i \in 1..Len(todo) : todo[i] = e
ClaimedInv ==
    phase \in {"outputs", "write", "depfile"} \/ Succeeded =>
        pending \in Seq(Claimable) /\ Distinct
SettledInv ==
    phase \in {"write", "depfile"} \/ Succeeded => \A e \in ToSet(Outputs) : Settled(e)
ReachInv == phase = "write" => at <= Len(pending)
ListInv == EarlyInv /\ ToComeInv /\ ClaimedInv /\ SettledInv /\ ReachInv

LEMMA OutputsStay == UNCHANGED <<asked, blocks>> => Outputs' = Outputs
BY DEF Outputs, Asked, AllCppOutputs, CppOutputs, Placeholders, RsOutputs, Archive, Clash, RsContent,
       RsName, HeaderName, Content, Counted, Made, Before, ModName

LEMMA Appended ==
    ASSUME NEW S, NEW s \in Seq(S), NEW e \in S, NEW t, t = Append(s, e)
    PROVE  /\ t \in Seq(S) /\ Len(t) = Len(s) + 1 /\ Len(s) \in Nat /\ t # <<>>
           /\ \A p \in 1..Len(s) : t[p] = s[p]
           /\ t[Len(s) + 1] = e
OBVIOUS

(* A claim: the output is settled, whatever was settled is, and no name twice. *)
LEMMA ClaimsSettle ==
    ASSUME NEW S, pending \in Seq(S), Distinct, NEW item \in S, Wanted(item),
           ~Refused(item), Claim(item)
    PROVE  /\ pending' \in Seq(S) /\ Distinct' /\ Settled(item)'
           /\ \A e : Settled(e) => Settled(e)'
           /\ pending' # <<>>
<1>1. Len(pending) \in Nat
    BY LenProperties
<1>2. \A c : c \in ToSet(pending) <=> \E p \in 1..Len(pending) : c = pending[p]
    BY ListsOfAny
<1>3. CASE Claimed(item) = {}
    <2>1. pending' = Append(pending, item)
        BY <1>3 DEF Claim
    <2>2. /\ pending' \in Seq(S) /\ Len(pending') = Len(pending) + 1 /\ pending' # <<>>
          /\ \A p \in 1..Len(pending) : pending'[p] = pending[p]
          /\ pending'[Len(pending) + 1] = item
        BY <2>1, Appended
    <2>3. \A p \in 1..Len(pending) : pending[p].name # item.name
        BY <1>2, <1>3 DEF Claimed
    <2>4. \A p \in 1..Len(pending) + 1 : p \in 1..Len(pending) \/ p = Len(pending) + 1
        BY <1>1
    <2>5. Distinct'
        BY <2>2, <2>3, <2>4 DEF Distinct
    <2>6. /\ Len(pending) + 1 \in 1..Len(pending) + 1
          /\ 1..Len(pending) \subseteq 1..Len(pending) + 1
        BY <1>1
    <2>7. Settled(item)'
        BY <2>2, <2>6 DEF Settled
    <2>8. ASSUME NEW e, Settled(e) PROVE Settled(e)'
        BY <2>2, <2>6, <2>8 DEF Settled
    <2> QED
        BY <2>2, <2>5, <2>7, <2>8
<1>4. CASE Claimed(item) # {}
    <2>1. pending' = pending
        BY <1>4 DEF Claim
    <2>2. PICK c \in Claimed(item) : TRUE
        BY <1>4
    <2>3. c.name = item.name /\ c.content = item.content
        BY <2>2 DEF Claimed, Refused
    <2>4. PICK p \in 1..Len(pending) : c = pending[p]
        BY <1>2, <2>2 DEF Claimed
    <2>5. Settled(item)'
        BY <2>1, <2>3, <2>4 DEF Settled
    <2>6. ASSUME NEW e, Settled(e) PROVE Settled(e)'
        BY <2>1, <2>6 DEF Settled
    <2>7. pending' # <<>>
        BY <2>1, <2>4, NoneYet
    <2> QED
        BY <2>1, <2>5, <2>6, <2>7 DEF Distinct
<1> QED
    BY <1>3, <1>4

LEMMA TailOf ==
    ASSUME NEW S, NEW s \in Seq(S), s # <<>>
    PROVE  /\ Head(s) = s[1] /\ Head(s) \in S /\ Tail(s) \in Seq(S)
           /\ Len(s) \in Nat /\ Len(s) >= 1 /\ Len(Tail(s)) = Len(s) - 1
           /\ \A i \in 1..Len(s) : i # 1 => i - 1 \in 1..Len(Tail(s)) /\ Tail(s)[i - 1] = s[i]
           /\ Len(s) # 1 => Tail(s) # <<>>
<1>1. Len(s) \in Nat /\ Len(s) >= 1 /\ Head(s) = s[1]
    BY EmptySeq
<1>2. Head(s) \in S /\ Tail(s) \in Seq(S) /\ Len(Tail(s)) = Len(s) - 1
    BY <1>1, HeadTailProperties
<1>3. \A i \in 1..Len(s) - 1 : Tail(s)[i] = s[i + 1]
    BY <1>1, HeadTailProperties
<1>4. ASSUME NEW i \in 1..Len(s), i # 1 PROVE i - 1 \in 1..Len(Tail(s)) /\ Tail(s)[i - 1] = s[i]
    <2>1. i - 1 \in 1..Len(s) - 1 /\ (i - 1) + 1 = i
        BY <1>1, <1>4
    <2> QED
        BY <1>2, <1>3, <2>1
<1>5. ASSUME Len(s) # 1, Tail(s) = <<>> PROVE FALSE
    <2>1. Len(Tail(s)) = 0
        BY <1>5, NoneYet
    <2> QED
        BY <1>1, <1>2, <1>5, <2>1
<1> QED
    BY <1>1, <1>2, <1>4, <1>5

LEMMA ListOutputsKeepsList == BlocksInv /\ ListInv /\ ListOutputs => ListInv'
<1> SUFFICES ASSUME BlocksInv, ListInv, ListOutputs PROVE ListInv'
    OBVIOUS
<1>1. phase = "list" /\ UNCHANGED <<asked, blocks, pending, result>> /\ pending = <<>>
    BY DEF ListOutputs, ListInv, EarlyInv
<1>2. Outputs' = Outputs
    BY <1>1, OutputsStay
<1>3. todo' = Outputs /\ Outputs \in Seq(ToSet(Outputs))
    BY WhatIsListed DEF ListOutputs, BlocksInv, FiledInv, IsList
<1>4. \A e : e \in ToSet(Outputs) <=> \E i \in 1..Len(Outputs) : e = Outputs[i]
    BY <1>3, ListsOfAny
<1>5. pending' \in Seq(Claimable)' /\ Distinct'
    BY <1>1, NoneYet DEF Distinct
<1>6. CASE Outputs = <<>> /\ phase' = "depfile"
    <2>1. \A e \in ToSet(Outputs) : Settled(e)'
        BY <1>4, <1>6, NoneYet
    <2> QED
        BY <1>2, <1>5, <1>6, <2>1 DEF ListInv, EarlyInv, ToComeInv, ClaimedInv, SettledInv, ReachInv, Succeeded
<1>7. CASE Outputs # <<>> /\ phase' = "outputs"
    <2>1. todo' \in Seq(ToSet(Outputs)) /\ todo' # <<>>
        BY <1>3, <1>7
    <2>2. \A e \in ToSet(Outputs) : \E i \in 1..Len(todo') : todo'[i] = e
        BY <1>3, <1>4
    <2> QED
        BY <1>2, <1>5, <1>7, <2>1, <2>2
        DEF ListInv, EarlyInv, ToComeInv, ClaimedInv, SettledInv, ReachInv, Succeeded
<1> QED
    BY <1>6, <1>7 DEF ListOutputs

LEMMA AddOutputKeepsList == BlocksInv /\ ListInv /\ AddOutput => ListInv'
<1> SUFFICES ASSUME BlocksInv, ListInv, AddOutput PROVE ListInv'
    OBVIOUS
<1> PICK item : item = Head(todo)
    OBVIOUS
<1>1. phase = "outputs" /\ UNCHANGED <<asked, blocks>>
    BY DEF AddOutput
<1>2. Outputs' = Outputs
    BY <1>1, OutputsStay
<1>3. /\ todo \in Seq(ToSet(Outputs)) /\ todo # <<>>
      /\ \A e \in ToSet(Outputs) : Settled(e) \/ \E i \in 1..Len(todo) : todo[i] = e
    BY <1>1 DEF ListInv, ToComeInv
<1>4. pending \in Seq(Claimable) /\ Distinct
    BY <1>1 DEF ListInv, ClaimedInv
<1>5. /\ item = todo[1] /\ item \in ToSet(Outputs) /\ Tail(todo) \in Seq(ToSet(Outputs))
      /\ Len(todo) \in Nat /\ Len(todo) >= 1 /\ Len(Tail(todo)) = Len(todo) - 1
      /\ \A i \in 1..Len(todo) : i # 1 =>
            i - 1 \in 1..Len(Tail(todo)) /\ Tail(todo)[i - 1] = todo[i]
      /\ Len(todo) # 1 => Tail(todo) # <<>>
    BY <1>3, TailOf
<1>6. Wanted(item) \/ GaveUp(item)
    BY <1>5, WhyListingEnds DEF BlocksInv, FiledInv, Wanted
<1>7. CASE ~Wanted(item)
    <2>1. phase' = "done" /\ result' = item.why
        BY <1>7 DEF AddOutput, Stop, Wanted
    <2>2. result' # "ok"
        BY <1>6, <1>7, <2>1 DEF GaveUp
    <2> QED
        BY <2>1, <2>2 DEF ListInv, EarlyInv, ToComeInv, ClaimedInv, SettledInv, ReachInv, Succeeded
<1>8. CASE Wanted(item) /\ Refused(item)
    <2>1. phase' = "done" /\ result' = "conflict"
        BY <1>8 DEF AddOutput, Stop, Wanted
    <2> QED
        BY <2>1 DEF ListInv, EarlyInv, ToComeInv, ClaimedInv, SettledInv, ReachInv, Succeeded
<1>9. CASE Wanted(item) /\ ~Refused(item)
    <2>1. Claim(item)
        BY <1>9 DEF AddOutput, Wanted
    <2>2. item \in Claimable
        BY <1>5, <1>9 DEF Claimable
    <2>3. /\ pending' \in Seq(Claimable) /\ Distinct' /\ Settled(item)'
          /\ \A e : Settled(e) => Settled(e)'
          /\ pending' # <<>>
        <3> PICK S : S = Claimable
            OBVIOUS
        <3>1. pending \in Seq(S) /\ Distinct /\ item \in S /\ Wanted(item)
              /\ ~Refused(item) /\ Claim(item)
            BY <1>4, <1>9, <2>1, <2>2
        <3>2. /\ pending' \in Seq(S) /\ Distinct' /\ Settled(item)'
              /\ \A e : Settled(e) => Settled(e)'
              /\ pending' # <<>>
            BY <3>1, ClaimsSettle
        <3> QED
            BY <3>2
    <2>4. Claimable' = Claimable
        BY <1>2 DEF Claimable
    <2>5. todo' = Tail(todo) /\ phase' = IF Len(todo) = 1 THEN "write" ELSE "outputs"
        BY <1>1, <2>1 DEF Claim
    <2>6. ASSUME NEW e \in ToSet(Outputs)
          PROVE  Settled(e)' \/ (Len(todo) # 1 /\ \E i \in 1..Len(todo') : todo'[i] = e)
        <3>1. CASE Settled(e)
            BY <2>3, <3>1
        <3>2. CASE \E i \in 1..Len(todo) : todo[i] = e
            <4>1. PICK i \in 1..Len(todo) : todo[i] = e
                BY <3>2
            <4>2. CASE i = 1
                BY <1>5, <2>3, <4>1, <4>2
            <4>3. CASE i # 1
                <5>1. i - 1 \in 1..Len(todo') /\ todo'[i - 1] = e
                    BY <1>5, <2>5, <4>1, <4>3
                <5>2. Len(todo) # 1
                    BY <1>5, <4>3
                <5> QED
                    BY <5>1, <5>2
            <4> QED
                BY <4>2, <4>3
        <3> QED
            BY <1>3, <3>1, <3>2
    <2>7. CASE Len(todo) = 1
        <3>1. phase' = "write" /\ \A e \in ToSet(Outputs) : Settled(e)'
            BY <2>5, <2>6, <2>7
        <3>2. at' <= Len(pending')
            <4>1. at' = 1
                BY <1>1 DEF AddOutput, BlocksInv, PlaceInv
            <4>2. Len(pending') \in Nat \ {0}
                BY <2>3, EmptySeq
            <4> QED
                BY <4>1, <4>2
        <3> QED
            BY <1>2, <2>3, <2>4, <3>1, <3>2 DEF ListInv, EarlyInv, ToComeInv, ClaimedInv, SettledInv, ReachInv
    <2>8. CASE Len(todo) # 1
        <3>1. phase' = "outputs" /\ todo' \in Seq(ToSet(Outputs)) /\ todo' # <<>>
            BY <1>5, <2>5, <2>8
        <3> QED
            BY <1>2, <2>3, <2>4, <2>6, <3>1
            DEF ListInv, EarlyInv, ToComeInv, ClaimedInv, SettledInv, ReachInv, Succeeded
    <2> QED
        BY <2>7, <2>8
<1> QED
    BY <1>7, <1>8, <1>9

LEMMA ListStep == BlocksInv /\ ListInv /\ [Next]_vars => ListInv'
<1> SUFFICES ASSUME BlocksInv, ListInv, [Next]_vars PROVE ListInv'
    OBVIOUS
<1> DEFINE Over == phase' = "done" /\ result' # "ok"
           Begun == phase' \in {"parse", "generate", "list"} /\ pending' = <<>>
<1>1. Over \/ Begun => ListInv'
    BY DEF ListInv, EarlyInv, ToComeInv, ClaimedInv, SettledInv, ReachInv, Succeeded
<1>2. ASSUME UNCHANGED <<asked, blocks, pending>>, phase \in {"write", "depfile"},
             phase' \in {"write", "depfile"} \/ Succeeded',
             phase' = "write" => at' <= Len(pending)
      PROVE  ListInv'
    <2>1. Outputs' = Outputs /\ Claimable' = Claimable
        BY <1>2, OutputsStay DEF Claimable
    <2>2. /\ pending' \in Seq(Claimable') /\ Distinct' /\ \A e \in ToSet(Outputs) : Settled(e)'
        BY <1>2, <2>1 DEF ListInv, ClaimedInv, SettledInv, Distinct, Settled
    <2> QED
        BY <1>2, <2>1, <2>2 DEF ListInv, EarlyInv, ToComeInv, ClaimedInv, SettledInv, ReachInv, Succeeded
<1>3. CASE ParseInput
    <2>1. Over \/ Begun
        BY <1>3 DEF ParseInput, Stop, Loop, ListInv, EarlyInv
    <2> QED
        BY <1>1, <2>1
<1>4. CASE Generate
    <2>1. Over \/ Begun
        BY <1>4 DEF Generate, Stop, Loop, ListInv, EarlyInv
    <2> QED
        BY <1>1, <2>1
<1>5. CASE ListOutputs
    BY <1>5, ListOutputsKeepsList
<1>6. CASE AddOutput
    BY <1>6, AddOutputKeepsList
<1>7. CASE WriteOutput
    <2>1. \/ Over
          \/ /\ phase = "write" /\ UNCHANGED <<asked, blocks, pending>>
             /\ \/ at < Len(pending) /\ at' = at + 1 /\ phase' = "write"
                \/ phase' = "depfile"
        BY <1>7 DEF WriteOutput, Stop, Loop
    <2>2. phase = "write" => Len(pending) \in Nat /\ at \in Nat
        BY LenProperties DEF ListInv, ClaimedInv, BlocksInv, PlaceInv
    <2> QED
        BY <1>1, <1>2, <2>1, <2>2
<1>8. CASE WriteDepfile
    <2>1. /\ phase = "depfile" /\ Succeeded' /\ phase' = "done"
          /\ UNCHANGED <<asked, blocks, pending>>
        BY <1>8 DEF WriteDepfile, Stop, Succeeded
    <2> QED
        BY <1>2, <2>1
<1>9. CASE Fail
    <2>1. Over
        BY <1>9 DEF Fail, Stop
    <2> QED
        BY <1>1, <2>1
<1>10. CASE Rerun
    <2>1. Begun
        BY <1>10 DEF Rerun
    <2> QED
        BY <1>1, <2>1
<1>11. CASE UNCHANGED vars
    <2>1. Outputs' = Outputs
        BY <1>11, OutputsStay DEF vars
    <2> QED
        BY <1>11, <2>1 DEF vars, ListInv, EarlyInv, ToComeInv, ClaimedInv, SettledInv, ReachInv,
            Succeeded, Claimable, Distinct, Settled
<1> QED
    BY <1>3, <1>4, <1>5, <1>6, <1>7, <1>8, <1>9, <1>10, <1>11 DEF Next

LEMMA ListAlways == Spec => []ListInv
<1>1. Init => ListInv
    BY DEF Init, ListInv, EarlyInv, ToComeInv, ClaimedInv, SettledInv, ReachInv, Succeeded
<1> QED
    BY <1>1, BlocksAlways, ListStep, PTL DEF Spec

-------------------------------------------------------------------------------
(* What is written. *)

(* A name is the name of its own file. *)
NamesReachThemselves == \A n : SameFile(n, n)

OnDisk(p) == pending[p].name \in DOMAIN disk /\ disk[pending[p].name] = pending[p].content

(* The outputs written so far in this run stay as they were written; and a     *)
(* .d file is written over them all.                                           *)
WrittenInv ==
    /\ phase = "write" => \A p \in 1..at - 1 : OnDisk(p)
    /\ phase = "depfile" \/ Succeeded => \A p \in 1..Len(pending) : OnDisk(p)
    /\ depfile = "listing" => Succeeded

(* Writing an output disturbs none of a run's own that were written before it. *)
LEMMA WritingDisturbsNone ==
    ASSUME NamesReachThemselves, PlaceInv, WrittenInv, phase = "write", ~Published(pending[at]),
           pending' = pending,
           disk' = IF UpToDate(pending[at]) THEN disk ELSE Replaced(pending[at])
    PROVE  \A p \in 1..at : OnDisk(p)'
<1> SUFFICES ASSUME NEW p \in 1..at PROVE OnDisk(p)'
    OBVIOUS
<1>1. at \in Nat /\ at >= 1
    BY DEF PlaceInv
<1>2. CASE UpToDate(pending[at])
    <2>1. p = at \/ p \in 1..at - 1
        BY <1>1
    <2> QED
        BY <1>2, <2>1 DEF UpToDate, OnDisk, WrittenInv
<1>3. CASE ~UpToDate(pending[at])
    <2> DEFINE name == pending[at].name
    <2>1. disk' = [n \in DOMAIN disk \cup {name} |->
                      IF SameFile(n, name) THEN pending[at].content ELSE disk[n]]
        BY <1>3 DEF Replaced
    <2> HIDE DEF name
    <2>2. CASE p = at
        <3>1. pending'[p].name = name /\ pending'[p].content = pending[at].content
            BY <2>2 DEF name
        <3>2. name \in DOMAIN disk' /\ disk'[name] = pending[at].content
            BY <2>1 DEF NamesReachThemselves
        <3> QED
            BY <3>1, <3>2 DEF OnDisk
    <2>3. CASE p \in 1..at - 1
        <3>1. ~SameFile(pending[p].name, name)
            BY <2>3 DEF Published, name
        <3>2. OnDisk(p)
            BY <2>3 DEF WrittenInv
        <3> QED
            BY <2>1, <3>1, <3>2 DEF OnDisk
    <2> QED
        BY <1>1, <2>2, <2>3
<1> QED
    BY <1>2, <1>3

LEMMA WrittenStep ==
    ASSUME NamesReachThemselves
    PROVE  BlocksInv /\ ListInv /\ WrittenInv /\ [Next]_vars => WrittenInv'
<1> SUFFICES ASSUME BlocksInv, ListInv, WrittenInv, [Next]_vars PROVE WrittenInv'
    OBVIOUS
<1>1. ASSUME phase # "done", depfile' = depfile,
             phase' \in {"parse", "generate", "list", "outputs"}
                 \/ (phase' = "done" /\ result' # "ok")
      PROVE  WrittenInv'
    BY <1>1 DEF WrittenInv, Succeeded
<1>2. CASE ParseInput
    <2>1. phase' \in {"parse", "generate", "list"} \/ (phase' = "done" /\ result' # "ok")
        BY <1>2 DEF ParseInput, Stop, Loop
    <2> QED
        BY <1>1, <1>2, <2>1 DEF ParseInput
<1>3. CASE Generate
    <2>1. phase' \in {"generate", "list"} \/ (phase' = "done" /\ result' # "ok")
        BY <1>3 DEF Generate, Stop, Loop
    <2> QED
        BY <1>1, <1>3, <2>1 DEF Generate
<1>4. CASE ListOutputs
    <2>1. phase = "list" /\ depfile' = depfile /\ pending' = pending /\ pending = <<>>
        BY <1>4 DEF ListOutputs, ListInv, EarlyInv
    <2>2. phase' = "outputs" \/ phase' = "depfile"
        BY <1>4 DEF ListOutputs
    <2>3. \A p \in 1..Len(pending') : OnDisk(p)'
        BY <2>1, NoneYet
    <2> QED
        BY <2>1, <2>2, <2>3 DEF WrittenInv, Succeeded
<1>5. CASE AddOutput
    <2>1. phase = "outputs" /\ depfile' = depfile /\ at' = at /\ at = 1
        BY <1>5 DEF AddOutput, BlocksInv, PlaceInv
    <2>2. PICK item : item = Head(todo)
        OBVIOUS
    <2>3. CASE ~Wanted(item)
        <3>1. phase' = "done" /\ result' = item.why
            BY <1>5, <2>2, <2>3 DEF AddOutput, Stop, Wanted
        <3>2. todo \in Seq(ToSet(Outputs)) /\ todo # <<>>
            BY <2>1 DEF ListInv, ToComeInv
        <3>3. item \in ToSet(Outputs)
            BY <2>2, <3>2, TailOf
        <3>4. GaveUp(item)
            BY <2>3, <3>3, WhyListingEnds DEF BlocksInv, FiledInv, Wanted
        <3> QED
            BY <1>1, <2>1, <3>1, <3>4 DEF GaveUp
    <2>4. CASE Wanted(item)
        <3>1. phase' \in {"outputs", "write"} \/ (phase' = "done" /\ result' = "conflict")
            BY <1>5, <2>1, <2>2, <2>4 DEF AddOutput, Stop, Claim, Wanted
        <3>2. phase' = "write" => \A p \in 1..at' - 1 : OnDisk(p)'
            BY <2>1
        <3> QED
            BY <2>1, <3>1, <3>2 DEF WrittenInv, Succeeded
    <2> QED
        BY <2>3, <2>4
<1>6. CASE WriteOutput
    <2>1. phase = "write" /\ depfile' = depfile /\ pending' = pending /\ depfile # "listing"
        BY <1>6 DEF WriteOutput, WrittenInv, Succeeded
    <2>2. CASE Published(pending[at])
        BY <1>1, <1>6, <2>1, <2>2 DEF WriteOutput, Stop
    <2>3. CASE ~Published(pending[at])
        <3>1. \A p \in 1..at : OnDisk(p)'
            BY <1>6, <2>1, <2>3, WritingDisturbsNone DEF WriteOutput, BlocksInv
        <3>2. pending \in Seq(Claimable)
            BY <2>1 DEF ListInv, ClaimedInv
        <3>3. Len(pending) \in Nat /\ at \in Nat /\ at >= 1
            BY <3>2, LenProperties DEF BlocksInv, PlaceInv
        <3>4. \/ at < Len(pending) /\ at' = at + 1 /\ phase' = "write"
              \/ ~(at < Len(pending)) /\ phase' = "depfile"
            BY <1>6, <2>1, <2>3 DEF WriteOutput, Loop
        <3>5. CASE at' = at + 1 /\ phase' = "write"
            <4>1. at' - 1 = at
                BY <3>3, <3>5
            <4> QED
                BY <2>1, <3>1, <3>5, <4>1 DEF WrittenInv, Succeeded
        <3>6. CASE ~(at < Len(pending)) /\ phase' = "depfile"
            <4>1. \A p \in 1..Len(pending) : p \in 1..at
                BY <3>3, <3>6
            <4> QED
                BY <2>1, <3>1, <3>6, <4>1 DEF WrittenInv, Succeeded
        <3> QED
            BY <3>4, <3>5, <3>6
    <2> QED
        BY <2>2, <2>3
<1>7. CASE WriteDepfile
    <2>1. phase = "depfile" /\ Succeeded' /\ UNCHANGED <<pending, disk>>
        BY <1>7 DEF WriteDepfile, Stop, Succeeded
    <2> QED
        BY <2>1 DEF WrittenInv, Succeeded, OnDisk
<1>8. CASE Fail
    <2>1. phase # "done" /\ depfile' = depfile /\ phase' = "done" /\ result' # "ok"
        BY <1>8 DEF Fail, Stop
    <2> QED
        BY <1>1, <2>1
<1>9. CASE Rerun
    BY <1>9 DEF Rerun, NewDepfile, WrittenInv, Succeeded
<1>10. CASE UNCHANGED vars
    BY <1>10 DEF vars, WrittenInv, Succeeded, OnDisk
<1> QED
    BY <1>2, <1>3, <1>4, <1>5, <1>6, <1>7, <1>8, <1>9, <1>10 DEF Next

LEMMA WrittenAlways == ASSUME NamesReachThemselves PROVE Spec => []WrittenInv
<1>1. Init => WrittenInv
    BY DEF Init, WrittenInv, Succeeded
<1>2. BlocksInv /\ ListInv /\ WrittenInv /\ [Next]_vars => WrittenInv'
    BY WrittenStep
<1> QED
    BY <1>1, <1>2, BlocksAlways, ListAlways, PTL DEF Spec

(* A .d file which lists outputs lists only outputs which are there, each as   *)
(* its own run made it, whatever names the filesystem takes for one and        *)
(* however runs before it ended (Depfile::write, FileWriter::write_all).       *)
THEOREM WhatIsListedIsThere == ASSUME NamesReachThemselves PROVE Spec => []ListedOutputsExist
<1>1. WrittenInv => ListedOutputsExist
    BY DEF WrittenInv, ListedOutputsExist, OnDisk
<1> QED
    BY <1>1, WrittenAlways, PTL

-------------------------------------------------------------------------------
(* What is found. *)

(* An entry of the archive for a block's text is an entry for its bindings.    *)
LEMMA ArchiveHoldsOne ==
    ASSUME FiledInv, NEW b \in 1..Len(blocks), ~blocks[b].only,
           \A c, d \in 1..Len(blocks) : ~Clash(c, d),
           disk[Name("archive", "", 0)].of
               = {<<blocks[c].key, RsContent(c)>> : c \in 1..Len(blocks)}
    PROVE  Retrieved(b) = {Content("rs", b)}
<1> DEFINE all == {<<blocks[c].key, RsContent(c)>> : c \in 1..Len(blocks)}
           k == <<blocks[b].text, "">>
           mine == {e \in all : e[1] = k}
<1>1. Retrieved(b) = {entry[2] : entry \in mine}
    BY DEF Retrieved
<1>2. RsContent(b) = Content("rs", b)
    BY DEF RsContent
<1>3. blocks[b].key = k
    BY DEF FiledInv, Filed
<1> HIDE DEF k
<1>4. <<blocks[b].key, RsContent(b)>> \in mine
    BY <1>3
<1>5. ASSUME NEW e \in mine PROVE e[2] = RsContent(b)
    <2>1. PICK c \in 1..Len(blocks) : e = <<blocks[c].key, RsContent(c)>>
        OBVIOUS
    <2>2. blocks[c].key = blocks[b].key
        BY <1>3, <2>1
    <2>3. RsContent(c) = RsContent(b)
        BY <2>2 DEF Clash
    <2> QED
        BY <2>1, <2>3
<1> HIDE DEF mine
<1>6. {entry[2] : entry \in mine} = {RsContent(b)}
    <2>1. <<blocks[b].key, RsContent(b)>>[2] = RsContent(b)
        OBVIOUS
    <2> QED
        BY <1>4, <1>5, <2>1
<1> QED
    BY <1>1, <1>2, <1>6

LEMMA SettledIsOnDisk ==
    ASSUME ListInv, WrittenInv, Succeeded, NEW e \in ToSet(Outputs)
    PROVE  Wanted(e) /\ disk[e.name] = e.content
<1>1. Settled(e)
    BY DEF ListInv, SettledInv
<1>2. PICK p \in 1..Len(pending) : pending[p].name = e.name /\ pending[p].content = e.content
    BY <1>1 DEF Settled
<1>3. OnDisk(p)
    BY <1>2 DEF WrittenInv
<1> QED
    BY <1>1, <1>2, <1>3 DEF Settled, OnDisk

(* After a run which succeeds every block is expanded to the bindings made     *)
(* from it, from a file of its own or from the archive, however alike blocks,  *)
(* their texts and their names are (FileLocationStrategy::make_include).       *)
THEOREM BlocksFindBindings == ASSUME NamesReachThemselves PROVE Spec => []BlocksFindTheirOwn
<1>1. BlocksInv /\ ListInv /\ WrittenInv => BlocksFindTheirOwn
    <2> SUFFICES ASSUME BlocksInv, ListInv, WrittenInv, Succeeded, NEW b \in 1..Len(blocks),
                        ~blocks[b].only
                 PROVE  /\ "include" \in asked => Included(b) = Content("rs", b)
                        /\ "archive" \in asked => Retrieved(b) = {Content("rs", b)}
        BY DEF BlocksFindTheirOwn
    <2>1. blocks \in Seq(EngineType) /\ FiledInv
        BY DEF BlocksInv, FiledInv
    <2>2. ASSUME "include" \in asked PROVE Included(b) = Content("rs", b)
        <3> DEFINE e == Item(RsName(b), RsContent(b))
        <3>1. e \in ToSet(Outputs)
            BY <2>1, <2>2, WhatIsListed
        <3>2. e.name = RsName(b) /\ e.content = RsContent(b)
            BY DEF Item
        <3> HIDE DEF e
        <3>3. disk[RsName(b)] = RsContent(b)
            BY <3>1, <3>2, SettledIsOnDisk
        <3> QED
            BY <3>3 DEF Included, RsContent
    <2>3. ASSUME "archive" \in asked PROVE Retrieved(b) = {Content("rs", b)}
        <3>1. Wanted(Archive) /\ disk[Archive.name] = Archive.content
            BY <2>1, <2>3, WhatIsListed, SettledIsOnDisk
        <3>2. \A c, d \in 1..Len(blocks) : ~Clash(c, d)
            <4>1. ~Wanted(GivesUp("archive"))
                BY DEF GivesUp, Wanted
            <4> QED
                BY <3>1, <4>1 DEF Archive
        <3> DEFINE all == {<<blocks[c].key, RsContent(c)>> : c \in 1..Len(blocks)}
        <3>3. Archive = Item(Name("archive", "", 0), [what |-> "archive", of |-> all])
            BY <3>2 DEF Archive
        <3> HIDE DEF all
        <3>4. /\ Archive.name = Name("archive", "", 0)
              /\ Archive.content = [what |-> "archive", of |-> all]
            BY <3>3 DEF Item
        <3>5. disk[Name("archive", "", 0)].of = all
            <4>1. [what |-> "archive", of |-> all].of = all
                OBVIOUS
            <4>2. disk[Name("archive", "", 0)] = [what |-> "archive", of |-> all]
                BY <3>1, <3>4
            <4> QED
                BY <4>1, <4>2
        <3> QED
            BY <2>1, <3>2, <3>5, ArchiveHoldsOne DEF all
    <2> QED
        BY <2>2, <2>3
<1> QED
    BY <1>1, BlocksAlways, ListAlways, WrittenAlways, PTL

-------------------------------------------------------------------------------
(* Who is refused. *)

(* The mod a name is for, and file names.                                      *)
Mod(mod) == IF mod = "" THEN "ffi" ELSE mod
FileName == [kind : {"cc", "cxxgen", "autocxxgen", "rs", "archive"}, mod : Text, num : Nat]

(* A filesystem which takes two names for one file may do so over how the mods *)
(* in them are spelt, and over nothing else: not over the fixed words and the  *)
(* number in a name, nor in one kind of file and not in another.               *)
OnlyModsAreFolded ==
    \A n, m \in FileName :
        SameFile(n, m) => /\ n.kind = m.kind /\ n.num = m.num
                          /\ SameFile(Name("rs", Mod(n.mod), 0), Name("rs", Mod(m.mod), 0))

(* Two blocks whose names reach one file. *)
NameIsShared ==
    \E b, c \in 1..Len(blocks) :
        b # c /\ SameFile(Name("rs", ModName(blocks[b]), 0), Name("rs", ModName(blocks[c]), 0))

(* A block which generates is told by how many do before it. *)
LEMMA CountsTell ==
    ASSUME blocks \in Seq(EngineType),
           NEW b \in 1..Len(blocks), NEW c \in 1..Len(blocks), blocks[b].made, blocks[c].made
    PROVE  /\ Before(b) \in Nat /\ Before(c) \in Nat /\ Made \in Nat
           /\ Before(b) < Made /\ Before(c) < Made
           /\ Before(b) = Before(c) => b = c
<1>1. Len(blocks) \in Nat
    BY LenProperties
<1>2. Before(b) \in Nat /\ Before(c) \in Nat /\ Before(Len(blocks) + 1) \in Nat
    <2>1. b \in Int /\ c \in Int /\ Len(blocks) + 1 \in Int
        BY <1>1
    <2> QED
        BY <2>1, CountsAreNat
<1>3. Before(b) < Before(Len(blocks) + 1) /\ Before(c) < Before(Len(blocks) + 1)
    BY <1>1, CountsGrow
<1>4. b < c => Before(b) < Before(c)
    BY <1>1, CountsGrow
<1>5. c < b => Before(c) < Before(b)
    BY <1>1, CountsGrow
<1> QED
    BY <1>2, <1>3, <1>4, <1>5 DEF Made

(* Names and outputs are told apart by their parts. *)
LEMMA NamesAreTheirParts ==
    ASSUME NEW k, NEW m, NEW n
    PROVE  Name(k, m, n).kind = k /\ Name(k, m, n).mod = m /\ Name(k, m, n).num = n
BY DEF Name
LEMMA ItemsAreTheirParts ==
    ASSUME NEW name, NEW content
    PROVE  Item(name, content).name = name /\ Item(name, content).content = content
BY DEF Item

(* The outputs named by number, kind by kind, and those named by mod. *)
NumberedCc(e, n) ==
    \/ \E b \in 1..Len(blocks) : /\ blocks[b].made /\ n = 2 * Before(b)
                                 /\ e = Item(Name("cc", "", n), Content("cxxgen.cc", b))
    \/ \E b \in 1..Len(blocks) : /\ blocks[b].made /\ n = 2 * Before(b) + 1
                                 /\ e = Item(Name("cc", "", n), Content("autocxxgen.cc", b))
    \/ n >= 2 * Made /\ e = Item(Name("cc", "", n), Blank)
NumberedHeader(e, n, kind, what) ==
    \/ \E b \in 1..Len(blocks) : /\ blocks[b].made /\ n = Before(b)
                                 /\ e = Item(Name(kind, "", n), Content(what, b))
    \/ n >= Made /\ e = Item(Name(kind, "", n), Blank)
NumberedRs(e, n) ==
    \/ \E b \in 1..Len(blocks) : n = b - 1 /\ e = Item(Name("rs", "", n), RsContent(b))
    \/ n >= Len(blocks) /\ e = Item(Name("rs", "", n), Blank)
Numbered(e, n) ==
    \/ NumberedCc(e, n)
    \/ NumberedHeader(e, n, "cxxgen", "cxxgen.h")
    \/ Counted /\ NumberedHeader(e, n, "autocxxgen", "autocxxgen.h")
    \/ Counted /\ NumberedRs(e, n)
    \/ n = 0 /\ e = Archive /\ Archive.name = Name("archive", "", 0)
ByMod(e, b) ==
    /\ ~Counted
    /\ \/ e = Item(Name("autocxxgen", ModName(blocks[b]), 0), Content("autocxxgen.h", b))
       \/ e = Item(Name("rs", blocks[b].name, 0), RsContent(b))

AllTreated == \A b \in 1..Len(blocks) : Treated(blocks[b])

LEMMA ClaimsAreNumberedOrByMod ==
    ASSUME blocks \in Seq(EngineType), AllTreated, NEW e \in Claimable
    PROVE  (\E n \in Nat : Numbered(e, n)) \/ (\E b \in 1..Len(blocks) : ByMod(e, b))
<1>1. Len(blocks) \in Nat /\ Made \in Nat
    BY LenProperties, CountsAreNat DEF Made
<1>2. e \in ToSet(Outputs) /\ ~GaveUp(e)
    BY DEF Claimable, Wanted, GaveUp
<1>3. CASE \E b \in 1..Len(blocks) : ~blocks[b].only /\ OfBlock(e, b)
    <2>1. PICK b \in 1..Len(blocks) : ~blocks[b].only /\ OfBlock(e, b)
        BY <1>3
    <2>2. blocks[b].made
        BY <2>1 DEF AllTreated, Treated
    <2>3. Before(b) \in Nat
        BY CountsAreNat
    <2>4. CASE e = Item(Name("cc", "", 2 * Before(b)), Content("cxxgen.cc", b))
        <3>1. 2 * Before(b) \in Nat
            BY <2>3
        <3>2. NumberedCc(e, 2 * Before(b))
            BY <2>2, <2>4 DEF NumberedCc
        <3> QED
            BY <3>1, <3>2 DEF Numbered
    <2>5. CASE e = Item(Name("cxxgen", "", Before(b)), Content("cxxgen.h", b))
        <3>1. NumberedHeader(e, Before(b), "cxxgen", "cxxgen.h")
            BY <2>2, <2>5 DEF NumberedHeader
        <3> QED
            BY <2>3, <3>1 DEF Numbered
    <2>6. CASE e = Item(Name("cc", "", 2 * Before(b) + 1), Content("autocxxgen.cc", b))
        <3>1. 2 * Before(b) + 1 \in Nat
            BY <2>3
        <3>2. NumberedCc(e, 2 * Before(b) + 1)
            BY <2>2, <2>6 DEF NumberedCc
        <3> QED
            BY <3>1, <3>2 DEF Numbered
    <2>7. CASE e = Item(HeaderName(b), Content("autocxxgen.h", b))
        <3>1. CASE Counted
            <4>1. NumberedHeader(e, Before(b), "autocxxgen", "autocxxgen.h")
                BY <2>2, <2>7, <3>1 DEF NumberedHeader, HeaderName
            <4> QED
                BY <2>3, <3>1, <4>1 DEF Numbered
        <3>2. CASE ~Counted
            BY <2>7, <3>2 DEF ByMod, HeaderName
        <3> QED
            BY <3>1, <3>2
    <2> QED
        BY <2>1, <2>4, <2>5, <2>6, <2>7 DEF OfBlock
<1>4. CASE \E b \in 1..Len(blocks) : e = Item(RsName(b), RsContent(b))
    <2>1. PICK b \in 1..Len(blocks) : e = Item(RsName(b), RsContent(b))
        BY <1>4
    <2>2. CASE Counted
        <3>1. b - 1 \in Nat
            BY <1>1
        <3>2. NumberedRs(e, b - 1)
            BY <2>1, <2>2 DEF NumberedRs, RsName
        <3> QED
            BY <2>2, <3>1, <3>2 DEF Numbered
    <2>3. CASE ~Counted
        BY <2>1, <2>3 DEF ByMod, RsName
    <2> QED
        BY <2>2, <2>3
<1>5. CASE Spare(e)
    <2>1. Counted
        BY <1>5 DEF Spare
    <2>2. CASE \E n \in Nat : n >= 2 * Made /\ e = Item(Name("cc", "", n), Blank)
        BY <2>2 DEF Numbered, NumberedCc
    <2>3. CASE \E n \in Nat : n >= Made /\ e = Item(Name("cxxgen", "", n), Blank)
        BY <2>3 DEF Numbered, NumberedHeader
    <2>4. CASE \E n \in Nat : n >= Made /\ e = Item(Name("autocxxgen", "", n), Blank)
        BY <2>1, <2>4 DEF Numbered, NumberedHeader
    <2>5. CASE \E n \in Nat : n >= Len(blocks) /\ e = Item(Name("rs", "", n), Blank)
        BY <2>1, <2>5 DEF Numbered, NumberedRs
    <2> QED
        BY <1>5, <2>2, <2>3, <2>4, <2>5 DEF Spare
<1>6. CASE e = Archive
    <2>1. GaveUp(GivesUp("archive"))
        BY DEF GivesUp, GaveUp
    <2>2. Archive.name = Name("archive", "", 0)
        BY <1>2, <1>6, <2>1, ItemsAreTheirParts DEF Archive
    <2>3. Numbered(e, 0)
        BY <1>6, <2>2 DEF Numbered
    <2> QED
        BY <2>3
<1> QED
    BY <1>2, <1>3, <1>4, <1>5, <1>6, WhatIsListed

LEMMA NumberedNames ==
    ASSUME NEW e, NEW n \in Nat, Numbered(e, n)
    PROVE  /\ \/ NumberedCc(e, n) /\ e.name = Name("cc", "", n)
              \/ NumberedHeader(e, n, "cxxgen", "cxxgen.h") /\ e.name = Name("cxxgen", "", n)
              \/ Counted /\ NumberedHeader(e, n, "autocxxgen", "autocxxgen.h")
                         /\ e.name = Name("autocxxgen", "", n)
              \/ Counted /\ NumberedRs(e, n) /\ e.name = Name("rs", "", n)
              \/ e = Archive /\ e.name = Name("archive", "", n)
<1>1. ASSUME NumberedCc(e, n) PROVE e.name = Name("cc", "", n)
    <2>1. \E content : e = Item(Name("cc", "", n), content)
        BY <1>1 DEF NumberedCc
    <2> QED
        BY <2>1, ItemsAreTheirParts
<1>2. ASSUME NEW kind, NEW what, NumberedHeader(e, n, kind, what) PROVE e.name = Name(kind, "", n)
    <2>1. \E content : e = Item(Name(kind, "", n), content)
        BY <1>2 DEF NumberedHeader
    <2> QED
        BY <2>1, ItemsAreTheirParts
<1>3. ASSUME NumberedRs(e, n) PROVE e.name = Name("rs", "", n)
    BY <1>3, ItemsAreTheirParts, ZenonT(60) DEF NumberedRs
<1> QED
    BY <1>1, <1>2, <1>3 DEF Numbered

(* A name which is a number says of what kind of file. *)
LEMMA NumberedNamesSay ==
    ASSUME NEW name, NEW n \in Nat,
           \/ name = Name("cc", "", n)
           \/ name = Name("cxxgen", "", n)
           \/ Counted /\ name = Name("autocxxgen", "", n)
           \/ Counted /\ name = Name("rs", "", n)
           \/ name = Name("archive", "", n)
    PROVE  /\ name = Name(name.kind, "", n) /\ name.num = n /\ name \in FileName
           /\ name.kind \in {"cc", "cxxgen", "archive"} \/ Counted
<1>1. PICK k \in {"cc", "cxxgen", "autocxxgen", "rs", "archive"} : name = Name(k, "", n)
    OBVIOUS
<1>2. name.kind = k /\ name.num = n
    <2>1. Name(k, "", n).kind = k /\ Name(k, "", n).num = n
        BY DEF Name
    <2> QED
        BY <1>1, <2>1
<1>3. name \in FileName
    BY <1>1 DEF Name, FileName, Text
<1>4. Counted \/ k \in {"cc", "cxxgen", "archive"}
    <2> SUFFICES ASSUME ~Counted PROVE k \in {"cc", "cxxgen", "archive"}
        OBVIOUS
    <2>1. PICK j \in {"cc", "cxxgen", "archive"} : name = Name(j, "", n)
        OBVIOUS
    <2>2. Name(j, "", n).kind = j
        BY DEF Name
    <2>3. name.kind = j
        BY <2>1, <2>2
    <2> QED
        BY <1>2, <2>3
<1> QED
    BY <1>1, <1>2, <1>3, <1>4

(* No number is given to two outputs of a kind. *)
LEMMA CcNumbersAreOnce ==
    ASSUME blocks \in Seq(EngineType), NEW e, NEW f, NEW n \in Nat,
           NumberedCc(e, n), NumberedCc(f, n)
    PROVE  e = f
<1> DEFINE First(b) == blocks[b].made /\ n = 2 * Before(b)
           Second(b) == blocks[b].made /\ n = 2 * Before(b) + 1
           Third == n >= 2 * Made
<1>1. ASSUME NEW b \in 1..Len(blocks), NEW c \in 1..Len(blocks), blocks[b].made, blocks[c].made
      PROVE  /\ n = 2 * Before(b) => n # 2 * Before(c) + 1 /\ ~Third
             /\ n = 2 * Before(b) + 1 => ~Third
             /\ n = 2 * Before(b) /\ n = 2 * Before(c) => b = c
             /\ n = 2 * Before(b) + 1 /\ n = 2 * Before(c) + 1 => b = c
    <2>1. /\ Before(b) \in Nat /\ Before(c) \in Nat /\ Made \in Nat /\ Before(b) < Made
          /\ Before(b) = Before(c) => b = c
        BY <1>1, CountsTell
    <2> QED
        BY <2>1
<1>2. /\ \A b, c \in 1..Len(blocks) : First(b) => ~Second(c)
      /\ \A b \in 1..Len(blocks) : First(b) => ~Third
      /\ \A b \in 1..Len(blocks) : Second(b) => ~Third
      /\ \A b, c \in 1..Len(blocks) : First(b) /\ First(c) => b = c
      /\ \A b, c \in 1..Len(blocks) : Second(b) /\ Second(c) => b = c
    BY <1>1
<1> DEFINE g(b) == Item(Name("cc", "", n), Content("cxxgen.cc", b))
           h(b) == Item(Name("cc", "", n), Content("autocxxgen.cc", b))
           i == Item(Name("cc", "", n), Blank)
<1>3. /\ \/ \E b \in 1..Len(blocks) : First(b) /\ e = g(b)
         \/ \E b \in 1..Len(blocks) : Second(b) /\ e = h(b)
         \/ Third /\ e = i
      /\ \/ \E b \in 1..Len(blocks) : First(b) /\ f = g(b)
         \/ \E b \in 1..Len(blocks) : Second(b) /\ f = h(b)
         \/ Third /\ f = i
    BY DEF NumberedCc
<1> HIDE DEF First, Second, Third, g, h, i
<1> QED
    BY <1>2, <1>3

LEMMA HeaderNumbersAreOnce ==
    ASSUME blocks \in Seq(EngineType), NEW e, NEW f, NEW n \in Nat, NEW kind, NEW what,
           NumberedHeader(e, n, kind, what), NumberedHeader(f, n, kind, what)
    PROVE  e = f
<1> DEFINE First(b) == blocks[b].made /\ n = Before(b)
           Third == n >= Made
<1>1. ASSUME NEW b \in 1..Len(blocks), NEW c \in 1..Len(blocks), blocks[b].made, blocks[c].made
      PROVE  /\ n = Before(b) => ~Third
             /\ n = Before(b) /\ n = Before(c) => b = c
    <2>1. /\ Before(b) \in Nat /\ Before(c) \in Nat /\ Made \in Nat /\ Before(b) < Made
          /\ Before(b) = Before(c) => b = c
        BY <1>1, CountsTell
    <2> QED
        BY <2>1
<1>2. /\ \A b \in 1..Len(blocks) : First(b) => ~Third
      /\ \A b, c \in 1..Len(blocks) : First(b) /\ First(c) => b = c
    BY <1>1
<1> DEFINE g(b) == Item(Name(kind, "", n), Content(what, b))
           i == Item(Name(kind, "", n), Blank)
<1>3. /\ \/ \E b \in 1..Len(blocks) : First(b) /\ e = g(b)
         \/ Third /\ e = i
      /\ \/ \E b \in 1..Len(blocks) : First(b) /\ f = g(b)
         \/ Third /\ f = i
    BY DEF NumberedHeader
<1> HIDE DEF First, Third, g, i
<1> QED
    BY <1>2, <1>3

LEMMA RsNumbersAreOnce ==
    ASSUME blocks \in Seq(EngineType), NEW e, NEW f, NEW n \in Nat,
           NumberedRs(e, n), NumberedRs(f, n)
    PROVE  e = f
<1>1. Len(blocks) \in Nat
    BY LenProperties
<1> DEFINE First(b) == n = b - 1
           Third == n >= Len(blocks)
           g(b) == Item(Name("rs", "", n), RsContent(b))
           i == Item(Name("rs", "", n), Blank)
<1>2. /\ \A b \in 1..Len(blocks) : First(b) => ~Third
      /\ \A b, c \in 1..Len(blocks) : First(b) /\ First(c) => b = c
    BY <1>1
<1>3. /\ \/ \E b \in 1..Len(blocks) : First(b) /\ e = g(b)
         \/ Third /\ e = i
      /\ \/ \E b \in 1..Len(blocks) : First(b) /\ f = g(b)
         \/ Third /\ f = i
    BY DEF NumberedRs
<1> HIDE DEF First, Third, g, i
<1> QED
    BY <1>2, <1>3

LEMMA NumbersAreOnce ==
    ASSUME blocks \in Seq(EngineType), NEW e, NEW f, NEW n \in Nat,
           Numbered(e, n), Numbered(f, n), e.name = f.name
    PROVE  e = f
<1> DEFINE Named(d, k) == d.name = Name(k, "", n)
           Forms(d) ==
               \/ NumberedCc(d, n) /\ Named(d, "cc")
               \/ NumberedHeader(d, n, "cxxgen", "cxxgen.h") /\ Named(d, "cxxgen")
               \/ NumberedHeader(d, n, "autocxxgen", "autocxxgen.h") /\ Named(d, "autocxxgen")
               \/ NumberedRs(d, n) /\ Named(d, "rs")
               \/ d = Archive /\ Named(d, "archive")
<1>1. Forms(e) /\ Forms(f)
    BY NumberedNames
<1>2. \A j, k : Named(e, j) /\ Named(f, k) => j = k
    <2>1. ASSUME NEW j, NEW k, Name(j, "", n) = Name(k, "", n) PROVE j = k
        BY <2>1 DEF Name
    <2> QED
        BY <2>1
<1> HIDE DEF Named
<1>3. CASE Named(e, "cc")
    BY <1>1, <1>2, <1>3, CcNumbersAreOnce
<1>4. CASE Named(e, "cxxgen")
    BY <1>1, <1>2, <1>4, HeaderNumbersAreOnce
<1>5. CASE Named(e, "autocxxgen")
    BY <1>1, <1>2, <1>5, HeaderNumbersAreOnce
<1>6. CASE Named(e, "rs")
    BY <1>1, <1>2, <1>6, RsNumbersAreOnce
<1>7. CASE Named(e, "archive")
    BY <1>1, <1>2, <1>7
<1> QED
    BY <1>1, <1>3, <1>4, <1>5, <1>6, <1>7

(* Two outputs of one name and different contents are for blocks of one name.  *)
LEMMA ConflictsAreOverNames ==
    ASSUME NamesReachThemselves, blocks \in Seq(EngineType), AllTreated,
           NEW e \in Claimable, NEW f \in Claimable, e.name = f.name, e.content # f.content
    PROVE  NameIsShared
<1>1. \A b \in 1..Len(blocks), n \in Nat, d \in {e, f} :
          Numbered(d, n) => ~ByMod(IF d = e THEN f ELSE e, b)
    <2> SUFFICES ASSUME NEW b \in 1..Len(blocks), NEW n \in Nat, NEW d, NEW c,
                        d.name = c.name, Numbered(d, n), ByMod(c, b)
                 PROVE  FALSE
        OBVIOUS
    <2>1. \/ d.name = Name("cc", "", n) \/ d.name = Name("cxxgen", "", n)
          \/ d.name = Name("archive", "", n)
        BY NumberedNames DEF ByMod
    <2>2. \/ c.name = Name("autocxxgen", ModName(blocks[b]), 0)
          \/ c.name = Name("rs", blocks[b].name, 0)
        BY ItemsAreTheirParts DEF ByMod
    <2>3. d.name.kind \in {"cc", "cxxgen", "archive"}
        BY <2>1, NumberedNamesSay DEF ByMod
    <2>4. c.name.kind \in {"autocxxgen", "rs"}
        BY <2>2, NamesAreTheirParts
    <2> QED
        BY <2>3, <2>4
<1>2. ASSUME NEW n \in Nat, NEW m \in Nat, Numbered(e, n), Numbered(f, m)
      PROVE  FALSE
    <2>1. ASSUME NEW d, NEW k \in Nat, Numbered(d, k) PROVE d.name.num = k
        <3> PICK name : name = d.name
            OBVIOUS
        <3>1. \/ name = Name("cc", "", k)
              \/ name = Name("cxxgen", "", k)
              \/ Counted /\ name = Name("autocxxgen", "", k)
              \/ Counted /\ name = Name("rs", "", k)
              \/ name = Name("archive", "", k)
            BY <2>1, NumberedNames
        <3>2. name.num = k
            BY <3>1, NumberedNamesSay, ZenonT(60)
        <3> QED
            BY <3>2
    <2> QED
        BY <1>2, <2>1, NumbersAreOnce
<1>3. ASSUME NEW b \in 1..Len(blocks), NEW c \in 1..Len(blocks), ByMod(e, b), ByMod(f, c)
      PROVE  NameIsShared
    <2> DEFINE he == Item(Name("autocxxgen", ModName(blocks[b]), 0), Content("autocxxgen.h", b))
               hf == Item(Name("autocxxgen", ModName(blocks[c]), 0), Content("autocxxgen.h", c))
               re == Item(Name("rs", blocks[b].name, 0), RsContent(b))
               rf == Item(Name("rs", blocks[c].name, 0), RsContent(c))
    <2>1. (e = he \/ e = re) /\ (f = hf \/ f = rf)
        BY <1>3 DEF ByMod
    <2>2. /\ he.name.kind = "autocxxgen" /\ he.name.mod = ModName(blocks[b])
          /\ hf.name.kind = "autocxxgen" /\ hf.name.mod = ModName(blocks[c])
          /\ re.name.kind = "rs" /\ re.name.mod = blocks[b].name
          /\ rf.name.kind = "rs" /\ rf.name.mod = blocks[c].name
        BY ItemsAreTheirParts, NamesAreTheirParts
    <2>3. b = c => he = hf /\ re = rf
        OBVIOUS
    <2> HIDE DEF he, hf, re, rf
    <2>4. (e = he /\ f = hf) \/ (e = re /\ f = rf)
        BY <2>1, <2>2
    <2>5. b # c
        BY <2>3, <2>4
    <2>6. ModName(blocks[b]) = ModName(blocks[c])
        BY <2>2, <2>4 DEF ModName
    <2> QED
        BY <2>5, <2>6 DEF NameIsShared, NamesReachThemselves
<1> QED
    BY <1>1, <1>2, <1>3, ClaimsAreNumberedOrByMod

(* Two outputs whose names differ and reach one file are for blocks whose      *)
(* names do.                                                                   *)
LEMMA FilesAreSharedOverNames ==
    ASSUME OnlyModsAreFolded, blocks \in Seq(EngineType), AllTreated,
           NEW e \in Claimable, NEW f \in Claimable, e.name # f.name, SameFile(e.name, f.name)
    PROVE  NameIsShared
<1> DEFINE ByNumber(d, n) ==
               \/ d.name = Name("cc", "", n)
               \/ d.name = Name("cxxgen", "", n)
               \/ Counted /\ d.name = Name("autocxxgen", "", n)
               \/ Counted /\ d.name = Name("rs", "", n)
               \/ d.name = Name("archive", "", n)
           ForMod(d, b) ==
               /\ ~Counted
               /\ \/ d.name = Name("autocxxgen", ModName(blocks[b]), 0)
                  \/ d.name = Name("rs", blocks[b].name, 0)
<1>1. ASSUME NEW d \in Claimable
      PROVE  (\E n \in Nat : ByNumber(d, n)) \/ (\E b \in 1..Len(blocks) : ForMod(d, b))
    <2>1. \A n \in Nat : Numbered(d, n) => ByNumber(d, n)
        BY NumberedNames
    <2>2. \A b \in 1..Len(blocks) : ByMod(d, b) => ForMod(d, b)
        BY ItemsAreTheirParts DEF ByMod
    <2> QED
        BY <2>1, <2>2, ClaimsAreNumberedOrByMod
<1>2. ASSUME NEW d, NEW n \in Nat, ByNumber(d, n)
      PROVE  /\ d.name = Name(d.name.kind, "", n) /\ d.name.num = n /\ d.name \in FileName
             /\ d.name.kind \in {"cc", "cxxgen", "archive"} \/ Counted
    BY <1>2, NumberedNamesSay
<1>3. ASSUME NEW d, NEW b \in 1..Len(blocks), ForMod(d, b)
      PROVE  /\ d.name \in FileName /\ d.name.kind \in {"autocxxgen", "rs"} /\ ~Counted
             /\ Mod(d.name.mod) = ModName(blocks[b])
             /\ d.name = Name(d.name.kind, IF d.name.kind = "rs" THEN blocks[b].name
                                                                 ELSE ModName(blocks[b]), 0)
    <2>1. blocks[b] \in EngineType
        BY ElementOfSeq
    <2>2. blocks[b].name \in Text /\ ModName(blocks[b]) \in Text
        BY <2>1 DEF EngineType, ModName, Text
    <2>3. Mod(blocks[b].name) = ModName(blocks[b]) /\ Mod(ModName(blocks[b])) = ModName(blocks[b])
        BY DEF Mod, ModName
    <2> QED
        BY <1>3, <2>2, <2>3 DEF FileName, Name
<1>4. \A d \in Claimable : d.name \in FileName
    BY <1>1, <1>2, <1>3
<1>5. /\ e.name.kind = f.name.kind /\ e.name.num = f.name.num
      /\ SameFile(Name("rs", Mod(e.name.mod), 0), Name("rs", Mod(f.name.mod), 0))
    BY <1>4 DEF OnlyModsAreFolded
<1> HIDE DEF ByNumber, ForMod
<1>6. ASSUME NEW n \in Nat, NEW m \in Nat, ByNumber(e, n), ByNumber(f, m)
      PROVE  FALSE
    <2>1. e.name = Name(e.name.kind, "", n) /\ f.name = Name(f.name.kind, "", m) /\ n = m
        BY <1>2, <1>5, <1>6
    <2> QED
        BY <1>5, <2>1
<1>7. ASSUME NEW b \in 1..Len(blocks), NEW c \in 1..Len(blocks), ForMod(e, b), ForMod(f, c)
      PROVE  NameIsShared
    <2>1. /\ Mod(e.name.mod) = ModName(blocks[b]) /\ Mod(f.name.mod) = ModName(blocks[c])
          /\ b = c => e.name = f.name
        BY <1>3, <1>5, <1>7
    <2>2. b # c
        BY <2>1
    <2> QED
        BY <1>5, <2>1, <2>2 DEF NameIsShared
<1>8. ASSUME NEW n \in Nat, NEW b \in 1..Len(blocks),
             (ByNumber(e, n) /\ ForMod(f, b)) \/ (ByNumber(f, n) /\ ForMod(e, b))
      PROVE  FALSE
    BY <1>2, <1>3, <1>5, <1>8
<1> QED
    BY <1>1, <1>6, <1>7, <1>8

(* A collision of mod names is one. *)
LEMMA CollisionsAreOverNames ==
    ASSUME NamesReachThemselves, NamesCollide, at \in 1..Len(blocks)
    PROVE  NameIsShared
<1>1. PICK b \in 1..Len(blocks) : b # at /\ ModName(blocks[b]) = ModName(blocks[at])
    BY DEF NamesCollide
<1> QED
    BY <1>1 DEF NameIsShared, NamesReachThemselves

LEMMA RefusedStep ==
    ASSUME NamesReachThemselves, OnlyModsAreFolded
    PROVE  BlocksInv /\ ListInv /\ UntouchedInv /\ DistinctNamesAreAccepted /\ [Next]_vars
               => DistinctNamesAreAccepted'
<1> SUFFICES ASSUME BlocksInv, ListInv, UntouchedInv, DistinctNamesAreAccepted, [Next]_vars
             PROVE  DistinctNamesAreAccepted'
    OBVIOUS
<1> DEFINE Refusal == {"names", "conflict", "one file"}
<1>1. ASSUME result' \notin Refusal PROVE DistinctNamesAreAccepted'
    BY <1>1 DEF DistinctNamesAreAccepted
<1>2. ASSUME NameIsShared, blocks' = blocks PROVE DistinctNamesAreAccepted'
    BY <1>2 DEF DistinctNamesAreAccepted, NameIsShared
<1>3. phase # "done" => result \notin Refusal
    BY DEF UntouchedInv
<1>4. phase \in {"outputs", "write"} =>
          blocks \in Seq(EngineType) /\ AllTreated /\ pending \in Seq(Claimable) /\ Distinct
    BY DEF BlocksInv, FiledInv, TreatedInv, AllTreated, ListInv, ClaimedInv
<1>5. CASE ParseInput
    <2>1. result' = "discovery" \/ (phase # "done" /\ result' = result)
        BY <1>5 DEF ParseInput, Stop
    <2> QED
        BY <1>1, <1>3, <2>1
<1>6. CASE Generate
    <2>1. CASE NamesCollide
        <3>1. blocks' = blocks
            BY <1>6, <2>1 DEF Generate
        <3>2. at \in 1..Len(blocks)
            <4>1. at \in Nat /\ at >= 1 /\ at <= Len(blocks) /\ blocks \in Seq(EngineType)
                BY <1>6 DEF Generate, BlocksInv, PlaceInv, FiledInv
            <4> QED
                BY <4>1, LenProperties
        <3> QED
            BY <1>2, <2>1, <3>1, <3>2, CollisionsAreOverNames
    <2>2. CASE ~NamesCollide
        <3>1. phase # "done" /\ result' = result
            BY <1>6, <2>2 DEF Generate
        <3> QED
            BY <1>1, <1>3, <3>1
    <2> QED
        BY <2>1, <2>2
<1>7. CASE ListOutputs
    BY <1>1, <1>3, <1>7 DEF ListOutputs
<1>8. CASE AddOutput
    <2>1. PICK item : item = Head(todo)
        OBVIOUS
    <2>2. phase = "outputs" /\ blocks' = blocks
        BY <1>8 DEF AddOutput
    <2>3. item \in ToSet(Outputs)
        <3>1. todo \in Seq(ToSet(Outputs)) /\ todo # <<>>
            BY <2>2 DEF ListInv, ToComeInv
        <3> QED
            BY <2>1, <3>1, TailOf
    <2>4. CASE ~Wanted(item)
        <3>1. result' = item.why
            BY <1>8, <2>1, <2>4 DEF AddOutput, Stop, Wanted
        <3>2. GaveUp(item)
            BY <1>4, <2>2, <2>3, <2>4, WhyListingEnds DEF Wanted
        <3> QED
            BY <1>1, <3>1, <3>2 DEF GaveUp
    <2>5. CASE Wanted(item) /\ Refused(item)
        <3>1. item \in Claimable
            BY <2>3, <2>5 DEF Claimable
        <3>2. PICK p \in Claimed(item) : p.content # item.content
            BY <2>5 DEF Refused
        <3>3. p \in ToSet(pending) /\ p.name = item.name
            BY DEF Claimed
        <3>4. p \in Claimable
            <4>1. PICK i \in 1..Len(pending) : p = pending[i]
                BY <1>4, <2>2, <3>3, ListsOfAny
            <4> QED
                BY <1>4, <2>2, <4>1, ElementOfSeq
        <3>5. NameIsShared
            BY <1>4, <2>2, <3>1, <3>2, <3>3, <3>4, ConflictsAreOverNames
        <3> QED
            BY <1>2, <2>2, <3>5
    <2>6. CASE Wanted(item) /\ ~Refused(item)
        <3>1. result' = result
            BY <1>8, <2>1, <2>6 DEF AddOutput, Claim, Wanted
        <3> QED
            BY <1>1, <1>3, <2>2, <3>1
    <2> QED
        BY <2>4, <2>5, <2>6
<1>9. CASE WriteOutput
    <2>1. phase = "write" /\ blocks' = blocks /\ at \in Nat /\ at >= 1
        BY <1>9 DEF WriteOutput, BlocksInv, PlaceInv
    <2>2. CASE ~Published(pending[at])
        BY <1>1, <1>3, <1>9, <2>1, <2>2 DEF WriteOutput
    <2>3. CASE Published(pending[at])
        <3>1. PICK p \in 1..at - 1 : SameFile(pending[p].name, pending[at].name)
            BY <2>3 DEF Published
        <3>2. at <= Len(pending)
            BY <2>1 DEF ListInv, ReachInv
        <3> QED
            <4>1. Len(pending) \in Nat
                BY <1>4, <2>1, LenProperties
            <4>2. p \in 1..Len(pending) /\ at \in 1..Len(pending) /\ p # at
                BY <2>1, <3>2, <4>1
            <4>3. pending[p] \in Claimable /\ pending[at] \in Claimable
                BY <1>4, <2>1, <4>2, ElementOfSeq
            <4>4. pending[p].name # pending[at].name
                BY <1>4, <2>1, <4>2 DEF Distinct
            <4>5. NameIsShared
                BY <1>4, <2>1, <3>1, <4>3, <4>4, FilesAreSharedOverNames
            <4> QED
                BY <1>2, <2>1, <4>5
    <2> QED
        BY <2>2, <2>3
<1>10. CASE WriteDepfile
    BY <1>1, <1>10 DEF WriteDepfile, Stop
<1>11. CASE Fail
    BY <1>1, <1>11 DEF Fail, Stop
<1>12. CASE Rerun
    BY <1>1, <1>12 DEF Rerun
<1>13. CASE UNCHANGED vars
    BY <1>13 DEF vars, DistinctNamesAreAccepted
<1> QED
    BY <1>5, <1>6, <1>7, <1>8, <1>9, <1>10, <1>11, <1>12, <1>13 DEF Next

(* A run is refused over names only where two blocks' names reach one file,    *)
(* and no refusal costs anything (FileWriter::add_output, write_all).          *)
THEOREM RefusalsAreOverNames ==
    ASSUME NamesReachThemselves, OnlyModsAreFolded PROVE Spec => []RefusalIsJust
<1>1. Init => UntouchedInv /\ DistinctNamesAreAccepted
    BY DEF Init, UntouchedInv, Early, DistinctNamesAreAccepted
<1>2. BlocksInv /\ ListInv /\ UntouchedInv /\ DistinctNamesAreAccepted /\ [Next]_vars
          => DistinctNamesAreAccepted'
    BY RefusedStep
<1>3. Spec => []DistinctNamesAreAccepted
    BY <1>1, <1>2, UntouchedStep, BlocksAlways, ListAlways, PTL DEF Spec
<1>4. RefusedBeforeWriting /\ DistinctNamesAreAccepted => RefusalIsJust
    BY DEF RefusalIsJust
<1> QED
    BY <1>3, <1>4, RefusalsCostNothing, PTL

-------------------------------------------------------------------------------
(* Types. *)

LEMMA ClaimsAreOfAKind ==
    ASSUME blocks \in Seq(EngineType), AllTreated, NEW e \in Claimable
    PROVE  e.name.kind \in {"cc", "cxxgen", "autocxxgen", "rs", "archive"}
<1>1. PICK name : name = e.name
    OBVIOUS
<1>2. CASE \E n \in Nat : Numbered(e, n)
    <2>1. PICK n \in Nat : Numbered(e, n)
        BY <1>2
    <2>2. \/ name = Name("cc", "", n)
          \/ name = Name("cxxgen", "", n)
          \/ Counted /\ name = Name("autocxxgen", "", n)
          \/ Counted /\ name = Name("rs", "", n)
          \/ name = Name("archive", "", n)
        BY <1>1, <2>1, NumberedNames
    <2>3. name \in FileName
        BY <2>2, NumberedNamesSay
    <2> QED
        BY <1>1, <2>3 DEF FileName
<1>3. CASE \E b \in 1..Len(blocks) : ByMod(e, b)
    <2>1. PICK b \in 1..Len(blocks) : ByMod(e, b)
        BY <1>3
    <2>2. \/ name = Name("autocxxgen", ModName(blocks[b]), 0)
          \/ name = Name("rs", blocks[b].name, 0)
        BY <1>1, <2>1, ItemsAreTheirParts DEF ByMod
    <2>3. name.kind \in {"autocxxgen", "rs"}
        BY <2>2, NamesAreTheirParts
    <2> QED
        BY <1>1, <2>3
<1> QED
    BY <1>2, <1>3, ClaimsAreNumberedOrByMod

(* Files are of five kinds.                                                    *)
KindsInv ==
    \A n \in DOMAIN disk \cup DOMAIN before :
        n.kind \in {"cc", "cxxgen", "autocxxgen", "rs", "archive"}
ResultInv ==
    /\ depfile \in {"empty", "listing"}
    /\ result \in {"", "ok", "discovery", "names", "panic", "exact", "archive", "conflict",
                   "one file", "failed", "part written", "killed"}
    /\ runs \in 1..MaxRuns

LEMMA KindsStep == BlocksInv /\ ListInv /\ KindsInv /\ [Next]_vars => KindsInv'
<1> SUFFICES ASSUME BlocksInv, ListInv, KindsInv, [Next]_vars PROVE KindsInv'
    OBVIOUS
<1>1. ASSUME UNCHANGED <<disk, before>> PROVE KindsInv'
    BY <1>1 DEF KindsInv
<1>2. CASE WriteOutput
    <2>1. phase = "write" /\ before' = before
        BY <1>2 DEF WriteOutput
    <2>2. CASE disk' = disk
        BY <1>1, <2>1, <2>2
    <2>3. CASE disk' = Replaced(pending[at])
        <3>1. DOMAIN disk' = DOMAIN disk \cup {pending[at].name}
            BY <2>3 DEF Replaced
        <3>2. pending[at] \in Claimable
            <4>1. pending \in Seq(Claimable) /\ at \in Nat /\ at >= 1 /\ at <= Len(pending)
                BY <2>1 DEF ListInv, ClaimedInv, ReachInv, BlocksInv, PlaceInv
            <4>2. at \in 1..Len(pending)
                BY <4>1, LenProperties
            <4> QED
                BY <4>1, <4>2, ElementOfSeq
        <3>3. pending[at].name.kind \in {"cc", "cxxgen", "autocxxgen", "rs", "archive"}
            BY <2>1, <3>2, ClaimsAreOfAKind DEF BlocksInv, FiledInv, TreatedInv, AllTreated
        <3> QED
            BY <2>1, <3>1, <3>3 DEF KindsInv
    <2> QED
        BY <1>2, <2>2, <2>3 DEF WriteOutput
<1>3. CASE Rerun
    BY <1>3 DEF Rerun, KindsInv
<1> QED
    BY <1>1, <1>2, <1>3 DEF Next, vars, ParseInput, Generate, ListOutputs, AddOutput, WriteDepfile, Fail

LEMMA OneMore == \A m \in Nat : \A n \in 1..m : n < m => n + 1 \in 1..m
OBVIOUS

LEMMA ResultStep == BlocksInv /\ ListInv /\ ResultInv /\ [Next]_vars => ResultInv'
<1> SUFFICES ASSUME BlocksInv, ListInv, ResultInv, [Next]_vars PROVE ResultInv'
    OBVIOUS
<1> USE DEF ResultInv
<1>1. CASE ParseInput
    BY <1>1 DEF ParseInput, Stop
<1>2. CASE Generate
    BY <1>2 DEF Generate, Stop
<1>3. CASE ListOutputs
    BY <1>3 DEF ListOutputs
<1>4. CASE AddOutput
    <2>1. PICK item : item = Head(todo)
        OBVIOUS
    <2>2. item \in ToSet(Outputs)
        <3>1. todo \in Seq(ToSet(Outputs)) /\ todo # <<>>
            BY <1>4 DEF AddOutput, ListInv, ToComeInv
        <3> QED
            BY <2>1, <3>1, TailOf
    <2>3. Wanted(item) \/ GaveUp(item)
        BY <2>2, WhyListingEnds DEF BlocksInv, FiledInv, Wanted
    <2>4. depfile' = depfile /\ runs' = runs
        BY <1>4 DEF AddOutput
    <2>5. \/ ~Wanted(item) /\ result' = item.why
          \/ result' = "conflict"
          \/ result' = result
        BY <1>4, <2>1 DEF AddOutput, Stop, Claim, Wanted
    <2> QED
        BY <2>3, <2>4, <2>5 DEF GaveUp
<1>5. CASE WriteOutput
    BY <1>5 DEF WriteOutput, Stop
<1>6. CASE WriteDepfile
    BY <1>6 DEF WriteDepfile, Stop
<1>7. CASE Fail
    BY <1>7 DEF Fail, Stop
<1>8. CASE Rerun
    <2>1. runs' \in 1..MaxRuns
        <3>1. runs < MaxRuns /\ runs' = runs + 1
            BY <1>8 DEF Rerun
        <3>2. runs \in 1..MaxRuns /\ MaxRuns \in Nat
            BY BoundsAssumption
        <3> QED
            BY <3>1, <3>2, OneMore
    <2> QED
        BY <1>8, <2>1 DEF Rerun, NewDepfile
<1>9. CASE UNCHANGED vars
    BY <1>9 DEF vars
<1> QED
    BY <1>1, <1>2, <1>3, <1>4, <1>5, <1>6, <1>7, <1>8, <1>9 DEF Next

(* Every variable holds a value of its type. *)
THEOREM TypeCorrect == Spec => []TypeOK
<1>1. Init => KindsInv /\ ResultInv
    <2> SUFFICES ASSUME Init PROVE KindsInv /\ ResultInv
        OBVIOUS
    <2>1. DOMAIN disk = {} /\ DOMAIN before = {}
        <3>1. disk = <<>> /\ before = <<>>
            BY DEF Init
        <3>2. DOMAIN <<>> = {}
            OBVIOUS
        <3> QED
            BY <3>1, <3>2
    <2>2. runs \in 1..MaxRuns
        <3>1. runs = 1 /\ MaxRuns \in Nat \ {0}
            BY BoundsAssumption DEF Init
        <3> QED
            BY <3>1
    <2>3. depfile = "empty" /\ result = ""
        BY DEF Init
    <2> QED
        BY <2>1, <2>2, <2>3 DEF KindsInv, ResultInv
<1>2. BlocksInv /\ KindsInv /\ ResultInv => TypeOK
    <2> SUFFICES ASSUME BlocksInv, KindsInv, ResultInv PROVE TypeOK
        OBVIOUS
    <2>1. \A b \in 1..Len(blocks) : blocks[b].made => ~blocks[b].only
        BY DEF BlocksInv, FiledInv, Filed
    <2>2. {n.kind : n \in DOMAIN disk \cup DOMAIN before}
              \subseteq {"cc", "cxxgen", "autocxxgen", "rs", "archive"}
        BY DEF KindsInv
    <2>3. /\ inputs \in InputLists /\ asked \in Requests /\ at \in Nat /\ at >= 1
          /\ phase \in {"parse", "generate", "list", "outputs", "write", "depfile", "done"}
        BY DEF BlocksInv, PlaceInv
    <2> QED
        BY <2>1, <2>2, <2>3 DEF TypeOK, ResultInv
<1> QED
    BY <1>1, <1>2, BlocksAlways, ListAlways, KindsStep, ResultStep, PTL DEF Spec
=============================================================================
