---------------------------- MODULE OutputRegistry ----------------------------
(* engine/src/output_registry.rs: the process-wide record of which generated   *)
(* file belongs to which include_cpp!, for one generation directory, and the   *)
(* directory it describes.                                                      *)
(*                                                                             *)
(* Each operator below is one call of the registry made under its lock. What a *)
(* caller did before taking the lock (resolving a path) is an argument: the    *)
(* code resolves first and locks second, and the callers keep the two apart.   *)
EXTENDS Naturals, FiniteSets

CONSTANTS
    Builder,        \* one crate::Builder each, over the life of a process
    Path,           \* spellings of files in the generation directory
    File,           \* the files the filesystem tells apart
    FileOf,         \* the file a spelling names: not injective where case is ignored
    Bytes,          \* the whole contents a builder can generate
    Torn,           \* half of such contents
    Absent,         \* no file there
    Unwritten       \* no record of a write

ASSUME FileOfAssumption == FileOf \in [Path -> File]
ASSUME BytesAssumption == Torn \notin Bytes
ASSUME AbsentAssumption == Absent \notin [name : Path, bytes : Bytes \cup {Torn}]
ASSUME UnwrittenAssumption == Unwritten \notin [builder : Builder, bytes : Bytes]

VARIABLES
    disk,           \* File -> what is there, with the spelling it was made under
    marker,         \* the marker file is in the directory
    present,        \* the process has a record for the directory
    markerWritten,  \* ... which managed to write the marker
    taken,          \* ... the names claimed or written
    written         \* ... the writes accepted: who and what

registry == <<present, markerWritten, taken, written>>
directory == <<disk, marker>>

Entry == [name : Path, bytes : Bytes \cup {Torn}]
GeneratedFile == [builder : Builder, bytes : Bytes]

RegistryTypeOK ==
    /\ disk \in [File -> Entry \cup {Absent}]
    /\ marker \in BOOLEAN
    /\ present \in BOOLEAN
    /\ markerWritten \in BOOLEAN
    /\ taken \subseteq Path
    /\ written \in [Path -> GeneratedFile \cup {Unwritten}]

NothingWritten == [p \in Path |-> Unwritten]

(* A process starts with no record at all, whatever the directory holds. *)
EmptyRegistry ==
    /\ present = FALSE
    /\ markerWritten = FALSE
    /\ taken = {}
    /\ written = NothingWritten

-------------------------------------------------------------------------------
(* Mutant: paths are keyed as they are spelled. *)
Mut_ResolveDestination(p) == p

(* The key of a path: the spelling the filesystem gives a file which is there, *)
(* and the spelling asked for where nothing is there yet.                      *)
ResolveDestination(p) ==
    IF disk[FileOf[p]] = Absent THEN p ELSE disk[FileOf[p]].name

(* Mutant: nothing tells a directory from one remade under its path. *)
Mut_StaleRecord == FALSE

(* The record describes a directory that lost its marker, so not this one. *)
StaleRecord == present /\ markerWritten /\ ~marker

(* OutputRegistry::open. markerOk: the marker can be written. *)
Open(markerOk) ==
    IF present /\ ~StaleRecord
      THEN UNCHANGED <<registry, marker>>
      ELSE /\ present' = TRUE
           /\ markerWritten' = markerOk
           /\ marker' = (marker \/ markerOk)
           /\ taken' = {}
           /\ written' = NothingWritten

(* OutputRegistry::claim answers TRUE ... *)
Claimable(dest) == present => dest \notin taken

(* Mutant: a name is handed out without a note of it. *)
Mut_Claim(dest) == UNCHANGED registry

(* ... and either way the name is taken afterwards. *)
Claim(dest) ==
    /\ taken' = IF present THEN taken \cup {dest} ELSE taken
    /\ UNCHANGED <<present, markerWritten, written>>

(* Mutant: asks the disk what was written, rather than the record. *)
Mut_Collides(dest, bytes) ==
    disk[FileOf[dest]] # Absent /\ disk[FileOf[dest]].bytes # bytes

(* OutputRegistry::record refuses: another write of other bytes was accepted. *)
Collides(dest, bytes) ==
    present /\ written[dest] # Unwritten /\ written[dest].bytes # bytes

(* OutputRegistry::record accepts; the first writer of the bytes stays owner. *)
Record(b, dest, bytes) ==
    /\ taken' = IF present THEN taken \cup {dest} ELSE taken
    /\ written' = IF present /\ written[dest] = Unwritten
                    THEN [written EXCEPT ![dest] = [builder |-> b, bytes |-> bytes]]
                    ELSE written
    /\ UNCHANGED <<present, markerWritten>>

(* OutputRegistry::forget: only the owner's write, and the name stays taken. *)
Forget(b, dest) ==
    /\ written' = IF present /\ written[dest] # Unwritten /\ written[dest].builder = b
                    THEN [written EXCEPT ![dest] = Unwritten]
                    ELSE written
    /\ UNCHANGED <<present, markerWritten, taken>>
===============================================================================
