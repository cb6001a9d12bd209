---------------------------- MODULE ElfAccessors ----------------------------
(***************************************************************************)
(* The accessors of an ELF file, each over sections of its own: symbols    *)
(* and relocations, the dynamic section, notes and module information.     *)
(* They share no bytes, so a behaviour follows one of them at a time, and  *)
(* the others stay as they were opened.                                    *)
(***************************************************************************)
EXTENDS ElfSymbols

CONSTANTS
    Accessors,                      \* of a dynamic section, of notes
    Values, Strs, MaxEntries,       \* ElfDynamic
    NameSizes, DescSizes, Fillers,  \* ElfNotes
    NoteTypes, Loaded, MaxWords,
    Letters, Eq,                    \* ElfModinfo
    MaxText, MaxAttributes

ASSUME NotesAssumption ==
    /\ NameSizes \subseteq Nat \ {0} /\ DescSizes \subseteq Nat
    /\ Fillers \subseteq Nat /\ NoteTypes \subseteq Nat /\ Loaded \subseteq Seq(Nat)
ASSUME DistinctChars == Eq # Nul /\ {Eq, Nul} \cap Letters = {}
ASSUME TextAssumption == MaxText \in Nat

VARIABLES
    followed,                                   \* the accessor in use
    entries, dynamicStrings, entries_num, required, counted, stated,
    words, starts, notes, noteStarts, hollow, whole,
    chars, content, attributes, places

Dynamic == INSTANCE ElfDynamic WITH strings <- dynamicStrings, added <- stated
Notes == INSTANCE ElfNotes WITH Types <- NoteTypes, at <- noteStarts
Modinfo == INSTANCE ElfModinfo WITH added <- attributes

dynamicVars == <<entries, dynamicStrings, entries_num, required, counted, stated>>
notesVars == <<words, starts, notes, noteStarts, hollow, whole>>
modinfoVars == <<chars, content, attributes, places>>
AccessorVars == <<vars, followed, dynamicVars, notesVars, modinfoVars>>

AccessorInit ==
    /\ followed \in {"symbols", "dynamic", "notes", "modinfo"}
    /\ Init /\ Dynamic!Init /\ Notes!Init /\ Modinfo!Init
    /\ followed # "notes" => words = <<>>

FollowSymbols ==
    /\ followed = "symbols" /\ Next
    /\ UNCHANGED <<followed, dynamicVars, notesVars, modinfoVars>>
FollowDynamic ==
    /\ followed = "dynamic" /\ Dynamic!Next
    /\ UNCHANGED <<followed, vars, notesVars, modinfoVars>>
FollowNotes ==
    /\ followed = "notes" /\ Notes!Next
    /\ UNCHANGED <<followed, vars, dynamicVars, modinfoVars>>
FollowModinfo ==
    /\ followed = "modinfo" /\ Modinfo!Next
    /\ UNCHANGED <<followed, vars, dynamicVars, notesVars>>

AccessorNext == FollowSymbols \/ FollowDynamic \/ FollowNotes \/ FollowModinfo

AccessorSpec == AccessorInit /\ [][AccessorNext]_AccessorVars
-----------------------------------------------------------------------------
\* elfio_dynamic.hpp, elfio_versym.hpp: an accessor reads what was added, however
\* long ago it has counted.
DynamicReadsAsAdded == Dynamic!ReadsAsAdded

\* elfio_note.hpp: an accessor reads the notes that were added and nothing else.
NotesAreWhole == Notes!NotesAreWhole

\* elfio_modinfo.hpp: section, pairs and what was added are one and the same.
ModinfoTextMatches == Modinfo!TextMatches
=============================================================================
