----------------------------- MODULE ElfDynamic -----------------------------
(***************************************************************************)
(* The entries of a dynamic section, elfio_dynamic.hpp, and the version    *)
(* requirements that count theirs by one of them, elfio_versym.hpp.  Each  *)
(* accessor keeps the number of entries it has counted first, while other  *)
(* accessors, and it itself, go on adding to the section.                  *)
(***************************************************************************)
EXTENDS Integers, Sequences, FiniteSetsExt

CONSTANTS
    Accessors,  \* dynamic_section_accessors of the one section
    Values,     \* of the entries
    Strs,       \* strings of the entries that have one
    MaxEntries  \* bound: entries of the section

\* The tags fall into those without a value, those of a string and the others;
\* DT_NULL ends the list and DT_VERNEEDNUM counts the requirements.
Tags == {"NULL", "TEXTREL", "NEEDED", "VERNEEDNUM", "DEBUG"}
Valueless == {"NULL", "TEXTREL"}
OfString == {"NEEDED"}

VARIABLES
    entries,      \* the section's bytes, entry by entry
    strings,      \* the string section: what was added, in order
    entries_num,  \* [Accessors -> what each has counted]
    required,     \* entries_num of a versym_r_section_accessor, or -1
    counted,      \* history: length of the section when each accessor counted
    added         \* history: what the callers meant by each entry

vars == <<entries, strings, entries_num, required, counted, added>>

Init ==
    /\ entries = <<>> /\ strings = <<>> /\ added = <<>> /\ required = -1
    /\ entries_num = [a \in Accessors |-> 0] /\ counted = [a \in Accessors |-> 0]

\* The entries up to the first DT_NULL, that included.
UpToNull(es) ==
    LET nulls == {i \in DOMAIN es : es[i].tag = "NULL"}
    IN  Min({Len(es)} \cup nulls)

\* get_entries_num: counted once, unless there was nothing to count.
CountOf(a) == IF entries_num[a] = 0 THEN UpToNull(entries) ELSE entries_num[a]

\* generic_add_entry_dyn.
Stored(tag, value) == [tag |-> tag, value |-> IF tag \in Valueless THEN 0 ELSE value]

\* Mutant: the place is that of the string before.
PlaceBefore(strs) == IF Len(strs) = 1 THEN 1 ELSE Len(strs) - 1

\* add_string returns the place of what it has appended.
PlaceOf(strs) == Len(strs)

AddEntry(tag, value) ==
    /\ Len(entries) < MaxEntries
    /\ tag \in OfString => value \in DOMAIN strings
    /\ entries' = Append(entries, Stored(tag, value))
    /\ added' = Append(added, IF tag \in OfString THEN strings[value]
                              ELSE IF tag \in Valueless THEN 0 ELSE value)
    /\ UNCHANGED <<strings, entries_num, required, counted>>

\* The form with a string adds it to the string section and keeps its place.
AddStringEntry(tag, str) ==
    /\ Len(entries) < MaxEntries
    /\ strings' = Append(strings, str)
    /\ entries' = Append(entries, Stored(tag, PlaceOf(strings')))
    /\ added' = Append(added, str)
    /\ UNCHANGED <<entries_num, required, counted>>

\* Any call that reads: get_entries_num, and get_entry, which calls it.
Count(a) ==
    /\ entries_num' = [entries_num EXCEPT ![a] = CountOf(a)]
    /\ counted' = [counted EXCEPT ![a] = IF entries_num[a] = 0 THEN Len(entries) ELSE @]
    /\ UNCHANGED <<entries, strings, required, added>>

\* generic_get_entry_dyn: whatever a valueless entry holds reads as 0.
Read(e) == IF e.tag \in Valueless THEN [e EXCEPT !.value = 0] ELSE e

\* get_entry, index counted from 1.
GetEntry(i) ==
    LET e == Read(entries[i])
    IN  [tag |-> e.tag, value |-> e.value,
         str |-> IF e.tag \in OfString THEN strings[e.value] ELSE ""]

\* A new accessor in the place of one that was used.
Reopen(a) ==
    /\ entries_num' = [entries_num EXCEPT ![a] = 0]
    /\ counted' = [counted EXCEPT ![a] = 0]
    /\ UNCHANGED <<entries, strings, required, added>>

\* The loop breaks at the first one.
Chosen(found) == Min(found)

\* versym_r_section_accessor: the first DT_VERNEEDNUM that can be seen.
OpenRequirements ==
    LET stated == {i \in 1 .. UpToNull(entries) : entries[i].tag = "VERNEEDNUM"}
    IN  /\ required' = IF stated = {} THEN 0 ELSE entries[Chosen(stated)].value
        /\ UNCHANGED <<entries, strings, entries_num, counted, added>>

Next ==
    \/ \E tag \in Tags, value \in Values : AddEntry(tag, value)
    \/ \E tag \in OfString, str \in Strs : AddStringEntry(tag, str)
    \/ \E a \in Accessors : Count(a) \/ Reopen(a)
    \/ OpenRequirements

Spec == Init /\ [][Next]_vars
-----------------------------------------------------------------------------
\* An accessor misses an entry of the list only if that was added after it had
\* counted, and not even then if there was nothing to count.
MissesOnlyLater ==
    \A a \in Accessors : CountOf(a) < UpToNull(entries) =>
        counted[a] > 0 /\ CountOf(a) = counted[a] /\ counted[a] < Len(entries)

\* get_entry gives an accessor, new or stale, what the caller meant when the
\* entry was added: the string of an entry that has one, however many entries
\* and strings have been added since.
MeansWhatWasAdded ==
    \A a \in Accessors : \A i \in 1 .. CountOf(a) :
        LET e == GetEntry(i) IN (IF e.tag \in OfString THEN e.str ELSE e.value) = added[i]

\* The number of requirements is one the dynamic section states where it can be
\* seen, and the first such statement at that: none is added before it.
FirstStated ==
    required > 0 => \E i \in 1 .. UpToNull(entries) :
        /\ entries[i] = [tag |-> "VERNEEDNUM", value |-> required]
        /\ \A j \in 1 .. i - 1 : entries[j].tag # "VERNEEDNUM"

\* Accessors that count once and keep the count, while any of them adds, see
\* what was meant, up to a place that nothing but a later addition is behind.
ReadsAsAdded == MissesOnlyLater /\ MeansWhatWasAdded /\ FirstStated
=============================================================================
