------------------------------ MODULE ElfNotes ------------------------------
(***************************************************************************)
(* The notes of a section, elfio_note.hpp.  The section is a sequence of   *)
(* words.  A note is the sizes in bytes of its name (with the NUL) and of  *)
(* its description, its type, and the padded name and description; nothing *)
(* marks where a note begins, so a size that is not that of what follows   *)
(* it puts every later note out of step.                                   *)
(***************************************************************************)
EXTENDS Integers, Sequences, SequencesExt, Functions

CONSTANTS
    Accessors,  \* note_section_accessors of the one section
    NameSizes,  \* sizes of names, with their NUL
    DescSizes,  \* sizes of descriptions
    Fillers,    \* what the words of a description hold
    Types,
    Loaded,     \* contents the section may have been loaded with
    MaxWords    \* bound: words of the section

Text == 1000  \* a word of letters, larger than any size here

VARIABLES
    words,   \* the section
    starts,  \* [Accessors -> note_start_positions, in words]
    notes,   \* history: the notes added
    at,      \* history: where each began
    hollow,  \* history: a note was added with a size but no description
    whole    \* history: the section was loaded with nothing but whole notes

vars == <<words, starts, notes, at, hollow, whole>>

Bytes == 4 * Len(words)
Padded(n) == (n + 3) \div 4

\* The words a note says it takes.
Advance(ws, p) == 3 + Padded(ws[p + 1]) + Padded(ws[p + 2])

\* process_section takes a note that lies in the section, the last included.
Counted(ws, p) ==
    /\ p + 3 <= Len(ws)
    /\ ws[p + 1] < 4 * Len(ws) /\ ws[p + 2] < 4 * Len(ws)
    /\ p + Advance(ws, p) <= Len(ws)

\* process_section: note after note until one does not fit; p[k] is where the
\* k-th attempt looks, or -1 behind the first failure.
Process(ws) ==
    LET p[k \in 1 .. Len(ws) + 1] ==
            IF k = 1 THEN 0
            ELSE IF p[k - 1] >= 0 /\ Counted(ws, p[k - 1])
                 THEN p[k - 1] + Advance(ws, p[k - 1]) ELSE -1
    IN  [k \in {k \in DOMAIN p : p[k] >= 0 /\ Counted(ws, p[k])} |-> p[k]]

NameWords(n) ==
    [k \in 1 .. Padded(n) |-> IF k = Padded(n) /\ n % 4 = 1 THEN 0 ELSE Text]

DescWords(n, w) == [k \in 1 .. Padded(n) |-> w]

Note(type, n, d, filler) == [type |-> type, name |-> NameWords(n), size |-> d, desc |-> DescWords(d, filler)]

\* What precedes the word where the loaded notes cease to be whole.
Broken(ws) ==
    LET ps == Process(ws)
    IN  IF ps = <<>> THEN ws # <<>> ELSE Last(ps) + Advance(ws, Last(ps)) # Len(ws)

Init ==
    /\ words \in Loaded
    /\ starts = [a \in Accessors |-> Process(words)]
    /\ notes = <<>> /\ at = <<>> /\ hollow = FALSE /\ whole = ~Broken(words)

\* Mutant: a whole word of padding follows a name that needs none.
NamePadded(n) == NameWords(n) \o (IF n % 4 = 0 THEN <<0>> ELSE <<>>)

NameOf(n) == NameWords(n)

\* The position is asked for before the note is appended.
StartOf(new) == Len(words)

\* add_note.  Without a description nothing is written for it, whatever its size.
AddNote(a, type, n, d, filler, null) ==
    LET new == <<n, d, type>> \o NameOf(n) \o (IF null THEN <<>> ELSE DescWords(d, filler))
    IN  /\ Len(words) + Len(new) <= MaxWords
        /\ words' = words \o new
        /\ starts' = [starts EXCEPT ![a] = Append(@, StartOf(new))]
        /\ notes' = Append(notes, Note(type, n, d, filler))
        /\ at' = Append(at, Len(words))
        /\ hollow' = (hollow \/ (null /\ d > 0))
        /\ UNCHANGED whole

\* The constructor, for an accessor used from here on.
Reopen(a) ==
    /\ starts' = [starts EXCEPT ![a] = Process(words)]
    /\ UNCHANGED <<words, notes, at, hollow, whole>>

Readable(p) ==
    LET left == Bytes - 4 * p
    IN  words[p + 1] >= 1 /\ words[p + 1] <= left /\ words[p + 1] + words[p + 2] <= left

\* get_note where Readable says it returns true: what of the note is in the section.
GetNote(p) ==
    LET name == Padded(words[p + 1])
    IN  [type |-> words[p + 3], name |-> SubSeq(words, p + 4, p + 3 + name),
         size |-> words[p + 2],
         desc |-> SubSeq(words, p + 4 + name, p + 3 + name + Padded(words[p + 2]))]

Next ==
    \E a \in Accessors :
        \/ \E type \in Types, n \in NameSizes, d \in DescSizes, filler \in Fillers, null \in BOOLEAN :
              AddNote(a, type, n, d, filler, null)
        \/ Reopen(a)

Spec == Init /\ [][Next]_vars
-----------------------------------------------------------------------------
\* get_note, for any index that get_notes_num allows, looks at nothing behind
\* the section, however the section was filled; the description of a hollow
\* note is the one exception, which get_note's own check lets pass.
ReadsInside ==
    \A a \in Accessors : \A p \in Range(starts[a]) : Readable(p) =>
        /\ p + 3 + Padded(words[p + 1]) <= Len(words)
        /\ p + Advance(words, p) <= Len(words) \/ hollow

\* An accessor opened now finds every note that was added, in order and with
\* what it was added with, unless a hollow note has put the rest out of step or
\* the section was loaded with a note that is cut short.
ReopenedSeesAll ==
    whole /\ ~hollow =>
        LET ps == Process(words)
            own == SubSeq(ps, Len(ps) - Len(at) + 1, Len(ps))
        IN  Len(at) <= Len(ps) /\ own = at /\ \A i \in DOMAIN at : GetNote(at[i]) = notes[i]

\* get_note reads no note but whole ones, and misses none.
NotesAreWhole == ReadsInside /\ ReopenedSeesAll
=============================================================================
