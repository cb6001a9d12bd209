------------------------- MODULE AssemblyProperties -------------------------
(***************************************************************************)
(* What a run of the assembler promises about a source file, read off the  *)
(* text of the file alone, and what it does with any file at all.          *)
(***************************************************************************)
EXTENDS Assembly, SequencesExt

Movs == {p \in 1 .. Len(text) : Assembles(p)}
Loads == {p \in 1 .. Len(text) : At(p) = "load"}
Variables == {p \in 1 .. Len(text) : At(p) \in {"var", "sub"}}

\* The rank of position p among the positions S.
Rank(S, p) == Cardinality({q \in S : q <= p})

MovsBefore(p) == Cardinality({q \in 1 .. p - 1 : At(q) \in {"mov", "load"}})
VarsUpTo(p) == Cardinality({q \in 1 .. p : At(q) = "var"})
LastItem(p) == Max({0} \cup {q \in 1 .. p - 1 : At(q) # "nl"})

\* The programs both passes handle: a header, lines of code, comment lines and
\* declarations, each subset variable right behind its main variable or another
\* subset of it with at most blank lines between, its value written as 0x..
\* without letters, and a blank line at the end.  The origin is above every id.
Ordinary ==
    /\ At(1) = "use16" /\ EndsInBlankLine
    /\ \A p \in 2 .. Len(text) :
          /\ At(p) \in {"org", "nl", "mov", "load", "var", "sub", "cmt"}
          /\ At(p) = "org" => p = 3
          /\ At(p) = "cmt" => At(p - 1) = "nl"
          /\ At(p) = "var" => text[p].value # "over"
          /\ At(p) = "sub" => text[p].value = "hex"
          /\ At(p) = "sub" => LastItem(p) > 0 /\ At(LastItem(p)) \in {"var", "sub"}
    /\ Variables # {} => At(3) = "org" /\ text[3].value >= Cardinality(Variables)

WellFormed == Ordinary /\ Cardinality(Variables) < Byte

\* The entry the table gives the declaration at p: which main variable it is or
\* belongs to, and which of its subset variables it is.
EntryOf(p) ==
    LET i == VarsUpTo(p)
    IN  <<i - 1, Cardinality({q \in Variables : q <= p /\ VarsUpTo(q) = i}) - 1>>

\* The declaration before position p, or 0.
DeclarationBefore(p) == Max({0} \cup {q \in Variables : q < p})

\* The declarations right behind a block of code that is not the first one, when
\* there was one before the declaration that precedes it.
BehindLaterCode ==
    {p \in Variables : LET before == MovsBefore(DeclarationBefore(p))
                       IN  before > 0 /\ MovsBefore(p) > before}

BytesBefore(p) ==
    UNION {{q} \X (1 .. Bytes(text[q].size)) : q \in {q \in Variables : q < p}}

\* Where a declaration is placed: behind the code and the variables before it,
\* but pass 1 sees each such block of code a byte short.
Place(p) ==
    origin + 3 * MovsBefore(p) + Cardinality(BytesBefore(p))
        - Cardinality({q \in BehindLaterCode : q <= p})

\* No address is too large for the usint16 that holds it.
Fits == \A p \in Variables : Place(p) < Word

-----------------------------------------------------------------------------
\* parser.hpp and preprocessor.hpp walk the text twice in different ways; for a
\* well-formed file the table that comes out holds every declaration, in order,
\* at the place its distance from the origin gives it.
TablesMatchText ==
    WellFormed /\ Fits /\ phase \in {"emit", "stopped"} =>
        /\ DOMAIN metadata = {EntryOf(p) : p \in Variables}
        /\ Cardinality(DOMAIN metadata) = Cardinality(Variables)
        /\ \A p \in Variables :
              metadata[EntryOf(p)] = [name |-> text[p].name, size |-> text[p].size,
                                      address |-> Place(p)]

\* variable_id is a usint8 and presents 0 again behind the last of its values,
\* when the ids of the first variables have become addresses: of a table that
\* outgrows it, the first Byte declarations are placed as ever and each later
\* one keeps its ordinal for an address.
LaterKeepOrdinals ==
    Ordinary /\ Fits /\ phase \in {"emit", "stopped"} =>
        \A p \in Variables : LET j == Rank(Variables, p) IN
            metadata[EntryOf(p)].address = IF j <= Byte THEN Place(p) ELSE j - 1

\* test.bin of any file, finished or not, encodes the instructions of the file
\* from the first one on: none is emitted twice, skipped or out of order.  A
\* high byte as a source is assembled as the number its letters spell.
EmittedInOrder ==
    /\ Len(bin_data) <= Cardinality(Movs)
    /\ \A p \in Movs : Rank(Movs, p) <= Len(bin_data) =>
          \E opcode \in Opcodes(text[p].reg) :
              bin_data[Rank(Movs, p)] = Encoded(opcode, text[p])

\* An operand no pass can take is reported by pass 1, before test.bin has any
\* bytes (preprocessor.hpp:137, :170); pass 2 meets it only where pass 1 does not
\* look: on the last line, or in a file in which no code was seen.
RefusedBeforeBytes ==
    outcome \in {"InvalidToken", "InvalidDigit", "InvalidCombination"} /\ bin_data # <<>> =>
        ~has_code \/ \A p \in 1 .. Len(text) : Refused(p) => Line(p) = max_line

\* Of any file that is assembled to its end both passes take every instruction
\* before the last line: three bytes are counted for each, two are written.  The
\* one on the last line each pass takes or leaves on its own, and where no code
\* was seen pass 1 counts none and pass 2 writes one at most.
PassesAgree ==
    outcome = "assembled" =>
        LET before == Cardinality({p \in Movs : Line(p) # max_line})
            last == Cardinality({p \in 1 .. Len(text) : At(p) \in Code /\ Line(p) = max_line})
        IN  /\ Len(bin_data) \in {before, before + last}
            /\ \A i \in DOMAIN bin_data : Len(bin_data[i]) = 2
            /\ IF has_code THEN \E n \in {before, before + last} :
                                   counters = IF n = 0 THEN 0 ELSE 1 + 3 * n
               ELSE counters = 0 /\ Len(bin_data) <= 1

\* A well-formed file without a load is assembled to its last instruction and
\* never refused.
NothingLost ==
    WellFormed /\ phase = "stopped" /\ (\A p \in 1 .. Len(text) : At(p) # "load") =>
        outcome = "assembled" /\ Len(bin_data) = Cardinality(Movs)

\* What a load reports is the place and the size the text gives the first
\* variable of that name, or the main variable that owns it: looked up by name
\* and then by address, neither lookup meets another variable.
LoadReportsItsVariable ==
    WellFormed /\ Fits /\ printed # <<>> =>
        LET p == Min({q \in Variables : text[q].name = text[Min(Loads)].name})
            owner == Max({q \in 1 .. p : At(q) = "var"})
        IN  printed = [address |-> Place(owner), size |-> text[owner].size]

\* With a well-formed file the table reads past its end only when a subset
\* variable is placed behind the last main variable.
OnlyTrailingSubsetsReadPastEnd ==
    WellFormed /\ Fits /\ phase = "undefined" => At(Max(Variables)) = "sub"

\* The loops that never end: the check of a file that ends in a bare directive, a
\* pass that stands at a word or a sign it neither knows nor passes over, which
\* behind a declaration it does, and usint8 counters over a full table.
SpinsOnlyWhen ==
    phase = "spinning" =>
        \/ CheckSpins
        \/ At(position) \in Strays /\ ~OnDeclaration(position)
        \/ At(position) = "junk" /\ position = 1
        \/ bit16_length >= Byte
        \/ \E i \in DOMAIN subset_variables_count : subset_variables_count[i] >= Byte

\* A well-formed file comes to its end.
Settles == WellFormed ~> outcome \in {"assembled", "EXIT_FAILURE", "UnknownError"}
                            \/ phase = "undefined"

-----------------------------------------------------------------------------
(***************************************************************************)
(* What the comments of the source say and the code does not do.           *)
(***************************************************************************)

\* preprocessor.hpp:63, of the operand between the brackets: "Make sure it's not
\* a register token value."
RegisterIsNoMemory ==
    outcome = "EXIT_SUCCESS" =>
        ~\E p \in 1 .. Len(text) :
            At(p) = "store" /\ text[p].into \in {"low", "high", "wide"}

=============================================================================
