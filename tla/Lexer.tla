------------------------------- MODULE Lexer -------------------------------
(***************************************************************************)
(* The lexer of backend/lexer.hpp character by character: its cursor, the  *)
(* check of the whole file that the first call of try_get_token makes, and *)
(* the lookups of tokens.  Scanner says what the lookups come to for the   *)
(* items of a file; here is how the cursor gets there, where the lines and *)
(* columns it counts on the way are right, and what happens at the end of  *)
(* the buffer, behind which lies one byte of somebody else.                *)
(***************************************************************************)
EXTENDS Integers, Sequences, FiniteSets, FiniteSetsExt

CONSTANTS
    Alphabet,    \* characters of a file, of those named below
    MaxSize,     \* bound: characters of a file
    Behind,      \* what the byte behind the buffer may be, 0 included
    Columns,     \* values of line_index, a usint8: 256
    Tokens,      \* [kind of token -> the words that are tokens of that kind]
    MaxLine      \* bound: line count behind which the model stops

ASSUME ColumnsAssumption == Columns \in Nat /\ Columns >= 2
ASSUME TokensAssumption ==
    DOMAIN Tokens = {"instruction", "datatype", "register", "general", "grammar"}
ASSUME WordsAssumption == \A kind \in DOMAIN Tokens : \A word \in Tokens[kind] : 2 * Len(word) <= Columns

Nul == "0"        \* the character 0
Newline == "n"
Blanks == {" ", Newline}  \* a tab is as good as a blank
Letters == {"m", "b", "x", "h"}
HexLetters == {"b"}
Digits == {"1"}
Specials == Digits \cup {"_"}
RestOfLine == Letters \cup Specials \cup {" ", ";", "!", ".", ",", "["}
Wild == "wild"    \* whatever lies at an index of 2^64 less a few

\* What try_get_token is asked for: a token of a kind; a declaration, which is
\* searched for; a name, which has none to be known by (var_needs_expl); and a
\* data type that may stand behind a bracket (skip_a_val).
Declarers == {"variable", "name"}
Kinds == DOMAIN Tokens \cup Declarers \cup {"operand"}
Errors == {"invalid digit", "invalid token", "no indicator", "invalid newline"}

VARIABLES
    text,          \* assembly_data
    behind,        \* the byte behind it
    index,         \* counted from 1
    current_char,
    line,
    line_index,    \* the column, followed as far as the check looks at it
    phase,         \* "new", "check", "idle", or how the program ended
    found,         \* what the last call of try_get_token returned
    looked,        \* history: positions whose words the check has looked at
    ended          \* history: the end of the file was met since the cursor was at the top

vars == <<text, behind, index, current_char, line, line_index, phase, found, looked, ended>>

Size == Len(text)
Byte(i) == IF i <= Size THEN text[i] ELSE behind
seek_and_return(i, n) == Byte(Min({i + n, Size + 1}))

\* The last index lexer_advance reaches.  To be behind it is to be at the end,
\* where current_char is 0 and the index is still Last.
Last == IF behind = Nul THEN Size ELSE Size + 1
End == Last + 1
Position == IF current_char = Nul THEN End ELSE index

\* Where lexer_advance gets to while the character is among chars.
SkipFrom(p, chars) == Min({End} \cup {q \in p .. Last : Byte(q) \notin chars})

Newlines(from, to) == {j \in from .. to : Byte(j) = Newline}

\* A newline is counted when it is left, on the way from one position to another.
LinesLeft(from, to) == Cardinality(Newlines(from, Min({to, Last}) - 1))

\* Mutant: column 0 is that of the newline.
ColumnBehind(column, from, to) ==
    LET left == Newlines(from, Min({to, Last}) - 1)
    IN  (IF left = {} THEN column + Min({to, Last}) - from ELSE Min({to, Last}) - Max(left)) % Columns

\* The column is that behind the newline left last.
ColumnAt(column, from, to) ==
    LET left == Newlines(from, Min({to, Last}) - 1)
    IN  (IF left = {} THEN column + Min({to, Last}) - from ELSE Min({to, Last}) - 1 - Max(left)) % Columns

WordChars(special) == Letters \cup (IF special THEN Specials ELSE {})

\* get_keyword: a letter and what may follow it.
KeywordEnd(p, special) ==
    IF p <= Last /\ Byte(p) \in Letters THEN SkipFrom(p, WordChars(special)) ELSE p
Word(from, end) == [i \in 1 .. end - from |-> Byte(from + i - 1)]

\* Mutant: it goes back one character less.
BackShort(end, n) == IF n = 0 THEN Min({end, Last}) ELSE Min({end, Last}) - n + 1

\* Mutant: it goes back over the character behind the word as well.
BackFar(end, n) == Min({end, Last}) - n - 1

\* lexer_go_back_x over a word that ended at end.  At the end of the file the
\* index is that of the last character, and the word begins one behind where it
\* comes to stand.  The index is unsigned: its test always holds, and what lies
\* before the first character is far behind the last.
Back(end, n) == Min({end, Last}) - n

\* Mutant: only the index and the character are set back.
TopSameLine == [at |-> 1, line |-> line]

\* reset_lexer_data: a newline that opens the file is counted twice.
Top == IF text[1] = Newline THEN [at |-> 2, line |-> 3] ELSE [at |-> 1, line |-> 1]

-----------------------------------------------------------------------------
\* A call ends at a position, having advanced to another one, with a token.
Result(at, to, token) == [at |-> at, to |-> to, token |-> token]
EndsAt(p, token) == Result(p, p, token)

\* skip_comment: comment lines that follow each other directly.
CommentsEnd(p) ==
    LET f[q \in 1 .. End] ==
            IF q < End /\ Byte(q) = ";" THEN f[SkipFrom(SkipFrom(q, RestOfLine), {Newline})] ELSE q
    IN  f[p]

\* svd: declaration lines, with their indentation and over empty lines.  The
\* end of the file is seen behind a declaration, but not behind empty lines.
AtDeclaration(p) == p < End /\ Byte(p) \in {"!", "."}
LineBehind(p) == SkipFrom(Min({SkipFrom(p, RestOfLine), Last}) + 1, {" "})
Declarations(p) ==
    LET f[q \in 1 .. End] ==
            CASE ~AtDeclaration(q) -> EndsAt(q, "none")
              [] AtDeclaration(q) /\ LineBehind(q) = End -> EndsAt(End, "eof")
              [] OTHER -> f[SkipFrom(LineBehind(q), {Newline, " "})]
    IN  f[p]

\* A word that is no token of the kind is gone back over.
LookUpWord(p, kind) ==
    LET end == KeywordEnd(p, kind = "general")
    IN  IF Word(p, end) \in Tokens[kind] THEN EndsAt(end, kind)
        ELSE Result(Back(end, end - p), end, "none")

\* get_hexadecimal, behind two characters of which the second is x, and get_decimal.
LookUpNumber(p) ==
    LET chars == Digits \cup HexLetters
        digits == SkipFrom(p, chars)
        h == digits < End /\ Byte(digits) = "h"
    IN  IF seek_and_return(p, 1) = "x" THEN EndsAt(IF p + 1 > Size THEN End ELSE SkipFrom(p + 2, chars), "hex")
        ELSE EndsAt(IF h THEN digits + 1 ELSE digits,
                    IF Byte(p) \in Digits THEN "dec" ELSE IF h THEN "hex" ELSE "no indicator")

\* A data type, or a number where no word stands.
DataTypeAt(p) ==
    LET w == LookUpWord(p, "datatype")
    IN  IF w.token = "none" /\ w.at >= 1 /\ Byte(w.at) \in Digits \cup HexLetters
        THEN LookUpNumber(w.at) ELSE w

\* get: the name behind one character, empty or not, and something behind it.
DeclaredAt(p) ==
    LET end == KeywordEnd(Min({p + 1, End}), TRUE)
    IN  EndsAt(end, IF end = End \/ Byte(end) = Newline THEN "invalid newline" ELSE "variable")

\* Mutant: a main variable behind a comment is missed like a subset one.
SearchForBehindComments(p) ==
    LET f[q \in 1 .. End] ==
            LET at == CommentsEnd(SkipFrom(q, RestOfLine \ {"!", ";"}))
            IN  IF at = End THEN Result(Top.at, End, "top")
                ELSE IF AtDeclaration(at + 1) THEN DeclaredAt(at + 1) ELSE f[at + 1]
    IN  f[p]

\* redo: from newline to newline, to a character behind one that is ! or . or,
\* behind comments, to a !.  One further down its line is itself passed over.
\* At the end of the file the cursor is set to the top.
SearchFor(p) ==
    LET f[q \in 1 .. End] ==
            LET stop == SkipFrom(q, RestOfLine \ {"!", ";"})
                at == CommentsEnd(stop)
            IN  IF at # stop /\ "!" \in {Byte(at), seek_and_return(Min({at, Last}), 1)}
                THEN DeclaredAt(at)
                ELSE IF at = End THEN Result(Top.at, End, "top")
                ELSE IF AtDeclaration(at + 1) THEN DeclaredAt(at + 1) ELSE f[at + 1]
    IN  f[p]

\* What is looked for where neither a comment nor a declaration stands, or a
\* declaration is asked for.
ItemAt(p, kind) ==
    CASE p = End /\ kind \in {"general", "register"} -> EndsAt(End, "eof")
      [] kind = "grammar" ->
            IF p < End /\ Byte(p) = "," THEN EndsAt(p + 1, kind) ELSE EndsAt(p, "invalid token")
      [] kind = "variable" -> IF AtDeclaration(p) THEN DeclaredAt(p) ELSE SearchFor(p)
      [] kind = "name" ->
            EndsAt(KeywordEnd(IF p < End /\ Byte(p) \notin Letters THEN p + 1 ELSE p, TRUE), kind)
      [] kind = "datatype" -> DataTypeAt(p)
      [] kind = "operand" -> DataTypeAt(IF p < End /\ Byte(p) = "[" THEN p + 1 ELSE p)
      [] OTHER -> LookUpWord(p, kind)

\* try_get_token behind the blanks; override leaves declarations where they are,
\* as does asking for one.
TokenAt(p, kind, override) ==
    CASE p < End /\ Byte(p) = ";" -> EndsAt(CommentsEnd(p), IF CommentsEnd(p) = End THEN "eof" ELSE "none")
      [] AtDeclaration(p) /\ ~override /\ kind \notin Declarers ->
            IF Declarations(p).token = "eof" THEN EndsAt(End, "eof") ELSE ItemAt(Declarations(p).at, kind)
      [] OTHER -> ItemAt(p, kind)

\* try_get_token once the file has been checked.
Token(p, kind, override) ==
    CASE p = End -> EndsAt(p, "eof")
      [] p < End /\ Byte(p) \in Digits -> EndsAt(p, "invalid digit")
      [] OTHER -> TokenAt(SkipFrom(p, Blanks), kind, override)

\* How a call that began at p with that many lines counted leaves the cursor.
Leave(p, lines, r) ==
    LET to == Max({r.to, r.at})
    IN  /\ index' = IF r.at < 1 THEN 0 ELSE Min({r.at, Last})
        /\ current_char' = IF r.at < 1 THEN Wild ELSE IF r.at = End THEN Nul ELSE Byte(r.at)
        /\ line' = IF r.token = "top" THEN Top.line ELSE lines + LinesLeft(p, to)
        /\ ended' = (r.token # "top" /\ (ended \/ to = End))
        /\ found' = r.token
        /\ phase' = CASE r.token \in Errors -> "error" [] r.at < 1 -> "wild" [] OTHER -> "idle"

Init ==
    /\ text \in UNION {[1 .. n -> Alphabet] : n \in 2 .. MaxSize} /\ behind \in Behind
    /\ index = 1 /\ current_char = text[1] /\ line = 1 /\ line_index = 1 % Columns
    /\ phase = "new" /\ found = "none" /\ looked = {} /\ ended = FALSE

\* lexer_advance to a position, in the check.
Advance(from, to) ==
    /\ index' = Min({to, Last})
    /\ current_char' = IF to = End THEN Nul ELSE Byte(to)
    /\ line' = line + LinesLeft(from, to)
    /\ line_index' = ColumnAt(line_index, from, to)
    /\ ended' = (ended \/ to = End)

\* The first call skips blanks before it checks the file.
BeginCheck ==
    /\ phase = "new"
    /\ \/ /\ text[1] \in Digits
          /\ phase' = "error" /\ UNCHANGED <<index, current_char, line, line_index, ended>>
       \/ /\ text[1] \notin Digits
          /\ phase' = "check" /\ Advance(1, SkipFrom(1, Blanks))
    /\ UNCHANGED <<text, behind, found, looked>>

Known(word) == \E kind \in DOMAIN Tokens : word \in Tokens[kind]

LooksAtWord == phase = "check" /\ line_index = 0 /\ current_char \in Letters

\* Mutant: the last character is checked as well.
MoreToTheEnd == phase = "check" /\ index <= Size /\ line <= MaxLine

MoreToCheck == phase = "check" /\ index < Size /\ line <= MaxLine

\* A round of the check where a word stands in column 0.  A known one is gone
\* back over, the line_index staying, and its first character left.
LookAtWord ==
    LET end == KeywordEnd(index, TRUE)
        back == Back(end, end - index)
    IN  /\ MoreToCheck /\ LooksAtWord
        /\ looked' = looked \cup {index}
        /\ ended' = (ended \/ end = End)
        /\ \/ /\ ~Known(Word(index, end))
              /\ phase' = "unknown" /\ UNCHANGED <<index, current_char, line, line_index>>
           \/ /\ Known(Word(index, end)) /\ back < 1
              /\ phase' = "wild" /\ index' = 0 /\ current_char' = Wild /\ UNCHANGED <<line, line_index>>
           \/ /\ Known(Word(index, end)) /\ back >= 1
              /\ index' = back + 1 /\ current_char' = Byte(back + 1)
              /\ line' = line + LinesLeft(back, back + 1)
              /\ line_index' = ColumnAt(ColumnAt(line_index, index, end), back, back + 1)
              /\ UNCHANGED phase
        /\ UNCHANGED <<text, behind, found>>

CheckRound ==
    /\ MoreToCheck /\ ~LooksAtWord
    /\ Advance(index, index + 1)
    /\ UNCHANGED <<text, behind, phase, found, looked>>

\* Only general tokens and data types are asked for with override.
Overridden == {"general", "datatype"}

\* Then the first call looks up its token at the top of the file.
EndCheck(kind, override) ==
    /\ override => kind \in Overridden
    /\ phase = "check" /\ ~MoreToCheck /\ line <= MaxLine
    /\ \E r \in {TokenAt(Top.at, kind, override)} : Leave(Top.at, Top.line, r)
    /\ line_index' = 0
    /\ UNCHANGED <<text, behind, looked>>

TryGetToken(kind, override) ==
    /\ override => kind \in Overridden
    /\ phase = "idle" /\ line <= MaxLine
    /\ \E r \in {Token(Position, kind, override)} : Leave(Position, line, r)
    /\ UNCHANGED <<text, behind, line_index, looked>>

Check ==
    \/ BeginCheck \/ CheckRound \/ LookAtWord
    \/ \E kind \in Kinds, override \in BOOLEAN : EndCheck(kind, override)

Next == Check \/ \E kind \in Kinds, override \in BOOLEAN : TryGetToken(kind, override)

Spec == Init /\ [][Next]_vars /\ WF_vars(Check)
-----------------------------------------------------------------------------
NewlinesBefore(i) == Cardinality({j \in 1 .. i - 1 : text[j] = Newline})
LineStart(i) == i > 1 /\ text[i - 1] = Newline
IsWord(i) == Byte(i) \in WordChars(TRUE)

\* The line an error would name is the line the cursor stands in, one too many
\* in a file that begins with an empty line, as long as the end of the file has
\* not been met: from there words are gone back over one character too far, onto
\* a newline that is then counted again.
LineIsRight ==
    phase = "idle" /\ ~ended =>
        line = 1 + NewlinesBefore(index) + (IF text[1] = Newline THEN 1 ELSE 0)

\* The check looks at every word that opens a line behind the first, except that
\* it never looks at the last character of the file; and at nothing else, unless
\* the line is so long that its columns begin anew: that happens after Columns
\* characters, those of the line's first word counted twice.
CheckLooksAtLines ==
    /\ phase = "idle" => \A i \in 2 .. Size - 1 : LineStart(i) /\ text[i] \in Letters => i \in looked
    /\ \A i \in looked : LineStart(i) \/ \E s \in 1 .. i - 1 :
          (\A j \in s .. i - 1 : text[j] # Newline) /\ 2 * (i - s) >= Columns

\* The check of the file comes to an end, or a word it has looked at is the last
\* of the file: that is gone back over onto the newline before it, for ever.
CheckEnds == <>(phase \notin {"new", "check"} \/ \E i \in looked : \A j \in i .. Size : IsWord(j))

\* Asking for a token that is not there does no harm where it moves the cursor:
\* the same token is found behind it as would have been without, unless
\*   - the call was a search for a declaration, which ends at the top ("top"),
\*   - the end of the file was met,
\*   - the call has skipped a comment, a bracket in front of a data type, or
\*     declarations, one of which is asked for behind it, or
\*   - it ended in front of a number, which no call may begin with, or of a
\*     comment behind a declaration.
FruitlessIsHarmless ==
    phase = "idle" => \A k1 \in Kinds \ {"grammar"} :
        LET first == Token(Position, k1, FALSE)
            next == SkipFrom(Position, Blanks)
            bracket == k1 = "operand" /\ first.at # Token(Position, "datatype", FALSE).at
        IN  \/ first.token # "none" \/ first.at = Position \/ first.to = End
            \/ Byte(next) = ";" \/ bracket
            \/ Byte(first.at) \in Digits \cup {";"}
            \/ \A k2 \in Kinds \ {"grammar"} :
                  LET second == Token(first.at, k2, FALSE)
                      alone == Token(Position, k2, FALSE)
                  IN  \/ AtDeclaration(next) /\ k2 \in Declarers
                      \/ second.token = alone.token /\ second.at = alone.at

\* A search for a declaration that ends at the top has left none behind it that
\* opens a line, but for a subset variable that stands behind a comment.
NoDeclarationMissed ==
    phase = "idle" /\ Token(Position, "variable", FALSE).token = "top" =>
        \A i \in SkipFrom(Position, Blanks) .. Last : LineStart(i) /\ AtDeclaration(i) =>
            Byte(i) = "." /\ \E j \in 1 .. i - 1 : Byte(j) = ";" /\ CommentsEnd(j) = i

\* However words are read and gone back over, no call leaves the cursor in front
\* of where it began, except one character in front of it once the end of the
\* file has been met, and a search for a declaration, which that sets to the top.
NoCallSlipsBack ==
    [][phase = "idle" =>
          \/ index' >= index
          \/ ended' /\ index' = index - 1
          \/ found' = "top" /\ index' = Top.at /\ line' = Top.line]_vars
=============================================================================
