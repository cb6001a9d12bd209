------------------------------ MODULE Scanner ------------------------------
(***************************************************************************)
(* The cursor of backend/lexer.hpp over one source file, at the level of   *)
(* the items the two passes of the assembler tell apart.                   *)
(*                                                                         *)
(* A file is a sequence of items, each a record with a `kind':             *)
(*   "nl"                      a newline                                   *)
(*   "use16", "use32", "org"   a directive (org with its operand, `value') *)
(*   "mov"                     mov reg, imm                                *)
(*   "load", "store"           mov reg, [name]  and  mov [name], source,   *)
(*                             source an immediate, a register or          *)
(*                             "memory"; `into' a "name", a register as in *)
(*                             a copy, or another "keyword"                *)
(*   "copy"                    mov reg, reg, `from' a "low" byte, a "high" *)
(*                             byte or a "wide" register, whose first      *)
(*                             letter is the digit `value'                 *)
(*   "bad"                     mov with a word that is no register or no   *)
(*                             value, or without its comma                 *)
(*   "var"                     !name size value                            *)
(*   "sub"                     the same with `.', indented by four blanks  *)
(*   "flush"                   the same with `.', in the first column      *)
(*   "cmt"                     a comment to the end of its line; behind    *)
(*                             another item a blank precedes it            *)
(*   "junk"                    an unknown word, in the first column        *)
(*   "stray"                   one that is indented or behind another item *)
(*   "sign"                    two or more signs no token begins with,     *)
(*                             anywhere on a line                          *)
(* An unknown word is two letters or more, the first no hexadecimal digit, *)
(* and no keyword; one that begins like a number is a number to the lexer  *)
(* and is not considered.  Items that are not "nl", "cmt", "stray" or      *)
(* "sign" start their lines.  A position is the index of the item the      *)
(* cursor stands at; End is the end of the file, where current_char is 0.  *)
(***************************************************************************)
EXTENDS Integers, Sequences, FiniteSets, FiniteSetsExt

VARIABLE text

Code == {"mov", "load", "store", "copy", "bad"}
Directives == {"use16", "use32", "org"}
Declarations == {"var", "sub", "flush"}
Strays == {"stray", "sign"}
Kinds == Code \cup Directives \cup Declarations \cup Strays \cup {"nl", "cmt", "junk"}

End == Len(text) + 1
At(p) == IF p = End THEN "end" ELSE text[p].kind

SkipAll(p, kinds) == Min({q \in p .. End : At(q) \notin kinds})
SkipNewlines(p) == SkipAll(p, {"nl"})
EndOfLine(p) == Min({q \in p .. End : At(q) \in {"nl", "end"}})

\* Mutant: the comment itself is not skipped.
SkipCommentsNot(p) == SkipAll(p, {"nl"})

\* skip_comment passes over a run of comments and stands at what follows.
SkipComments(p) == SkipAll(p, {"nl", "cmt"})

\* reset_lexer_data: a newline that opens the file is skipped and counted twice.
Start == IF At(1) = "nl" THEN 2 ELSE 1

\* lexer_advance counts a newline when it leaves it, which at the end of the
\* file it never does.
Line(p) ==
    Start + Cardinality({q \in 1 .. Min({p, Len(text)}) - 1 : At(q) = "nl"})
max_line == Line(End)

\* The item at q is a declaration or stands behind one on its line.
OnDeclaration(q) ==
    \E d \in 1 .. q : At(d) \in Declarations /\ \A i \in d .. q : At(i) # "nl"

\* Mutant: what trails a declaration on its line is not skipped.
SkipDeclarationsOnly(p) ==
    Min({q \in p .. End : At(q) \notin Declarations \cup {"nl", "cmt"}})

\* Declarations are skipped line by line with whatever trails them.
SkipDeclarations(p) ==
    Min({q \in p .. End : q = End \/ (At(q) # "nl" /\ ~OnDeclaration(q))})

EndsInBlankLine ==
    Len(text) > 1 /\ At(Len(text)) = "nl" /\ At(Len(text) - 1) = "nl"

\* What every try_get_token does before it looks for a token of its class, at
\* position p: it stops at the end of the file ("eof"), has skipped comments
\* and returns no token ("none"), has run out of text looking for a keyword and
\* steps back onto the last newline ("blank"), or stands at an item ("here").
Approach(p) ==
    LET q == SkipNewlines(p)
        Stop(at, token) == [at |-> at, token |-> token]
        Ends(at, found) == IF at = End THEN Stop(End, "eof") ELSE Stop(at, found)
    IN  IF p = End THEN Stop(End, "eof")
        ELSE IF q = End THEN Stop(Len(text), "blank")
        ELSE IF At(q) = "cmt" THEN Ends(SkipComments(q), "none")
        ELSE IF At(q) \notin Declarations THEN Stop(q, "here")
        ELSE IF SkipDeclarations(q) = End /\ EndsInBlankLine THEN Stop(Len(text), "blank")
        ELSE Ends(SkipDeclarations(q), "here")

\* Mutant: the rest of the line behind the comments is skipped with them.
FetchBehindLine(p) ==
    LET a == Approach(p)
    IN  IF a.token = "none" THEN [at |-> EndOfLine(a.at), token |-> "none"]
        ELSE [at |-> a.at,
              token |-> CASE a.token # "here" -> "eof"
                          [] At(a.at) \in Code -> "code"
                          [] At(a.at) \in Directives -> "directive"
                          [] OTHER -> "none"]

\* One round of both passes: an instruction, else a data type (which opens no
\* item), else a directive is looked for, each from where the last one stopped.
Fetch(p) ==
    LET instruction == Approach(p)
        dataType == Approach(instruction.at)
        general == Approach(dataType.at)
        Found(kinds, a) == a.token = "here" /\ At(a.at) \in kinds
    IN  IF instruction.token = "eof" THEN [at |-> End, token |-> "eof"]
        ELSE IF Found(Code, instruction) THEN [at |-> instruction.at, token |-> "code"]
        ELSE IF Found(Directives, general) /\ dataType.token # "eof"
        THEN [at |-> general.at, token |-> "directive"]
        ELSE IF general.token \in {"eof", "blank"} THEN [at |-> End, token |-> "eof"]
        ELSE [at |-> general.at, token |-> "none"]

AfterComment(q) ==
    \E c \in 1 .. q - 1 : At(c) = "cmt" /\ \A i \in c + 1 .. q - 1 : At(i) = "nl"

\* The items try_get_token<VariableDeclaration> can jump to from p: a subset
\* variable is missed when it is indented or when a comment precedes it.
DeclarationsAfter(p) ==
    {q \in p + 1 .. Len(text) :
        At(q) = "var" \/ (At(q) = "flush" /\ ~AfterComment(q))}

\* The declaration the parser reads next, or End when its loop ends.
NextDeclaration(p) ==
    LET q == SkipNewlines(p)
    IN  CASE At(q) \in {"end", "cmt"} -> End
          [] At(q) \in Declarations -> q
          [] OTHER -> Min(DeclarationsAfter(q) \cup {End})

\* Mutant: the comment lines behind a declaration are not skipped.
AfterDeclarationOnly(p) == SkipNewlines(p + 1)

\* Behind a declaration the parser skips newlines and then comments; a comment
\* on the declaration's own line stays.
AfterDeclaration(p) ==
    LET q == SkipNewlines(p + 1)
    IN  IF At(p + 1) = "nl" /\ At(q) = "cmt" THEN SkipComments(q) ELSE q

\* The check of the whole file looks at the word that opens a line, on every
\* line but the first, and never leaves a keyword that ends the file.
UnwantedValue == \E p \in 2 .. Len(text) : At(p) = "junk"
CheckSpins == Len(text) > 1 /\ At(Len(text)) \in {"use16", "use32"}

\* The scan of start_preprocessor: a letter at the start of a line behind a
\* newline, or one directly before a newline, counts as code.
EndsInLetter(p) ==
    \/ At(p) \in {"cmt", "junk", "stray", "copy"} \/ (At(p) = "bad" /\ text[p].operand = "value")
    \/ At(p) \in Declarations /\ text[p].value = "letter"
    \/ At(p) = "store" /\ text[p].source \notin {"imm", "memory"}
HasCode ==
    \E p \in Start .. Len(text) - 1 :
        \/ At(p) = "nl" /\ At(p + 1) \in Code \cup Directives \cup {"junk"}
        \/ At(p + 1) = "nl" /\ EndsInLetter(p)
=============================================================================
