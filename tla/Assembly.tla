------------------------------ MODULE Assembly ------------------------------
(***************************************************************************)
(* One run of the assembler over one source file: the constructors that    *)
(* main.cpp sets off, in the order they run.                               *)
(*                                                                         *)
(*   open     Preprocessor::Preprocessor: the check of the file, and the   *)
(*            directives of the first two lines                            *)
(*   declare  parser::parser, the loop over the variable declarations      *)
(*   scan     start_preprocessor up to preprocessor_checks                 *)
(*   assign   preprocessor_checks, pass 1: the program counter and the     *)
(*            addresses                                                    *)
(*   emit     parser_next, pass 2: the bytes of test.bin                   *)
(*                                                                         *)
(* and the ends a run can come to: "stopped" (outcome says how),           *)
(* "spinning" (a loop that never ends) and "undefined" (memory outside an  *)
(* object was used as if it belonged to it).                               *)
(***************************************************************************)
EXTENDS VariableTable, Scanner

CONSTANT Programs   \* the source files considered

\* They are sequences of items: behind another item of a line stand comments and
\* what no pass knows, and behind a comment nothing.
ASSUME ProgramsAssumption ==
    \A file \in Programs :
        /\ Len(file) \in Nat
        /\ \A p \in 1 .. Len(file) :
              /\ file[p].kind \in Kinds
              /\ file[p].kind \in {"mov", "copy", "org"} => file[p].value \in Nat
              /\ p > 1 /\ file[p].kind \notin Strays \cup {"nl", "cmt"} =>
                    file[p - 1].kind = "nl"
              /\ p > 1 /\ file[p].kind \in Strays => file[p - 1].kind # "cmt"

VARIABLES
    phase,
    outcome,            \* how a stopped run ended
    position,           \* of the lexer's cursor
    bit_type,
    origin,
    variable_id,        \* Preprocessor::variable_id
    program_counter,    \* Assembler::program_counter
    counters,           \* counters.back()
    has_code,
    bin_data,           \* what has been written to test.bin
    printed             \* what the run says of the variable it met in a load

passVars == <<bit_type, origin, variable_id, program_counter, counters,
              has_code, bin_data, printed>>
vars == <<tableVars, text, phase, outcome, position, passVars>>

Init ==
    /\ TableInit
    /\ text \in Programs
    /\ phase = "open"
    /\ outcome = "none"
    /\ position = 1
    /\ bit_type = "NoneSet"
    /\ origin = 0
    /\ variable_id = 0
    /\ program_counter = 1
    /\ counters = 0
    /\ has_code = FALSE
    /\ bin_data = <<>>
    /\ printed = <<>>

Goto(p, at) == phase' = p /\ position' = at /\ UNCHANGED outcome
Stop(how) == phase' = "stopped" /\ outcome' = how /\ UNCHANGED position
Spin == phase' = "spinning" /\ UNCHANGED <<outcome, position>>

\* A pass that fetches nothing and does not move fetches nothing forever.
Move(at) == IF at = position THEN Spin ELSE Goto(phase, at)

-----------------------------------------------------------------------------
\* The directive on the first line, if any, has been consumed; a first token
\* that is none leaves the cursor where it is, behind comments if it was one.
BehindFirstToken ==
    CASE At(Start) = "cmt" -> SkipComments(Start)
      [] At(Start) \in {"use16", "use32"} -> Start + 1
      [] OTHER -> Start
SecondToken == SkipNewlines(BehindFirstToken)

DirectiveMisplaced ==
    \/ At(Start) = "org"
    \/ At(Start) \in {"use16", "use32"} /\ Line(Start) # 1
    \/ At(SecondToken) = "org" /\ Line(SecondToken) # 2

OpenFile ==
    /\ phase = "open"
    /\ UNCHANGED <<tableVars, text, variable_id, program_counter, counters,
                   has_code, bin_data, printed>>
    /\ \/ /\ UnwantedValue
          /\ Stop("UnknownError")
          /\ UNCHANGED <<bit_type, origin>>
       \/ /\ ~UnwantedValue /\ CheckSpins
          /\ Spin
          /\ UNCHANGED <<bit_type, origin>>
       \/ /\ ~UnwantedValue /\ ~CheckSpins /\ DirectiveMisplaced
          /\ Stop("InvalidLineForDirective")
          /\ UNCHANGED <<bit_type, origin>>
       \/ /\ ~UnwantedValue /\ ~CheckSpins /\ ~DirectiveMisplaced
          /\ bit_type' = CASE At(Start) = "use16" -> "bit16"
                           [] At(Start) = "use32" -> "bit32"
                           [] OTHER -> "NoneSet"
          /\ origin' = IF At(SecondToken) = "org" THEN text[SecondToken].value ELSE 0
          /\ Goto("declare", Start)

-----------------------------------------------------------------------------
Declared == text[NextDeclaration(position)]
Declaring == phase = "declare" /\ NextDeclaration(position) # End
KeepPass == UNCHANGED <<text, passVars>>

\* A main variable is checked against its size before anything else, and only
\* a 16-bit program has a table to add it to.
DeclareVariable ==
    /\ Declaring /\ Declared.kind = "var"
    /\ KeepPass
    /\ \/ /\ Declared.value = "over"
          /\ Stop("OverflowError") /\ UNCHANGED tableVars
       \/ /\ Declared.value # "over" /\ bit_type # "bit16"
          /\ Goto("declare", AfterDeclaration(NextDeclaration(position)))
          /\ UNCHANGED tableVars
       \/ /\ Declared.value # "over" /\ bit_type = "bit16" /\ AddVariableSpins
          /\ Spin /\ UNCHANGED tableVars
       \/ /\ Declared.value # "over" /\ bit_type = "bit16"
          /\ AddVariable(Declared.name, Declared.size)
          /\ Goto("declare", AfterDeclaration(NextDeclaration(position)))

\* The value of a subset variable is never checked, read in base 10 when it is
\* written in base 16, and not declared at all when it is written in base 10.
DeclareSubset ==
    /\ Declaring /\ Declared.kind # "var"
    /\ KeepPass
    /\ \/ /\ Declared.value = "letter"
          /\ Stop("terminate") /\ UNCHANGED tableVars
       \/ /\ Declared.value = "decimal"
          /\ Goto("declare", AfterDeclaration(NextDeclaration(position)))
          /\ UNCHANGED tableVars
       \/ /\ Declared.value \in {"hex", "over"}
          /\ AddSubsetVariable(Declared.name, Declared.size)
          /\ IF corrupted' THEN Goto("undefined", position)
             ELSE Goto("declare", AfterDeclaration(NextDeclaration(position)))

DeclarationsEnd ==
    /\ phase = "declare" /\ NextDeclaration(position) = End
    /\ Goto("scan", Start)
    /\ UNCHANGED tableVars /\ KeepPass

\* Without code the whole of pass 1 is left out.
StartPreprocessor ==
    /\ phase = "scan"
    /\ has_code' = HasCode
    /\ Goto(IF HasCode THEN "assign" ELSE "emit", Start)
    /\ program_counter' = IF HasCode THEN program_counter ELSE 0
    /\ UNCHANGED <<tableVars, text, bit_type, origin, variable_id, counters,
                   bin_data, printed>>

-----------------------------------------------------------------------------
(***************************************************************************)
(* Pass 1.  At a newline the loop moves to the next line and looks for a   *)
(* declaration; anywhere else it fetches an instruction or a directive,    *)
(* which skips declarations without giving them an address.                *)
(***************************************************************************)
Assigning == phase = "assign" /\ UNCHANGED <<text, origin, has_code, bin_data, printed>>

\* No `use16' on the first line by the time a second line is reached.
DefaultBitType ==
    bit_type' = IF bit_type = "NoneSet" /\ Line(position) > 1 THEN "bit32" ELSE bit_type

\* Mutant: the lexer is not reset.
EndAssigningInPlace == Goto("emit", position) /\ program_counter' = 0

\* The lexer and the program counter start over for pass 2.
EndAssigning == Goto("emit", Start) /\ program_counter' = 0

AtNewline == At(position) = "nl" /\ position < Len(text)
NextLine == SkipNewlines(position)
\* Mutant: the line behind the newlines is skipped.
NextTextBehind == EndOfLine(NextLine)

NextText == IF At(NextLine) = "cmt" THEN SkipComments(NextLine) ELSE NextLine

\* Behind comments only a main variable is recognised.
AtDeclaration ==
    AtNewline /\ IF At(NextLine) = "cmt" THEN At(NextText) = "var"
                                         ELSE At(NextText) \in {"var", "sub"}

\* Mutant: the id is as wide as a line number.
NextIdWide == variable_id + 1

NextId == (variable_id + 1) % Byte

AssignMemAddress ==
    /\ Assigning /\ AtDeclaration
    /\ DefaultBitType
    /\ AddMemAddress(variable_id, counters, origin)
    /\ variable_id' = NextId
    /\ LET e == EndOfLine(NextText) IN
       CASE corrupted' -> Goto("undefined", position) /\ UNCHANGED program_counter
         [] ~corrupted' /\ Line(e) = max_line -> EndAssigning
         [] OTHER -> Goto("assign", e) /\ UNCHANGED program_counter
    /\ UNCHANGED counters

AssignSpins ==
    /\ Assigning /\ AtDeclaration
    /\ bit16_length > 0 /\ ~GrowthReadsPastEnd
    /\ SearchSpins(variable_id) /\ ~MatchesMain(variable_id)
    /\ DefaultBitType
    /\ Spin
    /\ UNCHANGED <<tableVars, variable_id, program_counter, counters>>

PassLine ==
    /\ Assigning /\ AtNewline /\ ~AtDeclaration
    /\ DefaultBitType
    /\ IF NextText = End \/ (At(NextLine) # "cmt" /\ Line(NextText) = max_line)
       THEN EndAssigning
       ELSE Goto("assign", NextText) /\ UNCHANGED program_counter
    /\ UNCHANGED <<tableVars, variable_id, counters>>

\* A source register is taken for a value, as its first letter is a hexadecimal
\* digit: dh is the number 0xD, dl one without its h, and dx the prefix of a
\* number without digits.  At the very end of the file the lexer has no way back
\* behind the comma and finds the end there.
Assembles(p) == At(p) = "mov" \/ (At(p) = "copy" /\ text[p].from = "high" /\ p # Len(text))
Nothing(p) == At(p) = "copy" /\ p = Len(text)

\* An operand that is not what was expected ends a pass with an error.
Refused(p) == At(p) = "bad" \/ (At(p) = "copy" /\ text[p].from = "low" /\ p # Len(text))
Refuse(p) == Stop(IF At(p) = "bad" THEN "InvalidToken" ELSE "InvalidDigit")

\* A store ends the run as well.  What it stores into is read the way a source
\* register is, so ax in brackets is not met as a register; the range of token
\* ids it accepts for the source leaves dh and dl out.
StoreEnds(item) ==
    CASE item.into = "low" -> "InvalidDigit"
      [] item.into \in {"high", "keyword"} -> "InvalidToken"
      [] item.source \in {"dh", "dl", "memory"} -> "InvalidCombination"
      [] OTHER -> "EXIT_SUCCESS"

\* mov counts 1 for itself, 1 for the register and 1 for the value or the
\* memory operand.
Preprocess ==
    \E f \in {Fetch(position)} :
    /\ Assigning /\ At(position) \notin {"nl", "end"}
    /\ DefaultBitType
    /\ \/ /\ f.token = "code" /\ At(f.at) # "store" /\ ~Refused(f.at)
          /\ program_counter' = program_counter + 3
          /\ counters' = program_counter'
          /\ Goto("assign", f.at + 1)
       \/ /\ f.token = "code" /\ At(f.at) = "store"
          /\ Stop(StoreEnds(text[f.at]))
          /\ UNCHANGED <<program_counter, counters>>
       \/ /\ f.token = "code" /\ Refused(f.at)
          /\ Refuse(f.at)
          /\ UNCHANGED <<program_counter, counters>>
       \/ /\ f.token = "directive"
          /\ Goto("assign", f.at + 1)
          /\ UNCHANGED <<program_counter, counters>>
       \/ /\ f.token = "none"
          /\ Move(f.at)
          /\ UNCHANGED <<program_counter, counters>>
       \/ /\ f.token = "eof"
          /\ EndAssigning
          /\ UNCHANGED counters
    /\ UNCHANGED <<tableVars, variable_id>>

AssigningEnds ==
    /\ Assigning /\ position >= Len(text) /\ At(position) \in {"nl", "end"}
    /\ IF At(position) = "nl" THEN DefaultBitType ELSE UNCHANGED bit_type
    /\ EndAssigning
    /\ UNCHANGED <<tableVars, variable_id, counters>>

-----------------------------------------------------------------------------
(***************************************************************************)
(* Pass 2.                                                                 *)
(***************************************************************************)
\* reg_mov_instructions ends with al; for the registers behind it the byte is
\* whatever follows the array.
Opcodes(reg) ==
    CASE reg = "ax" -> {184} [] reg = "ah" -> {180} [] reg = "al" -> {176}
      [] OTHER -> {0, 255}

\* One byte of the value, for a 16-bit register too.
Encoded(opcode, item) == <<opcode, item.value % Byte>>

\* A load is looked up, reported and ends the run with an error.  The address
\* is that of the main variable, and the size is looked up by that address.
Known(name) == bit_type = "bit16" /\ Named(name) # {}
Report(name) == [address |-> AddressByName(name),
                 size |-> SizeByAddress(AddressByName(name))]

Emitting ==
    /\ phase = "emit"
    /\ UNCHANGED <<tableVars, text, bit_type, origin, variable_id,
                   program_counter, counters, has_code>>

Emit ==
    \E f \in {Fetch(position)} :
    /\ Emitting /\ Line(position) # max_line
    /\ \/ /\ f.token = "code" /\ Assembles(f.at)
          /\ \E opcode \in Opcodes(text[f.at].reg) :
                 bin_data' = Append(bin_data, Encoded(opcode, text[f.at]))
          /\ Goto("emit", f.at + 1)
          /\ UNCHANGED printed
       \/ /\ f.token = "code" /\ At(f.at) = "load" /\ Known(text[f.at].name)
          /\ printed' = Report(text[f.at].name)
          /\ Stop("EXIT_FAILURE")
          /\ UNCHANGED bin_data
       \/ /\ f.token = "code" /\ At(f.at) = "load" /\ ~Known(text[f.at].name)
          /\ Stop("UnknownError")
          /\ UNCHANGED <<bin_data, printed>>
       \/ /\ f.token = "code" /\ At(f.at) = "store"
          /\ Stop("EXIT_SUCCESS")
          /\ UNCHANGED <<bin_data, printed>>
       \/ /\ f.token = "code" /\ Refused(f.at)
          /\ Refuse(f.at)
          /\ UNCHANGED <<bin_data, printed>>
       \/ /\ f.token = "code" /\ At(f.at) = "copy" /\ text[f.at].from = "wide" /\ ~Nothing(f.at)
          /\ Stop("terminate")
          /\ UNCHANGED <<bin_data, printed>>
       \/ /\ f.token = "code" /\ Nothing(f.at)
          /\ Goto("emit", End)
          /\ UNCHANGED <<bin_data, printed>>
       \/ /\ f.token = "directive"
          /\ Goto("emit", f.at + 1)
          /\ UNCHANGED <<bin_data, printed>>
       \/ /\ f.token = "none"
          /\ Move(f.at)
          /\ UNCHANGED <<bin_data, printed>>
       \/ /\ f.token = "eof"
          /\ Stop("assembled")
          /\ UNCHANGED <<bin_data, printed>>

\* write_to_binary.  The loop ends where the cursor stands on the last line, so
\* of that line at most the item the round before ran into is assembled.
EmittingEnds ==
    /\ Emitting /\ Line(position) = max_line
    /\ Stop("assembled")
    /\ UNCHANGED <<bin_data, printed>>

Ended ==
    /\ phase \in {"stopped", "spinning", "undefined"}
    /\ UNCHANGED vars

Step ==
    \/ OpenFile
    \/ DeclareVariable \/ DeclareSubset \/ DeclarationsEnd
    \/ StartPreprocessor
    \/ AssignMemAddress \/ AssignSpins \/ PassLine \/ Preprocess \/ AssigningEnds
    \/ Emit \/ EmittingEnds

Next == Step \/ Ended

Spec == Init /\ [][Next]_vars /\ WF_vars(Step)
=============================================================================
