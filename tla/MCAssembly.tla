----------------------------- MODULE MCAssembly -----------------------------
(***************************************************************************)
(* The source files TLC enumerates: a header, up to a few lines and an end *)
(* with no, one or two newlines.                                           *)
(***************************************************************************)
EXTENDS AssemblyProperties

NL == [kind |-> "nl"]
Use16 == [kind |-> "use16"]
Use32 == [kind |-> "use32"]
Org == [kind |-> "org", value |-> 16]
Mov(reg, value) == [kind |-> "mov", reg |-> reg, value |-> value]
Load(name) == [kind |-> "load", name |-> name]
Copy(from, value) == [kind |-> "copy", reg |-> "al", from |-> from, value |-> value]
Bad(operand) == [kind |-> "bad", operand |-> operand]
StoreInto(into, source) == [kind |-> "store", into |-> into, source |-> source]
Store(source) == StoreInto("name", source)
Decl(kind, name, size, value) ==
    [kind |-> kind, name |-> name, size |-> size, value |-> value]
Cmt == [kind |-> "cmt"]
Junk == [kind |-> "junk"]
Stray == [kind |-> "stray"]
Sign == [kind |-> "sign"]

\* Lines joined by newlines; an end is what follows the last line.
Join(lines) ==
    FlattenSeq([i \in DOMAIN lines |->
                   IF i = 1 THEN lines[i] ELSE <<NL>> \o lines[i]])
Bodies(lines, n) == UNION {[1 .. m -> lines] : m \in 0 .. n}
Files(headers, bodies, ends) ==
    {Join(h \o b) \o e : h \in headers, b \in bodies, e \in ends}

Header == << <<Use16>>, <<Org>> >>
Ends == {<<>>, <<NL>>, <<NL, NL>>}

SomeLines == {
    <<Mov("al", 5)>>, <<Mov("ax", 9), Cmt>>, <<Mov("bx", 5)>>,
    <<Decl("var", "v", "dw", "hex")>>, <<Decl("var", "w", "db", "hex"), Cmt>>,
    <<Decl("var", "v", "dd", "over")>>, <<Decl("var", "x", "db", "letter")>>,
    <<Decl("sub", "s", "db", "hex")>>, <<Decl("sub", "s", "db", "decimal")>>,
    <<Decl("sub", "s", "dw", "letter")>>, <<Decl("flush", "f", "db", "over")>>,
    <<>>, <<Cmt>>, <<Load("v")>>, <<Store("imm")>>, <<Store("dh")>>, <<Junk>>, <<Org>>,
    <<Mov("ah", 7), Stray>>, <<Stray>>, <<Sign, Cmt>>, <<Decl("var", "y", "db", "hex"), Sign>>,
    <<Decl("sub", "t", "db", "hex"), Stray, Cmt>>}

SomeHeaders == {
    Header, << <<Use16>> >>, << <<Use16, Cmt>>, <<Org>> >>, << <<Use32>>, <<Org>> >>,
    << <<Org>> >>, << <<Cmt>>, <<Use16>> >>, << <<>>, <<Use16>> >>,
    << <<Junk>>, <<Use16>> >>, << <<Use16, Stray>>, <<Org>> >>, << <<Sign>>, <<Use16>> >>,
    << <<Mov("ah", 5)>> >>, << <<Store("imm")>> >>}

\* Any file: short ones with every header and end, and longer ones that begin
\* and end as they should.
AnyFile ==
    Files(SomeHeaders, Bodies(SomeLines, 2), Ends)
        \cup Files({Header}, Bodies(SomeLines, 3), {<<NL, NL>>})

\* Longer files out of what a well-formed one may hold.
GoodLines == {
    <<Mov("ah", 9)>>, <<Decl("var", "v", "db", "hex")>>,
    <<Decl("var", "w", "dw", "decimal")>>, <<Decl("sub", "s", "dd", "hex")>>, <<>>, <<Cmt>>}
GoodFile ==
    Files({Header}, Bodies(GoodLines, 5), {<<NL, NL>>})
        \cup Files({Header}, Bodies(GoodLines, 4),
                   {<<NL, Load(name), NL, NL>> : name \in {"v", "w", "s"}})

\* The same for liveness, with bodies of three lines.
EndingFile == Files({Header}, Bodies(GoodLines, 3), {<<NL, NL>>})

\* Files with operands that are refused, by one pass or the other.
OperandLines == {
    <<Mov("al", 5)>>, <<Mov("ax", 9), Cmt>>, <<Copy("high", 13)>>, <<Copy("low", 10)>>,
    <<Copy("wide", 11)>>, <<Bad("register")>>, <<Bad("value")>>, <<Store("memory")>>,
    <<StoreInto("low", "imm")>>, <<StoreInto("high", "imm")>>, <<StoreInto("wide", "imm")>>,
    <<Decl("var", "v", "dw", "hex")>>, <<>>}
OperandFile ==
    Files({Header, << <<Use16>> >>, << <<Mov("ah", 5)>> >>}, Bodies(OperandLines, 3), Ends)

\* One store into a register.
RegisterStore == Files({Header}, {<< <<StoreInto(into, "imm")>> >> : into \in {"low", "high", "wide"}}, {<<NL, NL>>})

\* Files that fill and outgrow the usint8 counters when Byte is 16: main variables
\* and subset variables of the last of them, with code before them or not.
Many(n, declaration) == [i \in 1 .. n |-> <<declaration>>]
FullFile ==
    {Join(<< <<Use16>>, <<[Org EXCEPT !.value = 32]>> >> \o code
              \o Many(m, Decl("var", "v", "db", "hex")) \o Many(n, Decl("sub", "s", "db", "hex")) \o more)
         \o <<NL, NL>> :
        code \in {<<>>, << <<Mov("al", 1)>> >>}, m \in {1, 14, 15, 16, 17}, n \in {0, 1, 15, 16, 17},
        more \in {<<>>, << <<Decl("var", "w", "db", "hex")>> >>}}

EveryFile == AnyFile \cup GoodFile \cup OperandFile \cup FullFile
=============================================================================
