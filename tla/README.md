# MocaAssembler in TLA+

MocaAssembler reads one assembly file and writes `test.bin`. It works in two
passes over the same text: the first counts bytes and gives every variable a
memory address, the second emits code. It brings ELFIO along, a library of
headers that reads and writes ELF files. This directory holds TLA+ models of
the assembler and of the parts of ELFIO that change state, the TLC
configurations that check them, and proofs that TLAPS checks. Paths below are
relative to the repository.

    tlc -config AnyFile.cfg MCAssembly       # a run; section 3 lists them
    tlapm AssemblyProofs.tla                 # proofs; section 4 lists them

## 1. Inventory

### The assembler

`main.cpp` builds one object whose classes inherit from one another, and the
work is done inside the constructors, base first: `Assembler` and `lexer` →
`Preprocessor` (which checks the file and reads the header) → `parser` (which
reads the declarations, calls `start_preprocessor` and then `parser_next`).
Nothing runs concurrently. The hard part is that one cursor, one symbol table
and one assembler state are shared by three walks over the same text which
recognise things differently, and that each walk relies on what the last one
left behind.

| Component | Source | State | Operations | Talks to | What makes it correct |
|---|---|---|---|---|---|
| Lexer | `backend/lexer.hpp` | buffer, index, current char, line, column | advance, go back, skip comments, search for declarations, the keyword and literal readers, the check of the file | called by both passes | no call slips back or skips an instruction or a declaration; it sees the end; its line is the right one |
| Symbol table | `backend/assembler/variables.hpp` | a vector of variables, each with its subset variables; the placement cursor | add a variable or a subset variable, assign an address, find by name or by address | filled by the parser, addressed by the preprocessor, read in pass 2 | each declaration gets bytes of its own, once, where the text puts it |
| Preprocessor | `backend/preprocessor.hpp` | `variable_id`, `has_code`, counters | header, scan for code, pass 1 | drives the lexer, the table and the program counter | presents the declarations in the order the parser declared them, and counts what pass 2 emits |
| Parser | `backend/parser.hpp` | current token, the loop over declarations | declarations, pass 2, errors | drives the lexer, the table and the encoder | declares every declaration; assembles every instruction once and in order |
| Assembler state, encoder | `backend/assembler/moca_assembler.hpp`, `bytecode.hpp` | bit type, origin, program counter, bytes written | setters, `write_instruction_to_bin`, `write_to_binary` | called by both passes | the bytes are those of the instructions |
| Tokens | `backend/tokens.hpp` | token id, owned value | copy, assign, delete | everywhere | a value is deleted once |
| Register values | `backend/assembler/registers.hpp`, `asm_common.hpp` | none at run time | byte arithmetic, parent registers | only uncalled code | – |
| ELF generator | `backend/assembler/elf_generator.hpp` | ELF header | `create` and three setters; nothing is saved | constructor only | – |
| Entry point, error macros | `main.cpp`, `backend/run.hpp`, `common.hpp` | none | open the file, exit codes | all | – |

### ELFIO (`backend/assembler/elfio/`)

The object model is sections, segments and a header; *accessors* give a section's
bytes a meaning. An accessor holds references, so several of them work on one
section, each with what it has cached. Files are read eagerly or, on request,
section by section from a stream that stays open.

| Component | Source | State | Operations | What makes it correct |
|---|---|---|---|---|
| Sections | `elfio_section.hpp` | header, buffer, believed capacity, `stream_size`, `is_lazy` | set, insert, append, resize, load, lazy read, save | the section is a string of bytes; no copy leaves the buffer |
| Layout and save | `elfio.hpp`, `elfio_segment.hpp` | the position in the file, which sections are placed | order segments, place sections in and outside of them, section table | nothing overlaps; a loader finds every section at its address; saving again changes nothing |
| Load | `elfio.hpp`, `elfio_section.hpp`, `elfio_segment.hpp` | the stream and its failbit | read headers, sections, names, segments, lazy reads | it is known what `true` vouches for; damage hurts only what is read behind it |
| Validate | `elfio.hpp` | none | two searches for contradictions | silent about what `save` has written |
| Symbols, relocations, strings | `elfio_symbols.hpp`, `elfio_relocation.hpp`, `elfio_strings.hpp` | symbol table, relocation tables that refer to it by index, hash section | add, arrange local symbols first, renumber, look up | renumbering changes no relocation's meaning; lookups find what is there |
| Dynamic section, versions | `elfio_dynamic.hpp`, `elfio_versym.hpp` | entries; each accessor's count of them | count, add, read | entries read as they were added |
| Notes | `elfio_note.hpp` | a section; each accessor's start positions | find, add, read | only whole notes are read, and all of them |
| Module information | `elfio_modinfo.hpp` | `field=value` texts; each accessor's pairs | find, add, look up | texts, pairs and what was added agree |
| Remaining headers | `elfio_header.hpp`, `elfio_array.hpp`, `elfio_utils.hpp`, `elfio_version.hpp`, `elfio_dump.hpp` | plain fields | setters, byte order, printing | – |

### What is hard to test

The `hazards` list of `PROJECT.json` has each of these at the line where it
bites, with the properties that would show it going wrong. In short:

- `variable_address` holds the ordinal of a declaration before pass 1 has
  placed it and its memory address afterwards, and the table is searched by that field;
- ids are not stored in the text: pass 1 counts declarations on a second walk,
  with other code than the walk that declared them;
- the program counter starts at 0 before any code and counts from 1 after the
  first instruction, and address arithmetic corrects for it by 1;
- the placement remembers the entry it placed last in three fields, and the
  *next* call adds that entry's size;
- both passes loop until the cursor is on the last line; a token nobody
  consumes keeps them there forever, and skipping one too many loses an instruction;
- `usint8` counters (table loops, ids, columns), `usint16` addresses;
- stepping back in the text at its end and over newlines, with a buffer that has
  no terminator, and starting at its top again when a search comes to the end;
- ELFIO keeps what belongs together in fields that are updated one by one (size,
  capacity, stream size), subtracts unsigned distances, caches counts and
  positions that other accessors outdate, and reads on from a stream that has failed.

## 2. Modules

| Module | What it is |
|---|---|
| `VariableTable` | class `Variables`: its state and its operations |
| `TableClient` | the table under the calls of the two passes for a well-formed program; history variables for the properties |
| `AddressLayout` | the abstract specification of placement: an entry gets one block of bytes, once, above every block handed out before |
| `TableClientProofs` | theorems about `TableClient`: its invariants, the refinement, the lag |
| `Lexer`, `MCLexer`, `LexerProofs` | the lexer's cursor over characters, and theorems about it |
| `Scanner` | the lexer's cursor over a file of *items*, at which the two passes work |
| `Assembly` | one run of the program over one file; composes `VariableTable` and `Scanner` |
| `AssemblyProperties`, `MCAssembly` | what a run promises about its file; the files TLC enumerates |
| `AssemblyProofs` | theorems about `Assembly` for files of any length: the cursor and the bytes; what the passes count and how runs end; the symbol table and the loads |
| `OrderLemmas` | least and greatest members of sets of numbers, and recursive searches that go one way: lemmas that proofs of several components need |
| `ByteString` | the abstract specification of a section: a string of bytes and its saved copy |
| `ElfSection`, `MCElfSection`, `ElfSectionProofs` | a section, and theorems about it |
| `ElfLayout`, `ElfValidate`, `ElfLayoutProperties`, `MCElfLayout` | `save`, step by step, and a second one behind it; `validate` as operators; what can be relied on; small images |
| `ElfLayoutProofs` | theorems about `save`: what it places where, what it refuses, in which order |
| `ElfLoad`, `MCElfLoad`, `ElfLoadProofs` | `load` of whole and damaged files, and theorems about it |
| `ElfSymbols`, `ElfDynamic`, `ElfNotes`, `ElfModinfo` | one module for each kind of accessor |
| `ElfAccessors`, `MCElfAccessors` | the four of them, one followed at a time; small constants for them |
| `ElfAccessorsProofs` | theorems about all of them: symbols with their relocations and lookups, dynamic sections, notes, module information |

`Assembly` and `TableClient` are two users of one table. `Assembly` has the
real walks, so it can show that a well-formed file leads to the calls
`TableClient` makes (`TablesMatchText`), and what other files lead to.
`TableClient` has nothing but the calls, so it can be checked to a greater
depth, and proved about where the table is concerned. `Lexer` is below both: it
shows where the cursor's quirks come from that `Scanner` states for items.

An operator with a comment that starts with `Mutant:` is a plausible bug in the
definition that follows it. No specification uses it; each property is known to
fail when the definition is replaced by one of its mutants, which
`PROJECT.json` pairs with the properties.

### How state and actions correspond to the code

**VariableTable.** An entry `<<i, 0>>` is `bit16_variable_metadata[i]`, and
`<<i, x + 1>>` is `subset_variables[x]` of it. The other variables have the names
of the C++ members. `AddVariable`, `AddSubsetVariable` and `AddMemAddress` are the
three methods that change it; `AddressByName` and `SizeByAddress` the two
lookups that are called. `corrupted` stands for memory outside the table having
been read and used. Where the code compares with memory past the end of the
vector, the model has both outcomes: no match, or corruption. `Word` and
`Byte` are the numbers of values of `usint16` and `usint8`.

**Lexer.** `index` is counted from 1, `behind` is the byte behind the buffer,
which may be anything. `BeginCheck`, `CheckRound`, `LookAtWord` and `EndCheck` are
the check of the whole file inside the first `try_get_token`; `TryGetToken` is
every later call, for any kind of token in any order, which is more than the
two passes do. Besides the classes of tokens, a call may ask for a declaration
(`SearchFor` is the search ahead, which sets the cursor to the top of the file
when there is none), for a name (`var_needs_expl` false), or for a data type
that may stand behind a bracket (`skip_a_val`: `"operand"`). `Token` and `Leave` give the place where the call ends, the
place it had advanced to before it went back, and the lines counted on the way.

**Scanner.** A file is a sequence of items (a newline, a directive, a `mov` in
one of its shapes, a declaration, a comment, an unknown word or sign); the position is
the index of the item the cursor stands at. Unknown words are told apart by where they
stand, as the check of the file looks only at those that open a line (`"junk"`); the others (`"stray"`) and signs
may be anywhere on a line, also behind a declaration, with which they are skipped (`OnDeclaration`). `Approach` is what every
`try_get_token` does before it looks for its own class of tokens, including its
quirks: skipping whole declaration lines, returning nothing behind comments,
stepping back onto the last newline. `Fetch` is one round of both passes.

**Assembly.** `phase` is the constructor the run is in.

| Action | Code |
|---|---|
| `OpenFile` | the check of the file and the header: `Preprocessor::Preprocessor` |
| `DeclareVariable`, `DeclareSubset`, `DeclarationsEnd` | one round of `parser`'s declaration loop |
| `StartPreprocessor` | `start_preprocessor` and its scan for code |
| `AssignMemAddress`, `AssignSpins`, `PassLine`, `Preprocess`, `AssigningEnds` | one round of `preprocessor_checks` |
| `Emit`, `EmittingEnds` | one round of `parser_next` |
| `Ended` | the process has exited, hangs, or has undefined behaviour behind it |

An exit is `phase = "stopped"` with its exit code, or the name of the error, in
`outcome`; a loop that can never end is `"spinning"`; `"undefined"` is the end
of what can be said of a run. `bin_data` is what has been written to `test.bin`,
each instruction as its opcode and value byte. An opcode read past the end of
`reg_mov_instructions` is a choice between two bytes.

**ElfSection.** One section from its construction over any calls of its public
interface. `data` is what the buffer really holds, `data_size` what the object
believes it holds. `SetData*`, `InsertData`, `AppendData`, `SetSize`, `Load`,
`GetData` and `Save` are the methods of these names; an allocation that fails
is the argument `ok`. `InsertData` has the two cases of the code, one in place and
one with a new buffer. `seen` records the kinds of trouble met: a failed allocation, a size set
from outside, a header that leads past the file, a section changed before it
was read, a capacity that wrapped. `overrun` is a copy that leaves the buffer.

**ElfLayout.** `pc` is the loop `save` is in, each action one round of one loop:
`OrderSegment` of `get_ordered_segments`, `StartSegment`, `WriteSection` and
`EndSegment` of `layout_segments_and_their_sections` and `write_segment_data`,
`PlaceLoose` of `layout_sections_without_segments`, and `WriteFile` for the
section table and the writing. Positions subtract modulo `Word`, as unsigned
numbers do. `Load` and `Keep` are the two ways to a second save. `ElfValidate`
is `validate`, as a function of headers.

**ElfLoad.** `fail` is the failbit. `LoadSection`, `LoadNames`, `LoadSegment` are
rounds of `load_sections` and `load_segments`; `GetSectionData` and
`GetSegmentData` are the user's first look at each, which with `is_lazy` reads
from the same stream. Reading goes wrong where a header leads past the end
of the file or the table of headers does. A section header the file ends in is
read in part and believed: `cut` is what it has of it (`PartOf`: the fields in front are the
file's, those behind are 0, the one it ends in may be anything).

**Accessors.** `ElfSymbols` follows `arrange_local_symbols` from exchange to
exchange, with `Tell` for the callback's `swap_symbols` of one relocation
section, and has both kinds of hash section, as a linker writes them, going stale
as symbols are added and moved. In `ElfDynamic` and `ElfNotes` several accessors of one section add
and read; in `ElfModinfo` one accessor after another. Bytes that no property tells apart are words
(`ElfNotes`) or letters (`ElfModinfo`, the string section).

### What the models assume

- *Assembler.* In `Scanner` the byte behind the file is 0 (in `Lexer` it is any). Misuse of the
  heap that has no visible effect in the Makefile's build is left out: `test.bin`'s
  `FILE` freed between the passes and used afterwards, token values deleted
  twice. A comment behind another item has a blank before it; an item other
  than a newline, a comment, an unknown word or a sign starts its line, and nothing but newlines stands behind
  a comment. An unknown word is of two letters or more, the first of which is no hexadecimal digit: one that begins like a number is a
  number to the readers of operands. Names of variables begin with a
  letter that is no hexadecimal digit: others are taken for numbers by the
  readers of operands, as registers are.
- *ELFIO.* There is no compression object. Address translation is the identity
  but for the flag `translated`, which changes what `stream_size` means. The
  identification bytes of a file are right. Positions do not reach the width of
  a word, but differences may wrap.

`Scanner` and `Assembly` were validated against the program itself: it was
built with the Makefile's flags (and a terminated buffer), run on about 48 000
generated files of these items, half of them with operands that cannot be
assembled, and exit status, bytes of `test.bin` and the report of a load were
compared with what the model allows. They agreed on all. Unknown words and signs
behind instructions, directives and declarations and on indented lines were tried by hand
on the same build.

## 3. Runs

| Run | Configuration | Asks |
|---|---|---|
| `table_client` | `TableClient.cfg` | do ids and declarations stay in step; are blocks disjoint and placed once; does a lookup by address find the right size; exactly when does an address lag; is all of it an implementation of `AddressLayout` |
| `any_file` | `AnyFile.cfg` | whatever the file, is the output a prefix of its instructions in order, do the passes take the same instructions, which files hang, when are operands refused; for a well-formed file, is the table what the text describes (also beyond 255 declarations), is nothing lost, does a load report its own variable, and where is undefined behaviour |
| `ending_file` | `EndingFile.cfg` | does a well-formed file come to its end |
| `lexer` | `Lexer.cfg` | does the check of the file look at the first word of each line and come to its end; is the line of an error the right one; is asking for a token that is not there harmless; is a declaration missed by the search for them; does a call leave the cursor in front of where it began |
| `section` | `Section.cfg` | is a section a string of bytes (`ByteString`) as long as nothing has gone wrong; what can make a copy leave the buffer; what does a failed growth leave |
| `layout` | `Layout.cfg` | is every byte of a saved file in one place only; does a loader find every section at its address; is `validate` silent; is only what overlaps refused; is a second save like the first; does `load` find the members of each segment; does ordering end |
| `load_file` | `LoadFile.cfg` | what does `true` from `load` mean; which segments are kept; how far does damage spread |
| `accessors` | `Accessors.cfg` | do symbols, relocations, dynamic entries, notes and attributes read as they were added, whoever reads them and whatever was cached |

Four more runs end in a violation on purpose. Each checks what a comment of the
source says and the code does not do:

| Run | Comment | What happens |
|---|---|---|
| `table_drift` | `variables.hpp:29`: the address is "in accordance to the program counter" | every block of code between variables, behind the first one placed at a counter other than 0, makes all later addresses one byte too low (`LagPerBlock` states this exactly) |
| `table_low_origin` | `preprocessor.hpp:14`: the id finds the variable that is being assigned | with an origin below the number of variables an address given is equal to a later id, and that variable is placed twice and another never |
| `register_store` | `preprocessor.hpp:63`: the operand in brackets is not a register | `[ax]` is read as the prefix of a number and passes |
| `layout_backwards` | `elfio.hpp:870`: a negative `section_align` is refused | the difference is unsigned: a section below the address of its segment moves the position backwards, over the program headers |

Differences that were met but have no run, as they are plain from the code:
without code no address is assigned, though `preprocessor.hpp:336` says straight away;
an `org` on a later line is dropped in silence (`preprocessor.hpp:389`); the
check for unwanted values leaves out the first line (`lexer.hpp:384`); and
`validate` takes `SHT_NOBITS` for a bit that other types share (`elfio.hpp:320`).

### What callers owe

`WellFormed` of `AssemblyProperties` is the class of files both walks handle:
`use16` on the first line; lines of `mov`, loads, declarations, comments and blanks;
each subset variable directly behind its main variable or another subset of
it, with a hexadecimal value of digits only; comments on lines of their own; a blank
line at the end; fewer than `Byte` declarations; and, if there are any, `org` on
the second line with an operand not below the number of declarations. Each
clause is there because a file without it behaves otherwise, and `any_file` has
such files: a trailing comment ends the loop over the declarations, a subset
variable with a decimal value is presented by pass 1 but was never declared, one
with a hex letter ends the program by an exception in a `noexcept` function. A
load is allowed although pass 2 ends there with an error: it is the only way to
see the table's answer. What is said of addresses is said of files that `Fits`: none of
the places in the text is too large for a `usint16`.

`WellFormed` of `ElfLayoutProperties` is what a caller of `save` owes: a section
with an address is not below its segment, sections are added to a segment in
order and one without bits last, segments are nested or apart. `Own` restricts
the second save to objects that are the caller's or were loaded with the same members.

### Bounds, and why they are enough

- `TableClient`: 4 declarations and 3 `mov`s in any arrangement. Placement looks only at the last entry
  placed, its size and kind, and whether code came in between. Four
  declarations give every pair of kinds behind a third one, and three
  instructions give two separate blocks of code behind a first one, which the
  lag needs. One name is enough, as names play no part in placement.
- `AnyFile`: four families of files. Any short file: twelve headers, twenty-three kinds of lines (unknown words and signs behind instructions, behind declarations and indented among them), two body lines with each of
  three ends (no, one or two newlines), three body lines behind a good header;
  the walks look at most at an item, the run of comments or declarations behind
  it, and what follows the run, and three lines hold all of that. Well-formed
  files of five lines of six kinds, or four and a load: up to two main variables with
  subsets, code before, between and behind, blank lines and comments. Files of
  operands that are refused, by one pass or the other. Files that fill and outgrow the
  table: with `Byte = 16`, 15 to 17 main or subset variables fill a counter as
  256 do in the code.
- `EndingFile`: well-formed files of three lines; liveness is the slow check.
- `Word = 64` or `32` there: addresses do not wrap in the runs, and that they do not
  in the client is an assumption on its constants (`ClientAssumption`).
- `Lexer`: five characters of eight (the letter of a keyword that is also the `x` of hexadecimal numbers,
  a digit, newline, blank, comment, both signs of declarations, a bracket), behind them an end or a byte that no word has (a letter there would act much as one more character of the file), columns
  that wrap after 4 so that a line of five characters wraps, and keywords of one
  and two characters of which one begins another. `MaxLine = 6` stops a lexer that counts
  the same newline again and again.
- `Section`: two bytes, at most two in a call and three in a section, a stream of two, two kinds of
  trouble in a history, and a word of 8 values so that the doubled capacity wraps.
- `Layout`: images of three sections and up to three segments: every membership by
  an ascending list, alignments stricter and looser, addresses set and not,
  sections with and without bits and of size 0, thread-local ones, and images in
  which a first segment starts with the headers as linkers make them. Two saves.
- `LoadFile`: a file of three bytes with up to three section headers and two
  segment headers, each inside the file, up to its end or past it, and tables
  of headers that the file cuts off, between two headers or within one behind each of its fields, or whose entries are too small.
- `Accessors`: three symbols of three names in two buckets, with one relocation in each of two
  tables (a pair of symbols is exchanged over a third, and both are referred
  to); `SymLimit = 5` makes the index fit. Four dynamic entries, two accessors. Sections of notes of
  thirteen words, which hold three notes. Four attributes of texts of up to one
  character. Tables and accessors of a section are symmetric: nothing in the
  modules tells them apart but the function index.

Between them the passing runs take every action and every disjunct of it.
Deadlock is checked where a model has a final state of its own (`Ended`, `Done`);
`Lexer`, `ElfSection` and the accessors end where a bound does.

### Fairness

Everything modelled is sequential and is never waiting for anyone, so an enabled
step of the program is eventually taken. `Assembly` has `WF_vars(Step)`, where `Step` is every
action of the program and leaves out only `Ended`.
`Lexer` has `WF_vars(Check)`, one call of the lexer; which tokens are asked for
later is the caller's. `ElfLayout` has `WF_vars(Save)`, one call of `save`; whether
it is called again is the user's. `ElfSection`, `ElfLoad` and the accessors are
called as their users like, and the calls of `TableClient` are the text's, so they have no fairness and no liveness property.

## 4. Proofs

| Module | Theorem | Statement |
|---|---|---|
| `TableClientProofs` | `Inductive` | `IInv` always holds |
| | `TypeCorrect` | `TypeOK` always holds |
| | `IdsInLockStep` | the table's cursor stands at the declaration presented last, and what is not placed holds its ordinal |
| | `Disjoint` | placed variables share no byte and none is below the origin |
| | `PlacedOnce` | a placed variable is never moved |
| | `LookupFindsSize` | the lookup by address answers with the size of the variable that has the address |
| | `Implements` | `TableClient` implements `AddressLayout` |
| | `LagIsPerBlock` | an address lags by exactly the blocks of code |
| `AssemblyProofs` | `EmitsInOrder` | the bytes written are those of an initial run of the file's instructions |
| | `SameInstructions` | of a file assembled to its end, pass 1 has counted three bytes and pass 2 written two for every instruction before the last line, and for nothing else but one on the last line |
| | `AssemblesAll` | a well-formed file without a load is assembled to its last instruction |
| | `HangsOnlyThere` | a run hangs in the check of a file that ends in a bare directive, at an unknown word or sign that is indented, behind an instruction or a directive, or first in the file, or over a full table, and nowhere else |
| | `RefusesFirst` | where code was seen, an operand no pass can take ends the run before a byte is written, unless it is on the last line |
| | `TablesRight` | a well-formed file's table holds every declaration, in order, at the place the text gives it |
| | `LaterUnplaced` | of a table that outgrows `variable_id`, the first `Byte` declarations are placed as ever and each later one keeps its ordinal |
| | `ReadsPastEndOnlyThere` | the table is read past its end only where a subset variable is placed behind the last main variable |
| | `LoadsReportRight` | a load reports the place and size of its variable, or of the main variable that owns it |
| `LexerProofs` | `LinesCountRight` | until the end has been met, the line is that of the character the cursor stands at |
| | `FruitlessHarmsNothing` | a lookup that finds nothing, whatever was asked for, leaves every other lookup what it would have found, but for the exceptions it names |
| | `NoGroundIsLost` | no call leaves the cursor in front of where it began, but for one character at the end of the file and a declaration search that ends at the top |
| | `CheckMissesNothing` | the check of the file looks at the first word of every line behind the first, and at nothing else unless a line is half as long as the columns a byte counts |
| `ElfSectionProofs` | `SectionInvariant`, `SectionTypes` | `IInv` and `TypeOK` of a section always hold |
| | `SectionNeverOverruns` | a copy leaves the buffer only after trouble that is not the section's own |
| | `StreamSizeCovers` | an undisturbed section is not longer than its `stream_size` |
| | `SectionImplementsText` | while nothing has gone wrong, a section implements `ByteString`, a string of bytes and its saved copy |
| | `SectionGrowthFails` | an insertion that got no buffer has changed neither header nor bytes nor `stream_size` |
| `ElfLayoutProofs` | `NoBytesShared` | no byte of a saved file belongs to two of its headers, tables and sections, as long as no position wraps |
| | `OnlyWrapsGoBack` | and as long as none does, no step of a save moves back in the file |
| | `LargerSegmentsFirst` | a segment is laid out behind all those it is found to lie in |
| | `RefusesForCause` | of what a caller owes, `save` refuses only a section that an earlier one of its segment reaches into |
| | `LoadersFindAll` | a loader that maps the segments of a saved file finds every section of theirs at its address |
| | `ValidatesItself` | `validate` has nothing to say of a file `save` has just written |
| | `LoadFindsMembers` | `load` finds the sections of every segment again, but for those that take no room |
| `ElfLoadProofs` | `TrueIsReliable` | `true` with a segment to read means that every section header, and without `is_lazy` all data but that of sections as large as the file, was read, or that no section was, as the entries are too small |
| | `SegmentsKept` | the segments are the first ones of the file, all of them exactly when `load` has returned true |
| | `LoadInvariant` | the invariant both follow from |
| | `DamageStaysBehind` | section headers are the file's up to the damage; the stream has failed exactly when damage was met; and data that was read for came, unless damage had been met |
| `ElfAccessorsProofs` | `ArrangingIsHarmless` | arranging symbols leaves every relocation meaning what it was added with, at every exchange; locals come first and no symbol is lost |
| | `LookupsFind` | a lookup finds a symbol if there is one, through any hash table a linker left, and a table still as linked leads to every symbol it covers |
| | `DynamicIsRead` | accessors of a dynamic section and of the versions read what was added, however long ago they have counted |
| | `NotesAreRead` | no accessor of notes reads beyond its section, and one opened later finds every note that was added, as it was added |
| | `ModinfoIsRead` | a `.modinfo` section holds the attributes that were added, in order and where the caller was told, and lookups by name give the first value |

They hold for every value of the constants that satisfies the assumptions: any
number of declarations and instructions, files of any length, any width of words, any
number of headers, any sequence of calls.

**Assumptions.** `WidthAssumption`: the two widths are positive.
`ClientAssumption`: fewer declarations than a `usint8` counts, and origin, code
and variables fit in a `usint16`. `OriginAboveIds`: the origin is positive and
not below the number of declarations; it is assumed by each theorem about
`TableClient` and not of the module, because `table_low_origin` is about what happens
without it. `ProgramsAssumption`: files are sequences of items, an item that is no
comment, unknown word or sign starts its line, no unknown word stands behind a comment, and the operands of `mov` and `org` are numbers. `SectionAssumption`, `LoadAssumption`: constants have their types. `SymbolsAssumption`:
a name does not contain the byte that ends it, and hash values are natural numbers. `ColumnsAssumption`, `TokensAssumption`,
`WordsAssumption`: a line has at least two columns, and no keyword is longer than half of those a byte counts.
`LayoutAssumption`, `ImagesAssumption`: sizes are numbers, section 0 is null, and segments name sections there are.
`NotesAssumption`, `TextAssumption`, `DistinctChars`: a note has a name with its end, and NUL and `=` are two characters that no text
of letters holds. TLC evaluates all of them.

The hypotheses about the layout are on states and not on constants, as it depends on the objects saved whether they hold. `RoomInFile`: no position
of the layout passes the largest `Elf_Xword`. `RoomInMemory`: no address passes the largest `Elf_Addr`. `RoomInImage`: no offset and no size of a
segment passes the largest `Elf_Xword`. No file comes near any of these,
but `layout_backwards` shows what happens when differences wrap. `Owed`: whenever a
save begins, the object is `WellFormed` and no segment begins with the headers of the file. It has to be said of each save, since
what `load` makes of members is not always what the caller had. `MapOwed` is what the last three theorems of the layout want besides:
whenever a save begins,

- no segment has the null section as a member, and what is in memory comes first in it (a section that is not takes room
  in the file and none in memory, and what is behind it would no longer be as far from the start in both);
- a section without bits that has an address lies in the memory its segments have, as it does after a save;
- the alignment of a nested segment divides that of the one around it, and it starts with a section that has bits and its
  address, or else it starts with the outer segment, at an address that agrees with the alignment of the section both start with.

`Plain`, for `ValidatesItself`: sections are null and empty, have bits or have none. `BssInMemory`, for `LoadFindsMembers`:
a section without bits is in memory, as by its offset `load` could only find it by chance.

**The table.** None of its properties is inductive by itself. `NoOverlap` holds
because a call adds the size of the entry placed last, so one must know that the
cursor stands at that entry (`LockStep`); that holds because the id presented
is the ordinal of exactly one entry, which needs both that unplaced entries
still hold their ordinals (`OrdinalIds`) and that no placed address equals an
ordinal (`AddressInv`, with the origin above the ids); and that the matching
entry is the cursor's next main variable or next subset needs the order of
declaration to be the order of the table (`OrderInv`). `CursorInv` ties the
table's fields to the client's counters: among other things, subset variables
are placed at the program counter of their owner, so the branch of the code that
adds an id to an address is never taken. `IInv` is the conjunction, and the proof
goes action by action. `AssignStep` is the real work: `GrownRange` bounds
the running address, `IdIsUnique` finds the one entry with the id, and
`PlaceVariableEffect` and `PlaceSubsetEffect` say what a call does; its fact
`Fits` gives the very address, `NextAddress`.

**Refinement and lag.** The refinement adds to `IInv` what the mapping
needs: a step that places an entry appends one block to the layout, at an
address not below the end of the last one, and every other step leaves
the placed entries and the top alone. The lag needs `LagInv`, which says of the
entry placed last by how much its address lags what the text owes it, in terms
of the program counter's correction; `CounterSeen` ties that to the counter the
call before has seen.

**The passes.** `AssemblyProofs` rests on lemmas about the cursor: what `SkipAll` passes
over, where `Approach` ends, and for `Fetch` that it never returns a place before
the one it was given and passes over no instruction. `EmitsInOrder` needs
`EmitInv`: in pass 2, the instructions emitted are those before the cursor, so
that the next one has the next rank. `SameInstructions` joins the two passes by `CountInv`:
each pass has taken the instructions before some place it has read up to, three bytes each in the counter of the one and
two in the output of the other, and behind that place none is left but on the last line (`Past`, of the instructions in `Inner`).
So both have taken all but those of `OnLast`, and one at most of these (`AllButLast`, `OneOnLast`: an instruction opens its line). Where no
code was seen, an instruction can only open the file (`NoCodeSeen`). How runs end:
`PlainInv` adds to `CountInv` that a file of items none of which is refused is
not refused, step by step, so that it can only end `"assembled"`; `SpinInv`
keeps the cursor of the table within it (`CursorInTable`), and behind the check
of the file no unknown word opens a line but the first. `StandsAtUnknown` is the
core: a pass that fetches nothing and stays where it is stands at a word or sign that is nothing it knows. That it
is none behind a declaration is `Off`: the cursor is never left on what trails one, since it gets behind newlines, comments and items
that open their line, and skips declarations with their lines (`ApproachOff`, `FetchOff`, `KeepsOff`). `RefusalInv` has for refused operands that pass 2 starts
only where pass 1 has left none but on the last line (`RefusedLast`), since pass 1 has looked at
every line before the one it ends on.

**The whole table.** `TablesMatchText` compares a table filled by two walks with a
text, and neither walk stores where in the text an entry comes from. `Progress`, the
core of `TableInv`, says for each phase what the table holds. `Holds(c, j)`: the
table has the declarations before position c, each under the entry its rank among
main variables and in its family gives it, and j of them have addresses while
the others hold their ordinals. In the declaration loop c is the cursor and j is
0; in pass 1, c is the end and j counts the declarations before the cursor.
`SubsetsCounted` ties the counters from which the next subset variable is
numbered to the text. `InStep` is what pass 1 relies on and keeps: the id,
the index, the last subset variable, the last address and the last program counter all
belong to the declaration before the cursor. It is claimed only while fewer than `Byte`
declarations are passed, because behind them `variable_id` presents 0 again;
what is proved for those is that no entry has an ordinal that small any more, unless it is
placed at last.

`Place` is a closed form: origin, code and declared bytes before the declaration, less one
byte for each later block of code. It is a cardinality and no recursion along the text, so the proofs
need no induction over it: `PlaceStep` says how the place of a declaration follows from that of the
one before, which is what one call of `AddMemAddress` does (`PlaceMain`, `PlaceSub`).
`OnlyNextMatches` is the reason why a search by address finds the declaration that comes
next: placed entries have addresses not below the origin, which is above all ids, and the
unplaced ones are apart by their ordinals.

`LoadInv` adds that pass 2 stops at the first load (no load lies behind
the cursor), so that what is printed is of the table pass 1 has left. `FirstIs` shows that the lookup by name
finds the first declaration with it, `OwnerIs` that a subset variable's owner is
the last main variable before it, and `PlacesAscend` that no other entry has its address.

**The lexer.** A call of it is several scans, one behind the other, and a scan is a recursive function along the text.
`LoopExists` and `LoopStays` of `OrderLemmas` turn such a function into facts: it exists, and what each of its steps keeps holds
where it ends. So each scan gets a lemma that says where it stops (`SkipIs`, and so on upwards to `Token`), and `Lands` sums them up:
unless a call has met the end of the file, it ends at or before the place it had advanced to, with no newline in between. The lines it has
counted are therefore the newlines before the place it ends at, which is `LineIsRight`; `CursorInv` adds that the
cursor at rest is within the text. For `FruitlessIsHarmless` the same lemmas are used twice, for the call that found nothing and the one behind it:
what the first one leaves behind are blanks and declarations the second would have skipped. The search for declarations is one
more scan, `SearchFor`; `NoGroundIsLost` takes from `Lands` that a word is gone back over only as far as it was read, and one
character more where the end of the file had been met. The check of the
file decides by the column it has counted whether a word opens a line, so `CheckInv` needs to say what a
column is. It is not the distance from the start of the line, as a word that was looked at is counted again: `StandsAt` says it is that
distance and an excess of at most half of the columns, so that the column wraps to 0 only where the line is long.

**Sections.** `Room` is the core of `IInv`: while nothing has gone wrong the text ends
inside the believed capacity, the believed capacity inside the real one, and a header
not yet followed leads to bytes that exist. `Bare` says when there is no buffer. Each call
either preserves `Room` or adds to `seen`. The refinement needs one fact more, `Uncopied`:
nothing has been written for a section without bytes of its own. With `Room`, every call is then a
call of `ByteString` or a stutter.

**Layout.** `LayInv` has `Typed`; `Placed`, that what has been generated lies behind the headers and before the position, pairwise
apart; and `Complete`, that whatever is not generated waits: its segment is in the queue, or is being laid out and
has not come to it yet, or it is a loose section. That the position never goes back is the only arithmetic fact, and it is here that
`RoomInFile` is needed: `Behind` compares two differences, and one that has wrapped passes the test.

What save refuses takes more. A section is refused when the distance of its address from that of its
segment is smaller than the distance the layout has come since the segment's start; this proves an overlap only if the layout has
come that far by way of a section that ends there. It has not if the segment was begun with some of its sections placed by another
segment, which is what ordering is there to prevent. `LargerFirst` is the order; to use it one must know that
`is_subsequence_of` sees every inclusion, though `std::includes` merges and relies on ascending members: `IncludesIs` shows for
ascending lists that it answers what inclusion of sets would (the index it has come to is the number of
members found). `StillOwed` is what is left of the caller's part between two steps; `Sourced` that a generated section came with a segment
that lies in none of those waiting. From these, `AllOrNone`: a segment has all of its sections or none when its turn comes. Then
`Fresh` is kept by each section placed: the position is the end of one of the segment's sections, by
address as in the file (`NextPlace`), or it is still the start.

What a loader finds is a property of the last state of a save, and each segment must bring its part there. `Settled` is that part,
and `AllSettled` that every segment laid out so far has it: its members fit it (`Well`: within its bytes and its memory, in order, as far from
its start in the one as in the other), its offset agrees with its address, and whatever else has bytes is clear of it, or at the very
place in its memory where it is in the file (`Clear`). What is placed later lies behind the position, so it is clear; and a segment that is laid out is not touched
again, as no segment comes out of the queue twice (`Once`). `AtHand` is the same of the segment being laid
out, with the header it would have if it ended now (`Now`) and the members it has passed. Here the two cases of `AllOrNone` part.
In the first the segment is `Alone`: it places its members itself, its file size is the distance the position has come, and its memory size
is the file size until a member without bits comes (`WroteAlone`). In the second all its members have places, and it is `Within` a segment that is settled:
by `Rooted` some segment laid out before has its first member and includes none that waits, by nesting it has all of
them, and the new segment then is as far from it in the file as in memory (`StartWithin`); so what fits the one fits the other
(`WroteWithin`). That they are equally far apart is what the last clause of `MapOwed` is for. If the first member has an address it
is the segment's own. If not, it must get it where both start, which takes that no padding is put before it, by the outer segment nor by
a third between the two: `StillTied` follows such a pair from the begin of the save through all segments laid out before, and
`NoPadding` is the arithmetic. `StillSorted`, `StillGiven` and `StillBehind` are what is left of the caller's part, and `MapInv` is all of this.

`LoadersFindAll` reads `Well` off the last state. `ValidatesItself` reads `Placed` and `Clear`: a section with bits in which
a segment starts is at the same place in memory, whether it is a member or not. For `LoadFindsMembers`, `FoundHas`
shows that the search of `load` passes over no section that lies in the segment (it is a recursive function once more), `FitsIsHeld` that
members do, and `Returned` carries what `load` gave the segments back through the save that follows.

**Loading.** `LoadInv` says that a stream that has not failed has given every
header and every byte so far; a segment is only kept while the stream had not failed, so one
segment is enough for `true` to vouch for all that was read before it. `PrefixInv`
is `SegmentsArePrefix` with what it needs while segments are being read. `SpreadInv` is the
same in the other direction: a read comes short exactly at damage, which stays met (`DamageMet`), and the failed stream is what it leaves; and the
first header that is not the file's is the one at which the stream failed, so all behind it are blank (`HeadersUpToDamage`).

**Accessors.** `SymInv` has for symbols that every name is that of a string which has its end, so that what is
appended behind changes none (`Naming`), that each relocation's entry has the index of a symbol where
`r_info` can hold all of them (`Indexed`), and what `arrange_local_symbols` knows in the middle of a call
(`Scanning`): what it has passed is local, and the pair it is exchanging is a
global symbol before a local one. The property then is inductive with the rest, exchange by exchange.
For the lookups, `LookInv` adds that every symbol but the null symbol has a name that was given to it
(`Called`), that values number the symbols (`Valued`), that the chains of a table, of whatever
age, lead down to symbol 0 or up to an entry marked as the last (`Chained`), and that a table
nothing has been changed behind is the one a linker would write now (`Fresh`). A walk
through a chain is a recursive function, so it must first be shown to exist: `SearchDown` and `SearchUp` of
`OrderLemmas` do that for any search that goes one way only, by the least number up to
which there is none. What the walk answers then follows from its least, or greatest, counterexample (`SysvSound`,
`SysvFinds`, `GnuSound`, `GnuFinds`); `SortedBetween` keeps a walk of the second kind within its bucket.
`DynInv` says of each accessor's count that it was the end of the list (`EndsAt`: the first
`DT_NULL`, or all of it) of the entries there were when it counted, and of every entry that it means what it was added with.
`NotesInv`: every start an accessor has lies in the section, and the notes that were added are the last that `process_section` would
find now. `Process` is shown to be the one list (`AllOf`) in which each note begins where the one before it ends and which ends where no
further note fits; two such lists are equal, and a whole note put behind the section makes the list longer by one.
`Held`: each attribute stands between two NULs at its place, and the ends of texts, counted from the front, number the attributes;
so reading the section text by text gives the attributes in order. `Pair` splits at the first `=`, so that the pairs an accessor reads
are those that were added when no field holds one.

TLC checks `IInv` of `TableClient` and of `ElfSection` in `table_client` and `section`,
and every property a theorem states in one of the runs.

**Model-checked only.**

- Liveness (`Settles`, `CheckEnds`, `OrderingEnds`), which the prover does not
  handle under fairness.
- `NoDeclarationMissed` of `Lexer`: a proof would follow the search along the text with what each of its stops has left behind it.
- `SavesAlike` of `ElfLayout`: it compares two saves. A proof would have to follow the second save through the
  positions of the first, of which the file keeps only some: where a section without bits was padded for, the two differ in
  their positions from there on and agree in the memory they describe.

## 5. Not modelled, and why

- *Tokens.* A token's value is owned by every copy (`tokens.hpp:250`); what that does to the heap shows
  in nothing a run of the Makefile's build does, so there is nothing to compare a model with.
- *Memory behind fixed sizes.* A name is kept in 30 bytes (`variables.hpp:28`), the
  keyword readers allocate by the word (`lexer.hpp:174`), `FILE` is freed
  early (`moca_assembler.hpp:188`): hazards, but not ones of control flow.
- *Values.* The arithmetic of literals, beyond whether one is too large or in which base it
  is read, and the wording of messages.
- *Register values*, `get_variable_by_address`, `assembler_init_new_instruction`,
  `parser_check_for_ignored_line`, the ELF section writer: nothing calls them.
- *ELF generator*: three setters of an object that is never saved.
- *ELFIO's remaining headers*: plain fields, byte order, the hash functions (a constant of `ElfSymbols`), arrays of words;
  `elfio_dump.hpp` is layout of output.
- *Constants of `elf_types.hpp`*, but for the packing of relocation info and the section types `validate` compares.
- *Test programs and build*: the samples have the shape of the files `MCAssembly` enumerates.

## 6. Plan

Done, in the order of importance: the symbol table and its client; the abstract
layout; the cursor; the whole run and its properties; operand errors; the table
beyond its limit; the lexer by characters; ELFIO's sections, layout, load,
validation and accessors; the proofs of section 4.

To do:

1. Proofs: `SavesAlike` of `ElfLayout`, with the positions of the first save kept for the second.
2. `Lexer` shown to implement `Scanner`'s view of a line, item by item.
3. `TokenOwnership`: values, copies and deletes, for a build in which they show.
4. `RegisterValues`: the byte arithmetic and the parent registers against a
   reference definition, once something calls them.
