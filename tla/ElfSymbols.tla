----------------------------- MODULE ElfSymbols -----------------------------
(***************************************************************************)
(* A symbol table with its names and the relocations that refer to it by   *)
(* index: elfio_symbols.hpp, elfio_relocation.hpp and elfio_strings.hpp.   *)
(* Symbols are added, brought into the order the ELF specification asks    *)
(* for (local ones first), which renumbers them, and looked up by name,    *)
(* through a hash table that a linker may have left in the file.           *)
(***************************************************************************)
EXTENDS Integers, Sequences, SequencesExt

CONSTANTS
    Names,      \* what add_string is called with: sequences of characters
    Nul,        \* the byte that ends a string
    Tables,     \* the relocation sections with a link to the symbol table
    Types,      \* of relocations
    Addends,    \* of the entries of a relocation section with addends
    Hash,       \* [Names -> Nat]: elf_hash or elf_gnu_hash
    Buckets,    \* nbucket of a hash table
    HashKinds,  \* the kinds of hash tables that linkers write
    SymLimit,   \* number of symbol indices that r_info can hold
    MaxSyms,    \* bound: symbols
    MaxRelocs   \* bound: entries of a relocation section

ASSUME SymbolsAssumption ==
    /\ Names \subseteq Seq(STRING \ {Nul}) /\ \A n \in Names : Hash[n] \in Nat
    /\ Buckets \in Nat \ {0} /\ SymLimit \in Nat \ {0}
    /\ MaxSyms \in Nat /\ MaxRelocs \in Nat /\ Addends \subseteq Int

VARIABLES
    strings,    \* the bytes of the string section
    syms,       \* the entries, symbol i at place i + 1
    info,       \* of the symbol section
    relocs,     \* [Tables -> sequence of entries]
    hash,       \* the hash section, as the linker wrote it
    pc,         \* where arrange_local_symbols stands
    first, current,   \* first_not_local and current
    todo,       \* tables whose swap_symbols the callback has still to call
    fresh,      \* history: nothing has changed since the linker's table
    made,       \* history: the symbols as they were added
    meant       \* history: [Tables -> what each entry was added for]

arranging == <<pc, first, current, todo>>
vars == <<strings, syms, info, relocs, hash, arranging, fresh, made, meant>>

NullSym == [name |-> 0, value |-> 0, bind |-> "LOCAL"]
Num == Len(syms)
Sym(i) == syms[i + 1]
Local(i) == Sym(i).bind = "LOCAL"

NoHash == [kind |-> "none"]

Init ==
    /\ strings = <<>> /\ syms = <<>> /\ info = 0 /\ hash = NoHash
    /\ relocs = [t \in Tables |-> <<>>]
    /\ pc = "idle" /\ first = 0 /\ current = 0 /\ todo = {}
    /\ fresh = FALSE /\ made = <<>> /\ meant = [t \in Tables |-> <<>>]

\* string_section_accessor: the first string goes behind an empty one, and a
\* string without its end is no string.
AddString(table, str) ==
    (IF table = <<>> THEN <<Nul>> ELSE table) \o str \o <<Nul>>

Position(table) == IF table = <<>> THEN 1 ELSE Len(table)

GetString(table, at) ==
    LET ends == {k \in at + 1 .. Len(table) : table[k] = Nul}
    IN  IF ends = {} THEN "nullptr"
        ELSE SubSeq(table, at + 1, Min(ends) - 1)

NameAt(i) == GetString(strings, Sym(i).name)

\* add_symbol: the first one goes behind the null symbol.
With(ss, sym) == (IF ss = <<>> THEN <<NullSym>> ELSE ss) \o <<sym>>

AddSym(str, bind) ==
    LET sym == [name |-> Position(strings), value |-> Len(made) + 1, bind |-> bind]
    IN  /\ Len(made) < MaxSyms
        /\ pc \in {"idle", "arranged"}
        /\ strings' = AddString(strings, str)
        /\ syms' = With(syms, sym)
        /\ made' = Append(made, sym)
        /\ fresh' = FALSE
        /\ pc' = "idle"
        /\ UNCHANGED <<info, hash, first, current, todo>>

AddSymbol(str, bind) == AddSym(str, bind) /\ UNCHANGED <<relocs, meant>>

\* ELF32_R_INFO and ELF64_R_INFO cut the index off, ELF32_R_SYM gives the rest.
RInfo(i) == i % SymLimit

\* What get_entry calculates for a place, from a symbol and the addend.
CalcValue(type, value, addend, place) ==
    CASE type = "32"        -> value + addend
      [] type = "PC32"      -> value + addend - place
      [] type = "JMP_SLOT"  -> value
      [] type = "RELATIVE"  -> addend
      [] OTHER              -> 0

\* The short form of get_entry.
Entry(t, k) == relocs[t][k]

\* The long form of get_entry, for the entry of a given symbol.
Resolve(table, sym, e, place) ==
    [name |-> GetString(table, sym.name), value |-> sym.value,
     calc |-> CalcValue(e.type, sym.value, e.addend, place)]

\* add_entry, of either form, for symbol i.
AddTo(t, i, type, addend) ==
    LET e == [sym |-> RInfo(i), type |-> type, addend |-> addend]
    IN  /\ Len(relocs[t]) < MaxRelocs
        /\ relocs' = [relocs EXCEPT ![t] = Append(@, e)]
        /\ meant' = [meant EXCEPT ![t] =
                         Append(@, Resolve(strings', syms'[i + 1], e, Len(@) + 1))]

AddEntry(t, i, type, addend) ==
    /\ pc \in {"idle", "arranged"} /\ i < Num
    /\ UNCHANGED <<strings, syms, info, hash, arranging, fresh, made>>
    /\ AddTo(t, i, type, addend)

\* The form that adds the symbol as well, by the index add_symbol returned.
AddEntryFor(t, str, bind, type) ==
    /\ AddSym(str, bind)
    /\ AddTo(t, Len(syms') - 1, type, 0)

\* arrange_local_symbols, from here to SwapPair.
BeginArrange ==
    /\ pc \in {"idle", "arranged"} /\ Num > 0
    /\ pc' = "scan" /\ first' = 1
    /\ UNCHANGED <<strings, syms, info, relocs, hash, current, todo, fresh, made, meant>>

Locals == {i \in 0 .. Num - 1 : Local(i)}

\* The two inner loops: the first of some indices from i on, or the end.
NextIndex(i, indices) ==
    LET some == indices \cap i .. Num - 1
    IN  IF some # {} THEN Min(some) ELSE Max({i, Num})

FindPair ==
    /\ pc = "scan"
    /\ first' = NextIndex(first, 0 .. Num - 1 \ Locals)
    /\ current' = NextIndex(first' + 1, Locals)
    /\ IF first' < Num /\ current' < Num
       THEN /\ pc' = "tell" /\ todo' = Tables
            /\ UNCHANGED info
       ELSE /\ pc' = "arranged" /\ info' = first'
            /\ UNCHANGED todo
    /\ UNCHANGED <<strings, syms, relocs, hash, fresh, made, meant>>

\* Mutant: only one of the two is renumbered.
SwappedOneWay(i) == IF i = first THEN current ELSE i

\* relocation_section_accessor::swap_symbols, called by the callback.
Swapped(i) == IF i = first THEN current ELSE IF i = current THEN first ELSE i

\* set_entry with everything else as get_entry has found it.
Renumbered(e) ==
    IF e.sym \in {first, current} THEN [e EXCEPT !.sym = RInfo(Swapped(@))] ELSE e

Tell(t) ==
    /\ pc = "tell" /\ t \in todo
    /\ relocs' = [relocs EXCEPT ![t] = [k \in DOMAIN @ |-> Renumbered(Entry(t, k))]]
    /\ todo' = todo \ {t}
    /\ UNCHANGED <<strings, syms, info, hash, pc, first, current, fresh, made, meant>>

Exchanged(ss) ==
    [ss EXCEPT ![first + 1] = ss[current + 1], ![current + 1] = ss[first + 1]]

SwapPair ==
    /\ pc = "tell" /\ todo = {}
    /\ syms' = Exchanged(syms)
    /\ fresh' = FALSE
    /\ pc' = "scan"
    /\ UNCHANGED <<strings, info, relocs, hash, first, current, todo, made, meant>>

\* A linker writes the file and a hash table for it: of the first kind over all
\* symbols, or of the second over those from an offset on, sorted by bucket.
Bucket(i) == Hash[NameAt(i)] % Buckets
InBucket(b, from) == {i \in from .. Num - 1 : Bucket(i) = b}
Largest(S) == IF S = {} THEN 0 ELSE Max(S)
Least(S) == IF S = {} THEN 0 ELSE Min(S)

LinkHash ==
    hash' = [kind |-> "sysv", nchain |-> Num,
             bucket |-> [b \in 0 .. Buckets - 1 |-> Largest(InBucket(b, 1))],
             chain |-> [i \in 0 .. Num - 1 |->
                 IF i = 0 THEN 0 ELSE Largest(InBucket(Bucket(i), 1) \cap 1 .. i - 1)]]

BloomBits(h) == {h % 4, (h \div 2) % 4}

LinkGnuHash ==
    \E from \in 1 .. Num - 1 :
        /\ \A i \in from .. Num - 2 : Bucket(i) <= Bucket(i + 1)
        /\ hash' = [kind |-> "gnu", from |-> from,
                    bloom |-> UNION {BloomBits(Hash[NameAt(i)]) : i \in from .. Num - 1},
                    bucket |-> [b \in 0 .. Buckets - 1 |-> Least(InBucket(b, from))],
                    chain |-> [i \in from .. Num - 1 |->
                        [half |-> Hash[NameAt(i)] \div 2,
                         last |-> i = Largest(InBucket(Bucket(i), from))]]]

Link ==
    /\ pc \in {"idle", "arranged"} /\ Num > 0 /\ hash = NoHash
    /\ \/ "sysv" \in HashKinds /\ LinkHash
       \/ "gnu" \in HashKinds /\ LinkGnuHash
    /\ fresh' = TRUE
    /\ UNCHANGED <<strings, syms, info, relocs, arranging, made, meant>>

Arrange == FindPair \/ (\E t \in Tables : Tell(t)) \/ SwapPair

Next ==
    \/ \E str \in Names, bind \in {"LOCAL", "GLOBAL"} : AddSymbol(str, bind)
    \/ \E t \in Tables, type \in Types, addend \in Addends :
           \E i \in 0 .. Num - 1 : AddEntry(t, i, type, addend)
    \/ \E t \in Tables, str \in Names, bind \in {"LOCAL", "GLOBAL"} :
           AddEntryFor(t, str, bind, "PC32")
    \/ BeginArrange \/ Arrange \/ Link

Spec == Init /\ [][Next]_vars
-----------------------------------------------------------------------------
\* get_symbol by name: the hash table, when there is one, and every symbol
\* after that.  An index, or -1.
HashLookup(name) ==
    LET walk[y \in 0 .. hash.nchain - 1] ==
            IF NameAt(y) = name THEN y
            ELSE IF y = 0 THEN -1
            ELSE walk[hash.chain[y]]
    IN  walk[hash.bucket[Hash[name] % Buckets]]

GnuHashLookup(name) ==
    LET h == Hash[name]
        walk[i \in DOMAIN hash.chain] ==
            IF hash.chain[i].half = h \div 2 /\ NameAt(i) = name THEN i
            ELSE IF hash.chain[i].last THEN -1
            ELSE walk[i + 1]
    IN  IF BloomBits(h) \subseteq hash.bloom /\ hash.bucket[h % Buckets] >= hash.from
        THEN walk[hash.bucket[h % Buckets]] ELSE -1

FirstOf(indices) == IF indices = {} THEN -1 ELSE Min(indices)
Named(name) == {i \in 0 .. Num - 1 : NameAt(i) = name}

\* Mutant: no search behind a hash table.
GetSymbolByHash(name) ==
    CASE hash.kind = "sysv" -> HashLookup(name)
      [] hash.kind = "gnu"  -> GnuHashLookup(name)
      [] OTHER -> FirstOf(Named(name))

GetSymbol(name) ==
    LET quick == CASE hash.kind = "sysv" -> HashLookup(name)
                   [] hash.kind = "gnu"  -> GnuHashLookup(name)
                   [] OTHER -> -1
    IN  IF quick >= 0 THEN quick ELSE FirstOf(Named(name))

\* get_symbol by value, which knows no hash table.
GetSymbolAt(value) == FirstOf({i \in 0 .. Num - 1 : Sym(i).value = value})
-----------------------------------------------------------------------------
\* The symbols as a table sees them: one that has been told of the pair by
\* swap_symbols sees it exchanged before it is.
Seen(t) == IF pc = "tell" /\ t \notin todo THEN Exchanged(syms) ELSE syms

\* Whatever is added, arranged and renumbered, get_entry resolves every entry
\* to the name, value and result it was added with, as long as every index fits
\* into r_info.
RelocsMean ==
    Num <= SymLimit => \A t \in Tables : \A k \in DOMAIN relocs[t] :
        Resolve(strings, Seen(t)[Entry(t, k).sym + 1], Entry(t, k), k) = meant[t][k]

\* arrange_local_symbols leaves the local symbols in front, info behind the last
\* of them, and the null symbol at its place.
LocalsFirst ==
    pc = "arranged" => \A i \in 0 .. Num - 1 : Local(i) <=> i < info

\* No symbol is lost, doubled or changed by the exchanges.
Permuted == ToSet(syms) = ToSet(With(made, NullSym)) \/ syms = <<>>

\* Arranging local symbols to the front, one exchange at a time with the
\* relocations told of each, changes what no symbol and no relocation means.
ArrangeKeeps == RelocsMean /\ LocalsFirst /\ Permuted

\* get_symbol finds a name exactly when a symbol has it, also through a hash
\* table whose indices or filter are those of an earlier order or fewer symbols;
\* and a value likewise.
LookupFinds ==
    /\ \A name \in Names : LET i == GetSymbol(name) IN
          IF i >= 0 THEN i < Num /\ NameAt(i) = name
                    ELSE \A j \in 0 .. Num - 1 : NameAt(j) # name
    /\ \A j \in 0 .. Num - 1 : LET i == GetSymbolAt(Sym(j).value) IN
          i \in 0 .. j /\ Sym(i) = Sym(j)

\* A table that is as it was linked leads to every symbol it covers without the
\* search behind it.
QuickWhenFresh ==
    /\ fresh /\ hash.kind = "sysv" =>
          \A j \in 1 .. Num - 1 : HashLookup(NameAt(j)) >= 0
    /\ fresh /\ hash.kind = "gnu" =>
          \A j \in hash.from .. Num - 1 : GnuHashLookup(NameAt(j)) >= 0

\* Lookups by name and value answer the same with a hash table as without, and
\* are as quick as the linker meant them to be.
LookupsAgree == LookupFinds /\ QuickWhenFresh
=============================================================================
