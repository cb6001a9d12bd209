------------------------- MODULE ElfAccessorsProofs -------------------------
(***************************************************************************)
(* Proofs about the accessors, for any number of symbols, relocations,     *)
(* entries, notes and attributes.  Arranging the symbols keeps what every  *)
(* symbol and relocation means, lookups find what there is through hash    *)
(* tables new and old, and the entries of a dynamic section, the notes and *)
(* the attributes are read as they were added.                             *)
(***************************************************************************)
EXTENDS ElfAccessors, OrderLemmas, SequenceTheorems, FiniteSetTheorems

Bytes == STRING \cup {Nul}
Symbols == [name : Nat, value : Nat, bind : {"LOCAL", "GLOBAL"}]
Entries == [sym : Nat, type : Types \cup {"PC32"}, addend : Int]
Meanings == [name : Seq(Bytes) \cup {"nullptr"}, value : Nat, calc : Int]

Typed ==
    /\ strings \in Seq(Bytes) /\ syms \in Seq(Symbols) /\ made \in Seq(Symbols)
    /\ relocs \in [Tables -> Seq(Entries)] /\ meant \in [Tables -> Seq(Meanings)]
    /\ \A t \in Tables : Len(meant[t]) = Len(relocs[t])
    /\ info \in Nat /\ first \in Nat /\ current \in Nat /\ todo \subseteq Tables
    /\ pc \in {"idle", "arranged", "scan", "tell"}

\* The null symbol is in front, and every name is that of a string which has
\* its end: what is appended behind it changes no name.
Naming ==
    /\ syms = <<>> => strings = <<>> /\ made = <<>>
    /\ syms # <<>> =>
          /\ syms[1] = NullSym
          /\ strings # <<>> /\ strings[Len(strings)] = Nul
          /\ \A i \in DOMAIN syms : syms[i].name < Len(strings)

\* Where r_info can hold every index, each entry has that of a symbol.
Indexed ==
    Num <= SymLimit => \A t \in Tables : \A k \in DOMAIN relocs[t] : Entry(t, k).sym < Num

\* What the loops of arrange_local_symbols have passed, and the pair they stop at.
Scanning ==
    /\ pc \in {"scan", "tell"} => first \in 1 .. Num /\ \A i \in 0 .. first - 1 : Local(i)
    /\ pc = "tell" => first < current /\ current < Num /\ ~Local(first) /\ Local(current)

SymInv == Typed /\ Naming /\ Indexed /\ Scanning /\ ArrangeKeeps

-----------------------------------------------------------------------------
\* The positions of the ends of strings behind a place.
Ends(table, at) == {k \in at + 1 .. Len(table) : table[k] = Nul}

\* get_string gives a string or nothing.
LEMMA GetStringType ==
    ASSUME NEW table \in Seq(Bytes), NEW at \in Nat
    PROVE  GetString(table, at) \in Seq(Bytes) \cup {"nullptr"}
  <1>1. CASE Ends(table, at) = {}
    BY <1>1 DEF GetString, Ends
  <1>2. CASE Ends(table, at) # {}
    <2>1. Ends(table, at) \in SUBSET Nat
      BY DEF Ends
    <2>2. Min(Ends(table, at)) \in Ends(table, at)
      BY <1>2, <2>1, MinOf
    <2>3. PICK m \in at + 1 .. Len(table) : m = Min(Ends(table, at))
      BY <2>2 DEF Ends
    <2>4. \A i \in at + 1 .. m - 1 : table[i] \in Bytes
      OBVIOUS
    <2>5. SubSeq(table, at + 1, m - 1) \in Seq(Bytes)
      BY <2>4, SubSeqProperties
    <2>. QED  BY <1>2, <2>3, <2>5 DEF GetString, Ends
  <1>. QED  BY <1>1, <1>2

\* A string that has its end is not changed by what is appended.
LEMMA GetStringStable ==
    ASSUME NEW s \in Seq(Bytes), NEW t \in Seq(Bytes), s # <<>>, s[Len(s)] = Nul,
           NEW at \in Nat, at < Len(s)
    PROVE  GetString(s \o t, at) = GetString(s, at)
  <1>. DEFINE u == s \o t
  <1>1. /\ u \in Seq(Bytes) /\ Len(u) = Len(s) + Len(t)
        /\ \A k \in 1 .. Len(s) : u[k] = s[k]
    BY ConcatProperties
  <1>2. /\ Ends(s, at) \in SUBSET Nat /\ Ends(u, at) \in SUBSET Nat
        /\ Len(s) \in Ends(s, at) /\ Ends(s, at) \subseteq Ends(u, at)
        /\ \A k \in Ends(u, at) : k <= Len(s) => k \in Ends(s, at)
    <2>. HIDE DEF u
    <2>. QED  BY <1>1 DEF Ends
  <1>3. /\ Min(Ends(s, at)) \in Ends(s, at) /\ \A k \in Ends(s, at) : Min(Ends(s, at)) <= k
        /\ Min(Ends(u, at)) \in Ends(u, at) /\ \A k \in Ends(u, at) : Min(Ends(u, at)) <= k
    BY <1>2, MinOf
  <1>4. PICK m \in at + 1 .. Len(s) : m = Min(Ends(s, at))
    BY <1>3 DEF Ends
  <1>5. Min(Ends(u, at)) = m
    <2>1. Min(Ends(u, at)) \in Nat /\ Min(Ends(u, at)) <= m
      BY <1>2, <1>3, <1>4
    <2>2. Min(Ends(u, at)) \in Ends(s, at)
      BY <1>2, <1>3, <1>4, <2>1
    <2>. QED  BY <1>3, <1>4, <2>1, <2>2
  <1>6. SubSeq(u, at + 1, m - 1) = SubSeq(s, at + 1, m - 1)
    <2>1. CASE m - 1 < at + 1
      BY <2>1, SubSeqEmpty
    <2>2. CASE m - 1 >= at + 1
      <3>1. at + 1 \in 1 .. Len(s) /\ m - 1 \in 1 .. Len(s)
        BY <2>2
      <3>. QED  BY <3>1, SubSeqOfConcat1
    <2>. QED  BY <2>1, <2>2
  <1>7. GetString(u, at) = SubSeq(u, at + 1, m - 1)
    <2>. HIDE DEF u
    <2>. QED  BY <1>2, <1>5 DEF GetString, Ends
  <1>8. GetString(s, at) = SubSeq(s, at + 1, m - 1)
    BY <1>2, <1>4 DEF GetString, Ends
  <1>. QED  BY <1>6, <1>7, <1>8

\* get_entry resolves an entry to something.
LEMMA ResolveType ==
    ASSUME NEW table \in Seq(Bytes), NEW sym \in Symbols, NEW e \in Entries, NEW place \in Nat
    PROVE  Resolve(table, sym, e, place) \in Meanings
  <1>1. sym.name \in Nat /\ sym.value \in Nat /\ e.addend \in Int
    BY DEF Symbols, Entries
  <1>2. CalcValue(e.type, sym.value, e.addend, place) \in Int
    BY <1>1 DEF CalcValue
  <1>3. GetString(table, sym.name) \in Seq(Bytes) \cup {"nullptr"}
    BY <1>1, GetStringType
  <1>. QED  BY <1>1, <1>2, <1>3 DEF Resolve, Meanings
-----------------------------------------------------------------------------
\* What add_string makes of a table of strings that all have their end.
LEMMA AddedString ==
    ASSUME NEW s \in Seq(Bytes), s # <<>> => s[Len(s)] = Nul, NEW str \in Names
    PROVE  LET u == AddString(s, str)
           IN  /\ u \in Seq(Bytes) /\ u # <<>> /\ u[Len(u)] = Nul
               /\ Position(s) \in Nat /\ Position(s) < Len(u)
               /\ \A at \in Nat : at < Len(s) => GetString(u, at) = GetString(s, at)
  <1>. DEFINE front == IF s = <<>> THEN <<Nul>> ELSE s
              behind == str \o <<Nul>>
              u == AddString(s, str)
  <1>1. str \in Seq(Bytes) /\ <<Nul>> \in Seq(Bytes) /\ Len(<<Nul>>) = 1
    <2>1. str \in Seq(STRING \ {Nul})
      BY SymbolsAssumption
    <2>2. STRING \ {Nul} \subseteq Bytes
      BY DEF Bytes
    <2>. QED  BY <2>1, <2>2, SeqMonotonic DEF Bytes
  <1>2. front \in Seq(Bytes) /\ Len(front) >= 1 /\ Len(front) = Position(s)
    BY <1>1, EmptySeq DEF Position
  <1>3. behind \in Seq(Bytes) /\ Len(behind) >= 1 /\ behind[Len(behind)] = Nul
    BY <1>1, ConcatProperties
  <1>4. u = front \o behind
    <2>1. u = (front \o str) \o <<Nul>>
      BY DEF AddString
    <2>2. front \in Seq(Bytes)
      BY <1>2
    <2>3. (front \o str) \o <<Nul>> = front \o (str \o <<Nul>>)
      <3>. HIDE DEF front
      <3>. QED  BY <1>1, <2>2, ConcatAssociative
    <2>. QED  BY <2>1, <2>3
  <1>5. u \in Seq(Bytes) /\ Len(u) = Len(front) + Len(behind) /\ u[Len(u)] = Nul
    <2>. HIDE DEF front, behind
    <2>. QED  BY <1>2, <1>3, <1>4, ConcatProperties
  <1>6. \A at \in Nat : at < Len(s) => GetString(u, at) = GetString(s, at)
    <2>. SUFFICES ASSUME NEW at \in Nat, at < Len(s)
                  PROVE  GetString(u, at) = GetString(s, at)
      OBVIOUS
    <2>1. s # <<>> /\ front = s
      OBVIOUS
    <2>. HIDE DEF front, behind, u
    <2>. QED  BY <1>3, <1>4, <2>1, GetStringStable
  <1>7. u # <<>> /\ Position(s) \in Nat /\ Position(s) < Len(u)
    <2>. HIDE DEF front, behind, u
    <2>. QED  BY <1>2, <1>3, <1>5
  <1>. QED  BY <1>5, <1>6, <1>7

\* The members of a sequence with one more.
LEMMA SetOfAppended ==
    ASSUME NEW S, NEW s \in Seq(S), NEW e \in S
    PROVE  ToSet(Append(s, e)) = ToSet(s) \cup {e}
  <1>2. /\ Append(s, e) \in Seq(S) /\ Len(Append(s, e)) = Len(s) + 1
        /\ \A i \in 1 .. Len(s) : Append(s, e)[i] = s[i]
        /\ Append(s, e)[Len(s) + 1] = e
    BY AppendProperties
  <1>3. DOMAIN Append(s, e) = 1 .. Len(s) + 1 /\ DOMAIN s = 1 .. Len(s) /\ Len(s) \in Nat
    BY <1>2, LenProperties
  <1>4. ToSet(Append(s, e)) \subseteq ToSet(s) \cup {e}
    BY <1>2, <1>3 DEF ToSet
  <1>5. ToSet(s) \cup {e} \subseteq ToSet(Append(s, e))
    BY <1>2, <1>3 DEF ToSet
  <1>. QED  BY <1>4, <1>5

\* The symbol behind those there are, with the null symbol in front.
LEMMA WithOne ==
    ASSUME NEW ss \in Seq(Symbols), NEW sym \in Symbols
    PROVE  LET more == With(ss, sym)
           IN  /\ more \in Seq(Symbols)
               /\ Len(more) = IF ss = <<>> THEN 2 ELSE Len(ss) + 1
               /\ \A i \in 1 .. Len(ss) : more[i] = ss[i]
               /\ more[Len(more)] = sym
               /\ ss = <<>> => more[1] = NullSym
               /\ ToSet(more) = ToSet(ss) \cup {sym} \cup IF ss = <<>> THEN {NullSym} ELSE {}
  <1>. DEFINE front == IF ss = <<>> THEN <<NullSym>> ELSE ss
  <1>1. NullSym \in Symbols
    BY DEF NullSym, Symbols
  <1>2. /\ front \in Seq(Symbols) /\ Len(front) = IF ss = <<>> THEN 1 ELSE Len(ss)
        /\ \A i \in 1 .. Len(ss) : front[i] = ss[i]
        /\ ss = <<>> => front[1] = NullSym
    BY <1>1
  <1>3. ToSet(front) = ToSet(ss) \cup IF ss = <<>> THEN {NullSym} ELSE {}
    BY DEF ToSet
  <1>4. With(ss, sym) = Append(front, sym) /\ Append(front, sym) = front \o <<sym>>
    BY <1>2, AppendIsConcat DEF With
  <1>. HIDE DEF front
  <1>5. ToSet(Append(front, sym)) = ToSet(front) \cup {sym}
    BY <1>2, SetOfAppended
  <1>6. /\ With(ss, sym) \in Seq(Symbols) /\ Len(With(ss, sym)) = Len(front) + 1
        /\ \A i \in 1 .. Len(front) : With(ss, sym)[i] = front[i]
        /\ With(ss, sym)[Len(front) + 1] = sym
    <2>1. front \in Seq(Symbols)
      BY <1>2
    <2>2. /\ Append(front, sym) \in Seq(Symbols)
          /\ Len(Append(front, sym)) = Len(front) + 1
          /\ \A i \in 1 .. Len(front) : Append(front, sym)[i] = front[i]
          /\ Append(front, sym)[Len(front) + 1] = sym
      BY <2>1, AppendProperties
    <2>. QED  BY <1>4, <2>2
  <1>7. ToSet(With(ss, sym)) = ToSet(ss) \cup {sym} \cup IF ss = <<>> THEN {NullSym} ELSE {}
    BY <1>3, <1>4, <1>5
  <1>. QED  BY <1>2, <1>6, <1>7
-----------------------------------------------------------------------------
\* What add_symbol makes of the symbols and their names.
Added ==
    /\ strings' \in Seq(Bytes) /\ syms' \in Seq(Symbols) /\ made' \in Seq(Symbols)
    /\ Num' > Num
    /\ \A i \in 1 .. Num : /\ syms'[i] = syms[i]
                           /\ GetString(strings', syms[i].name) = GetString(strings, syms[i].name)
    /\ Naming' /\ Permuted'

\* The name of a symbol begins within the string section.
LEMMA NameOf ==
    ASSUME SymInv, NEW i \in 1 .. Num
    PROVE  syms[i] \in Symbols /\ syms[i].name \in Nat /\ syms[i].name < Len(strings) /\ strings # <<>>
  <1>1. syms \in Seq(Symbols) /\ i \in DOMAIN syms /\ syms # <<>>
    BY DEF Num, SymInv, Typed
  <1>2. syms[i] \in Symbols
    BY <1>1 DEF Num
  <1>. QED  BY <1>1, <1>2 DEF SymInv, Naming, Symbols

LEMMA WithNull ==
    ASSUME NEW ss \in Seq(Symbols)
    PROVE  ToSet(With(ss, NullSym)) = ToSet(ss) \cup {NullSym}
  <1>1. NullSym \in Symbols
    BY DEF NullSym, Symbols
  <1>2. ToSet(With(ss, NullSym))
            = ToSet(ss) \cup {NullSym} \cup IF ss = <<>> THEN {NullSym} ELSE {}
    BY <1>1, WithOne
  <1>. QED  BY <1>2, Zenon

LEMMA AddSymStep ==
    ASSUME SymInv, NEW str \in Names, NEW bind \in {"LOCAL", "GLOBAL"}, AddSym(str, bind)
    PROVE  Added
  <1>. DEFINE sym == [name |-> Position(strings), value |-> Len(made) + 1, bind |-> bind]
  <1>1. /\ strings' = AddString(strings, str) /\ syms' = With(syms, sym)
        /\ made' = Append(made, sym)
    BY DEF AddSym
  <1>2. /\ strings \in Seq(Bytes) /\ syms \in Seq(Symbols) /\ made \in Seq(Symbols)
        /\ strings # <<>> => strings[Len(strings)] = Nul
    BY DEF SymInv, Typed, Naming
  <1>3. /\ strings' \in Seq(Bytes) /\ strings' # <<>> /\ strings'[Len(strings')] = Nul
        /\ Position(strings) \in Nat /\ Position(strings) < Len(strings')
        /\ \A at \in Nat : at < Len(strings) => GetString(strings', at) = GetString(strings, at)
    BY <1>1, <1>2, AddedString
  <1>4. sym \in Symbols /\ sym.name = Position(strings)
    BY <1>2, <1>3 DEF Symbols
  <1>. HIDE DEF sym
  <1>5. /\ syms' \in Seq(Symbols) /\ Len(syms') = IF syms = <<>> THEN 2 ELSE Num + 1
        /\ \A i \in 1 .. Num : syms'[i] = syms[i]
        /\ syms'[Len(syms')] = sym
        /\ syms = <<>> => syms'[1] = NullSym
        /\ ToSet(syms') = ToSet(syms) \cup {sym} \cup IF syms = <<>> THEN {NullSym} ELSE {}
    BY <1>1, <1>2, <1>4, WithOne DEF Num
  <1>6. /\ made' \in Seq(Symbols) /\ made' # <<>> /\ ToSet(made') = ToSet(made) \cup {sym}
    BY <1>1, <1>2, <1>4, AppendProperties, SetOfAppended
  <1>7. Num \in Nat /\ Num' > Num /\ Num' # 0
    BY <1>2, <1>5 DEF Num
  <1>8. \A i \in 1 .. Num : GetString(strings', syms[i].name) = GetString(strings, syms[i].name)
    <2>. SUFFICES ASSUME NEW i \in 1 .. Num
                  PROVE  GetString(strings', syms[i].name) = GetString(strings, syms[i].name)
      OBVIOUS
    <2>. QED  BY <1>2, <1>3, NameOf
  <1>9. Naming'
    <2>1. syms' # <<>>
      BY <1>7 DEF Num
    <2>2. syms'[1] = NullSym
      <3>1. CASE syms = <<>>
        BY <1>5, <3>1
      <3>2. CASE syms # <<>>
        BY <1>2, <1>5, <3>2 DEF SymInv, Naming, Num
      <3>. QED  BY <3>1, <3>2
    <2>3. Len(strings') \in Nat /\ (strings # <<>> => Len(strings) < Len(strings'))
      <3>1. strings # <<>> => Position(strings) = Len(strings)
        BY DEF Position
      <3>. QED  BY <1>3, <3>1
    <2>4. \A i \in DOMAIN syms' : syms'[i].name < Len(strings')
      <3>. SUFFICES ASSUME NEW i \in 1 .. Num' PROVE syms'[i].name < Len(strings')
        BY <1>5 DEF Num
      <3>1. CASE i = Num'
        BY <1>3, <1>4, <1>5, <3>1 DEF Num
      <3>2. CASE i \in 1 .. Num
        <4>2. syms[i].name \in Nat /\ syms[i].name < Len(strings) /\ strings # <<>>
          BY <3>2, NameOf
        <4>3. syms'[i] = syms[i]
          BY <1>5, <3>2
        <4>4. Len(strings) \in Nat
          BY <1>2
        <4>. QED  BY <2>3, <4>2, <4>3, <4>4
      <3>3. CASE i = 1
        BY <1>3, <2>2, <3>3 DEF NullSym
      <3>4. i = Num' \/ i \in 1 .. Num \/ i = 1
        BY <1>2, <1>5 DEF Num
      <3>. QED  BY <3>1, <3>2, <3>3, <3>4
    <2>. QED  BY <1>3, <2>1, <2>2, <2>4 DEF Naming
  <1>10. Permuted'
    <2>1. NullSym \in Symbols
      BY DEF NullSym, Symbols
    <2>2. ToSet(With(made', NullSym)) = ToSet(made) \cup {sym, NullSym}
      <3>1. ToSet(With(made', NullSym)) = ToSet(made') \cup {NullSym}
        BY <1>6, WithNull
      <3>. QED  BY <1>6, <3>1
    <2>3. CASE syms = <<>>
      <3>1. made = <<>>
        BY <2>3 DEF SymInv, Naming
      <3>2. ToSet(made) = {} /\ ToSet(syms) = {}
        BY <2>3, <3>1 DEF ToSet
      <3>3. ToSet(syms') = {sym, NullSym}
        BY <1>5, <2>3, <3>2
      <3>. QED  BY <2>2, <3>2, <3>3 DEF Permuted
    <2>4. CASE syms # <<>>
      <3>1. ToSet(syms) = ToSet(With(made, NullSym))
        BY <2>4 DEF SymInv, ArrangeKeeps, Permuted
      <3>2. ToSet(With(made, NullSym)) = ToSet(made) \cup {NullSym}
        BY <1>2, WithNull
      <3>3. ToSet(syms') = ToSet(syms) \cup {sym}
        BY <1>5, <2>4
      <3>. QED  BY <2>2, <3>1, <3>2, <3>3 DEF Permuted
    <2>. QED  BY <2>3, <2>4
  <1>. QED  BY <1>3, <1>5, <1>6, <1>7, <1>8, <1>9, <1>10 DEF Added
-----------------------------------------------------------------------------
\* A call leaves the symbols there are and their names as they were.
Kept ==
    /\ strings' \in Seq(Bytes) /\ syms' \in Seq(Symbols) /\ Num' >= Num
    /\ \A i \in 1 .. Num : /\ syms'[i] = syms[i]
                           /\ GetString(strings', syms[i].name) = GetString(strings, syms[i].name)

LEMMA OldStillMean ==
    ASSUME SymInv, pc \in {"idle", "arranged"}, Kept, Num' <= SymLimit,
           NEW u \in Tables, NEW k \in DOMAIN relocs[u]
    PROVE  /\ relocs[u][k] \in Entries /\ relocs[u][k].sym < Num
           /\ Resolve(strings', syms'[relocs[u][k].sym + 1], relocs[u][k], k) = meant[u][k]
  <1>1. Num \in Nat /\ Num' \in Nat /\ SymLimit \in Nat /\ Num <= SymLimit
    BY SymbolsAssumption DEF Num, Kept, SymInv, Typed
  <1>2. relocs[u] \in Seq(Entries)
    BY DEF SymInv, Typed
  <1>3. relocs[u][k] \in Entries
    BY <1>2
  <1>4. relocs[u][k].sym \in Nat /\ relocs[u][k].sym < Num
    BY <1>1, <1>3 DEF SymInv, Indexed, Entry, Entries
  <1>5. Resolve(strings, syms[relocs[u][k].sym + 1], relocs[u][k], k) = meant[u][k]
    <2>1. Seen(u) = syms
      BY DEF Seen
    <2>. QED  BY <1>1, <2>1 DEF SymInv, ArrangeKeeps, RelocsMean, Entry
  <1>6. relocs[u][k].sym + 1 \in 1 .. Num
    BY <1>1, <1>4
  <1>. QED  BY <1>3, <1>4, <1>5, <1>6 DEF Resolve, Kept

LEMMA AddToStep ==
    ASSUME SymInv, pc \in {"idle", "arranged"}, pc' \in {"idle", "arranged"}, Kept,
           NEW t \in Tables, NEW i \in 0 .. Num' - 1, NEW type \in Types \cup {"PC32"},
           NEW addend \in Int, AddTo(t, i, type, addend)
    PROVE  /\ relocs' \in [Tables -> Seq(Entries)] /\ meant' \in [Tables -> Seq(Meanings)]
           /\ \A u \in Tables : Len(meant'[u]) = Len(relocs'[u])
           /\ Indexed' /\ RelocsMean'
  <1>. DEFINE e == [sym |-> RInfo(i), type |-> type, addend |-> addend]
              m == Resolve(strings', syms'[i + 1], e, Len(meant[t]) + 1)
  <1>1. /\ relocs' = [relocs EXCEPT ![t] = Append(@, e)]
        /\ meant' = [meant EXCEPT ![t] = Append(@, m)]
    BY DEF AddTo
  <1>2. relocs[t] \in Seq(Entries) /\ meant[t] \in Seq(Meanings) /\ Len(meant[t]) = Len(relocs[t])
    BY DEF SymInv, Typed
  <1>3. Num' \in Nat /\ Num \in Nat /\ i \in Nat /\ i + 1 \in 1 .. Num'
    BY DEF Num, Kept, SymInv, Typed
  <1>4. e \in Entries /\ e.sym = RInfo(i)
    <2>1. RInfo(i) \in Nat
      BY <1>3, SymbolsAssumption DEF RInfo
    <2>. QED  BY <2>1 DEF Entries
  <1>5. m \in Meanings
    <2>1. syms'[i + 1] \in Symbols
      BY <1>3 DEF Kept, Num
    <2>2. Len(meant[t]) + 1 \in Nat
      BY <1>2
    <2>. HIDE DEF e
    <2>. QED  BY <1>4, <2>1, <2>2, ResolveType DEF Kept
  <1>6. Num' <= SymLimit => e.sym = i
    BY <1>3, <1>4, SymbolsAssumption DEF RInfo
  <1>. HIDE DEF e, m
  <1>7. /\ relocs'[t] = Append(relocs[t], e) /\ meant'[t] = Append(meant[t], m)
        /\ \A u \in Tables \ {t} : relocs'[u] = relocs[u] /\ meant'[u] = meant[u]
    BY <1>1 DEF SymInv, Typed
  <1>8. /\ relocs'[t] \in Seq(Entries) /\ Len(relocs'[t]) = Len(relocs[t]) + 1
        /\ meant'[t] \in Seq(Meanings) /\ Len(meant'[t]) = Len(relocs[t]) + 1
    BY <1>2, <1>4, <1>5, <1>7, AppendProperties
  <1>9. /\ relocs' \in [Tables -> Seq(Entries)] /\ meant' \in [Tables -> Seq(Meanings)]
        /\ \A u \in Tables : Len(meant'[u]) = Len(relocs'[u])
    BY <1>1, <1>7, <1>8 DEF SymInv, Typed
  <1>10. ASSUME Num' <= SymLimit, NEW u \in Tables, NEW k \in DOMAIN relocs'[u]
         PROVE  /\ relocs'[u][k].sym < Num'
                /\ Resolve(strings', syms'[relocs'[u][k].sym + 1], relocs'[u][k], k) = meant'[u][k]
    <2>1. CASE k \in DOMAIN relocs[u]
      <3>1. relocs'[u][k] = relocs[u][k] /\ meant'[u][k] = meant[u][k]
        <4>1. CASE u # t
          BY <1>7, <4>1
        <4>2. CASE u = t
          <5>1. k \in 1 .. Len(relocs[t]) /\ k \in 1 .. Len(meant[t])
            BY <1>2, <2>1, <4>2
          <5>2. Append(relocs[t], e)[k] = relocs[t][k]
            BY <1>2, <1>4, <5>1, AppendProperties
          <5>3. Append(meant[t], m)[k] = meant[t][k]
            BY <1>2, <1>5, <5>1, AppendProperties
          <5>. QED  BY <1>7, <4>2, <5>2, <5>3
        <4>. QED  BY <4>1, <4>2
      <3>2. /\ relocs[u][k].sym \in Nat /\ relocs[u][k].sym < Num
            /\ Resolve(strings', syms'[relocs[u][k].sym + 1], relocs[u][k], k) = meant[u][k]
        BY <1>10, <2>1, OldStillMean DEF Entries
      <3>3. relocs[u][k].sym < Num'
        BY <1>3, <3>2 DEF Kept
      <3>. QED  BY <3>1, <3>2, <3>3
    <2>2. CASE k \notin DOMAIN relocs[u]
      <3>1. u = t
        BY <1>7, <1>10, <2>2
      <3>2. k = Len(relocs[t]) + 1
        BY <1>2, <1>8, <1>10, <2>2, <3>1
      <3>3. relocs'[u][k] = e /\ meant'[u][k] = m
        BY <1>2, <1>4, <1>5, <1>7, <3>1, <3>2, AppendProperties
      <3>4. Resolve(strings', syms'[i + 1], e, k) = m
        BY <1>2, <3>2 DEF m
      <3>. QED  BY <1>3, <1>6, <1>10, <3>3, <3>4
    <2>. QED  BY <2>1, <2>2
  <1>11. Indexed'
    BY <1>10 DEF Indexed, Entry
  <1>12. RelocsMean'
    <2>1. \A u \in Tables : Seen(u)' = syms'
      BY DEF Seen
    <2>. QED  BY <1>10, <2>1 DEF RelocsMean, Entry
  <1>. QED  BY <1>9, <1>11, <1>12
-----------------------------------------------------------------------------
LEMMA InitSymInv == Init => SymInv
  <1>. SUFFICES ASSUME Init PROVE SymInv
    OBVIOUS
  <1>1. Typed
    BY DEF Init, Typed
  <1>2. Naming /\ Indexed /\ Scanning
    BY DEF Init, Naming, Indexed, Scanning
  <1>3. ArrangeKeeps
    BY DEF Init, ArrangeKeeps, RelocsMean, LocalsFirst, Permuted
  <1>. QED  BY <1>1, <1>2, <1>3 DEF SymInv

\* What a call of an accessor says of the marks of arrange_local_symbols.
LEMMA AddSymIdle ==
    ASSUME SymInv, NEW str, NEW bind, AddSym(str, bind)
    PROVE  /\ pc \in {"idle", "arranged"} /\ pc' = "idle"
           /\ info' \in Nat /\ first' \in Nat /\ current' \in Nat /\ todo' \subseteq Tables
           /\ Scanning' /\ LocalsFirst'
  <1>1. pc \in {"idle", "arranged"} /\ pc' = "idle" /\ UNCHANGED <<info, first, current, todo>>
    BY DEF AddSym
  <1>. QED  BY <1>1 DEF SymInv, Typed, Scanning, LocalsFirst

LEMMA AddedIsKept ==
    ASSUME SymInv, Added
    PROVE  Kept /\ Num' \in Nat
  <1>1. Num \in Nat /\ Num' \in Nat
    BY DEF Num, Added, SymInv, Typed
  <1>. QED  BY <1>1 DEF Added, Kept

LEMMA AddSymbolStep ==
    ASSUME SymInv, NEW str \in Names, NEW bind \in {"LOCAL", "GLOBAL"}, AddSymbol(str, bind)
    PROVE  SymInv'
  <1>1. AddSym(str, bind) /\ UNCHANGED <<relocs, meant>>
    BY DEF AddSymbol
  <1>2. Added /\ Kept
    BY <1>1, AddSymStep, AddedIsKept
  <1>3. /\ pc \in {"idle", "arranged"} /\ pc' = "idle" /\ Scanning' /\ LocalsFirst'
        /\ info' \in Nat /\ first' \in Nat /\ current' \in Nat /\ todo' \subseteq Tables
    BY <1>1, AddSymIdle
  <1>4. Typed'
    BY <1>1, <1>2, <1>3 DEF Added, SymInv, Typed
  <1>5. Indexed' /\ RelocsMean'
    <2>1. ASSUME Num' <= SymLimit, NEW u \in Tables, NEW k \in DOMAIN relocs'[u]
          PROVE  /\ relocs'[u][k].sym < Num'
                 /\ Resolve(strings', syms'[relocs'[u][k].sym + 1], relocs'[u][k], k)
                        = meant'[u][k]
      <3>1. /\ relocs[u][k] \in Entries /\ relocs[u][k].sym < Num
            /\ Resolve(strings', syms'[relocs[u][k].sym + 1], relocs[u][k], k) = meant[u][k]
        BY <1>1, <1>2, <1>3, <2>1, OldStillMean
      <3>2. relocs[u][k].sym \in Nat /\ Num \in Nat /\ Num' \in Nat /\ Num' >= Num
        BY <1>2, <3>1 DEF Entries, Num, Kept, SymInv, Typed
      <3>. QED  BY <1>1, <3>1, <3>2
    <2>2. \A u \in Tables : Seen(u)' = syms'
      BY <1>3 DEF Seen
    <2>. QED  BY <2>1, <2>2 DEF Indexed, RelocsMean, Entry
  <1>. QED  BY <1>2, <1>3, <1>4, <1>5 DEF SymInv, ArrangeKeeps, Added

LEMMA AddEntryForStep ==
    ASSUME SymInv, NEW t \in Tables, NEW str \in Names, NEW bind \in {"LOCAL", "GLOBAL"},
           AddEntryFor(t, str, bind, "PC32")
    PROVE  SymInv'
  <1>1. AddSym(str, bind) /\ AddTo(t, Num' - 1, "PC32", 0)
    BY DEF AddEntryFor, Num
  <1>2. Added /\ Kept /\ Num' \in Nat
    BY <1>1, AddSymStep, AddedIsKept
  <1>3. /\ pc \in {"idle", "arranged"} /\ pc' = "idle" /\ Scanning' /\ LocalsFirst'
        /\ info' \in Nat /\ first' \in Nat /\ current' \in Nat /\ todo' \subseteq Tables
    BY <1>1, AddSymIdle
  <1>4. PICK i \in Nat : i = Num' - 1 /\ i \in 0 .. Num' - 1
    <2>1. Num \in Nat /\ Num' > Num
      BY <1>2 DEF Added, Num, SymInv, Typed
    <2>2. \A n, m \in Nat : n > m => n - 1 \in Nat /\ n - 1 \in 0 .. n - 1
      OBVIOUS
    <2>. QED  BY <1>2, <2>1, <2>2
  <1>5. /\ relocs' \in [Tables -> Seq(Entries)] /\ meant' \in [Tables -> Seq(Meanings)]
        /\ \A u \in Tables : Len(meant'[u]) = Len(relocs'[u])
        /\ Indexed' /\ RelocsMean'
    <2>1. AddTo(t, i, "PC32", 0)
      BY <1>1, <1>4
    <2>2. "PC32" \in Types \cup {"PC32"} /\ 0 \in Int /\ pc' \in {"idle", "arranged"}
      BY <1>3
    <2>3. SymInv /\ Kept /\ pc \in {"idle", "arranged"} /\ i \in 0 .. Num' - 1
      BY <1>2, <1>3, <1>4
    <2>. QED  BY <2>1, <2>2, <2>3, AddToStep, Zenon
  <1>6. Typed'
    BY <1>2, <1>3, <1>5 DEF Added, Typed
  <1>. QED  BY <1>2, <1>3, <1>5, <1>6 DEF SymInv, ArrangeKeeps, Added

LEMMA AddEntryStep ==
    ASSUME SymInv, NEW t \in Tables, NEW type \in Types, NEW addend \in Addends,
           NEW i \in 0 .. Num - 1, AddEntry(t, i, type, addend)
    PROVE  SymInv'
  <1>1. /\ pc \in {"idle", "arranged"} /\ AddTo(t, i, type, addend)
        /\ UNCHANGED <<strings, syms, info, pc, first, current, todo, made>>
    BY DEF AddEntry, arranging
  <1>2. Kept /\ Num' = Num
    BY <1>1 DEF Kept, Num, SymInv, Typed
  <1>3. addend \in Int
    BY SymbolsAssumption
  <1>4. /\ relocs' \in [Tables -> Seq(Entries)] /\ meant' \in [Tables -> Seq(Meanings)]
        /\ \A u \in Tables : Len(meant'[u]) = Len(relocs'[u])
        /\ Indexed' /\ RelocsMean'
    BY <1>1, <1>2, <1>3, AddToStep
  <1>5. Typed'
    BY <1>1, <1>4 DEF SymInv, Typed
  <1>6. Naming' /\ Scanning'
    BY <1>1, <1>2 DEF SymInv, Naming, Scanning, Local, Sym
  <1>7. LocalsFirst' /\ Permuted'
    BY <1>1, <1>2 DEF SymInv, ArrangeKeeps, LocalsFirst, Permuted, Local, Sym
  <1>. QED  BY <1>4, <1>5, <1>6, <1>7 DEF SymInv, ArrangeKeeps

\* Calls that change neither symbols nor entries nor the place of the sort.
LEMMA UntouchedStep ==
    ASSUME SymInv, UNCHANGED <<strings, syms, info, relocs, pc, first, current, todo, made, meant>>
    PROVE  SymInv'
  <1>1. Typed'
    BY DEF SymInv, Typed
  <1>2. Naming' /\ Indexed' /\ Scanning'
    BY DEF SymInv, Naming, Indexed, Scanning, Num, Local, Sym, Entry
  <1>3. RelocsMean'
    BY DEF SymInv, ArrangeKeeps, RelocsMean, Seen, Exchanged, Entry, Num
  <1>4. LocalsFirst' /\ Permuted'
    BY DEF SymInv, ArrangeKeeps, LocalsFirst, Permuted, Num, Local, Sym
  <1>. QED  BY <1>1, <1>2, <1>3, <1>4 DEF SymInv, ArrangeKeeps
-----------------------------------------------------------------------------
\* The loops of arrange_local_symbols stop at the first of the indices they
\* look for, or at the end.
LEMMA NextIndexIs ==
    ASSUME Num \in Nat, NEW i \in Nat, NEW indices \in SUBSET (0 .. Num - 1)
    PROVE  LET j == NextIndex(i, indices)
           IN  /\ j \in Nat /\ i <= j
               /\ i <= Num => j <= Num
               /\ j < Num => j \in indices
               /\ \A k \in indices : i <= k => j <= k
  <1>. DEFINE some == indices \cap i .. Num - 1
              j == NextIndex(i, indices)
  <1>1. some \in SUBSET Nat
    OBVIOUS
  <1>2. CASE some # {}
    <2>1. j = Min(some)
      BY <1>2 DEF NextIndex
    <2>2. j \in some /\ \A k \in some : j <= k
      <3>. HIDE DEF some, j
      <3>. QED  BY <1>1, <1>2, <2>1, MinOf
    <2>3. \A k \in indices : i <= k => k \in some
      OBVIOUS
    <2>4. j \in Nat /\ i <= j /\ j < Num /\ j \in indices
      BY <2>2
    <2>. HIDE DEF some
    <2>. QED  BY <2>2, <2>3, <2>4
  <1>3. CASE some = {}
    <2>1. j = Max({i, Num})
      BY <1>3 DEF NextIndex
    <2>2. PICK m \in {i, Num} : \A y \in {i, Num} : m >= y
      OBVIOUS
    <2>3. j \in {i, Num} /\ \A y \in {i, Num} : j >= y
      <3>. HIDE DEF j
      <3>. QED  BY <2>1, <2>2 DEF Max
    <2>4. \A k \in indices : ~(i <= k)
      BY <1>3
    <2>. HIDE DEF some
    <2>. QED  BY <2>3, <2>4
  <1>. QED  BY <1>2, <1>3

LEMMA BeginArrangeStep ==
    ASSUME SymInv, BeginArrange
    PROVE  SymInv'
  <1>1. /\ pc \in {"idle", "arranged"} /\ Num > 0 /\ pc' = "scan" /\ first' = 1
        /\ UNCHANGED <<strings, syms, info, relocs, current, todo, made, meant>>
    BY DEF BeginArrange
  <1>2. Typed'
    BY <1>1 DEF SymInv, Typed
  <1>3. Naming' /\ Indexed'
    BY <1>1 DEF SymInv, Naming, Indexed, Num, Entry
  <1>4. Num' = Num /\ Num \in Nat
    BY <1>1 DEF Num, SymInv, Typed
  <1>5. Local(0)'
    <2>1. syms # <<>>
      BY <1>1 DEF Num
    <2>. QED  BY <1>1, <2>1 DEF SymInv, Naming, Local, Sym, NullSym
  <1>6. Scanning'
    <2>1. first' \in 1 .. Num' /\ 0 .. first' - 1 = {0}
      BY <1>1, <1>4
    <2>. QED  BY <1>1, <1>5, <2>1 DEF Scanning
  <1>7. RelocsMean'
    <2>1. \A u \in Tables : Seen(u)' = Seen(u)
      BY <1>1 DEF Seen
    <2>. QED  BY <1>1, <1>4, <2>1 DEF SymInv, ArrangeKeeps, RelocsMean, Entry
  <1>8. LocalsFirst' /\ Permuted'
    BY <1>1 DEF SymInv, ArrangeKeeps, LocalsFirst, Permuted
  <1>. QED  BY <1>2, <1>3, <1>6, <1>7, <1>8 DEF SymInv, ArrangeKeeps

LEMMA FindPairStep ==
    ASSUME SymInv, FindPair
    PROVE  SymInv'
  <1>1. /\ pc = "scan" /\ UNCHANGED <<strings, syms, relocs, made, meant>>
        /\ first' = NextIndex(first, (0 .. Num - 1) \ Locals)
        /\ current' = NextIndex(first' + 1, Locals)
        /\ \/ /\ first' < Num /\ current' < Num
              /\ pc' = "tell" /\ todo' = Tables /\ info' = info
           \/ /\ ~(first' < Num /\ current' < Num)
              /\ pc' = "arranged" /\ info' = first' /\ todo' = todo
    BY DEF FindPair
  <1>2. /\ Num \in Nat /\ Num' = Num /\ first \in 1 .. Num
        /\ \A i \in 0 .. first - 1 : Local(i)
        /\ \A i \in 0 .. Num - 1 : i \in Locals <=> Local(i)
    BY <1>1 DEF Num, SymInv, Typed, Scanning, Locals
  <1>3. PICK f : f = first'
    OBVIOUS
  <1>4. /\ f \in Nat /\ first <= f /\ f <= Num
        /\ f < Num => ~Local(f)
        /\ \A k \in 0 .. Num - 1 : ~Local(k) /\ first <= k => f <= k
    <2>1. (0 .. Num - 1) \ Locals \in SUBSET (0 .. Num - 1)
      OBVIOUS
    <2>2. /\ f \in Nat /\ first <= f /\ (first <= Num => f <= Num)
          /\ f < Num => f \in (0 .. Num - 1) \ Locals
          /\ \A k \in (0 .. Num - 1) \ Locals : first <= k => f <= k
      BY <1>1, <1>2, <1>3, <2>1, NextIndexIs
    <2>. QED  BY <1>2, <2>2
  <1>5. PICK c : /\ c = current' /\ c \in Nat /\ f < c
                 /\ c < Num => Local(c)
                 /\ \A k \in 0 .. Num - 1 : Local(k) /\ f < k => c <= k
    <2>1. PICK c : c = current'
      OBVIOUS
    <2>2. Locals \in SUBSET (0 .. Num - 1)
      BY DEF Locals
    <2>3. f + 1 \in Nat /\ c = NextIndex(f + 1, Locals)
      BY <1>1, <1>3, <1>4, <2>1
    <2>4. /\ c \in Nat /\ f + 1 <= c
          /\ c < Num => c \in Locals
          /\ \A k \in Locals : f + 1 <= k => c <= k
      BY <1>2, <2>2, <2>3, NextIndexIs
    <2>. QED  BY <1>2, <1>4, <2>1, <2>2, <2>4
  <1>6. \A i \in 0 .. f - 1 : Local(i)
    <2>. SUFFICES ASSUME NEW i \in 0 .. f - 1, ~Local(i) PROVE FALSE
      OBVIOUS
    <2>1. i \in 0 .. Num - 1 /\ i < f
      BY <1>2, <1>4
    <2>2. first <= i
      BY <1>2, <1>4
    <2>. QED  BY <1>4, <2>1, <2>2
  <1>7. \A i : Local(i)' <=> Local(i)
    BY <1>1 DEF Local, Sym
  <1>8. Typed'
    BY <1>1, <1>3, <1>4, <1>5 DEF SymInv, Typed
  <1>9. Naming' /\ Indexed' /\ Permuted'
    BY <1>1 DEF SymInv, ArrangeKeeps, Naming, Indexed, Permuted, Num, Entry
  <1>10. Scanning'
    <2>1. f \in 1 .. Num
      BY <1>2, <1>4
    <2>2. pc' = "tell" => f < c /\ c < Num /\ ~Local(f) /\ Local(c)
      BY <1>1, <1>3, <1>4, <1>5
    <2>. QED  BY <1>2, <1>3, <1>5, <1>6, <1>7, <2>1, <2>2 DEF Scanning
  <1>11. RelocsMean'
    <2>1. \A u \in Tables : Seen(u)' = Seen(u)
      BY <1>1 DEF Seen
    <2>. QED  BY <1>1, <1>2, <2>1 DEF SymInv, ArrangeKeeps, RelocsMean, Entry
  <1>12. LocalsFirst'
    <2>1. ASSUME pc' = "arranged", NEW i \in 0 .. Num - 1
          PROVE  Local(i) <=> i < f
      <3>1. ~(f < Num /\ c < Num)
        BY <1>1, <1>3, <1>5, <2>1
      <3>2. CASE i < f
        BY <1>4, <1>6, <3>2
      <3>3. CASE f <= i
        <4>1. f < Num /\ ~Local(f)
          BY <1>2, <1>4, <3>3
        <4>2. CASE i = f
          BY <1>4, <4>1, <4>2
        <4>3. CASE f < i
          BY <1>2, <1>4, <1>5, <3>1, <4>1, <4>3
        <4>. QED  BY <1>4, <3>3, <4>2, <4>3
      <3>. QED  BY <1>4, <3>2, <3>3
    <2>2. pc' = "arranged" => info' = f
      BY <1>1, <1>3
    <2>. QED  BY <1>2, <1>7, <2>1, <2>2 DEF LocalsFirst
  <1>. QED  BY <1>8, <1>9, <1>10, <1>11, <1>12 DEF SymInv, ArrangeKeeps
-----------------------------------------------------------------------------
\* Exchanging the pair moves each symbol to where swap_symbols says it is, and
\* the symbols before the pair not at all.
LEMMA ExchangeMoves ==
    ASSUME SymInv, pc = "tell"
    PROVE  /\ Exchanged(syms) \in Seq(Symbols) /\ Len(Exchanged(syms)) = Num
           /\ \A i \in 0 .. Num - 1 :
                  /\ Swapped(i) \in 0 .. Num - 1 /\ Swapped(Swapped(i)) = i
                  /\ Exchanged(syms)[Swapped(i) + 1] = syms[i + 1]
           /\ \A i \in 0 .. first - 1 : Exchanged(syms)[i + 1] = syms[i + 1]
           /\ ToSet(Exchanged(syms)) = ToSet(syms)
  <1>1. /\ syms \in Seq(Symbols) /\ Num \in Nat /\ Len(syms) = Num
        /\ first \in Nat /\ current \in Nat /\ 1 <= first /\ first < current /\ current < Num
    BY DEF SymInv, Typed, Scanning, Num
  <1>2. first + 1 \in 1 .. Num /\ current + 1 \in 1 .. Num /\ DOMAIN syms = 1 .. Num
    BY <1>1, LenProperties
  <1>3. PICK ss : ss = Exchanged(syms)
    OBVIOUS
  <1>4. /\ ss \in Seq(Symbols) /\ Len(ss) = Num
        /\ ss[first + 1] = syms[current + 1] /\ ss[current + 1] = syms[first + 1]
        /\ \A j \in 1 .. Num : j # first + 1 /\ j # current + 1 => ss[j] = syms[j]
    BY <1>1, <1>2, <1>3 DEF Exchanged
  <1>5. ASSUME NEW i \in 0 .. Num - 1
        PROVE  Swapped(i) \in 0 .. Num - 1 /\ Swapped(Swapped(i)) = i /\ ss[Swapped(i) + 1] = syms[i + 1]
    <2>1. CASE i = first
      BY <1>1, <1>4, <2>1 DEF Swapped
    <2>2. CASE i = current
      BY <1>1, <1>4, <2>2 DEF Swapped
    <2>3. CASE i # first /\ i # current
      <3>1. Swapped(i) = i /\ i + 1 \in 1 .. Num /\ i + 1 # first + 1 /\ i + 1 # current + 1
        BY <1>1, <2>3 DEF Swapped
      <3>. QED  BY <1>4, <3>1
    <2>. QED  BY <2>1, <2>2, <2>3
  <1>6. ASSUME NEW i \in 0 .. first - 1 PROVE ss[i + 1] = syms[i + 1]
    <2>1. i + 1 \in 1 .. Num /\ i + 1 # first + 1 /\ i + 1 # current + 1
      BY <1>1
    <2>. QED  BY <1>4, <2>1
  <1>7. ToSet(ss) = ToSet(syms)
    <2>1. DOMAIN ss = 1 .. Num
      BY <1>4, LenProperties
    <2>2. \A j \in 1 .. Num : ss[j] \in ToSet(syms)
      BY <1>2, <1>4 DEF ToSet
    <2>3. \A j \in 1 .. Num : syms[j] \in ToSet(ss)
      BY <1>2, <1>4, <2>1 DEF ToSet
    <2>. QED  BY <1>2, <2>1, <2>2, <2>3 DEF ToSet
  <1>. QED  BY <1>3, <1>4, <1>5, <1>6, <1>7

\* set_entry gives an entry the index of its symbol's new place, and nothing else.
LEMMA RenumberedIs ==
    ASSUME SymInv, pc = "tell", NEW e \in Entries
    PROVE  /\ Renumbered(e) \in Entries
           /\ Renumbered(e).type = e.type /\ Renumbered(e).addend = e.addend
           /\ Num <= SymLimit /\ e.sym < Num => Renumbered(e).sym = Swapped(e.sym)
  <1>1. /\ Num \in Nat /\ first \in Nat /\ current \in Nat /\ first < Num /\ current < Num
        /\ e.sym \in Nat
    BY DEF SymInv, Typed, Scanning, Num, Entries
  <1>2. CASE e.sym \in {first, current}
    <2>1. Swapped(e.sym) \in Nat /\ Swapped(e.sym) < Num
      BY <1>1, <1>2 DEF Swapped
    <2>2. RInfo(Swapped(e.sym)) \in Nat
      BY <2>1, SymbolsAssumption DEF RInfo
    <2>3. Num <= SymLimit => RInfo(Swapped(e.sym)) = Swapped(e.sym)
      BY <1>1, <2>1, SymbolsAssumption DEF RInfo
    <2>4. Renumbered(e) = [e EXCEPT !.sym = RInfo(Swapped(e.sym))]
      BY <1>2 DEF Renumbered
    <2>. QED  BY <2>2, <2>3, <2>4 DEF Entries
  <1>3. CASE e.sym \notin {first, current}
    BY <1>3 DEF Renumbered, Swapped
  <1>. QED  BY <1>2, <1>3

LEMMA TellStep ==
    ASSUME SymInv, NEW t \in Tables, Tell(t)
    PROVE  SymInv'
  <1>1. /\ pc = "tell" /\ t \in todo /\ todo' = todo \ {t}
        /\ relocs' = [relocs EXCEPT ![t] = [k \in DOMAIN @ |-> Renumbered(Entry(t, k))]]
        /\ UNCHANGED <<strings, syms, info, pc, first, current, made, meant>>
    BY DEF Tell
  <1>2. /\ relocs'[t] = [k \in DOMAIN relocs[t] |-> Renumbered(relocs[t][k])]
        /\ \A u \in Tables \ {t} : relocs'[u] = relocs[u]
        /\ relocs[t] \in Seq(Entries) /\ relocs \in [Tables -> Seq(Entries)]
    BY <1>1 DEF Entry, SymInv, Typed
  <1>3. /\ DOMAIN relocs'[t] = DOMAIN relocs[t]
        /\ \A k \in DOMAIN relocs[t] : /\ relocs[t][k] \in Entries
                                       /\ relocs'[t][k] = Renumbered(relocs[t][k])
    BY <1>2
  <1>4. relocs'[t] \in Seq(Entries) /\ Len(relocs'[t]) = Len(relocs[t])
    <2>1. \A k \in 1 .. Len(relocs[t]) : Renumbered(relocs[t][k]) \in Entries
      BY <1>1, <1>2, RenumberedIs
    <2>2. relocs'[t] = [k \in 1 .. Len(relocs[t]) |-> Renumbered(relocs[t][k])]
      BY <1>2, LenProperties
    <2>3. Len(relocs[t]) \in Nat
      BY <1>2, LenProperties
    <2>. QED  BY <2>1, <2>2, <2>3
  <1>5. Typed'
    <2>1. relocs' \in [Tables -> Seq(Entries)]
      BY <1>1, <1>2, <1>4
    <2>2. \A u \in Tables : Len(meant'[u]) = Len(relocs'[u])
      BY <1>1, <1>2, <1>4 DEF SymInv, Typed
    <2>. QED  BY <1>1, <2>1, <2>2 DEF SymInv, Typed
  <1>6. Naming' /\ Scanning' /\ LocalsFirst' /\ Permuted'
    BY <1>1 DEF SymInv, ArrangeKeeps, Naming, Scanning, LocalsFirst, Permuted, Num, Local, Sym
  <1>7. ASSUME Num <= SymLimit, NEW u \in Tables, NEW k \in DOMAIN relocs'[u]
        PROVE  /\ relocs'[u][k].sym < Num
               /\ Resolve(strings, Seen(u)'[relocs'[u][k].sym + 1], relocs'[u][k], k) = meant[u][k]
    <2>1. CASE u = t
      <3>1. PICK e \in Entries : e = relocs[t][k]
        BY <1>3, <1>7, <2>1
      <3>2. e.sym \in 0 .. Num - 1
        <4>1. Num \in Nat /\ e.sym \in Nat /\ e.sym < Num
          BY <1>3, <1>7, <2>1, <3>1 DEF SymInv, Typed, Indexed, Entry, Entries, Num
        <4>. QED  BY <4>1
      <3>3. Resolve(strings, syms[e.sym + 1], e, k) = meant[t][k]
        <4>1. Seen(t) = syms
          BY <1>1 DEF Seen
        <4>. QED  BY <1>3, <1>7, <2>1, <3>1, <4>1 DEF SymInv, ArrangeKeeps, RelocsMean, Entry
      <3>4. /\ relocs'[t][k] = Renumbered(e) /\ Renumbered(e).sym = Swapped(e.sym)
            /\ Renumbered(e).type = e.type /\ Renumbered(e).addend = e.addend
        <4>1. Num \in Nat /\ e.sym < Num
          BY <3>2 DEF SymInv, Typed, Num
        <4>. QED  BY <1>1, <1>3, <1>7, <2>1, <3>1, <4>1, RenumberedIs
      <3>5. Seen(t)' = Exchanged(syms)
        BY <1>1 DEF Seen, Exchanged
      <3>6. Swapped(e.sym) \in 0 .. Num - 1 /\ Exchanged(syms)[Swapped(e.sym) + 1] = syms[e.sym + 1]
        BY <1>1, <3>2, ExchangeMoves
      <3>7. relocs'[u][k].sym < Num
        <4>1. Num \in Nat
          BY DEF SymInv, Typed, Num
        <4>. QED  BY <2>1, <3>4, <3>6, <4>1
      <3>8. Seen(u)'[relocs'[u][k].sym + 1] = syms[e.sym + 1]
        BY <2>1, <3>4, <3>5, <3>6
      <3>. QED  BY <2>1, <3>3, <3>4, <3>7, <3>8 DEF Resolve
    <2>2. CASE u # t
      <3>1. relocs'[u] = relocs[u] /\ Seen(u)' = Seen(u)
        BY <1>1, <1>2, <2>2 DEF Seen, Exchanged
      <3>. QED  BY <1>7, <3>1 DEF SymInv, Indexed, ArrangeKeeps, RelocsMean, Entry
    <2>. QED  BY <2>1, <2>2
  <1>8. Indexed' /\ RelocsMean'
    BY <1>1, <1>7 DEF Indexed, RelocsMean, Entry, Num
  <1>. QED  BY <1>5, <1>6, <1>8 DEF SymInv, ArrangeKeeps

LEMMA SwapPairStep ==
    ASSUME SymInv, SwapPair
    PROVE  SymInv'
  <1>1. /\ pc = "tell" /\ todo = {} /\ syms' = Exchanged(syms) /\ pc' = "scan"
        /\ UNCHANGED <<strings, info, relocs, first, current, todo, made, meant>>
    BY DEF SwapPair
  <1>2. /\ syms' \in Seq(Symbols) /\ Len(syms') = Num /\ Num' = Num
        /\ \A i \in 0 .. Num - 1 :
               /\ Swapped(i) \in 0 .. Num - 1 /\ Swapped(Swapped(i)) = i
               /\ syms'[Swapped(i) + 1] = syms[i + 1]
        /\ \A i \in 0 .. first - 1 : syms'[i + 1] = syms[i + 1]
        /\ ToSet(syms') = ToSet(syms)
    BY <1>1, ExchangeMoves DEF Num
  <1>3. /\ Num \in Nat /\ first \in 1 .. Num /\ syms # <<>> /\ DOMAIN syms = 1 .. Num
        /\ \A i \in 0 .. first - 1 : Local(i)
    <2>1. syms \in Seq(Symbols) /\ first \in 1 .. Num /\ first < Num
      BY <1>1 DEF SymInv, Typed, Scanning, Num
    <2>. QED  BY <1>1, <2>1 DEF SymInv, Scanning, Num
  <1>4. Typed'
    BY <1>1, <1>2 DEF SymInv, Typed
  <1>5. Naming'
    <2>1. syms' # <<>> /\ DOMAIN syms' = 1 .. Num
      BY <1>2, <1>3, LenProperties
    <2>2. syms'[1] = NullSym
      <3>1. 0 \in 0 .. first - 1
        BY <1>3
      <3>2. syms'[0 + 1] = syms[0 + 1]
        BY <1>2, <3>1
      <3>. QED  BY <1>3, <3>2 DEF SymInv, Naming
    <2>3. ASSUME NEW j \in 1 .. Num PROVE syms'[j].name < Len(strings')
      <3>1. PICK i \in 0 .. Num - 1 : i = j - 1
        BY <1>3
      <3>2. PICK m \in 0 .. Num - 1 : m = Swapped(i) /\ Swapped(m) = i
        BY <1>2
      <3>3. syms'[j] = syms[m + 1]
        <4>1. syms'[Swapped(m) + 1] = syms[m + 1]
          BY <1>2
        <4>2. Swapped(m) + 1 = j
          BY <3>1, <3>2
        <4>. QED  BY <4>1, <4>2
      <3>4. m + 1 \in DOMAIN syms
        BY <1>3
      <3>. QED  BY <1>1, <1>3, <3>3, <3>4 DEF SymInv, Naming
    <2>. QED  BY <1>1, <1>3, <2>1, <2>2, <2>3 DEF SymInv, Naming
  <1>6. Indexed'
    BY <1>1, <1>2 DEF SymInv, Indexed, Entry
  <1>7. Scanning'
    <2>1. \A i \in 0 .. first - 1 : Local(i)'
      BY <1>1, <1>2, <1>3 DEF Local, Sym
    <2>. QED  BY <1>1, <1>2, <1>3, <2>1 DEF Scanning
  <1>8. RelocsMean'
    <2>1. \A u \in Tables : Seen(u)' = Seen(u)
      BY <1>1 DEF Seen
    <2>. QED  BY <1>1, <1>2, <2>1 DEF SymInv, ArrangeKeeps, RelocsMean, Entry
  <1>9. LocalsFirst' /\ Permuted'
    BY <1>1, <1>2, <1>3 DEF SymInv, ArrangeKeeps, LocalsFirst, Permuted
  <1>. QED  BY <1>4, <1>5, <1>6, <1>7, <1>8, <1>9 DEF SymInv, ArrangeKeeps

-----------------------------------------------------------------------------
LEMMA StepSymInv == SymInv /\ [Next]_vars => SymInv'
  <1>. SUFFICES ASSUME SymInv, [Next]_vars PROVE SymInv'
    OBVIOUS
  <1>1. ASSUME NEW str \in Names, NEW bind \in {"LOCAL", "GLOBAL"}, AddSymbol(str, bind)
        PROVE  SymInv'
    BY <1>1, AddSymbolStep
  <1>2. ASSUME NEW t \in Tables, NEW type \in Types, NEW addend \in Addends,
               NEW i \in 0 .. Num - 1, AddEntry(t, i, type, addend)
        PROVE  SymInv'
    BY <1>2, AddEntryStep
  <1>3. ASSUME NEW t \in Tables, NEW str \in Names, NEW bind \in {"LOCAL", "GLOBAL"},
               AddEntryFor(t, str, bind, "PC32")
        PROVE  SymInv'
    BY <1>3, AddEntryForStep
  <1>4. CASE BeginArrange
    BY <1>4, BeginArrangeStep
  <1>5. CASE Arrange
    BY <1>5, FindPairStep, TellStep, SwapPairStep DEF Arrange
  <1>6. CASE Link
    BY <1>6, UntouchedStep DEF Link, arranging
  <1>7. CASE UNCHANGED vars
    BY <1>7, UntouchedStep DEF vars, arranging
  <1>. QED  BY <1>1, <1>2, <1>3, <1>4, <1>5, <1>6, <1>7 DEF Next

LEMMA SymInvariant == Spec => []SymInv
  BY InitSymInv, StepSymInv, PTL DEF Spec

\* Whatever symbols and relocations are added, in whatever order and however
\* often they are arranged (elfio_symbols.hpp arrange_local_symbols,
\* elfio_relocation.hpp swap_symbols): every entry resolves to what it was added
\* with, while arranging as well as after, the local symbols come first, and no
\* symbol is lost, doubled or changed.
THEOREM ArrangingIsHarmless == Spec => []ArrangeKeeps
  BY SymInvariant, PTL DEF SymInv
-----------------------------------------------------------------------------
(***************************************************************************)
(* Lookups of symbols.                                                     *)
(***************************************************************************)
\* A string that was added is read where add_string said.
LEMMA AddedRead ==
    ASSUME NEW s \in Seq(Bytes), NEW str \in Names
    PROVE  GetString(AddString(s, str), Position(s)) = str
  <1>. DEFINE front == IF s = <<>> THEN <<Nul>> ELSE s
              u == AddString(s, str)
              at == Len(front)
              m == at + Len(str) + 1
  <1>1. str \in Seq(Bytes) /\ \A i \in 1 .. Len(str) : str[i] # Nul
    <2>1. str \in Seq(STRING \ {Nul})
      BY SymbolsAssumption
    <2>2. STRING \ {Nul} \subseteq Bytes
      BY DEF Bytes
    <2>3. \A i \in 1 .. Len(str) : str[i] \in STRING \ {Nul}
      BY <2>1, ElementOfSeq
    <2>. QED  BY <2>1, <2>2, <2>3, SeqMonotonic
  <1>2. front \in Seq(Bytes) /\ at = Position(s) /\ at \in Nat /\ Len(str) \in Nat
    BY <1>1, EmptySeq, LenProperties DEF Position, Bytes
  <1>3. <<Nul>> \in Seq(Bytes) /\ Len(<<Nul>>) = 1 /\ <<Nul>>[1] = Nul
    BY DEF Bytes
  <1>4. u = (front \o str) \o <<Nul>>
    BY DEF AddString
  <1>. HIDE DEF front
  <1>5. /\ u \in Seq(Bytes) /\ Len(u) = m /\ u[m] = Nul
        /\ \A i \in 1 .. Len(str) : u[at + i] = str[i]
    <2>1. /\ front \o str \in Seq(Bytes) /\ Len(front \o str) = at + Len(str)
          /\ \A i \in 1 .. at + Len(str) :
                (front \o str)[i] = IF i <= at THEN front[i] ELSE str[i - at]
      BY <1>1, <1>2, ConcatProperties
    <2>2. /\ u \in Seq(Bytes) /\ Len(u) = at + Len(str) + 1
          /\ \A i \in 1 .. at + Len(str) + 1 :
                u[i] = IF i <= at + Len(str) THEN (front \o str)[i] ELSE <<Nul>>[i - (at + Len(str))]
      <3>. DEFINE t == front \o str
      <3>1. t \in Seq(Bytes) /\ Len(t) = at + Len(str)
        BY <2>1
      <3>. HIDE DEF t
      <3>2. u = t \o <<Nul>>
        BY <1>4 DEF t
      <3>3. /\ t \o <<Nul>> \in Seq(Bytes) /\ Len(t \o <<Nul>>) = Len(t) + Len(<<Nul>>)
            /\ \A i \in 1 .. Len(t) + Len(<<Nul>>) :
                  (t \o <<Nul>>)[i] = IF i <= Len(t) THEN t[i] ELSE <<Nul>>[i - Len(t)]
        BY <1>3, <3>1, ConcatProperties
      <3>. QED  BY <1>3, <3>1, <3>2, <3>3 DEF t
    <2>3. u[m] = Nul
      <3>1. m \in 1 .. at + Len(str) + 1 /\ ~(m <= at + Len(str)) /\ m - (at + Len(str)) = 1
        BY <1>2
      <3>. QED  BY <1>3, <2>2, <3>1
    <2>4. ASSUME NEW i \in 1 .. Len(str) PROVE u[at + i] = str[i]
      <3>1. /\ at + i \in 1 .. at + Len(str) /\ at + i \in 1 .. at + Len(str) + 1
            /\ ~(at + i <= at) /\ (at + i) - at = i /\ at + i <= at + Len(str)
        BY <1>2
      <3>. QED  BY <2>1, <2>2, <3>1
    <2>. QED  BY <2>2, <2>3, <2>4
  <1>. HIDE DEF u
  <1>6. Ends(u, at) = {m}
    <2>1. m \in at + 1 .. Len(u) /\ u[m] = Nul
      BY <1>2, <1>5
    <2>2. ASSUME NEW k \in at + 1 .. Len(u), k # m PROVE u[k] # Nul
      <3>1. k - at \in 1 .. Len(str) /\ at + (k - at) = k
        BY <1>2, <1>5, <2>2
      <3>. QED  BY <1>1, <1>5, <3>1
    <2>. QED  BY <2>1, <2>2 DEF Ends
  <1>7. Min(Ends(u, at)) = m
    <2>1. {m} \in SUBSET Nat /\ {m} # {}
      BY <1>2
    <2>2. Min({m}) \in {m}
      BY <2>1, MinOf
    <2>. QED  BY <1>6, <2>2
  <1>8. GetString(u, at) = SubSeq(u, at + 1, m - 1)
    BY <1>6, <1>7 DEF GetString, Ends
  <1>9. SubSeq(u, at + 1, m - 1) = str
    <2>1. SubSeq(u, at + 1, m - 1) = [i \in 1 .. Len(str) |-> u[at + i]]
      <3>. DEFINE lo == at + 1
                  hi == m - 1
                  sub == SubSeq(u, lo, hi)
      <3>1. /\ lo \in Int /\ hi \in Int /\ hi - lo + 1 = Len(str)
            /\ IF lo <= hi THEN hi - lo + 1 = Len(str) ELSE Len(str) = 0
            /\ \A i \in lo .. hi : i \in 1 .. Len(u)
            /\ \A i \in 1 .. Len(str) : lo + i - 1 = at + i
        <4>1. at \in Nat /\ Len(str) \in Nat /\ Len(u) = m
          BY <1>2, <1>5
        <4>2. \A i \in 1 .. Len(str) : lo + i - 1 = at + i
          BY <4>1
        <4>3. \A i \in lo .. hi : i \in 1 .. Len(u)
          BY <4>1
        <4>. QED  BY <4>1, <4>2, <4>3
      <3>2. \A i \in lo .. hi : u[i] \in Bytes
        <4>. HIDE DEF lo, hi, m
        <4>. QED  BY <1>5, <3>1, ElementOfSeq
      <3>. HIDE DEF lo, hi, m
      <3>3. /\ sub \in Seq(Bytes) /\ Len(sub) = IF lo <= hi THEN hi - lo + 1 ELSE 0
            /\ \A i \in 1 .. hi - lo + 1 : sub[i] = u[lo + i - 1]
        <4>. HIDE DEF sub
        <4>. QED  BY <3>1, <3>2, SubSeqProperties DEF sub
      <3>. HIDE DEF sub
      <3>4. sub \in Seq(Bytes) /\ Len(sub) = Len(str) /\ \A i \in 1 .. Len(str) : sub[i] = u[at + i]
        BY <3>1, <3>3
      <3>5. sub = [i \in 1 .. Len(str) |-> sub[i]]
        BY <3>4, LenProperties
      <3>6. sub = [i \in 1 .. Len(str) |-> u[at + i]]
        BY <3>4, <3>5, Zenon
      <3>. QED  BY <3>6 DEF lo, hi, sub
    <2>2. str = [i \in 1 .. Len(str) |-> str[i]]
      BY <1>1, LenProperties
    <2>. QED  BY <1>5, <2>1, <2>2
  <1>. QED  BY <1>2, <1>8, <1>9 DEF u

\* Every symbol behind the null symbol has a name that was given to it, and the
\* values number the symbols as they were added.
Called == \A i \in 1 .. Num - 1 : NameAt(i) \in Names
Valued == \A i \in DOMAIN made : made[i].value = i

\* What the two kinds of tables would be if they were linked now.
SysvTable ==
    [kind |-> "sysv", nchain |-> Num,
     bucket |-> [b \in 0 .. Buckets - 1 |-> Largest(InBucket(b, 1))],
     chain |-> [i \in 0 .. Num - 1 |->
         IF i = 0 THEN 0 ELSE Largest(InBucket(Bucket(i), 1) \cap 1 .. i - 1)]]

GnuTable(from) ==
    [kind |-> "gnu", from |-> from,
     bloom |-> UNION {BloomBits(Hash[NameAt(i)]) : i \in from .. Num - 1},
     bucket |-> [b \in 0 .. Buckets - 1 |-> Least(InBucket(b, from))],
     chain |-> [i \in from .. Num - 1 |->
         [half |-> Hash[NameAt(i)] \div 2, last |-> i = Largest(InBucket(Bucket(i), from))]]]

Sorted(from) == \A i \in from .. Num - 2 : Bucket(i) <= Bucket(i + 1)

\* The chains of a table, however old, lead downwards to symbol 0, or upwards to
\* an entry that is marked as the last.
SysvChains(h) ==
    /\ h.nchain \in 1 .. Num
    /\ \A b \in 0 .. Buckets - 1 : h.bucket[b] \in 0 .. h.nchain - 1
    /\ \A i \in 1 .. h.nchain - 1 : h.chain[i] \in 0 .. i - 1

GnuChains(h) ==
    /\ h.from \in 1 .. Num - 1
    /\ \E n \in 1 .. Num :
          /\ h.from < n /\ DOMAIN h.chain = h.from .. n - 1 /\ h.chain[n - 1].last
          /\ \A b \in 0 .. Buckets - 1 : h.bucket[b] \in {0} \cup h.from .. n - 1

Chained ==
    /\ hash.kind \in {"none", "sysv", "gnu"}
    /\ hash.kind = "sysv" => SysvChains(hash)
    /\ hash.kind = "gnu" => GnuChains(hash)

Fresh ==
    fresh => \/ hash = SysvTable
             \/ \E from \in 1 .. Num - 1 : hash = GnuTable(from) /\ Sorted(from)

LookInv == SymInv /\ Called /\ Valued /\ Chained /\ Fresh

\* The names and symbols are all that a lookup and a new table depend on.
LEMMA SameLook ==
    ASSUME UNCHANGED <<strings, syms>>
    PROVE  /\ Num' = Num /\ SysvTable' = SysvTable
           /\ \A i : NameAt(i)' = NameAt(i)
           /\ \A from : GnuTable(from)' = GnuTable(from) /\ Sorted(from)' = Sorted(from)
  <1>1. Num' = Num /\ \A i : NameAt(i)' = NameAt(i)
    BY DEF Num, NameAt, Sym
  <1>2. \A i : Bucket(i)' = Bucket(i)
    BY <1>1 DEF Bucket
  <1>3. \A b, from : InBucket(b, from)' = InBucket(b, from)
    BY <1>1, <1>2 DEF InBucket
  <1>4. SysvTable' = SysvTable
    BY <1>1, <1>2, <1>3 DEF SysvTable
  <1>5. \A from : GnuTable(from)' = GnuTable(from) /\ Sorted(from)' = Sorted(from)
    BY <1>1, <1>2, <1>3 DEF GnuTable, Sorted
  <1>. QED  BY <1>1, <1>4, <1>5

\* A step that changes neither symbols nor names.
LEMMA LookStays ==
    ASSUME LookInv, SymInv', UNCHANGED <<strings, syms, hash, fresh, made>>
    PROVE  LookInv'
  <1>1. /\ Num' = Num /\ SysvTable' = SysvTable
        /\ \A i : NameAt(i)' = NameAt(i)
        /\ \A from : GnuTable(from)' = GnuTable(from) /\ Sorted(from)' = Sorted(from)
    BY SameLook
  <1>2. Called' /\ Valued'
    BY <1>1 DEF LookInv, Called, Valued
  <1>3. Chained'
    BY <1>1 DEF LookInv, Chained, SysvChains, GnuChains
  <1>4. Fresh'
    BY <1>1 DEF LookInv, Fresh
  <1>. QED  BY <1>2, <1>3, <1>4 DEF LookInv

\* Chains that are in the table stay in it.
LEMMA ChainsStay ==
    ASSUME Chained, hash' = hash, Num \in Nat, Num' \in Nat, Num <= Num'
    PROVE  Chained'
  <1>1. SysvChains(hash) => SysvChains(hash)'
    BY DEF SysvChains
  <1>2. GnuChains(hash) => GnuChains(hash)'
    <2>. SUFFICES ASSUME GnuChains(hash) PROVE GnuChains(hash)'
      OBVIOUS
    <2>1. PICK n \in 1 .. Num :
              /\ hash.from < n /\ DOMAIN hash.chain = hash.from .. n - 1 /\ hash.chain[n - 1].last
              /\ \A b \in 0 .. Buckets - 1 : hash.bucket[b] \in {0} \cup hash.from .. n - 1
      BY DEF GnuChains
    <2>2. n \in 1 .. Num'
      OBVIOUS
    <2>3. hash.from \in 1 .. Num' - 1
      BY DEF GnuChains
    <2>. QED  BY <2>1, <2>2, <2>3 DEF GnuChains
  <1>. QED  BY <1>1, <1>2 DEF Chained

\* add_symbol gives the new symbol its name and value.
LEMMA AddSymLook ==
    ASSUME LookInv, SymInv', NEW str \in Names, NEW bind \in {"LOCAL", "GLOBAL"}, AddSym(str, bind)
    PROVE  LookInv'
  <1>. DEFINE sym == [name |-> Position(strings), value |-> Len(made) + 1, bind |-> bind]
  <1>1. /\ strings' = AddString(strings, str) /\ syms' = With(syms, sym)
        /\ made' = Append(made, sym) /\ fresh' = FALSE /\ hash' = hash
    BY DEF AddSym
  <1>2. strings \in Seq(Bytes) /\ syms \in Seq(Symbols) /\ made \in Seq(Symbols)
    BY DEF LookInv, SymInv, Typed
  <1>3. Added
    BY AddSymStep DEF LookInv
  <1>4. Num \in Nat /\ Num' \in Nat /\ Num < Num'
    BY <1>2, <1>3 DEF Num, Added
  <1>5. sym \in Symbols
    <2>1. made' \in Seq(Symbols) /\ Len(made) \in Nat /\ made'[Len(made) + 1] = sym /\ Len(made') = Len(made) + 1
      BY <1>1, <1>2, <1>3 DEF Added
    <2>. QED  BY <2>1
  <1>. HIDE DEF sym
  <1>6. /\ Num' = (IF syms = <<>> THEN 2 ELSE Num + 1) /\ syms'[Num'] = sym
    BY <1>1, <1>2, <1>5, WithOne DEF Num
  <1>7. ASSUME NEW i \in 1 .. Num' - 1 PROVE NameAt(i)' \in Names
    <2>1. CASE i = Num' - 1
      <3>1. syms'[i + 1] = sym
        BY <1>4, <1>6, <2>1
      <3>2. NameAt(i)' = GetString(AddString(strings, str), Position(strings))
        BY <1>1, <3>1 DEF NameAt, Sym, sym
      <3>. QED  BY <1>2, <3>2, AddedRead
    <2>2. CASE i # Num' - 1
      <3>1. i \in 1 .. Num - 1 /\ i + 1 \in 1 .. Num
        BY <1>2, <1>4, <1>6, <2>2 DEF Num
      <3>2. NameAt(i)' = NameAt(i)
        BY <1>3, <3>1 DEF Added, NameAt, Sym
      <3>. QED  BY <3>1, <3>2 DEF LookInv, Called
    <2>. QED  BY <2>1, <2>2
  <1>8. Valued'
    <2>1. /\ Len(made) \in Nat /\ DOMAIN made' = 1 .. Len(made) + 1 /\ DOMAIN made = 1 .. Len(made)
          /\ \A i \in 1 .. Len(made) : made'[i] = made[i]
          /\ made'[Len(made) + 1] = sym
      BY <1>1, <1>2, <1>5, AppendProperties, LenProperties
    <2>2. sym.value = Len(made) + 1
      BY DEF sym
    <2>. QED  BY <2>1, <2>2 DEF LookInv, Valued
  <1>9. Chained'
    BY <1>1, <1>4, ChainsStay DEF LookInv
  <1>. QED  BY <1>1, <1>7, <1>8, <1>9 DEF LookInv, Called, Fresh

\* An exchange leaves every name in the table, and the null symbol alone.
LEMMA SwapPairLook ==
    ASSUME LookInv, SymInv', SwapPair
    PROVE  LookInv'
  <1>1. /\ pc = "tell" /\ syms' = Exchanged(syms) /\ fresh' = FALSE
        /\ UNCHANGED <<strings, hash, made>>
    BY DEF SwapPair
  <1>2. /\ Num' = Num /\ Num \in Nat /\ first \in Nat /\ 1 <= first /\ first < current
        /\ \A i \in 0 .. Num - 1 :
               /\ Swapped(i) \in 0 .. Num - 1 /\ Swapped(Swapped(i)) = i
               /\ syms'[Swapped(i) + 1] = syms[i + 1]
    BY <1>1, ExchangeMoves DEF Num, LookInv, SymInv, Typed, Scanning
  <1>3. ASSUME NEW i \in 1 .. Num - 1 PROVE NameAt(i)' \in Names
    <2>1. PICK m \in 0 .. Num - 1 : m = Swapped(i) /\ Swapped(m) = i
      BY <1>2
    <2>2. m # 0
      <3>1. first # 0 /\ current # 0
        BY <1>1, <1>2 DEF LookInv, SymInv, Typed
      <3>. QED  BY <2>1, <3>1 DEF Swapped
    <2>3. syms'[i + 1] = syms[m + 1] /\ m \in 1 .. Num - 1
      BY <1>2, <2>1, <2>2
    <2>. QED  BY <1>1, <2>3 DEF LookInv, Called, NameAt, Sym
  <1>4. Valued' /\ Fresh'
    BY <1>1 DEF LookInv, Valued, Fresh
  <1>5. Chained'
    BY <1>1, <1>2, ChainsStay DEF LookInv
  <1>. QED  BY <1>2, <1>3, <1>4, <1>5 DEF LookInv, Called

LEMMA LargestIs ==
    ASSUME NEW b \in Nat, NEW S \in SUBSET (0 .. b)
    PROVE  /\ Largest(S) \in {0} \cup S /\ Largest(S) \in Nat
           /\ \A y \in S : y <= Largest(S)
           /\ S # {} => Largest(S) \in S
  <1>1. CASE S = {}
    BY <1>1 DEF Largest
  <1>2. CASE S # {}
    <2>1. S \in SUBSET Nat /\ \A y \in S : y <= b
      OBVIOUS
    <2>2. Max(S) \in S /\ \A y \in S : y <= Max(S)
      BY <1>2, <2>1, MaxOf
    <2>. QED  BY <1>2, <2>1, <2>2 DEF Largest
  <1>. QED  BY <1>1, <1>2

LEMMA LeastIs ==
    ASSUME NEW S \in SUBSET Nat
    PROVE  /\ Least(S) \in {0} \cup S /\ Least(S) \in Nat
           /\ S # {} => Least(S) \in S /\ \A y \in S : Least(S) <= y
  <1>1. CASE S = {}
    BY <1>1 DEF Least
  <1>2. CASE S # {}
    BY <1>2, MinOf DEF Least
  <1>. QED  BY <1>1, <1>2

\* Every symbol behind the null symbol has a bucket.
LEMMA BucketIs ==
    ASSUME Called, NEW i \in 1 .. Num - 1
    PROVE  Bucket(i) \in 0 .. Buckets - 1 /\ Hash[NameAt(i)] \in Nat
  <1>1. NameAt(i) \in Names
    BY DEF Called
  <1>. QED  BY <1>1, SymbolsAssumption DEF Bucket

\* A linker's table leads through each bucket.
LEMMA SysvLinked ==
    ASSUME Called, Num \in Nat, Num > 0, NEW h, h = SysvTable
    PROVE  SysvChains(h)
  <1>1. /\ h.nchain = Num
        /\ \A b \in 0 .. Buckets - 1 : h.bucket[b] = Largest(InBucket(b, 1))
        /\ \A i \in 1 .. Num - 1 : h.chain[i] = Largest(InBucket(Bucket(i), 1) \cap 1 .. i - 1)
    BY DEF SysvTable
  <1>2. ASSUME NEW b \in 0 .. Buckets - 1 PROVE h.bucket[b] \in 0 .. Num - 1
    <2>1. InBucket(b, 1) \in SUBSET (0 .. Num - 1) /\ Num - 1 \in Nat
      BY DEF InBucket
    <2>2. Largest(InBucket(b, 1)) \in {0} \cup InBucket(b, 1)
      BY <2>1, LargestIs
    <2>. QED  BY <1>1, <2>1, <2>2
  <1>3. ASSUME NEW i \in 1 .. Num - 1 PROVE h.chain[i] \in 0 .. i - 1
    <2>. DEFINE S == InBucket(Bucket(i), 1) \cap 1 .. i - 1
    <2>1. S \in SUBSET (0 .. i - 1) /\ i - 1 \in Nat
      OBVIOUS
    <2>2. Largest(S) \in {0} \cup S
      <3>. HIDE DEF S
      <3>. QED  BY <2>1, LargestIs
    <2>. QED  BY <1>1, <2>1, <2>2
  <1>. QED  BY <1>1, <1>2, <1>3 DEF SysvChains

LEMMA GnuLinked ==
    ASSUME Called, Num \in Nat, NEW from \in 1 .. Num - 1, NEW h, h = GnuTable(from)
    PROVE  GnuChains(h)
  <1>1. /\ h.from = from /\ DOMAIN h.chain = from .. Num - 1
        /\ \A b \in 0 .. Buckets - 1 : h.bucket[b] = Least(InBucket(b, from))
        /\ \A i \in from .. Num - 1 :
              h.chain[i].last = (i = Largest(InBucket(Bucket(i), from)))
    BY DEF GnuTable
  <1>2. \A b : InBucket(b, from) \in SUBSET (0 .. Num - 1) /\ InBucket(b, from) \in SUBSET (from .. Num - 1)
    BY DEF InBucket
  <1>3. ASSUME NEW b \in 0 .. Buckets - 1 PROVE h.bucket[b] \in {0} \cup from .. Num - 1
    <2>1. InBucket(b, from) \in SUBSET Nat
      BY <1>2
    <2>2. Least(InBucket(b, from)) \in {0} \cup InBucket(b, from)
      BY <2>1, LeastIs
    <2>. QED  BY <1>1, <1>2, <2>2
  <1>4. h.chain[Num - 1].last
    <2>. DEFINE i == Num - 1
                S == InBucket(Bucket(i), from)
    <2>1. i \in from .. Num - 1 /\ i \in Nat /\ i \in S /\ S \in SUBSET (0 .. i)
      BY <1>2 DEF InBucket
    <2>2. Largest(S) \in S /\ \A y \in S : y <= Largest(S)
      <3>. HIDE DEF i, S
      <3>. QED  BY <2>1, LargestIs
    <2>3. Largest(S) = i
      BY <2>1, <2>2
    <2>. QED  BY <1>1, <2>1, <2>3
  <1>. QED  BY <1>1, <1>3, <1>4 DEF GnuChains

LEMMA LinkLook ==
    ASSUME LookInv, SymInv', Link
    PROVE  LookInv'
  <1>1. /\ Num > 0 /\ UNCHANGED <<strings, syms, made>>
        /\ \/ hash' = SysvTable
           \/ \E from \in 1 .. Num - 1 : hash' = GnuTable(from) /\ Sorted(from)
    BY DEF Link, LinkHash, LinkGnuHash, SysvTable, GnuTable, Sorted
  <1>2. /\ Num' = Num /\ SysvTable' = SysvTable
        /\ \A i : NameAt(i)' = NameAt(i)
        /\ \A from : GnuTable(from)' = GnuTable(from) /\ Sorted(from)' = Sorted(from)
    BY <1>1, SameLook
  <1>3. Called' /\ Valued'
    BY <1>1, <1>2 DEF LookInv, Called, Valued
  <1>4. Fresh'
    BY <1>1, <1>2 DEF Fresh
  <1>5. Chained'
    <2>1. Called /\ Num \in Nat
      BY DEF LookInv, SymInv, Typed, Num
    <2>2. CASE hash' = SysvTable
      <3>1. SysvChains(hash')
        BY <1>1, <2>1, <2>2, SysvLinked
      <3>2. SysvChains(hash)'
        BY <1>2, <3>1 DEF SysvChains
      <3>3. hash'.kind = "sysv"
        BY <2>2 DEF SysvTable
      <3>. QED  BY <3>2, <3>3 DEF Chained
    <2>3. ASSUME NEW from \in 1 .. Num - 1, hash' = GnuTable(from) PROVE Chained'
      <3>1. GnuChains(hash')
        BY <2>1, <2>3, GnuLinked
      <3>2. GnuChains(hash)'
        BY <1>2, <3>1 DEF GnuChains
      <3>3. hash'.kind = "gnu"
        BY <2>3 DEF GnuTable
      <3>. QED  BY <3>2, <3>3 DEF Chained
    <2>. QED  BY <1>1, <2>2, <2>3
  <1>. QED  BY <1>3, <1>4, <1>5 DEF LookInv

LEMMA InitLookInv == Init => LookInv
  <1>. SUFFICES ASSUME Init PROVE LookInv
    OBVIOUS
  <1>1. syms = <<>> /\ made = <<>> /\ hash = NoHash /\ fresh = FALSE /\ Num = 0
    BY DEF Init, Num
  <1>2. 1 .. 0 - 1 = {} /\ DOMAIN made = {}
    BY <1>1
  <1>. QED  BY <1>1, <1>2, InitSymInv DEF LookInv, Called, Valued, Chained, Fresh, NoHash

LEMMA StepLookInv == LookInv /\ [Next]_vars => LookInv'
  <1>. SUFFICES ASSUME LookInv, [Next]_vars PROVE LookInv'
    OBVIOUS
  <1>0. SymInv'
    BY StepSymInv DEF LookInv
  <1>1. ASSUME NEW str \in Names, NEW bind \in {"LOCAL", "GLOBAL"}, AddSymbol(str, bind)
        PROVE  LookInv'
    BY <1>0, <1>1, AddSymLook DEF AddSymbol
  <1>2. ASSUME NEW t \in Tables, NEW type \in Types, NEW addend \in Addends,
               NEW i \in 0 .. Num - 1, AddEntry(t, i, type, addend)
        PROVE  LookInv'
    BY <1>0, <1>2, LookStays DEF AddEntry
  <1>3. ASSUME NEW t \in Tables, NEW str \in Names, NEW bind \in {"LOCAL", "GLOBAL"},
               AddEntryFor(t, str, bind, "PC32")
        PROVE  LookInv'
    BY <1>0, <1>3, AddSymLook DEF AddEntryFor
  <1>4. CASE BeginArrange
    BY <1>0, <1>4, LookStays DEF BeginArrange
  <1>5. CASE FindPair
    BY <1>0, <1>5, LookStays DEF FindPair
  <1>6. ASSUME NEW t \in Tables, Tell(t) PROVE LookInv'
    BY <1>0, <1>6, LookStays DEF Tell
  <1>7. CASE SwapPair
    BY <1>0, <1>7, SwapPairLook
  <1>8. CASE Link
    BY <1>0, <1>8, LinkLook
  <1>9. CASE UNCHANGED vars
    BY <1>0, <1>9, LookStays DEF vars
  <1>. QED  BY <1>1, <1>2, <1>3, <1>4, <1>5, <1>6, <1>7, <1>8, <1>9 DEF Next, Arrange
\* The walk through a chain of the first kind.
SysvStep(walk, name, y) ==
    IF NameAt(y) = name THEN y ELSE IF y = 0 THEN -1 ELSE walk[hash.chain[y]]

LEMMA SysvWalk ==
    ASSUME SysvChains(hash), Num \in Nat, NEW name
    PROVE  \E w : /\ HashLookup(name) = w[hash.bucket[Hash[name] % Buckets]]
                  /\ \A y \in 0 .. hash.nchain - 1 : w[y] = SysvStep(w, name, y)
  <1>. DEFINE n == hash.nchain
              done == {y \in 0 .. n - 1 : NameAt(y) = name \/ y = 0}
              val == [y \in 0 .. n - 1 |-> IF NameAt(y) = name THEN y ELSE -1]
              next == hash.chain
              W == CHOOSE walk : walk = [y \in 0 .. hash.nchain - 1 |->
                      IF NameAt(y) = name THEN y ELSE IF y = 0 THEN -1 ELSE walk[hash.chain[y]]]
  <1>1. n \in Nat /\ \A y \in (0 .. n - 1) \ done : next[y] \in 0 .. y - 1
    BY DEF SysvChains
  <1>2. PICK w : Finds(w, 0 .. n - 1, done, val, next)
    <2>. HIDE DEF n, done, val, next
    <2>. QED  BY <1>1, SearchDown, Zenon
  <1>3. \A y \in 0 .. n - 1 : w[y] = IF NameAt(y) = name THEN y ELSE IF y = 0 THEN -1 ELSE w[hash.chain[y]]
    <2>. TAKE y \in 0 .. n - 1
    <2>1. w[y] = IF y \in done THEN val[y] ELSE w[next[y]]
      BY <1>2 DEF Finds
    <2>. QED  BY <2>1
  <1>4. w = [y \in 0 .. n - 1 |-> IF NameAt(y) = name THEN y ELSE IF y = 0 THEN -1 ELSE w[hash.chain[y]]]
    <2>1. w = [y \in 0 .. n - 1 |-> w[y]]
      BY <1>2, Zenon DEF Finds
    <2>. QED  BY <1>3, <2>1
  <1>5. W = [y \in 0 .. hash.nchain - 1 |->
                IF NameAt(y) = name THEN y ELSE IF y = 0 THEN -1 ELSE W[hash.chain[y]]]
    BY <1>4, Zenon
  <1>6. HashLookup(name) = W[hash.bucket[Hash[name] % Buckets]]
    BY Zenon DEF HashLookup
  <1>. HIDE DEF W
  <1>7. \A y \in 0 .. hash.nchain - 1 : W[y] = SysvStep(W, name, y)
    BY <1>5 DEF SysvStep
  <1>. QED  BY <1>6, <1>7

\* The walk through a chain of the second kind.
GnuStep(walk, name, i) ==
    IF hash.chain[i].half = Hash[name] \div 2 /\ NameAt(i) = name THEN i
    ELSE IF hash.chain[i].last THEN -1 ELSE walk[i + 1]

GnuEntry(walk, name) ==
    LET y == hash.bucket[Hash[name] % Buckets]
    IN  IF BloomBits(Hash[name]) \subseteq hash.bloom /\ y >= hash.from THEN walk[y] ELSE -1

LEMMA GnuWalk ==
    ASSUME NEW a \in Nat, NEW b \in Nat, DOMAIN hash.chain = a .. b, hash.chain[b].last, NEW name
    PROVE  \E w : /\ GnuHashLookup(name) = GnuEntry(w, name)
                  /\ \A i \in a .. b : w[i] = GnuStep(w, name, i)
  <1>. DEFINE found(i) == hash.chain[i].half = Hash[name] \div 2 /\ NameAt(i) = name
              done == {i \in a .. b : found(i) \/ hash.chain[i].last}
              val == [i \in a .. b |-> IF found(i) THEN i ELSE -1]
              next == [i \in a .. b |-> i + 1]
              W == CHOOSE walk : walk = [i \in DOMAIN hash.chain |->
                      IF hash.chain[i].half = Hash[name] \div 2 /\ NameAt(i) = name THEN i
                      ELSE IF hash.chain[i].last THEN -1 ELSE walk[i + 1]]
  <1>1. \A y \in (a .. b) \ done : next[y] \in y + 1 .. b
    <2>. HIDE DEF found
    <2>1. \A y \in (a .. b) \ done : y # b
      OBVIOUS
    <2>. QED  BY <2>1
  <1>2. PICK w : Finds(w, a .. b, done, val, next)
    <2>. HIDE DEF done, val, next
    <2>. QED  BY <1>1, SearchUp, Zenon
  <1>3. \A i \in a .. b : w[i] = IF found(i) THEN i ELSE IF hash.chain[i].last THEN -1 ELSE w[i + 1]
    <2>. TAKE i \in a .. b
    <2>1. w[i] = IF i \in done THEN val[i] ELSE w[next[i]]
      BY <1>2 DEF Finds
    <2>. HIDE DEF found
    <2>. QED  BY <2>1
  <1>4. w = [i \in a .. b |-> IF found(i) THEN i ELSE IF hash.chain[i].last THEN -1 ELSE w[i + 1]]
    <2>1. w = [y \in a .. b |-> w[y]]
      BY <1>2, Zenon DEF Finds
    <2>. HIDE DEF found
    <2>. QED  BY <1>3, <2>1
  <1>5. W = [i \in DOMAIN hash.chain |->
                IF hash.chain[i].half = Hash[name] \div 2 /\ NameAt(i) = name THEN i
                ELSE IF hash.chain[i].last THEN -1 ELSE W[i + 1]]
    <2>1. w = [i \in DOMAIN hash.chain |->
                  IF hash.chain[i].half = Hash[name] \div 2 /\ NameAt(i) = name THEN i
                  ELSE IF hash.chain[i].last THEN -1 ELSE w[i + 1]]
      <3>. HIDE DEF W
      <3>. QED  BY <1>4
    <2>. QED  BY <2>1, Zenon
  <1>6. GnuHashLookup(name) = GnuEntry(W, name)
    BY Zenon DEF GnuHashLookup, GnuEntry
  <1>. HIDE DEF W
  <1>7. \A i \in a .. b : W[i] = GnuStep(W, name, i)
    BY <1>5 DEF GnuStep
  <1>. QED  BY <1>6, <1>7

\* What a walk answers: nothing, or a symbol of the name.
Answers(i, name, n) == i # -1 => i \in 0 .. n - 1 /\ NameAt(i) = name

LEMMA SysvSound ==
    ASSUME SysvChains(hash), Num \in Nat, NEW name, NEW w,
           \A y \in 0 .. hash.nchain - 1 : w[y] = SysvStep(w, name, y),
           NEW y \in 0 .. hash.nchain - 1
    PROVE  Answers(w[y], name, Num)
  <1>. DEFINE bad == {k \in 0 .. hash.nchain - 1 : ~Answers(w[k], name, Num)}
  <1>. SUFFICES ASSUME bad # {} PROVE FALSE
    OBVIOUS
  <1>1. PICK k \in bad : \A m \in bad : k <= m
    <2>1. bad \in SUBSET Nat
      BY DEF SysvChains
    <2>. HIDE DEF bad
    <2>. QED  BY <2>1, MinOf
  <1>2. k \in 0 .. hash.nchain - 1 /\ hash.nchain \in 1 .. Num /\ ~Answers(w[k], name, Num)
    BY DEF SysvChains
  <1>3. w[k] = SysvStep(w, name, k)
    BY <1>2
  <1>4. NameAt(k) # name /\ k # 0
    <2>1. k \in 0 .. Num - 1 /\ w[k] # -1 /\ ~(w[k] \in 0 .. Num - 1 /\ NameAt(w[k]) = name)
      BY <1>2 DEF Answers
    <2>2. NameAt(k) # name
      <3>1. NameAt(k) = name => w[k] = k
        BY <1>3 DEF SysvStep
      <3>. QED  BY <2>1, <3>1
    <2>3. k = 0 => w[k] = -1
      BY <1>3, <2>2 DEF SysvStep
    <2>. QED  BY <2>1, <2>2, <2>3
  <1>5. w[k] = w[hash.chain[k]]
    BY <1>3, <1>4 DEF SysvStep
  <1>6. hash.chain[k] \in 0 .. k - 1
    BY <1>2, <1>4 DEF SysvChains
  <1>7. hash.chain[k] \in 0 .. hash.nchain - 1 /\ ~(k <= hash.chain[k])
    BY <1>2, <1>6
  <1>8. Answers(w[hash.chain[k]], name, Num)
    BY <1>1, <1>7
  <1>. QED  BY <1>2, <1>5, <1>8

LEMMA SysvFinds ==
    ASSUME hash = SysvTable, Called, Num \in Nat, NEW j \in 1 .. Num - 1, NEW w,
           \A y \in 0 .. hash.nchain - 1 : w[y] = SysvStep(w, NameAt(j), y)
    PROVE  w[hash.bucket[Hash[NameAt(j)] % Buckets]] >= 0
  <1>. DEFINE B == InBucket(Bucket(j), 1)
              bad == {k \in B : k >= j /\ ~(w[k] >= 0)}
  <1>1. /\ hash.nchain = Num /\ Bucket(j) \in 0 .. Buckets - 1
        /\ hash.bucket[Bucket(j)] = Largest(B)
        /\ \A i \in 1 .. Num - 1 : hash.chain[i] = Largest(InBucket(Bucket(i), 1) \cap 1 .. i - 1)
    BY BucketIs DEF SysvTable
  <1>2. B \in SUBSET (0 .. Num - 1) /\ B \in SUBSET (1 .. Num - 1) /\ Num - 1 \in Nat /\ j \in B
    BY DEF InBucket
  <1>3. bad = {}
    <2>. SUFFICES ASSUME bad # {} PROVE FALSE
      OBVIOUS
    <2>1. PICK k \in bad : \A m \in bad : k <= m
      <3>1. bad \in SUBSET Nat
        BY <1>2
      <3>. HIDE DEF bad
      <3>. QED  BY <3>1, MinOf
    <2>2. k \in 1 .. Num - 1 /\ k \in B /\ k >= j /\ ~(w[k] >= 0) /\ Bucket(k) = Bucket(j)
      BY <1>2 DEF InBucket
    <2>3. w[k] = SysvStep(w, NameAt(j), k)
      BY <1>1, <2>2
    <2>4. NameAt(k) # NameAt(j) /\ k # 0
      <3>1. NameAt(k) = NameAt(j) => w[k] = k
        BY <2>3 DEF SysvStep
      <3>. QED  BY <2>2, <3>1
    <2>5. w[k] = w[hash.chain[k]]
      BY <2>3, <2>4 DEF SysvStep
    <2>. DEFINE S == B \cap 1 .. k - 1
    <2>6. hash.chain[k] = Largest(S)
      BY <1>1, <2>2
    <2>7. j \in S /\ S \in SUBSET (0 .. Num - 1)
      BY <1>2, <2>2, <2>4
    <2>8. Largest(S) \in S /\ j <= Largest(S)
      <3>. HIDE DEF S
      <3>. QED  BY <1>2, <2>7, LargestIs
    <2>9. hash.chain[k] \in B /\ hash.chain[k] >= j /\ ~(k <= hash.chain[k])
      BY <2>2, <2>6, <2>8
    <2>10. w[hash.chain[k]] >= 0
      BY <2>1, <2>9
    <2>. QED  BY <2>2, <2>5, <2>10
  <1>4. Largest(B) \in B /\ j <= Largest(B)
    <2>. HIDE DEF B
    <2>. QED  BY <1>2, LargestIs
  <1>5. w[Largest(B)] >= 0
    <2>. HIDE DEF B
    <2>. QED  BY <1>2, <1>3, <1>4
  <1>. QED  BY <1>1, <1>5 DEF Bucket

LEMMA GnuSound ==
    ASSUME NEW a \in Nat, NEW b \in Nat, b < Num, Num \in Nat, hash.chain[b].last,
           NEW name, NEW w, \A i \in a .. b : w[i] = GnuStep(w, name, i), NEW i \in a .. b
    PROVE  Answers(w[i], name, Num)
  <1>. DEFINE bad == {k \in a .. b : ~Answers(w[k], name, Num)}
  <1>. SUFFICES ASSUME bad # {} PROVE FALSE
    OBVIOUS
  <1>1. PICK k \in bad : \A m \in bad : m <= k
    <2>1. bad \in SUBSET Nat /\ \A m \in bad : m <= b
      OBVIOUS
    <2>. HIDE DEF bad
    <2>. QED  BY <2>1, MaxOf
  <1>2. k \in a .. b /\ ~Answers(w[k], name, Num)
    OBVIOUS
  <1>3. w[k] = GnuStep(w, name, k)
    BY <1>2
  <1>. DEFINE found == hash.chain[k].half = Hash[name] \div 2 /\ NameAt(k) = name
  <1>4. ~found /\ ~hash.chain[k].last
    <2>1. k \in 0 .. Num - 1 /\ w[k] # -1 /\ ~(w[k] \in 0 .. Num - 1 /\ NameAt(w[k]) = name)
      BY <1>2 DEF Answers
    <2>2. ~found
      <3>1. found => w[k] = k
        BY <1>3 DEF GnuStep
      <3>. QED  BY <2>1, <3>1
    <2>3. hash.chain[k].last => w[k] = -1
      BY <1>3, <2>2 DEF GnuStep
    <2>. QED  BY <2>1, <2>2, <2>3
  <1>5. w[k] = w[k + 1] /\ k # b
    BY <1>3, <1>4 DEF GnuStep
  <1>6. k + 1 \in a .. b /\ ~(k + 1 <= k)
    BY <1>2, <1>5
  <1>7. Answers(w[k + 1], name, Num)
    BY <1>1, <1>6
  <1>. QED  BY <1>2, <1>5, <1>7

\* The symbols between two of one bucket are of the same.
LEMMA SortedBetween ==
    ASSUME Called, Num \in Nat, NEW from \in 1 .. Num - 1, Sorted(from),
           NEW i \in from .. Num - 1, NEW j \in i .. Num - 1, Bucket(i) = Bucket(j)
    PROVE  \A k \in i .. j : Bucket(k) = Bucket(i)
  <1>1. \A k \in from .. Num - 1 : Bucket(k) \in Nat
    BY BucketIs, SymbolsAssumption
  <1>2. ASSUME NEW k \in i .. j PROVE Bucket(i) <= Bucket(k)
    <2>. DEFINE bad == {m \in i .. j : ~(Bucket(i) <= Bucket(m))}
    <2>. SUFFICES ASSUME bad # {} PROVE FALSE
      OBVIOUS
    <2>1. PICK m \in bad : \A l \in bad : m <= l
      <3>1. bad \in SUBSET Nat
        OBVIOUS
      <3>. HIDE DEF bad
      <3>. QED  BY <3>1, MinOf
    <2>2. m \in i .. j /\ ~(Bucket(i) <= Bucket(m)) /\ m # i
      BY <1>1
    <2>3. m - 1 \in i .. j /\ m - 1 \in from .. Num - 2 /\ ~(m <= m - 1) /\ (m - 1) + 1 = m
      BY <2>2
    <2>4. Bucket(i) <= Bucket(m - 1)
      BY <2>1, <2>3
    <2>5. Bucket(m - 1) <= Bucket(m)
      BY <2>3 DEF Sorted
    <2>. QED  BY <1>1, <2>2, <2>3, <2>4, <2>5
  <1>3. ASSUME NEW k \in i .. j PROVE Bucket(k) <= Bucket(j)
    <2>. DEFINE bad == {m \in i .. j : ~(Bucket(m) <= Bucket(j))}
    <2>. SUFFICES ASSUME bad # {} PROVE FALSE
      OBVIOUS
    <2>1. PICK m \in bad : \A l \in bad : l <= m
      <3>1. bad \in SUBSET Nat /\ \A l \in bad : l <= j
        OBVIOUS
      <3>2. j \in Nat
        OBVIOUS
      <3>. HIDE DEF bad
      <3>. QED  BY <3>1, <3>2, MaxOf
    <2>2. m \in i .. j /\ ~(Bucket(m) <= Bucket(j)) /\ m # j
      BY <1>1
    <2>3. m + 1 \in i .. j /\ m \in from .. Num - 2 /\ ~(m + 1 <= m)
      BY <2>2
    <2>4. Bucket(m + 1) <= Bucket(j)
      BY <2>1, <2>3
    <2>5. Bucket(m) <= Bucket(m + 1)
      BY <2>3 DEF Sorted
    <2>. QED  BY <1>1, <2>2, <2>3, <2>4, <2>5
  <1>4. \A k \in i .. j : k \in from .. Num - 1
    OBVIOUS
  <1>. QED  BY <1>1, <1>2, <1>3, <1>4

LEMMA GnuFinds ==
    ASSUME Called, Num \in Nat, NEW from \in 1 .. Num - 1, hash = GnuTable(from), Sorted(from),
           NEW j \in from .. Num - 1, NEW w,
           \A i \in from .. Num - 1 : w[i] = GnuStep(w, NameAt(j), i)
    PROVE  /\ BloomBits(Hash[NameAt(j)]) \subseteq hash.bloom
           /\ hash.bucket[Hash[NameAt(j)] % Buckets] >= hash.from
           /\ w[hash.bucket[Hash[NameAt(j)] % Buckets]] >= 0
  <1>. DEFINE B == InBucket(Bucket(j), from)
              l == Least(B)
  <1>1. /\ hash.from = from /\ Bucket(j) \in 0 .. Buckets - 1
        /\ hash.bucket[Bucket(j)] = l
        /\ \A i \in from .. Num - 1 :
              /\ hash.chain[i].half = Hash[NameAt(i)] \div 2
              /\ hash.chain[i].last = (i = Largest(InBucket(Bucket(i), from)))
    BY BucketIs DEF GnuTable
  <1>2. BloomBits(Hash[NameAt(j)]) \subseteq hash.bloom
    BY DEF GnuTable
  <1>3. B \in SUBSET (from .. Num - 1) /\ B \in SUBSET Nat /\ j \in B
    BY DEF InBucket
  <1>4. l \in B /\ l <= j
    <2>. HIDE DEF B
    <2>. QED  BY <1>3, LeastIs
  <1>5. l \in from .. Num - 1 /\ Bucket(l) = Bucket(j) /\ j \in l .. Num - 1
    <2>. HIDE DEF l
    <2>. QED  BY <1>3, <1>4 DEF InBucket
  <1>. HIDE DEF l
  <1>6. \A k \in l .. j : Bucket(k) = Bucket(j)
    BY <1>5, SortedBetween
  <1>7. ASSUME NEW k \in l .. j, ~(w[k] >= 0) PROVE FALSE
    <2>. DEFINE bad == {i \in l .. j : ~(w[i] >= 0)}
    <2>1. PICK i \in bad : \A m \in bad : m <= i
      <3>1. bad \in SUBSET Nat /\ bad # {} /\ (\A m \in bad : m <= j) /\ j \in Nat
        BY <1>5, <1>7
      <3>. HIDE DEF bad
      <3>. QED  BY <3>1, MaxOf
    <2>2. i \in l .. j /\ i \in from .. Num - 1 /\ ~(w[i] >= 0) /\ i \in Nat
      BY <1>5
    <2>3. w[i] = GnuStep(w, NameAt(j), i)
      BY <2>2
    <2>4. ~(hash.chain[i].half = Hash[NameAt(j)] \div 2 /\ NameAt(i) = NameAt(j))
      BY <2>2, <2>3 DEF GnuStep
    <2>5. i # j
      BY <1>1, <2>2, <2>4
    <2>6. ~hash.chain[i].last
      <3>1. j <= Largest(B)
        <4>1. B \in SUBSET (0 .. Num - 1) /\ Num - 1 \in Nat
          BY <1>3
        <4>. HIDE DEF B
        <4>. QED  BY <1>3, <4>1, LargestIs
      <3>2. Bucket(i) = Bucket(j)
        BY <1>6, <2>2
      <3>3. i # Largest(B)
        <4>. HIDE DEF B
        <4>. QED  BY <2>2, <2>5, <3>1
      <3>. QED  BY <1>1, <2>2, <3>2, <3>3
    <2>7. w[i] = w[i + 1]
      BY <2>3, <2>4, <2>6 DEF GnuStep
    <2>8. i + 1 \in l .. j /\ ~(i + 1 <= i)
      BY <1>5, <2>2, <2>5
    <2>9. w[i + 1] >= 0
      BY <2>1, <2>8
    <2>. QED  BY <2>2, <2>7, <2>9
  <1>8. w[l] >= 0
    <2>1. l \in l .. j
      BY <1>5
    <2>. QED  BY <1>7, <2>1
  <1>. QED  BY <1>1, <1>2, <1>5, <1>8 DEF Bucket

\* The symbols are the null symbol and those that were added, told apart by
\* their values.
LEMMA ValuesTell ==
    ASSUME LookInv, NEW i \in 1 .. Num, NEW j \in 1 .. Num, syms[i].value = syms[j].value
    PROVE  syms[i] = syms[j]
  <1>1. syms \in Seq(Symbols) /\ made \in Seq(Symbols) /\ syms # <<>> /\ DOMAIN syms = 1 .. Num
    BY DEF LookInv, SymInv, Typed, Num
  <1>2. ToSet(syms) = ToSet(made) \cup {NullSym}
    BY <1>1, WithNull DEF LookInv, SymInv, ArrangeKeeps, Permuted
  <1>3. ASSUME NEW k \in 1 .. Num
        PROVE  syms[k] = NullSym \/ \E m \in DOMAIN made : syms[k] = made[m]
    <2>1. syms[k] \in ToSet(syms)
      BY <1>1 DEF ToSet
    <2>. QED  BY <1>2, <2>1 DEF ToSet
  <1>4. \A m \in DOMAIN made : made[m].value = m /\ m # 0
    BY <1>1 DEF LookInv, Valued
  <1>5. NullSym.value = 0
    BY DEF NullSym
  <1>. QED  BY <1>3, <1>4, <1>5

\* A hash table, new or old, answers nothing or a symbol of the name.
LEMMA QuickIsRight ==
    ASSUME LookInv, NEW name \in Names
    PROVE  /\ hash.kind = "sysv" => Answers(HashLookup(name), name, Num)
           /\ hash.kind = "gnu" => Answers(GnuHashLookup(name), name, Num)
  <1>. DEFINE b == Hash[name] % Buckets
  <1>1. b \in 0 .. Buckets - 1 /\ Num \in Nat
    BY SymbolsAssumption DEF LookInv, SymInv, Typed, Num
  <1>2. ASSUME hash.kind = "sysv" PROVE Answers(HashLookup(name), name, Num)
    <2>1. SysvChains(hash)
      BY <1>2 DEF LookInv, Chained
    <2>2. PICK w : /\ HashLookup(name) = w[hash.bucket[b]]
                   /\ \A y \in 0 .. hash.nchain - 1 : w[y] = SysvStep(w, name, y)
      BY <1>1, <2>1, SysvWalk
    <2>3. hash.bucket[b] \in 0 .. hash.nchain - 1
      BY <1>1, <2>1 DEF SysvChains
    <2>4. Answers(w[hash.bucket[b]], name, Num)
      BY <1>1, <2>1, <2>2, <2>3, SysvSound
    <2>. QED  BY <2>2, <2>4
  <1>3. ASSUME hash.kind = "gnu" PROVE Answers(GnuHashLookup(name), name, Num)
    <2>1. GnuChains(hash)
      BY <1>3 DEF LookInv, Chained
    <2>2. PICK n \in 1 .. Num :
              /\ hash.from < n /\ DOMAIN hash.chain = hash.from .. n - 1 /\ hash.chain[n - 1].last
              /\ \A k \in 0 .. Buckets - 1 : hash.bucket[k] \in {0} \cup hash.from .. n - 1
      BY <2>1 DEF GnuChains
    <2>3. hash.from \in Nat /\ hash.from > 0 /\ n - 1 \in Nat /\ n - 1 < Num
      BY <1>1, <2>1 DEF GnuChains
    <2>4. PICK w : /\ GnuHashLookup(name) = GnuEntry(w, name)
                   /\ \A i \in hash.from .. n - 1 : w[i] = GnuStep(w, name, i)
      <3>. DEFINE from == hash.from
                  to == n - 1
      <3>1. from \in Nat /\ to \in Nat
        BY <2>3
      <3>2. DOMAIN hash.chain = from .. to
        BY <2>2
      <3>3. hash.chain[to].last
        BY <2>2
      <3>. HIDE DEF from, to
      <3>4. \E w : /\ GnuHashLookup(name) = GnuEntry(w, name)
                   /\ \A i \in from .. to : w[i] = GnuStep(w, name, i)
        BY <3>1, <3>2, <3>3, GnuWalk
      <3>. QED  BY <3>4 DEF from, to
    <2>5. hash.bucket[b] >= hash.from => hash.bucket[b] \in hash.from .. n - 1
      BY <1>1, <2>2, <2>3
    <2>6. hash.bucket[b] >= hash.from => Answers(w[hash.bucket[b]], name, Num)
      BY <1>1, <2>2, <2>3, <2>4, <2>5, GnuSound
    <2>. QED  BY <2>4, <2>6 DEF Answers, GnuEntry
  <1>. QED  BY <1>2, <1>3

LEMMA InvFinds == LookInv => LookupFinds
  <1>. SUFFICES ASSUME LookInv PROVE LookupFinds
    OBVIOUS
  <1>1. Num \in Nat /\ hash.kind \in {"none", "sysv", "gnu"}
    BY DEF LookInv, SymInv, Typed, Num, Chained
  <1>2. ASSUME NEW S \in SUBSET (0 .. Num - 1)
        PROVE  IF S = {} THEN FirstOf(S) = -1
               ELSE FirstOf(S) \in S /\ FirstOf(S) \in Nat /\ \A j \in S : FirstOf(S) <= j
    <2>1. S \in SUBSET Nat
      OBVIOUS
    <2>. QED  BY <2>1, MinOf DEF FirstOf
  <1>3. ASSUME NEW name \in Names
        PROVE  LET i == GetSymbol(name)
               IN  IF i >= 0 THEN i < Num /\ NameAt(i) = name
                   ELSE \A j \in 0 .. Num - 1 : NameAt(j) # name
    <2>. DEFINE quick == CASE hash.kind = "sysv" -> HashLookup(name)
                           [] hash.kind = "gnu"  -> GnuHashLookup(name)
                           [] OTHER -> -1
    <2>1. Answers(quick, name, Num)
      <3>1. hash.kind = "sysv" => quick = HashLookup(name)
        OBVIOUS
      <3>2. hash.kind = "gnu" => quick = GnuHashLookup(name)
        OBVIOUS
      <3>3. hash.kind = "none" => quick = -1
        OBVIOUS
      <3>. HIDE DEF quick
      <3>. QED  BY <1>1, <3>1, <3>2, <3>3, QuickIsRight DEF Answers
    <2>2. GetSymbol(name) = IF quick >= 0 THEN quick ELSE FirstOf(Named(name))
      BY Zenon DEF GetSymbol
    <2>. HIDE DEF quick
    <2>3. CASE quick >= 0
      BY <1>1, <2>1, <2>2, <2>3 DEF Answers
    <2>4. CASE ~(quick >= 0)
      <3>1. Named(name) \in SUBSET (0 .. Num - 1)
        BY DEF Named
      <3>2. CASE Named(name) = {}
        <4>1. GetSymbol(name) = -1
          BY <1>2, <2>2, <2>4, <3>1, <3>2
        <4>. QED  BY <3>2, <4>1 DEF Named
      <3>3. CASE Named(name) # {}
        <4>1. GetSymbol(name) \in Named(name) /\ GetSymbol(name) \in Nat
          BY <1>2, <2>2, <2>4, <3>1, <3>3
        <4>. QED  BY <1>1, <4>1 DEF Named
      <3>. QED  BY <3>2, <3>3
    <2>. QED  BY <2>3, <2>4
  <1>4. ASSUME NEW j \in 0 .. Num - 1
        PROVE  LET i == GetSymbolAt(Sym(j).value) IN i \in 0 .. j /\ Sym(i) = Sym(j)
    <2>. DEFINE S == {k \in 0 .. Num - 1 : Sym(k).value = Sym(j).value}
                i == FirstOf(S)
    <2>1. S \in SUBSET (0 .. Num - 1) /\ j \in S
      OBVIOUS
    <2>2. i \in S /\ i \in Nat /\ i <= j
      <3>. HIDE DEF S
      <3>. QED  BY <1>2, <2>1
    <2>3. i \in 0 .. j /\ i + 1 \in 1 .. Num /\ j + 1 \in 1 .. Num
      <3>. HIDE DEF i
      <3>. QED  BY <1>1, <2>1, <2>2
    <2>4. syms[i + 1].value = syms[j + 1].value
      <3>. HIDE DEF i
      <3>. QED  BY <2>2 DEF Sym
    <2>5. syms[i + 1] = syms[j + 1]
      <3>. HIDE DEF i
      <3>. QED  BY <2>3, <2>4, ValuesTell
    <2>6. GetSymbolAt(Sym(j).value) = i
      BY DEF GetSymbolAt
    <2>. HIDE DEF i
    <2>. QED  BY <2>3, <2>5, <2>6 DEF Sym
  <1>. QED  BY <1>3, <1>4 DEF LookupFinds

LEMMA InvQuick == LookInv => QuickWhenFresh
  <1>. SUFFICES ASSUME LookInv PROVE QuickWhenFresh
    OBVIOUS
  <1>1. Num \in Nat /\ Called
    BY DEF LookInv, SymInv, Typed, Num
  <1>2. ASSUME fresh, hash.kind = "sysv", NEW j \in 1 .. Num - 1
        PROVE  HashLookup(NameAt(j)) >= 0
    <2>1. hash = SysvTable
      BY <1>2 DEF LookInv, Fresh, GnuTable
    <2>2. SysvChains(hash)
      BY <1>2 DEF LookInv, Chained
    <2>3. PICK w : /\ HashLookup(NameAt(j)) = w[hash.bucket[Hash[NameAt(j)] % Buckets]]
                   /\ \A y \in 0 .. hash.nchain - 1 : w[y] = SysvStep(w, NameAt(j), y)
      BY <1>1, <2>2, SysvWalk
    <2>. QED  BY <1>1, <2>1, <2>3, SysvFinds
  <1>3. ASSUME fresh, hash.kind = "gnu", NEW j \in hash.from .. Num - 1
        PROVE  GnuHashLookup(NameAt(j)) >= 0
    <2>1. PICK from \in 1 .. Num - 1 : hash = GnuTable(from) /\ Sorted(from)
      BY <1>3 DEF LookInv, Fresh, SysvTable
    <2>2. /\ hash.from = from /\ DOMAIN hash.chain = from .. Num - 1
          /\ from \in Nat /\ Num - 1 \in Nat
      BY <1>1, <2>1 DEF GnuTable
    <2>3. hash.chain[Num - 1].last
      <3>1. GnuChains(hash)
        BY <1>3 DEF LookInv, Chained
      <3>2. PICK n \in 1 .. Num : hash.from < n /\ DOMAIN hash.chain = hash.from .. n - 1 /\ hash.chain[n - 1].last
        BY <3>1 DEF GnuChains
      <3>3. n - 1 \in from .. Num - 1 /\ Num - 1 \in from .. n - 1
        BY <2>2, <3>2
      <3>. QED  BY <1>1, <3>2, <3>3
    <2>4. PICK w : /\ GnuHashLookup(NameAt(j)) = GnuEntry(w, NameAt(j))
                   /\ \A i \in from .. Num - 1 : w[i] = GnuStep(w, NameAt(j), i)
      <3>. DEFINE to == Num - 1
      <3>1. to \in Nat /\ DOMAIN hash.chain = from .. to /\ hash.chain[to].last
        BY <2>2, <2>3
      <3>. HIDE DEF to
      <3>2. \E w : /\ GnuHashLookup(NameAt(j)) = GnuEntry(w, NameAt(j))
                   /\ \A i \in from .. to : w[i] = GnuStep(w, NameAt(j), i)
        BY <2>2, <3>1, GnuWalk
      <3>. QED  BY <3>2 DEF to
    <2>5. /\ BloomBits(Hash[NameAt(j)]) \subseteq hash.bloom
          /\ hash.bucket[Hash[NameAt(j)] % Buckets] >= hash.from
          /\ w[hash.bucket[Hash[NameAt(j)] % Buckets]] >= 0
      BY <1>1, <1>3, <2>1, <2>2, <2>4, GnuFinds
    <2>. QED  BY <2>4, <2>5 DEF GnuEntry
  <1>. QED  BY <1>2, <1>3 DEF QuickWhenFresh

\* However symbols are added, arranged and looked up, and whatever a linker left
\* in the file (elfio_symbols.hpp get_symbol, hash_lookup, gnu_hash_lookup): a
\* lookup by name finds a symbol of the name if there is one, through a hash
\* table or without, a lookup by value finds the symbol, and a table that is as
\* it was linked leads to every symbol it covers.
THEOREM LookupsFind == Spec => []LookupsAgree
  BY InitLookInv, StepLookInv, InvFinds, InvQuick, PTL DEF Spec, LookupsAgree
-----------------------------------------------------------------------------
(***************************************************************************)
(* The dynamic section.                                                    *)
(***************************************************************************)
DynEntries == [tag : Dynamic!Tags, value : Values \cup Nat]

DynTyped ==
    /\ entries \in Seq(DynEntries) /\ dynamicStrings \in Seq(Strs)
    /\ stated \in Seq(Strs \cup Values \cup Nat) /\ Len(stated) = Len(entries)
    /\ entries_num \in [Accessors -> Nat] /\ counted \in [Accessors -> Nat]

\* n is where the list of the first m entries ends: at its first DT_NULL or,
\* where there is none, at the end of the section.
EndsAt(es, n, m) ==
    /\ n \in 1 .. m /\ m <= Len(es)
    /\ \A i \in 1 .. n - 1 : es[i].tag # "NULL"
    /\ n = m \/ es[n].tag = "NULL"

\* What an accessor has counted was the end of the list when it counted.
CountedThen ==
    \A a \in Accessors : entries_num[a] # 0 => EndsAt(entries, entries_num[a], counted[a])

\* Every entry of the section means what was stated, not only those that an
\* accessor can see.
AllMean ==
    \A i \in DOMAIN entries :
        IF entries[i].tag \in Dynamic!OfString
        THEN entries[i].value \in DOMAIN dynamicStrings /\ dynamicStrings[entries[i].value] = stated[i]
        ELSE IF entries[i].tag \in Dynamic!Valueless THEN stated[i] = 0
             ELSE entries[i].value = stated[i]

DynInv == DynTyped /\ CountedThen /\ AllMean /\ Dynamic!FirstStated

\* The list ends at its first DT_NULL or at the end of the section.
LEMMA UpToNullIs ==
    ASSUME NEW es \in Seq(DynEntries)
    PROVE  /\ Dynamic!UpToNull(es) \in 0 .. Len(es)
           /\ es = <<>> => Dynamic!UpToNull(es) = 0
           /\ es # <<>> => EndsAt(es, Dynamic!UpToNull(es), Len(es))
  <1>. DEFINE nulls == {i \in DOMAIN es : es[i].tag = "NULL"}
              S == {Len(es)} \cup nulls
              u == Min(S)
  <1>1. Len(es) \in Nat /\ DOMAIN es = 1 .. Len(es)
    OBVIOUS
  <1>2. S \in SUBSET Nat /\ Len(es) \in S
    BY <1>1
  <1>3. u \in S /\ \A y \in S : u <= y
    <2>. HIDE DEF S
    <2>. QED  BY <1>2, MinOf
  <1>4. Dynamic!UpToNull(es) = u
    BY DEF Dynamic!UpToNull, Dynamic!Min, Min
  <1>. HIDE DEF u
  <1>5. u \in 0 .. Len(es)
    BY <1>1, <1>2, <1>3
  <1>6. es = <<>> => u = 0
    BY <1>1, <1>5
  <1>7. ASSUME es # <<>> PROVE EndsAt(es, u, Len(es))
    <2>1. Len(es) >= 1
      BY <1>1, <1>7
    <2>2. u \in 1 .. Len(es)
      BY <1>1, <1>3, <2>1
    <2>3. \A i \in 1 .. u - 1 : i \in 1 .. Len(es) /\ i < u
      BY <1>1, <2>2
    <2>4. \A i \in 1 .. u - 1 : es[i].tag # "NULL"
      <3>. SUFFICES ASSUME NEW i \in 1 .. u - 1, es[i].tag = "NULL" PROVE FALSE
        OBVIOUS
      <3>1. i \in S
        BY <1>1, <2>3
      <3>. HIDE DEF S
      <3>. QED  BY <1>3, <2>2, <2>3, <3>1
    <2>5. u = Len(es) \/ es[u].tag = "NULL"
      BY <1>3
    <2>6. Len(es) <= Len(es)
      BY <1>1
    <2>. QED  BY <2>2, <2>4, <2>5, <2>6, Zenon DEF EndsAt
  <1>. QED  BY <1>4, <1>5, <1>6, <1>7

\* Whatever comes behind, the first entries stay those they are.
LEMMA EndsStay ==
    ASSUME NEW es \in Seq(DynEntries), NEW e \in DynEntries, NEW n, NEW m \in Nat,
           EndsAt(es, n, m)
    PROVE  EndsAt(Append(es, e), n, m)
  <1>1. /\ Len(Append(es, e)) = Len(es) + 1 /\ Len(es) \in Nat
        /\ \A i \in 1 .. Len(es) : Append(es, e)[i] = es[i]
    BY AppendProperties
  <1>. QED  BY <1>1 DEF EndsAt

\* The end of the list moves only behind all of it.
LEMMA UpToNullGrows ==
    ASSUME NEW es \in Seq(DynEntries), NEW e \in DynEntries
    PROVE  Dynamic!UpToNull(es) <= Dynamic!UpToNull(Append(es, e))
  <1>1. PICK u, v : u = Dynamic!UpToNull(es) /\ v = Dynamic!UpToNull(Append(es, e))
    OBVIOUS
  <1>2. u \in 0 .. Len(es) /\ (es = <<>> => u = 0) /\ (es # <<>> => EndsAt(es, u, Len(es)))
    BY <1>1, UpToNullIs
  <1>3. /\ Append(es, e) \in Seq(DynEntries) /\ Append(es, e) # <<>> /\ Len(es) \in Nat
        /\ Len(Append(es, e)) = Len(es) + 1
    BY AppendProperties
  <1>4. v \in 0 .. Len(es) + 1 /\ EndsAt(Append(es, e), v, Len(es) + 1)
    BY <1>1, <1>3, UpToNullIs
  <1>5. CASE es = <<>>
    BY <1>1, <1>2, <1>4, <1>5
  <1>6. CASE es # <<>>
    <2>1. EndsAt(Append(es, e), u, Len(es))
      BY <1>2, <1>3, <1>6, EndsStay
    <2>2. u <= v
      BY <1>2, <1>3, <1>4, <2>1 DEF EndsAt
    <2>. QED  BY <1>1, <2>2
  <1>. QED  BY <1>5, <1>6

\* Another entry, with what was meant by it, for the accessors that have counted.
LEMMA AppendStep ==
    ASSUME DynInv, NEW e \in DynEntries, entries' = Append(entries, e),
           DynTyped', AllMean', UNCHANGED <<entries_num, counted, required>>
    PROVE  DynInv'
  <1>1. entries \in Seq(DynEntries) /\ counted \in [Accessors -> Nat]
    BY DEF DynInv, DynTyped
  <1>2. CountedThen'
    <2>. SUFFICES ASSUME NEW a \in Accessors, entries_num[a] # 0
                  PROVE  EndsAt(entries', entries_num[a], counted[a])
      BY DEF CountedThen
    <2>1. EndsAt(entries, entries_num[a], counted[a])
      BY DEF DynInv, CountedThen
    <2>2. counted[a] \in Nat
      BY <1>1
    <2>. QED  BY <1>1, <2>1, <2>2, EndsStay
  <1>3. Dynamic!FirstStated'
    <2>. SUFFICES ASSUME required > 0 PROVE Dynamic!FirstStated'
      BY DEF Dynamic!FirstStated
    <2>1. PICK i \in 1 .. Dynamic!UpToNull(entries) :
              /\ entries[i] = [tag |-> "VERNEEDNUM", value |-> required]
              /\ \A j \in 1 .. i - 1 : entries[j].tag # "VERNEEDNUM"
      BY DEF DynInv, Dynamic!FirstStated
    <2>2. PICK u, v : /\ u = Dynamic!UpToNull(entries) /\ v = Dynamic!UpToNull(entries')
                      /\ u \in 0 .. Len(entries) /\ u <= v /\ v \in Nat
      <3>1. Dynamic!UpToNull(entries) \in 0 .. Len(entries)
        BY <1>1, UpToNullIs
      <3>2. Dynamic!UpToNull(entries) <= Dynamic!UpToNull(entries')
        BY <1>1, UpToNullGrows
      <3>3. Dynamic!UpToNull(entries') \in Nat
        <4>1. Append(entries, e) \in Seq(DynEntries)
          BY <1>1, AppendProperties
        <4>2. Dynamic!UpToNull(Append(entries, e)) \in 0 .. Len(Append(entries, e))
          BY <4>1, UpToNullIs
        <4>. QED  BY <4>1, <4>2
      <3>. QED  BY <3>1, <3>2, <3>3
    <2>3. i \in 1 .. v /\ i \in 1 .. Len(entries) /\ \A j \in 1 .. i - 1 : j \in 1 .. Len(entries)
      BY <1>1, <2>1, <2>2
    <2>4. \A j \in 1 .. Len(entries) : entries'[j] = entries[j]
      BY <1>1, AppendProperties
    <2>5. /\ entries'[i] = [tag |-> "VERNEEDNUM", value |-> required']
          /\ \A j \in 1 .. i - 1 : entries'[j].tag # "VERNEEDNUM"
      BY <2>1, <2>3, <2>4
    <2>. QED  BY <2>2, <2>3, <2>5 DEF Dynamic!FirstStated
  <1>. QED  BY <1>2, <1>3 DEF DynInv

LEMMA AddDynEntryStep ==
    ASSUME DynInv, NEW tag \in Dynamic!Tags, NEW value \in Values, Dynamic!AddEntry(tag, value)
    PROVE  DynInv'
  <1>. DEFINE e == Dynamic!Stored(tag, value)
              m == IF tag \in Dynamic!OfString THEN dynamicStrings[value]
                   ELSE IF tag \in Dynamic!Valueless THEN 0 ELSE value
  <1>1. /\ entries' = Append(entries, e) /\ stated' = Append(stated, m)
        /\ UNCHANGED <<dynamicStrings, entries_num, required, counted>>
        /\ tag \in Dynamic!OfString => value \in DOMAIN dynamicStrings
    BY DEF Dynamic!AddEntry
  <1>2. /\ e \in DynEntries /\ e.tag = tag
        /\ e.value = IF tag \in Dynamic!Valueless THEN 0 ELSE value
    BY DEF DynEntries, Dynamic!Stored
  <1>3. m \in Strs \cup Values \cup Nat
    BY <1>1 DEF DynInv, DynTyped
  <1>. HIDE DEF e, m
  <1>4. /\ entries \in Seq(DynEntries) /\ stated \in Seq(Strs \cup Values \cup Nat)
        /\ Len(stated) = Len(entries)
    BY DEF DynInv, DynTyped
  <1>5. /\ entries' \in Seq(DynEntries) /\ Len(entries') = Len(entries) + 1
        /\ entries'[Len(entries) + 1] = e
        /\ \A i \in 1 .. Len(entries) : entries'[i] = entries[i]
    BY <1>1, <1>2, <1>4, AppendProperties
  <1>6. /\ stated' \in Seq(Strs \cup Values \cup Nat) /\ Len(stated') = Len(entries) + 1
        /\ stated'[Len(entries) + 1] = m
        /\ \A i \in 1 .. Len(entries) : stated'[i] = stated[i]
    BY <1>1, <1>3, <1>4, AppendProperties
  <1>7. DynTyped'
    BY <1>1, <1>5, <1>6 DEF DynInv, DynTyped
  <1>8. AllMean'
    <2>. SUFFICES ASSUME NEW i \in DOMAIN entries' PROVE AllMean!(i)'
      BY DEF AllMean
    <2>1. CASE i \in 1 .. Len(entries)
      <3>1. entries'[i] = entries[i] /\ stated'[i] = stated[i] /\ i \in DOMAIN entries
        BY <1>4, <1>5, <1>6, <2>1
      <3>. QED  BY <1>1, <3>1 DEF DynInv, AllMean
    <2>2. CASE i = Len(entries) + 1
      BY <1>1, <1>2, <1>5, <1>6, <2>2 DEF m, Dynamic!OfString, Dynamic!Valueless
    <2>3. i \in 1 .. Len(entries) \/ i = Len(entries) + 1
      BY <1>4, <1>5
    <2>. QED  BY <2>1, <2>2, <2>3
  <1>. QED  BY <1>1, <1>2, <1>7, <1>8, AppendStep

LEMMA AddStringEntryStep ==
    ASSUME DynInv, NEW tag \in Dynamic!OfString, NEW str \in Strs,
           Dynamic!AddStringEntry(tag, str)
    PROVE  DynInv'
  <1>. DEFINE e == Dynamic!Stored(tag, Len(dynamicStrings'))
  <1>1. /\ entries' = Append(entries, e) /\ stated' = Append(stated, str)
        /\ dynamicStrings' = Append(dynamicStrings, str)
        /\ UNCHANGED <<entries_num, required, counted>>
    BY DEF Dynamic!AddStringEntry, Dynamic!PlaceOf
  <1>2. /\ dynamicStrings' \in Seq(Strs) /\ Len(dynamicStrings') = Len(dynamicStrings) + 1
        /\ Len(dynamicStrings) \in Nat
        /\ dynamicStrings'[Len(dynamicStrings) + 1] = str
        /\ \A k \in 1 .. Len(dynamicStrings) : dynamicStrings'[k] = dynamicStrings[k]
    <2>1. dynamicStrings \in Seq(Strs)
      BY DEF DynInv, DynTyped
    <2>. QED  BY <1>1, <2>1, AppendProperties
  <1>3. /\ e \in DynEntries /\ e.tag = tag /\ tag \in Dynamic!OfString
        /\ e.value = Len(dynamicStrings) + 1
    BY <1>2 DEF DynEntries, Dynamic!Stored, Dynamic!OfString, Dynamic!Tags, Dynamic!Valueless
  <1>. HIDE DEF e
  <1>4. /\ entries \in Seq(DynEntries) /\ stated \in Seq(Strs \cup Values \cup Nat)
        /\ Len(stated) = Len(entries)
    BY DEF DynInv, DynTyped
  <1>5. /\ entries' \in Seq(DynEntries) /\ Len(entries') = Len(entries) + 1
        /\ entries'[Len(entries) + 1] = e
        /\ \A i \in 1 .. Len(entries) : entries'[i] = entries[i]
    BY <1>1, <1>3, <1>4, AppendProperties
  <1>6. /\ stated' \in Seq(Strs \cup Values \cup Nat) /\ Len(stated') = Len(entries) + 1
        /\ stated'[Len(entries) + 1] = str
        /\ \A i \in 1 .. Len(entries) : stated'[i] = stated[i]
    BY <1>1, <1>4, AppendProperties
  <1>7. DynTyped'
    BY <1>1, <1>2, <1>5, <1>6 DEF DynInv, DynTyped
  <1>8. AllMean'
    <2>. SUFFICES ASSUME NEW i \in DOMAIN entries' PROVE AllMean!(i)'
      BY DEF AllMean
    <2>1. CASE i \in 1 .. Len(entries)
      <3>1. entries'[i] = entries[i] /\ stated'[i] = stated[i] /\ i \in DOMAIN entries
        BY <1>4, <1>5, <1>6, <2>1
      <3>2. \A v \in DOMAIN dynamicStrings :
                v \in DOMAIN dynamicStrings' /\ dynamicStrings'[v] = dynamicStrings[v]
        <4>1. DOMAIN dynamicStrings = 1 .. Len(dynamicStrings)
          BY DEF DynInv, DynTyped
        <4>2. DOMAIN dynamicStrings' = 1 .. Len(dynamicStrings) + 1
          BY <1>2, LenProperties
        <4>. QED  BY <1>2, <4>1, <4>2
      <3>. QED  BY <3>1, <3>2 DEF DynInv, AllMean
    <2>2. CASE i = Len(entries) + 1
      BY <1>2, <1>3, <1>5, <1>6, <2>2
    <2>3. i \in 1 .. Len(entries) \/ i = Len(entries) + 1
      BY <1>4, <1>5
    <2>. QED  BY <2>1, <2>2, <2>3
  <1>. QED  BY <1>1, <1>3, <1>7, <1>8, AppendStep

LEMMA CountStep ==
    ASSUME DynInv, NEW a \in Accessors, Dynamic!Count(a)
    PROVE  DynInv'
  <1>1. /\ entries_num' = [entries_num EXCEPT ![a] = Dynamic!CountOf(a)]
        /\ counted' = [counted EXCEPT ![a] = IF entries_num[a] = 0 THEN Len(entries) ELSE @]
        /\ UNCHANGED <<entries, dynamicStrings, required, stated>>
    BY DEF Dynamic!Count
  <1>2. /\ entries \in Seq(DynEntries) /\ Len(entries) \in Nat
        /\ entries_num \in [Accessors -> Nat] /\ counted \in [Accessors -> Nat]
    BY DEF DynInv, DynTyped
  <1>3. PICK u \in 0 .. Len(entries) :
            /\ u = Dynamic!UpToNull(entries)
            /\ entries = <<>> => u = 0
            /\ entries # <<>> => EndsAt(entries, u, Len(entries))
    BY <1>2, UpToNullIs
  <1>4. Dynamic!CountOf(a) = IF entries_num[a] = 0 THEN u ELSE entries_num[a]
    BY <1>3 DEF Dynamic!CountOf
  <1>5. DynTyped'
    <2>1. entries_num' \in [Accessors -> Nat] /\ counted' \in [Accessors -> Nat]
      BY <1>1, <1>2, <1>4
    <2>. QED  BY <1>1, <2>1 DEF DynInv, DynTyped
  <1>6. CountedThen'
    <2>. SUFFICES ASSUME NEW b \in Accessors, entries_num'[b] # 0
                  PROVE  EndsAt(entries, entries_num'[b], counted'[b])
      BY <1>1 DEF CountedThen
    <2>1. CASE b = a /\ entries_num[a] = 0
      <3>1. entries_num'[b] = u /\ counted'[b] = Len(entries)
        BY <1>1, <1>2, <1>4, <2>1
      <3>. QED  BY <1>3, <3>1
    <2>2. CASE b # a \/ entries_num[a] # 0
      <3>1. entries_num'[b] = entries_num[b] /\ counted'[b] = counted[b]
        BY <1>1, <1>2, <1>4, <2>2
      <3>. QED  BY <3>1 DEF DynInv, CountedThen
    <2>. QED  BY <2>1, <2>2
  <1>7. AllMean' /\ Dynamic!FirstStated'
    BY <1>1 DEF DynInv, AllMean, Dynamic!FirstStated
  <1>. QED  BY <1>5, <1>6, <1>7 DEF DynInv

LEMMA ReopenDynStep ==
    ASSUME DynInv, NEW a \in Accessors, Dynamic!Reopen(a)
    PROVE  DynInv'
  <1>1. /\ entries_num' = [entries_num EXCEPT ![a] = 0]
        /\ counted' = [counted EXCEPT ![a] = 0]
        /\ UNCHANGED <<entries, dynamicStrings, required, stated>>
    BY DEF Dynamic!Reopen
  <1>2. DynTyped'
    BY <1>1 DEF DynInv, DynTyped
  <1>3. CountedThen'
    <2>. SUFFICES ASSUME NEW b \in Accessors, entries_num'[b] # 0
                  PROVE  EndsAt(entries, entries_num'[b], counted'[b])
      BY <1>1 DEF CountedThen
    <2>1. entries_num'[b] = entries_num[b] /\ counted'[b] = counted[b]
      BY <1>1 DEF DynInv, DynTyped
    <2>. QED  BY <2>1 DEF DynInv, CountedThen
  <1>4. AllMean' /\ Dynamic!FirstStated'
    BY <1>1 DEF DynInv, AllMean, Dynamic!FirstStated
  <1>. QED  BY <1>2, <1>3, <1>4 DEF DynInv

LEMMA OpenRequirementsStep ==
    ASSUME DynInv, Dynamic!OpenRequirements
    PROVE  DynInv'
  <1>. DEFINE found == {i \in 1 .. Dynamic!UpToNull(entries) : entries[i].tag = "VERNEEDNUM"}
  <1>1. /\ required' = IF found = {} THEN 0 ELSE entries[Dynamic!Chosen(found)].value
        /\ UNCHANGED <<entries, dynamicStrings, entries_num, counted, stated>>
    BY DEF Dynamic!OpenRequirements
  <1>2. entries \in Seq(DynEntries) /\ Dynamic!UpToNull(entries) \in 0 .. Len(entries)
    BY UpToNullIs DEF DynInv, DynTyped
  <1>3. DynTyped' /\ CountedThen' /\ AllMean'
    BY <1>1 DEF DynInv, DynTyped, CountedThen, AllMean
  <1>4. Dynamic!FirstStated'
    <2>1. CASE found = {}
      <3>1. ~(required' > 0)
        BY <1>1, <2>1
      <3>. QED  BY <3>1 DEF Dynamic!FirstStated
    <2>2. CASE found # {}
      <3>1. PICK i : i = Min(found) /\ i \in found /\ \A j \in found : i <= j
        <4>1. found \in SUBSET Nat
          BY <1>2
        <4>. HIDE DEF found
        <4>. QED  BY <2>2, <4>1, MinOf
      <3>2. required' = entries[i].value
        BY <1>1, <2>2, <3>1 DEF Dynamic!Chosen, Dynamic!Min, Min
      <3>3. i \in 1 .. Dynamic!UpToNull(entries) /\ entries[i].tag = "VERNEEDNUM"
        BY <3>1
      <3>4. entries[i] = [tag |-> "VERNEEDNUM", value |-> required']
        <4>1. entries[i] \in DynEntries
          BY <1>2, <3>3
        <4>. QED  BY <3>2, <3>3, <4>1 DEF DynEntries
      <3>5. \A j \in 1 .. i - 1 : entries[j].tag # "VERNEEDNUM"
        <4>. SUFFICES ASSUME NEW j \in 1 .. i - 1, entries[j].tag = "VERNEEDNUM" PROVE FALSE
          OBVIOUS
        <4>1. j \in found /\ j < i
          BY <1>2, <3>3
        <4>. QED  BY <1>2, <3>1, <3>3, <4>1
      <3>. QED  BY <1>1, <3>3, <3>4, <3>5 DEF Dynamic!FirstStated
    <2>. QED  BY <2>1, <2>2
  <1>. QED  BY <1>3, <1>4 DEF DynInv

LEMMA StepDynInv == DynInv /\ [Dynamic!Next]_dynamicVars => DynInv'
  <1>. SUFFICES ASSUME DynInv, [Dynamic!Next]_dynamicVars PROVE DynInv'
    OBVIOUS
  <1>1. CASE Dynamic!Next
    BY <1>1, AddDynEntryStep, AddStringEntryStep, CountStep, ReopenDynStep,
       OpenRequirementsStep DEF Dynamic!Next
  <1>2. CASE UNCHANGED dynamicVars
    BY <1>2 DEF dynamicVars, DynInv, DynTyped, CountedThen, EndsAt, AllMean, Dynamic!FirstStated
  <1>. QED  BY <1>1, <1>2

LEMMA InitDynInv == Dynamic!Init => DynInv
  <1>. SUFFICES ASSUME Dynamic!Init PROVE DynInv
    OBVIOUS
  <1>1. /\ entries = <<>> /\ dynamicStrings = <<>> /\ stated = <<>> /\ required = -1
        /\ entries_num = [a \in Accessors |-> 0] /\ counted = [a \in Accessors |-> 0]
    BY DEF Dynamic!Init
  <1>2. DynTyped
    BY <1>1 DEF DynTyped
  <1>. QED  BY <1>1, <1>2 DEF DynInv, CountedThen, AllMean, Dynamic!FirstStated

\* What an accessor sees of the list, whenever it has counted.
LEMMA DynInvReads == DynInv => DynamicReadsAsAdded
  <1>. SUFFICES ASSUME DynInv PROVE DynamicReadsAsAdded
    OBVIOUS
  <1>1. entries \in Seq(DynEntries) /\ Len(entries) \in Nat
    BY DEF DynInv, DynTyped
  <1>2. PICK u \in 0 .. Len(entries) :
            u = Dynamic!UpToNull(entries) /\ (entries # <<>> => EndsAt(entries, u, Len(entries)))
    BY <1>1, UpToNullIs
  <1>3. ASSUME NEW a \in Accessors
        PROVE  /\ Dynamic!CountOf(a) \in 0 .. Len(entries)
               /\ Dynamic!CountOf(a) < u =>
                     /\ counted[a] > 0 /\ Dynamic!CountOf(a) = counted[a]
                     /\ counted[a] < Len(entries)
    <2>1. entries_num[a] \in Nat /\ counted[a] \in Nat
      BY DEF DynInv, DynTyped
    <2>2. CASE entries_num[a] = 0
      BY <1>2, <2>2 DEF Dynamic!CountOf
    <2>3. CASE entries_num[a] # 0
      <3>1. Dynamic!CountOf(a) = entries_num[a] /\ EndsAt(entries, entries_num[a], counted[a])
        BY <2>3 DEF Dynamic!CountOf, DynInv, CountedThen
      <3>2. ASSUME entries_num[a] < u PROVE entries_num[a] = counted[a]
        <4>1. entries # <<>> /\ EndsAt(entries, u, Len(entries))
          BY <1>1, <1>2, <2>1, <3>2
        <4>2. entries_num[a] \in 1 .. u - 1
          BY <1>2, <2>1, <2>3, <3>2
        <4>. QED  BY <3>1, <4>1, <4>2 DEF EndsAt
      <3>. QED  BY <1>1, <1>2, <2>1, <3>1, <3>2 DEF EndsAt
    <2>. QED  BY <2>2, <2>3
  <1>4. Dynamic!MissesOnlyLater
    BY <1>2, <1>3 DEF Dynamic!MissesOnlyLater
  <1>5. Dynamic!MeansWhatWasAdded
    <2>. SUFFICES ASSUME NEW a \in Accessors, NEW i \in 1 .. Dynamic!CountOf(a)
                  PROVE  (IF Dynamic!GetEntry(i).tag \in Dynamic!OfString
                          THEN Dynamic!GetEntry(i).str ELSE Dynamic!GetEntry(i).value) = stated[i]
      BY DEF Dynamic!MeansWhatWasAdded
    <2>1. i \in DOMAIN entries /\ entries[i] \in DynEntries
      BY <1>1, <1>3
    <2>. QED  BY <2>1 DEF DynInv, AllMean, DynEntries, Dynamic!GetEntry, Dynamic!Read,
                          Dynamic!OfString, Dynamic!Valueless
  <1>. QED  BY <1>4, <1>5 DEF DynInv, DynamicReadsAsAdded, Dynamic!ReadsAsAdded

-----------------------------------------------------------------------------
\* While the dynamic section is followed the others rest, and the other way round.
LEMMA AccessorsApart == AccessorSpec => Spec /\ Dynamic!Init /\ [][Dynamic!Next]_dynamicVars
  <1>1. AccessorInit => Init /\ Dynamic!Init
    BY DEF AccessorInit
  <1>2. [AccessorNext]_AccessorVars => [Next]_vars /\ [Dynamic!Next]_dynamicVars
    BY Zenon DEF AccessorNext, AccessorVars, FollowSymbols, FollowDynamic, FollowNotes, FollowModinfo
  <1>. QED  BY <1>1, <1>2, PTL DEF AccessorSpec, Spec

\* The accessors of a dynamic section and of the version requirements
\* (elfio_dynamic.hpp:42-126, elfio_versym.hpp:101-127), each of which counts
\* the entries once, read what was added: none misses an entry but for those
\* added after it has counted, and each entry means what it was added with.
THEOREM DynamicIsRead == AccessorSpec => []DynamicReadsAsAdded
  BY AccessorsApart, InitDynInv, StepDynInv, DynInvReads, PTL
-----------------------------------------------------------------------------
(***************************************************************************)
(* The notes of a section.                                                 *)
(***************************************************************************)
Padded(n) == (n + 3) \div 4
Advance(ws, p) == Notes!Advance(ws, p)
Counted(ws, p) == Notes!Counted(ws, p)

LEMMA PaddedIs ==
    \A n \in Nat : Padded(n) \in Nat /\ n <= 4 * Padded(n) /\ (n > 0 => Padded(n) > 0) /\ Padded(0) = 0
                   /\ Notes!Padded(n) = Padded(n)
  BY DEF Padded, Notes!Padded

\* A note that is counted lies in the section.
LEMMA CountedIs ==
    ASSUME NEW ws \in Seq(Nat), NEW p \in Nat, p + 3 <= Len(ws)
    PROVE  /\ Advance(ws, p) = 3 + Padded(ws[p + 1]) + Padded(ws[p + 2])
           /\ Padded(ws[p + 1]) \in Nat /\ Padded(ws[p + 2]) \in Nat /\ Advance(ws, p) \in Nat
           /\ Advance(ws, p) >= 3 /\ Len(ws) \in Nat
           /\ Counted(ws, p) <=> /\ ws[p + 1] < 4 * Len(ws) /\ ws[p + 2] < 4 * Len(ws)
                                 /\ p + Advance(ws, p) <= Len(ws)
  <1>1. p + 1 \in 1 .. Len(ws) /\ p + 2 \in 1 .. Len(ws)
    OBVIOUS
  <1>2. ws[p + 1] \in Nat /\ ws[p + 2] \in Nat
    BY <1>1
  <1>3. Advance(ws, p) = 3 + Padded(ws[p + 1]) + Padded(ws[p + 2])
    BY <1>2, PaddedIs DEF Advance, Notes!Advance
  <1>4. Padded(ws[p + 1]) \in Nat /\ Padded(ws[p + 2]) \in Nat
    BY <1>2, PaddedIs
  <1>5. Advance(ws, p) \in Nat /\ Advance(ws, p) >= 3 /\ Len(ws) \in Nat
    BY <1>3, <1>4
  <1>6. Counted(ws, p) <=> /\ ws[p + 1] < 4 * Len(ws) /\ ws[p + 2] < 4 * Len(ws)
                           /\ p + Advance(ws, p) <= Len(ws)
    BY DEF Counted, Notes!Counted, Advance
  <1>. QED  BY <1>3, <1>4, <1>5, <1>6

LEMMA CountedLies ==
    ASSUME NEW ws \in Seq(Nat), NEW p \in Nat, Counted(ws, p)
    PROVE  /\ p + 3 <= Len(ws) /\ Advance(ws, p) \in Nat /\ Advance(ws, p) >= 3
           /\ p + Advance(ws, p) \in Nat /\ p + Advance(ws, p) <= Len(ws)
  <1>1. p + 3 <= Len(ws)
    BY DEF Counted, Notes!Counted
  <1>. DEFINE d == Advance(ws, p)
  <1>2. d \in Nat /\ d >= 3 /\ Len(ws) \in Nat
    BY <1>1, CountedIs
  <1>3. p + d <= Len(ws)
    BY <1>1, CountedIs
  <1>. HIDE DEF d
  <1>4. p + d \in Nat
    BY <1>2
  <1>. QED  BY <1>1, <1>2, <1>3, <1>4 DEF d

\* What process_section finds: each note begins where the one before ends.
Chain(ws, ps) ==
    /\ ps \in Seq(Nat)
    /\ \A k \in 1 .. Len(ps) : /\ Counted(ws, ps[k])
                               /\ ps[k] = IF k = 1 THEN 0 ELSE ps[k - 1] + Advance(ws, ps[k - 1])
EndOf(ws, ps) == IF Len(ps) = 0 THEN 0 ELSE ps[Len(ps)] + Advance(ws, ps[Len(ps)])
AllOf(ws, ps) == Chain(ws, ps) /\ ~Counted(ws, EndOf(ws, ps))

LEMMA ProcessSteps ==
    ASSUME NEW ws \in Seq(Nat)
    PROVE  \E p : /\ \A k \in 1 .. Len(ws) + 1 :
                        /\ p[k] \in {-1} \cup Nat
                        /\ p[k] = IF k = 1 THEN 0
                                  ELSE IF p[k - 1] >= 0 /\ Counted(ws, p[k - 1])
                                       THEN p[k - 1] + Advance(ws, p[k - 1]) ELSE -1
                  /\ Notes!Process(ws) =
                        [k \in {k \in 1 .. Len(ws) + 1 : p[k] >= 0 /\ Counted(ws, p[k])} |-> p[k]]
                  /\ ~(p[Len(ws) + 1] >= 0 /\ Counted(ws, p[Len(ws) + 1]))
  <1>. DEFINE n == Len(ws)
              next(x) == IF x >= 0 /\ Counted(ws, x) THEN x + Advance(ws, x) ELSE -1
              K == [i \in 0 .. n |-> {-1} \cup (i .. n)]
              step == [i \in 1 .. n |-> [x \in {-1} \cup (0 .. n) |-> next(x)]]
              start == 0
              P == CHOOSE p : p = [k \in 1 .. Len(ws) + 1 |->
                      IF k = 1 THEN 0
                      ELSE IF p[k - 1] >= 0 /\ Notes!Counted(ws, p[k - 1])
                           THEN p[k - 1] + Notes!Advance(ws, p[k - 1]) ELSE -1]
  <1>1. n \in Nat
    OBVIOUS
  <1>2. \A i \in 1 .. n : \A x \in K[i - 1] : step[i][x] \in K[i]
    <2>. SUFFICES ASSUME NEW i \in 1 .. n, NEW x \in {-1} \cup (i - 1 .. n) PROVE next(x) \in {-1} \cup (i .. n)
      OBVIOUS
    <2>1. CASE x >= 0 /\ Counted(ws, x)
      <3>1. x \in Nat /\ x >= i - 1
        BY <1>1, <2>1
      <3>2. Advance(ws, x) \in Nat /\ Advance(ws, x) >= 3 /\ x + Advance(ws, x) <= n
        BY <2>1, <3>1, CountedLies
      <3>. QED  BY <1>1, <2>1, <3>1, <3>2
    <2>2. CASE ~(x >= 0 /\ Counted(ws, x))
      BY <2>2
    <2>. QED  BY <2>1, <2>2
  <1>3. PICK w : /\ w = [i \in 0 .. n |-> w[i]] /\ w[0] = start
                 /\ \A i \in 1 .. n : w[i] = step[i][w[i - 1]]
                 /\ \A i \in 0 .. n : w[i] \in K[i]
    <2>1. start \in K[0]
      BY <1>1
    <2>. HIDE DEF K, step, n, start
    <2>2. \E w : Loops(w, n, K, start, step)
      BY <1>1, <1>2, <2>1, LoopExists
    <2>. QED  BY <2>2 DEF Loops
  <1>. DEFINE q == [k \in 1 .. n + 1 |-> w[k - 1]]
  <1>4. \A k \in 1 .. n + 1 : q[k] = IF k = 1 THEN 0 ELSE next(q[k - 1])
    <2>. TAKE k \in 1 .. n + 1
    <2>1. CASE k = 1
      BY <1>1, <1>3, <2>1
    <2>2. CASE k # 1
      <3>1. k - 1 \in 1 .. n /\ k - 1 \in 0 .. n /\ k - 2 \in 0 .. n /\ k - 1 \in 1 .. n + 1 /\ k - 1 - 1 = k - 2
        BY <1>1, <2>2
      <3>2. w[k - 2] \in {-1} \cup (0 .. n)
        BY <1>3, <3>1
      <3>3. w[k - 1] = next(w[k - 2])
        <4>. HIDE DEF next
        <4>. QED  BY <1>3, <3>1, <3>2
      <3>. QED  BY <2>2, <3>1, <3>3
    <2>. QED  BY <2>1, <2>2
  <1>5. q = [k \in 1 .. Len(ws) + 1 |->
                IF k = 1 THEN 0
                ELSE IF q[k - 1] >= 0 /\ Notes!Counted(ws, q[k - 1])
                     THEN q[k - 1] + Notes!Advance(ws, q[k - 1]) ELSE -1]
    BY <1>4 DEF Counted, Advance
  <1>. HIDE DEF q
  <1>6. P = [k \in 1 .. Len(ws) + 1 |->
                IF k = 1 THEN 0
                ELSE IF P[k - 1] >= 0 /\ Notes!Counted(ws, P[k - 1])
                     THEN P[k - 1] + Notes!Advance(ws, P[k - 1]) ELSE -1]
    BY <1>5, Zenon
  <1>7. Notes!Process(ws) = [k \in {k \in DOMAIN P : P[k] >= 0 /\ Notes!Counted(ws, P[k])} |-> P[k]]
    BY Zenon DEF Notes!Process
  <1>. HIDE DEF P
  <1>8. DOMAIN P = 1 .. n + 1 /\ \A k \in 1 .. n + 1 : P[k] = IF k = 1 THEN 0 ELSE next(P[k - 1])
    BY <1>6 DEF Counted, Advance
  <1>. DEFINE v == [i \in 0 .. n |-> P[i + 1]]
  <1>9. \A i \in 0 .. n : v[i] \in K[i]
    <2>1. v[0] \in K[0]
      BY <1>1, <1>8
    <2>2. \A i \in 1 .. n : v[i - 1] \in K[i - 1] => v[i] \in K[i]
      <3>. TAKE i \in 1 .. n
      <3>. HAVE v[i - 1] \in K[i - 1]
      <3>1. i + 1 \in 1 .. n + 1 /\ i + 1 # 1 /\ i \in 0 .. n /\ i - 1 \in 0 .. n /\ i + 1 - 1 = i /\ i - 1 + 1 = i
        BY <1>1
      <3>2. v[i] = P[i + 1] /\ v[i - 1] = P[i]
        BY <3>1
      <3>3. v[i] = next(v[i - 1])
        <4>. HIDE DEF next, v
        <4>. QED  BY <1>8, <3>1, <3>2
      <3>. DEFINE x == v[i - 1]
      <3>4. x \in K[i - 1] /\ x \in {-1} \cup (0 .. n)
        BY <3>1
      <3>5. step[i][x] = next(x)
        <4>. HIDE DEF next, v, x
        <4>. QED  BY <3>4
      <3>6. step[i][x] \in K[i]
        <4>. HIDE DEF step, K, v, x
        <4>. QED  BY <1>2, <3>4
      <3>. QED  BY <3>3, <3>5, <3>6
    <2>. HIDE DEF v, K
    <2>. QED  BY <1>1, <2>1, <2>2, LoopStays
  <1>10. \A k \in 1 .. n + 1 : P[k] \in {-1} \cup (k - 1 .. n)
    <2>. TAKE k \in 1 .. n + 1
    <2>1. k - 1 \in 0 .. n /\ k - 1 + 1 = k
      BY <1>1
    <2>2. v[k - 1] \in {-1} \cup (k - 1 .. n)
      BY <1>9, <2>1
    <2>. QED  BY <2>1, <2>2
  <1>11. ~(P[n + 1] >= 0 /\ Counted(ws, P[n + 1]))
    <2>. SUFFICES ASSUME P[n + 1] >= 0, Counted(ws, P[n + 1]) PROVE FALSE
      OBVIOUS
    <2>1. P[n + 1] = n
      BY <1>1, <1>10
    <2>. QED  BY <1>1, <2>1, CountedLies
  <1>12. \A k \in 1 .. n + 1 : P[k] \in {-1} \cup Nat
    BY <1>1, <1>10
  <1>13. Notes!Process(ws) = [k \in {k \in 1 .. n + 1 : P[k] >= 0 /\ Counted(ws, P[k])} |-> P[k]]
    BY <1>7, <1>8 DEF Counted
  <1>. QED  BY <1>8, <1>11, <1>12, <1>13

\* The list of all of them, in order.
LEMMA ProcessIs ==
    ASSUME NEW ws \in Seq(Nat)
    PROVE  AllOf(ws, Notes!Process(ws))
  <1>. DEFINE n == Len(ws)
              ps == Notes!Process(ws)
  <1>1. PICK p : /\ \A k \in 1 .. n + 1 :
                       /\ p[k] \in {-1} \cup Nat
                       /\ p[k] = IF k = 1 THEN 0
                                 ELSE IF p[k - 1] >= 0 /\ Counted(ws, p[k - 1])
                                      THEN p[k - 1] + Advance(ws, p[k - 1]) ELSE -1
                 /\ ps = [k \in {k \in 1 .. n + 1 : p[k] >= 0 /\ Counted(ws, p[k])} |-> p[k]]
                 /\ ~(p[n + 1] >= 0 /\ Counted(ws, p[n + 1]))
    BY ProcessSteps
  <1>. DEFINE in(k) == p[k] >= 0 /\ Counted(ws, p[k])
              C == {k \in 1 .. n + 1 : in(k)}
              O == {k \in 1 .. n + 1 : ~in(k)}
              f == Min(O)
              m == f - 1
  <1>2. n \in Nat /\ n + 1 \in O /\ O \in SUBSET Nat
    BY <1>1
  <1>3. f \in O /\ \A y \in O : f <= y
    <2>. HIDE DEF O
    <2>. QED  BY <1>2, MinOf
  <1>4. m \in 0 .. n /\ f = m + 1 /\ m \in Nat /\ f \in 1 .. n + 1 /\ ~in(f)
    BY <1>2, <1>3
  <1>5. \A k \in 2 .. n + 1 : in(k) => in(k - 1) /\ p[k] = p[k - 1] + Advance(ws, p[k - 1])
    <2>. TAKE k \in 2 .. n + 1
    <2>1. k \in 1 .. n + 1 /\ k # 1
      BY <1>2
    <2>. QED  BY <1>1, <2>1
  <1>. HIDE DEF f
  <1>6. \A k \in 1 .. m : in(k)
    <2>. TAKE k \in 1 .. m
    <2>1. k \in 1 .. n + 1 /\ ~(f <= k)
      BY <1>2, <1>4
    <2>2. k \notin O
      BY <1>3, <2>1
    <2>. QED  BY <2>1, <2>2
  <1>. HIDE DEF in, O, m
  <1>7. C = 1 .. m
    <2>. DEFINE D == {k \in C : k > m}
    <2>1. D = {}
      <3>. SUFFICES ASSUME D # {} PROVE FALSE
        OBVIOUS
      <3>1. D \in SUBSET Nat
        BY <1>2
      <3>2. PICK k \in D : \A y \in D : k <= y
        <4>. HIDE DEF D
        <4>. QED  BY <3>1, MinOf
      <3>3. k \in 1 .. n + 1 /\ in(k) /\ k > m /\ k # f
        BY <1>4
      <3>4. k \in 2 .. n + 1 /\ k - 1 \in 1 .. n + 1 /\ k - 1 > m
        BY <1>2, <1>4, <3>3
      <3>5. in(k - 1)
        BY <1>5, <3>3, <3>4
      <3>6. k - 1 \in D /\ ~(k <= k - 1)
        BY <3>4, <3>5
      <3>. QED  BY <3>2, <3>6
    <2>2. \A k \in C : k \in 1 .. m
      <3>. TAKE k \in C
      <3>1. k \in 1 .. n + 1 /\ ~(k > m)
        BY <2>1
      <3>. QED  BY <1>2, <1>4, <3>1
    <2>3. \A k \in 1 .. m : k \in C
      BY <1>2, <1>4, <1>6
    <2>. QED  BY <2>2, <2>3
  <1>8. ps = [k \in 1 .. m |-> p[k]]
    BY <1>1, <1>7 DEF in
  <1>9. ps \in Seq(Nat) /\ Len(ps) = m /\ \A k \in 1 .. m : ps[k] = p[k]
    <2>1. \A k \in 1 .. m : p[k] \in Nat
      <3>. TAKE k \in 1 .. m
      <3>1. k \in 1 .. n + 1 /\ p[k] >= 0
        BY <1>2, <1>4, <1>6 DEF in
      <3>. QED  BY <1>1, <3>1
    <2>. HIDE DEF ps
    <2>2. ps \in Seq(Nat)
      BY <1>4, <1>8, <2>1
    <2>3. Len(ps) = m
      BY <1>4, <1>8, <2>2
    <2>. QED  BY <1>8, <2>2, <2>3
  <1>. HIDE DEF ps
  <1>10. \A k \in 1 .. m : Counted(ws, ps[k])
                           /\ ps[k] = IF k = 1 THEN 0 ELSE ps[k - 1] + Advance(ws, ps[k - 1])
    <2>. TAKE k \in 1 .. m
    <2>1. k \in 1 .. n + 1
      BY <1>2, <1>4
    <2>2. CASE k = 1
      BY <1>1, <1>6, <1>9, <2>1, <2>2 DEF in
    <2>3. CASE k # 1
      <3>1. k \in 2 .. n + 1 /\ k - 1 \in 1 .. m
        BY <1>4, <2>1, <2>3
      <3>. QED  BY <1>5, <1>6, <1>9, <2>3, <3>1 DEF in
    <2>. QED  BY <2>2, <2>3
  <1>11. ~Counted(ws, EndOf(ws, ps))
    <2>1. p[f] = EndOf(ws, ps)
      <3>1. CASE m = 0
        BY <1>1, <1>4, <1>9, <3>1 DEF EndOf
      <3>2. CASE m # 0
        <4>1. m \in 1 .. m /\ f # 1 /\ f - 1 = m
          BY <1>4, <3>2
        <4>2. in(m)
          BY <1>6, <4>1
        <4>3. p[f] = p[m] + Advance(ws, p[m])
          BY <1>1, <1>4, <4>1, <4>2 DEF in
        <4>. QED  BY <1>9, <3>2, <4>1, <4>3 DEF EndOf
      <3>. QED  BY <3>1, <3>2
    <2>2. p[f] >= 0
      <3>1. CASE m = 0
        BY <1>1, <1>4, <3>1
      <3>2. CASE m # 0
        <4>1. m \in 1 .. m /\ f # 1 /\ f - 1 = m
          BY <1>4, <3>2
        <4>2. in(m) /\ ps[m] = p[m] /\ ps[m] \in Nat
          BY <1>6, <1>9, <4>1
        <4>3. p[f] = p[m] + Advance(ws, p[m])
          BY <1>1, <1>4, <4>1, <4>2 DEF in
        <4>4. p[m] + Advance(ws, p[m]) \in Nat
          BY <4>2, CountedLies DEF in
        <4>. QED  BY <4>3, <4>4
      <3>. QED  BY <3>1, <3>2
    <2>. QED  BY <1>4, <2>1, <2>2 DEF in
  <1>. QED  BY <1>9, <1>10, <1>11 DEF AllOf, Chain, ps

\* There is one such list.
LEMMA AllOfWithin ==
    ASSUME NEW ws \in Seq(Nat), NEW ps, NEW qs, Chain(ws, ps), AllOf(ws, qs)
    PROVE  Len(ps) <= Len(qs) /\ \A k \in 1 .. Len(ps) : qs[k] = ps[k]
  <1>. DEFINE S == {m \in Nat : m <= Len(ps) => m <= Len(qs) /\ \A k \in 1 .. m : qs[k] = ps[k]}
  <1>1. ps \in Seq(Nat) /\ qs \in Seq(Nat) /\ Len(ps) \in Nat /\ Len(qs) \in Nat
    BY DEF Chain, AllOf
  <1>2. 0 \in S
    BY <1>1
  <1>3. ASSUME NEW m \in Nat, m \in S PROVE m + 1 \in S
    <2>. SUFFICES ASSUME m + 1 <= Len(ps)
                  PROVE  m + 1 <= Len(qs) /\ \A k \in 1 .. m + 1 : qs[k] = ps[k]
      OBVIOUS
    <2>1. m <= Len(qs) /\ \A k \in 1 .. m : qs[k] = ps[k]
      BY <1>1, <1>3
    <2>2. /\ Counted(ws, ps[m + 1])
          /\ ps[m + 1] = IF m + 1 = 1 THEN 0 ELSE ps[m + 1 - 1] + Advance(ws, ps[m + 1 - 1])
      <3>1. m + 1 \in 1 .. Len(ps)
        BY <1>1
      <3>. QED  BY <3>1 DEF Chain
    <2>3. m + 1 - 1 = m /\ (m + 1 = 1 <=> m = 0) /\ (m # 0 => m \in 1 .. m)
      OBVIOUS
    <2>4. m # Len(qs)
      <3>. SUFFICES ASSUME m = Len(qs) PROVE FALSE
        OBVIOUS
      <3>1. EndOf(ws, qs) = ps[m + 1]
        BY <2>1, <2>2, <2>3 DEF EndOf
      <3>. QED  BY <2>2, <3>1 DEF AllOf
    <2>5. m + 1 <= Len(qs) /\ m + 1 \in 1 .. Len(qs)
      BY <1>1, <2>1, <2>4
    <2>6. qs[m + 1] = IF m + 1 = 1 THEN 0 ELSE qs[m + 1 - 1] + Advance(ws, qs[m + 1 - 1])
      BY <2>5 DEF AllOf, Chain
    <2>7. qs[m + 1] = ps[m + 1]
      BY <2>1, <2>2, <2>3, <2>6
    <2>8. \A k \in 1 .. m + 1 : k \in 1 .. m \/ k = m + 1
      OBVIOUS
    <2>. QED  BY <2>1, <2>5, <2>7, <2>8
  <1>4. Len(ps) \in S
    <2>. HIDE DEF S
    <2>. QED  BY <1>1, <1>2, <1>3, StepByStep
  <1>. QED  BY <1>1, <1>4

LEMMA AllOfOnly ==
    ASSUME NEW ws \in Seq(Nat), NEW ps, NEW qs, AllOf(ws, ps), AllOf(ws, qs)
    PROVE  ps = qs
  <1>1. ps \in Seq(Nat) /\ qs \in Seq(Nat) /\ Len(ps) \in Nat /\ Len(qs) \in Nat
    BY DEF Chain, AllOf
  <1>2. Len(ps) <= Len(qs) /\ Len(qs) <= Len(ps) /\ \A k \in 1 .. Len(ps) : qs[k] = ps[k]
    BY AllOfWithin DEF AllOf
  <1>3. Len(ps) = Len(qs) /\ \A k \in 1 .. Len(ps) : ps[k] = qs[k]
    BY <1>1, <1>2
  <1>. QED  BY <1>1, <1>3, SeqEqual
\* What is appended changes nothing in front of it.
Grows(ws, new, us) == us = ws \o new

LEMMA GrowIs ==
    ASSUME NEW ws \in Seq(Nat), NEW new \in Seq(Nat), NEW us, Grows(ws, new, us)
    PROVE  /\ us \in Seq(Nat) /\ Len(us) = Len(ws) + Len(new)
           /\ Len(ws) \in Nat /\ Len(new) \in Nat /\ Len(us) \in Nat
           /\ \A i \in 1 .. Len(ws) : us[i] = ws[i]
           /\ \A i \in 1 .. Len(new) : us[Len(ws) + i] = new[i]
  BY DEF Grows

LEMMA CountedStays ==
    ASSUME NEW ws \in Seq(Nat), NEW new \in Seq(Nat), NEW us, Grows(ws, new, us),
           NEW p \in Nat, p + 3 <= Len(ws)
    PROVE  /\ us[p + 1] = ws[p + 1] /\ us[p + 2] = ws[p + 2] /\ us[p + 3] = ws[p + 3]
           /\ Advance(us, p) = Advance(ws, p)
           /\ Counted(ws, p) => Counted(us, p)
  <1>1. us \in Seq(Nat) /\ Len(us) = Len(ws) + Len(new) /\ Len(ws) \in Nat /\ Len(new) \in Nat
    BY GrowIs
  <1>2. us[p + 1] = ws[p + 1] /\ us[p + 2] = ws[p + 2] /\ us[p + 3] = ws[p + 3]
    <2>1. p + 1 \in 1 .. Len(ws) /\ p + 2 \in 1 .. Len(ws) /\ p + 3 \in 1 .. Len(ws)
      BY <1>1
    <2>2. \A i \in 1 .. Len(ws) : us[i] = ws[i]
      BY GrowIs
    <2>. QED  BY <2>1, <2>2
  <1>3. p + 3 <= Len(us)
    BY <1>1
  <1>4. Advance(us, p) = Advance(ws, p) /\ Advance(ws, p) \in Nat
    <2>1. Advance(ws, p) = 3 + Padded(ws[p + 1]) + Padded(ws[p + 2]) /\ Advance(ws, p) \in Nat
      BY CountedIs
    <2>2. Advance(us, p) = 3 + Padded(us[p + 1]) + Padded(us[p + 2])
      BY <1>1, <1>3, CountedIs
    <2>. QED  BY <1>2, <2>1, <2>2
  <1>5. ws[p + 1] \in Nat /\ ws[p + 2] \in Nat
    <2>1. p + 1 \in 1 .. Len(ws) /\ p + 2 \in 1 .. Len(ws)
      BY <1>1
    <2>. QED  BY <2>1
  <1>6. ASSUME Counted(ws, p) PROVE Counted(us, p)
    <2>1. ws[p + 1] < 4 * Len(ws) /\ ws[p + 2] < 4 * Len(ws) /\ p + Advance(ws, p) <= Len(ws)
      BY <1>6, CountedIs
    <2>. DEFINE n == Len(ws)
                m == Len(us)
                x == ws[p + 1]
                y == ws[p + 2]
                d == Advance(ws, p)
    <2>3. n \in Nat /\ m \in Nat /\ n <= m /\ x \in Nat /\ y \in Nat /\ d \in Nat
      BY <1>1, <1>4, <1>5
    <2>4. x < 4 * n /\ y < 4 * n /\ p + d <= n
      BY <2>1
    <2>. HIDE DEF n, m, x, y, d
    <2>5. x < 4 * m /\ y < 4 * m /\ p + d <= m
      BY <2>3, <2>4
    <2>2. us[p + 1] < 4 * Len(us) /\ us[p + 2] < 4 * Len(us) /\ p + Advance(us, p) <= Len(us)
      BY <1>2, <1>4, <2>5 DEF m, x, y, d
    <2>. QED  BY <1>1, <1>3, <2>2, CountedIs
  <1>. QED  BY <1>2, <1>4, <1>6

\* A whole note behind whole notes is found, and it is the last.
LEMMA ChainGrows ==
    ASSUME NEW ws \in Seq(Nat), NEW new \in Seq(Nat), NEW us, Grows(ws, new, us),
           NEW ps, AllOf(ws, ps), EndOf(ws, ps) = Len(ws),
           Counted(us, Len(ws)), Len(ws) + Advance(us, Len(ws)) = Len(us)
    PROVE  AllOf(us, Append(ps, Len(ws))) /\ EndOf(us, Append(ps, Len(ws))) = Len(us)
  <1>. DEFINE n == Len(ws)
              m == Len(ps)
              qs == Append(ps, n)
  <1>1. ps \in Seq(Nat) /\ m \in Nat /\ n \in Nat /\ us \in Seq(Nat) /\ Len(us) \in Nat
    BY GrowIs DEF AllOf, Chain
  <1>2. qs \in Seq(Nat) /\ Len(qs) = m + 1 /\ qs[m + 1] = n /\ \A k \in 1 .. m : qs[k] = ps[k]
    BY <1>1
  <1>3. \A k \in 1 .. m : /\ ps[k] \in Nat /\ Counted(us, ps[k])
                          /\ Advance(us, ps[k]) = Advance(ws, ps[k])
                          /\ ps[k] = IF k = 1 THEN 0 ELSE ps[k - 1] + Advance(ws, ps[k - 1])
    <2>. TAKE k \in 1 .. m
    <2>1. ps[k] \in Nat /\ Counted(ws, ps[k])
      BY <1>1 DEF AllOf, Chain
    <2>2. ps[k] + 3 <= Len(ws)
      BY <2>1, CountedLies
    <2>. QED  BY <2>1, <2>2, CountedStays DEF AllOf, Chain
  <1>. HIDE DEF n, m, qs
  <1>4. ASSUME NEW k \in 1 .. m + 1
        PROVE  Counted(us, qs[k]) /\ qs[k] = IF k = 1 THEN 0 ELSE qs[k - 1] + Advance(us, qs[k - 1])
    <2>1. CASE k \in 1 .. m
      <3>1. k # 1 => k - 1 \in 1 .. m
        BY <1>1, <2>1
      <3>2. CASE k = 1
        BY <1>2, <1>3, <2>1, <3>2
      <3>3. CASE k # 1
        BY <1>2, <1>3, <2>1, <3>1, <3>3
      <3>. QED  BY <3>2, <3>3
    <2>2. CASE k = m + 1
      <3>1. Counted(us, qs[k])
        BY <1>2, <2>2 DEF n
      <3>2. CASE m = 0
        BY <1>1, <1>2, <2>2, <3>1, <3>2 DEF EndOf, m, n
      <3>3. CASE m # 0
        <4>1. k # 1 /\ k - 1 = m /\ m \in 1 .. m
          BY <1>1, <2>2, <3>3
        <4>2. n = ps[m] + Advance(ws, ps[m])
          BY <3>3 DEF EndOf, m, n
        <4>. QED  BY <1>2, <1>3, <2>2, <3>1, <4>1, <4>2
      <3>. QED  BY <3>2, <3>3
    <2>. QED  BY <1>1, <2>1, <2>2
  <1>5. EndOf(us, qs) = Len(us)
    <2>1. Len(qs) # 0
      BY <1>1, <1>2
    <2>. QED  BY <1>2, <2>1 DEF EndOf, n
  <1>6. ~Counted(us, Len(us))
    <2>. SUFFICES ASSUME Counted(us, Len(us)) PROVE FALSE
      OBVIOUS
    <2>. QED  BY <1>1, CountedLies
  <1>7. Chain(us, qs)
    BY <1>2, <1>4 DEF Chain
  <1>. QED  BY <1>5, <1>6, <1>7 DEF AllOf, qs, n

\* get_note, of a section ws.
NoteIn(ws, p) ==
    [type |-> ws[p + 3], name |-> SubSeq(ws, p + 4, p + 3 + Padded(ws[p + 1])),
     size |-> ws[p + 2],
     desc |-> SubSeq(ws, p + 4 + Padded(ws[p + 1]), p + 3 + Padded(ws[p + 1]) + Padded(ws[p + 2]))]

LEMMA NoteInIs == \A p : Notes!GetNote(p) = NoteIn(words, p)
  BY Zenon DEF Notes!GetNote, NoteIn, Notes!Padded, Padded

LEMMA NoteStays ==
    ASSUME NEW ws \in Seq(Nat), NEW new \in Seq(Nat), NEW us, Grows(ws, new, us),
           NEW p \in Nat, p + 3 <= Len(ws), p + Advance(ws, p) <= Len(ws)
    PROVE  NoteIn(us, p) = NoteIn(ws, p)
  <1>. DEFINE a == Padded(ws[p + 1])
              b == Padded(ws[p + 2])
  <1>1. us[p + 1] = ws[p + 1] /\ us[p + 2] = ws[p + 2] /\ us[p + 3] = ws[p + 3]
    BY CountedStays
  <1>2. a \in Nat /\ b \in Nat /\ p + 3 + a + b <= Len(ws)
    BY CountedIs
  <1>3. /\ us \in Seq(Nat) /\ Len(ws) \in Nat /\ Len(us) >= Len(ws) /\ Len(us) \in Nat
        /\ \A i \in 1 .. Len(ws) : us[i] = ws[i]
    BY GrowIs
  <1>. HIDE DEF a, b
  <1>4. SubSeq(us, p + 4, p + 3 + a) = SubSeq(ws, p + 4, p + 3 + a)
    BY <1>2, <1>3
  <1>5. SubSeq(us, p + 4 + a, p + 3 + a + b) = SubSeq(ws, p + 4 + a, p + 3 + a + b)
    BY <1>2, <1>3
  <1>. QED  BY <1>1, <1>4, <1>5 DEF NoteIn, a, b
\* What add_note appends.
NewNote(type, n, d, filler, null) ==
    <<n, d, type>> \o Notes!NameWords(n) \o (IF null THEN <<>> ELSE Notes!DescWords(d, filler))

\* What add_note appends: the three header words, the name, and unless the
\* description pointer was null the description, each padded to whole words.
Laid(new, type, n, d, filler, null) ==
  /\ n \in Nat /\ d \in Nat /\ type \in Nat /\ Padded(n) \in Nat /\ Padded(d) \in Nat
  /\ n < 4 * (3 + Padded(n)) /\ d < 4 * (3 + Padded(d)) /\ (d = 0 => Padded(d) = 0)
  /\ new \in Seq(Nat)
  /\ Len(new) = 3 + Padded(n) + (IF null THEN 0 ELSE Padded(d))
  /\ new[1] = n /\ new[2] = d /\ new[3] = type
  /\ \A k \in 1 .. Padded(n) : new[3 + k] = Notes!NameWords(n)[k]
  /\ ~null => \A k \in 1 .. Padded(d) : new[3 + Padded(n) + k] = filler
  /\ Notes!NameWords(n) \in Seq(Nat) /\ Len(Notes!NameWords(n)) = Padded(n)
  /\ Notes!DescWords(d, filler) = [k \in 1 .. Padded(d) |-> filler]

LEMMA NewNoteIs ==
    ASSUME NEW type \in NoteTypes, NEW n \in NameSizes, NEW d \in DescSizes,
           NEW filler \in Fillers, NEW null \in BOOLEAN
    PROVE  Laid(NewNote(type, n, d, filler, null), type, n, d, filler, null)
  <1>. DEFINE new == NewNote(type, n, d, filler, null)
  <1>. DEFINE h == <<n, d, type>>
              s == Notes!NameWords(n)
              t == IF null THEN <<>> ELSE Notes!DescWords(d, filler)
              a == Padded(n)
              b == Padded(d)
  <1>1. n \in Nat /\ d \in Nat /\ type \in Nat /\ filler \in Nat
    BY NotesAssumption
  <1>2. a \in Nat /\ b \in Nat /\ n < 4 * (3 + a) /\ d < 4 * (3 + b) /\ (d = 0 => b = 0)
    BY <1>1, PaddedIs
  <1>3. s = [k \in 1 .. a |-> IF k = a /\ n % 4 = 1 THEN 0 ELSE 1000]
    <2>1. Notes!Padded(n) = Padded(n)
      BY <1>1, PaddedIs
    <2>. DEFINE shape(m) == [k \in 1 .. m |-> IF k = m /\ n % 4 = 1 THEN 0 ELSE 1000]
    <2>2. s = shape(Notes!Padded(n))
      BY Zenon DEF Notes!NameWords, Notes!Text
    <2>. HIDE DEF shape, s
    <2>3. s = shape(a)
      BY <2>1, <2>2
    <2>. QED  BY <2>3, Zenon DEF shape
  <1>4. Notes!DescWords(d, filler) = [k \in 1 .. b |-> filler]
    BY <1>1, PaddedIs DEF Notes!DescWords
  <1>. HIDE DEF a, b, s
  <1>5. s \in Seq(Nat) /\ Len(s) = a
    BY <1>2, <1>3
  <1>6. t \in Seq(Nat) /\ Len(t) = IF null THEN 0 ELSE b
    BY <1>1, <1>2, <1>4
  <1>7. ~null => \A k \in 1 .. b : t[k] = filler
    BY <1>4
  <1>. HIDE DEF t
  <1>8. h \in Seq(Nat) /\ Len(h) = 3 /\ h[1] = n /\ h[2] = d /\ h[3] = type
    BY <1>1
  <1>. HIDE DEF h
  <1>9. new = (h \o s) \o t
    BY Zenon DEF NewNote, h, s, t
  <1>. HIDE DEF new
  <1>. DEFINE u == h \o s
  <1>. HIDE DEF u
  <1>16. Grows(h, s, u) /\ Grows(u, t, new)
    BY <1>9 DEF Grows, u
  <1>17. /\ u \in Seq(Nat) /\ Len(u) = Len(h) + Len(s)
         /\ \A i \in 1 .. Len(h) : u[i] = h[i]
         /\ \A i \in 1 .. Len(s) : u[Len(h) + i] = s[i]
    <2>1. h \in Seq(Nat)
      BY <1>8
    <2>2. s \in Seq(Nat)
      BY <1>5
    <2>3. Grows(h, s, u)
      BY <1>16
    <2>. QED  BY <2>1, <2>2, <2>3, GrowIs
  <1>10. u \in Seq(Nat) /\ Len(u) = 3 + a
    BY <1>5, <1>8, <1>17
  <1>11. u[1] = n /\ u[2] = d /\ u[3] = type /\ \A k \in 1 .. a : u[3 + k] = s[k]
    <2>2. 1 \in 1 .. Len(h) /\ 2 \in 1 .. Len(h) /\ 3 \in 1 .. Len(h)
      BY <1>8
    <2>. QED  BY <1>5, <1>8, <1>17, <2>2
  <1>12. new \in Seq(Nat) /\ Len(new) = 3 + a + (IF null THEN 0 ELSE b)
    BY <1>6, <1>10, <1>16, GrowIs
  <1>13. \A i \in 1 .. 3 + a : new[i] = u[i]
    BY <1>6, <1>10, <1>16, GrowIs
  <1>14. new[1] = n /\ new[2] = d /\ new[3] = type /\ \A k \in 1 .. a : new[3 + k] = s[k]
    <2>1. 1 \in 1 .. 3 + a /\ 2 \in 1 .. 3 + a /\ 3 \in 1 .. 3 + a /\ \A k \in 1 .. a : 3 + k \in 1 .. 3 + a
      BY <1>2
    <2>. QED  BY <1>11, <1>13, <2>1
  <1>15. ~null => \A k \in 1 .. b : new[3 + a + k] = filler
    <2>. SUFFICES ASSUME ~null, NEW k \in 1 .. b PROVE new[3 + a + k] = filler
      OBVIOUS
    <2>1. k \in 1 .. Len(t)
      BY <1>2, <1>6
    <2>2. new[Len(u) + k] = t[k]
      BY <1>6, <1>10, <1>16, <2>1, GrowIs
    <2>. QED  BY <1>2, <1>7, <1>10, <2>2
  <1>. QED  BY <1>1, <1>2, <1>4, <1>5, <1>12, <1>14, <1>15, Zenon DEF a, b, s, new, Laid

LEMMA SliceIs ==
    ASSUME NEW ws \in Seq(Nat), NEW i \in Nat, NEW k \in Nat, i + k <= Len(ws)
    PROVE  LET r == SubSeq(ws, i + 1, i + k)
           IN  /\ r \in Seq(Nat) /\ Len(r) = k /\ r = [j \in 1 .. k |-> ws[i + j]]
               /\ \A j \in 1 .. k : r[j] = ws[i + j]
  <1>. DEFINE r == SubSeq(ws, i + 1, i + k)
  <1>1. Len(ws) \in Nat /\ \A j \in 1 .. k : i + j \in 1 .. Len(ws) /\ ws[i + j] \in Nat
    OBVIOUS
  <1>2. r = [j \in 1 .. k |-> ws[i + j]]
    OBVIOUS
  <1>. HIDE DEF r
  <1>3. r \in Seq(Nat) /\ Len(r) = k
    BY <1>1, <1>2
  <1>4. \A j \in 1 .. k : r[j] = ws[i + j]
    BY <1>2
  <1>. QED  BY <1>2, <1>3, <1>4, Zenon DEF r

\* The note that was added is whole, if it has the description it says it has.
LEMMA AddedNote ==
    ASSUME NEW ws \in Seq(Nat), NEW type \in NoteTypes, NEW n \in NameSizes, NEW d \in DescSizes,
           NEW filler \in Fillers, NEW null \in BOOLEAN,
           NEW us, Grows(ws, NewNote(type, n, d, filler, null), us)
    PROVE  /\ us \in Seq(Nat) /\ Len(us) >= Len(ws) + 3
           /\ Len(ws) + 3 + Padded(us[Len(ws) + 1]) <= Len(us)
           /\ ~(null /\ d > 0) => /\ Counted(us, Len(ws)) /\ Len(ws) + Advance(us, Len(ws)) = Len(us)
                                  /\ NoteIn(us, Len(ws)) = Notes!Note(type, n, d, filler)
  <1>. DEFINE p == Len(ws)
              a == Padded(n)
              b == Padded(d)
              new == NewNote(type, n, d, filler, null)
  <1>1. /\ n \in Nat /\ d \in Nat /\ type \in Nat /\ a \in Nat /\ b \in Nat
        /\ n < 4 * (3 + a) /\ d < 4 * (3 + b) /\ (d = 0 => b = 0)
        /\ new \in Seq(Nat) /\ Len(new) = 3 + a + (IF null THEN 0 ELSE b)
        /\ new[1] = n /\ new[2] = d /\ new[3] = type
        /\ \A k \in 1 .. a : new[3 + k] = Notes!NameWords(n)[k]
        /\ ~null => \A k \in 1 .. b : new[3 + a + k] = filler
        /\ Notes!NameWords(n) \in Seq(Nat) /\ Len(Notes!NameWords(n)) = a
        /\ Notes!DescWords(d, filler) = [k \in 1 .. b |-> filler]
    <2>1. Laid(new, type, n, d, filler, null)
      BY NewNoteIs, Zenon
    <2>. QED  BY <2>1, Zenon DEF Laid
  <1>. HIDE DEF a, b, new
  <1>2. /\ us \in Seq(Nat) /\ p \in Nat /\ Len(us) \in Nat /\ Len(us) = p + 3 + a + (IF null THEN 0 ELSE b)
        /\ \A i \in 1 .. Len(new) : us[p + i] = new[i]
    <2>1. Grows(ws, new, us)
      BY DEF new
    <2>3. new \in Seq(Nat)
      BY <1>1
    <2>2. /\ us \in Seq(Nat) /\ Len(ws) \in Nat /\ Len(us) \in Nat /\ Len(us) = Len(ws) + Len(new)
          /\ \A i \in 1 .. Len(new) : us[Len(ws) + i] = new[i]
      <3>1. us = ws \o new
        BY <2>1, Zenon DEF Grows
      <3>. QED  BY <2>3, <3>1
    <2>. QED  BY <1>1, <2>2
  <1>. HIDE DEF p
  <1>6. p + 3 + a <= Len(us)
    <2>1. CASE null
      BY <1>1, <1>2, <2>1
    <2>2. CASE ~null
      BY <1>1, <1>2, <2>2
    <2>. QED  BY <2>1, <2>2
  <1>3. us[p + 1] = n /\ us[p + 2] = d /\ us[p + 3] = type /\ p + 3 <= Len(us)
    BY <1>1, <1>2
  <1>4. Len(us) >= p + 3 /\ p + 3 + Padded(us[p + 1]) <= Len(us)
    BY <1>1, <1>2, <1>3, <1>6 DEF a
  <1>5. ASSUME ~(null /\ d > 0)
        PROVE  /\ Counted(us, p) /\ p + Advance(us, p) = Len(us)
               /\ NoteIn(us, p) = Notes!Note(type, n, d, filler)
    <2>1. Len(us) = p + 3 + a + b
      BY <1>1, <1>2, <1>5
    <2>2. Advance(us, p) = 3 + a + b
      BY <1>2, <1>3, CountedIs DEF a, b
    <2>3. Counted(us, p)
      <3>1. n < 4 * Len(us) /\ d < 4 * Len(us) /\ p + Advance(us, p) <= Len(us)
        <4>. DEFINE m == Len(us)
        <4>1. /\ m \in Nat /\ p \in Nat /\ a \in Nat /\ b \in Nat /\ n \in Nat /\ d \in Nat
              /\ m = p + 3 + a + b /\ n < 4 * (3 + a) /\ d < 4 * (3 + b)
          BY <1>1, <1>2, <2>1
        <4>. HIDE DEF m
        <4>2. n < 4 * m /\ d < 4 * m /\ p + (3 + a + b) <= m
          BY <4>1
        <4>. QED  BY <2>2, <4>2 DEF m
      <3>. QED  BY <1>2, <1>3, <3>1, CountedIs
    <2>4. SubSeq(us, p + 4, p + 3 + a) = Notes!NameWords(n)
      <3>. DEFINE s == Notes!NameWords(n)
                  r == SubSeq(us, p + 4, p + 3 + a)
      <3>1. s \in Seq(Nat) /\ Len(s) = a
        BY <1>1
      <3>2. \A k \in 1 .. a : us[p + 3 + k] = s[k]
        <4>. TAKE k \in 1 .. a
        <4>1. 3 + k \in 1 .. Len(new) /\ p + (3 + k) = p + 3 + k
          BY <1>1, <1>2
        <4>. QED  BY <1>1, <1>2, <4>1
      <3>. HIDE DEF s
      <3>3. r \in Seq(Nat) /\ Len(r) = a /\ \A k \in 1 .. a : r[k] = us[p + 3 + k]
        <4>. DEFINE i == p + 3
        <4>1. i \in Nat /\ i + a <= Len(us) /\ p + 4 = i + 1 /\ a \in Nat /\ us \in Seq(Nat)
          BY <1>1, <1>2, <2>1
        <4>. HIDE DEF i
        <4>2. LET q == SubSeq(us, i + 1, i + a)
              IN  q \in Seq(Nat) /\ Len(q) = a /\ \A k \in 1 .. a : q[k] = us[i + k]
          BY <4>1, SliceIs
        <4>. QED  BY <4>1, <4>2 DEF i
      <3>. HIDE DEF r
      <3>4. r = s
        BY <1>1, <3>1, <3>2, <3>3, SeqEqual
      <3>. QED  BY <3>4 DEF r, s
    <2>5. SubSeq(us, p + 4 + a, p + 3 + a + b) = [k \in 1 .. b |-> filler]
      <3>. DEFINE r == SubSeq(us, p + 4 + a, p + 3 + a + b)
      <3>1. \A k \in 1 .. b : us[p + 3 + a + k] = filler
        <4>. TAKE k \in 1 .. b
        <4>1. ~null
          BY <1>1, <1>5
        <4>2. 3 + a + k \in 1 .. Len(new) /\ p + (3 + a + k) = p + 3 + a + k
          BY <1>1, <1>2, <4>1
        <4>. QED  BY <1>1, <1>2, <4>1, <4>2
      <3>2. r = [k \in 1 .. b |-> us[p + 3 + a + k]]
        <4>. DEFINE i == p + 3 + a
        <4>1. i \in Nat /\ i + b <= Len(us) /\ p + 4 + a = i + 1 /\ b \in Nat /\ us \in Seq(Nat)
          BY <1>1, <1>2, <2>1
        <4>. HIDE DEF i
        <4>2. SubSeq(us, i + 1, i + b) = [k \in 1 .. b |-> us[i + k]]
          BY <4>1, SliceIs
        <4>. QED  BY <4>1, <4>2 DEF i
      <3>. HIDE DEF r
      <3>. QED  BY <3>1, <3>2 DEF r
    <2>6. NoteIn(us, p) = [type |-> type, name |-> Notes!NameWords(n), size |-> d,
                           desc |-> Notes!DescWords(d, filler)]
      BY <1>1, <1>3, <2>4, <2>5 DEF NoteIn, a, b
    <2>7. NoteIn(us, p) = Notes!Note(type, n, d, filler)
      BY <2>6, Zenon DEF Notes!Note
    <2>. QED  BY <1>1, <1>2, <2>1, <2>2, <2>3, <2>7
  <1>. QED  BY <1>2, <1>4, <1>5 DEF p
-----------------------------------------------------------------------------
\* The start of a note an accessor keeps.
Lies(ws, p, loose) ==
    /\ p + 3 <= Len(ws) /\ p + 3 + Padded(ws[p + 1]) <= Len(ws)
    /\ p + Advance(ws, p) <= Len(ws) \/ loose

\* Whole notes only, and those that were added are the last of them.
AddedAreLast(ws, ps, ats, ns) ==
    /\ EndOf(ws, ps) = Len(ws) /\ Len(ats) <= Len(ps)
    /\ \A i \in 1 .. Len(ats) :
          ps[Len(ps) - Len(ats) + i] = ats[i] /\ NoteIn(ws, ats[i]) = ns[i]

NotesTyped ==
    /\ words \in Seq(Nat) /\ starts \in [Accessors -> Seq(Nat)]
    /\ noteStarts \in Seq(Nat) /\ notes \in Seq([type : Nat, name : Seq(Nat), size : Nat, desc : Seq(Nat)])
    /\ Len(notes) = Len(noteStarts) /\ hollow \in BOOLEAN

NotesInv ==
    /\ NotesTyped
    /\ \A a \in Accessors : \A k \in 1 .. Len(starts[a]) : Lies(words, starts[a][k], hollow)
    /\ whole /\ ~hollow => AddedAreLast(words, Notes!Process(words), noteStarts, notes)

LEMMA ProcessLies ==
    ASSUME NEW ws \in Seq(Nat), NEW loose
    PROVE  /\ Notes!Process(ws) \in Seq(Nat)
           /\ \A k \in 1 .. Len(Notes!Process(ws)) :
                 Lies(ws, Notes!Process(ws)[k], loose) /\ Counted(ws, Notes!Process(ws)[k])
  <1>. DEFINE ps == Notes!Process(ws)
  <1>1. ps \in Seq(Nat) /\ \A k \in 1 .. Len(ps) : Counted(ws, ps[k])
    BY ProcessIs DEF AllOf, Chain
  <1>. HIDE DEF ps
  <1>2. ASSUME NEW k \in 1 .. Len(ps) PROVE Lies(ws, ps[k], loose) /\ Counted(ws, ps[k])
    <2>. DEFINE p == ps[k]
    <2>1. p \in Nat /\ Counted(ws, p)
      BY <1>1
    <2>. HIDE DEF p
    <2>2. /\ p + 3 <= Len(ws) /\ Len(ws) \in Nat /\ p + Advance(ws, p) <= Len(ws)
          /\ Advance(ws, p) = 3 + Padded(ws[p + 1]) + Padded(ws[p + 2])
          /\ Padded(ws[p + 1]) \in Nat /\ Padded(ws[p + 2]) \in Nat
      BY <2>1, CountedLies, CountedIs
    <2>3. p + 3 + Padded(ws[p + 1]) <= Len(ws)
      BY <2>1, <2>2
    <2>4. Lies(ws, p, loose)
      BY <2>2, <2>3 DEF Lies
    <2>. QED  BY <2>1, <2>4 DEF p
  <1>. QED  BY <1>1, <1>2 DEF ps

LEMMA InitNotesInv == Notes!Init => NotesInv
  <1>. SUFFICES ASSUME Notes!Init PROVE NotesInv
    OBVIOUS
  <1>1. /\ words \in Loaded /\ starts = [a \in Accessors |-> Notes!Process(words)]
        /\ notes = <<>> /\ noteStarts = <<>> /\ hollow = FALSE /\ whole = ~Notes!Broken(words)
    BY DEF Notes!Init
  <1>2. words \in Seq(Nat)
    BY <1>1, NotesAssumption
  <1>. DEFINE ps == Notes!Process(words)
  <1>3. ps \in Seq(Nat) /\ \A k \in 1 .. Len(ps) : Lies(words, ps[k], hollow)
    BY <1>2, ProcessLies
  <1>. HIDE DEF ps
  <1>4. NotesTyped
    <2>1. hollow \in BOOLEAN
      BY <1>1, Zenon
    <2>2. starts \in [Accessors -> Seq(Nat)]
      BY <1>1, <1>3, Zenon DEF ps
    <2>3. /\ noteStarts \in Seq(Nat) /\ Len(notes) = Len(noteStarts)
          /\ notes \in Seq([type : Nat, name : Seq(Nat), size : Nat, desc : Seq(Nat)])
      BY <1>1
    <2>. QED  BY <1>2, <2>1, <2>2, <2>3 DEF NotesTyped
  <1>5. ~Notes!Broken(words) => EndOf(words, ps) = Len(words)
    <2>1. Notes!Last(ps) = ps[Len(ps)]
      BY DEF Notes!Last
    <2>2. Notes!Broken(words) = IF ps = <<>> THEN words # <<>>
                                ELSE ps[Len(ps)] + Advance(words, ps[Len(ps)]) # Len(words)
      BY <2>1 DEF Notes!Broken, ps, Advance
    <2>3. ps = <<>> <=> Len(ps) = 0
      BY <1>3, EmptySeq
    <2>. QED  BY <1>2, <1>3, <2>2, <2>3 DEF EndOf
  <1>6. whole => AddedAreLast(words, ps, noteStarts, notes)
    <2>1. whole => EndOf(words, ps) = Len(words)
      BY <1>1, <1>5, Zenon
    <2>2. Len(noteStarts) = 0 /\ Len(ps) \in Nat
      BY <1>1, <1>3
    <2>. QED  BY <2>1, <2>2 DEF AddedAreLast
  <1>7. \A a \in Accessors : \A k \in 1 .. Len(starts[a]) : Lies(words, starts[a][k], hollow)
    BY <1>1, <1>3 DEF ps
  <1>. QED  BY <1>4, <1>6, <1>7 DEF NotesInv, ps

LEMMA ReopenNotesStep ==
    ASSUME NotesInv, NEW a \in Accessors, Notes!Reopen(a)
    PROVE  NotesInv'
  <1>. DEFINE ps == Notes!Process(words)
  <1>1. /\ starts' = [starts EXCEPT ![a] = ps]
        /\ UNCHANGED <<words, notes, noteStarts, hollow, whole>>
    BY DEF Notes!Reopen
  <1>2. words \in Seq(Nat) /\ starts \in [Accessors -> Seq(Nat)]
    BY DEF NotesInv, NotesTyped
  <1>3. ps \in Seq(Nat) /\ \A k \in 1 .. Len(ps) : Lies(words, ps[k], hollow)
    BY <1>2, ProcessLies
  <1>. HIDE DEF ps
  <1>5. NotesTyped'
    BY <1>1, <1>3 DEF NotesInv, NotesTyped
  <1>6. \A c \in Accessors : \A k \in 1 .. Len(starts'[c]) : Lies(words, starts'[c][k], hollow)
    <2>. SUFFICES ASSUME NEW c \in Accessors, NEW k \in 1 .. Len(starts'[c])
                  PROVE  Lies(words, starts'[c][k], hollow)
      OBVIOUS
    <2>1. CASE c = a
      BY <1>1, <1>2, <1>3, <2>1
    <2>2. CASE c # a
      <3>1. starts'[c] = starts[c]
        BY <1>1, <1>2, <2>2
      <3>. QED  BY <3>1 DEF NotesInv
    <2>. QED  BY <2>1, <2>2
  <1>7. (whole /\ ~hollow => AddedAreLast(words, Notes!Process(words), noteStarts, notes))'
    BY <1>1 DEF NotesInv
  <1>8. (\A c \in Accessors : \A k \in 1 .. Len(starts[c]) : Lies(words, starts[c][k], hollow))'
    BY <1>1, <1>6 DEF Lies
  <1>. QED  BY <1>5, <1>7, <1>8 DEF NotesInv

LEMMA LiesStays ==
    ASSUME NEW ws \in Seq(Nat), NEW new \in Seq(Nat), NEW us, Grows(ws, new, us),
           NEW p \in Nat, NEW loose, NEW looser, loose => looser, Lies(ws, p, loose)
    PROVE  Lies(us, p, looser)
  <1>1. p + 3 <= Len(ws) /\ p + 3 + Padded(ws[p + 1]) <= Len(ws)
    BY DEF Lies
  <1>2. us[p + 1] = ws[p + 1] /\ Advance(us, p) = Advance(ws, p) /\ Advance(ws, p) \in Nat
        /\ Padded(ws[p + 1]) \in Nat
    BY <1>1, CountedStays, CountedIs
  <1>3. Len(us) = Len(ws) + Len(new) /\ Len(ws) \in Nat /\ Len(new) \in Nat
    BY GrowIs
  <1>. QED  BY <1>1, <1>2, <1>3 DEF Lies

\* A whole note more, at the end.
LEMMA AddedAreLastGrows ==
    ASSUME NEW ws \in Seq(Nat), NEW new \in Seq(Nat), NEW us, Grows(ws, new, us),
           NEW ats \in Seq(Nat), NEW ns, ns \in Seq(Notes!Range(ns)), Len(ns) = Len(ats), NEW note,
           AddedAreLast(ws, Notes!Process(ws), ats, ns),
           Counted(us, Len(ws)), Len(ws) + Advance(us, Len(ws)) = Len(us),
           NoteIn(us, Len(ws)) = note
    PROVE  AddedAreLast(us, Notes!Process(us), Append(ats, Len(ws)), Append(ns, note))
  <1>. DEFINE ps == Notes!Process(ws)
              n == Len(ws)
              l == Len(ats)
              m == Len(ps)
              qs == Append(ps, n)
  <1>1. us \in Seq(Nat) /\ AllOf(ws, ps) /\ ps \in Seq(Nat) /\ m \in Nat /\ n \in Nat /\ l \in Nat
    BY GrowIs, ProcessIs DEF AllOf, Chain
  <1>2. /\ EndOf(ws, ps) = n /\ l <= m
        /\ \A i \in 1 .. l : ps[m - l + i] = ats[i] /\ NoteIn(ws, ats[i]) = ns[i]
    BY DEF AddedAreLast
  <1>3. \A k \in 1 .. m : ps[k] \in Nat /\ Counted(ws, ps[k])
    BY <1>1, ProcessIs DEF AllOf, Chain
  <1>. HIDE DEF ps
  <1>4. AllOf(us, qs) /\ EndOf(us, qs) = Len(us)
    BY <1>1, <1>2, ChainGrows
  <1>5. Notes!Process(us) = qs
    BY <1>1, <1>4, ProcessIs, AllOfOnly
  <1>. DEFINE xs == Append(ats, n)
              ms == Append(ns, note)
  <1>6. /\ Len(xs) = l + 1 /\ xs[l + 1] = n /\ \A i \in 1 .. l : xs[i] = ats[i]
        /\ ms[l + 1] = note /\ \A i \in 1 .. l : ms[i] = ns[i]
        /\ Len(qs) = m + 1 /\ qs[m + 1] = n /\ \A k \in 1 .. m : qs[k] = ps[k]
    BY <1>1
  <1>. HIDE DEF xs, ms, qs, m, l, n
  <1>7. ASSUME NEW i \in 1 .. l + 1
        PROVE  qs[m + 1 - (l + 1) + i] = xs[i] /\ NoteIn(us, xs[i]) = ms[i]
    <2>1. CASE i \in 1 .. l
      <3>1. m - l + i \in 1 .. m /\ m + 1 - (l + 1) + i = m - l + i
        BY <1>1, <1>2, <2>1
      <3>2. qs[m + 1 - (l + 1) + i] = ats[i]
        BY <1>2, <1>6, <2>1, <3>1
      <3>3. ats[i] \in Nat /\ Counted(ws, ats[i])
        BY <1>2, <1>3, <2>1, <3>1
      <3>4. ats[i] + 3 <= Len(ws) /\ ats[i] + Advance(ws, ats[i]) <= Len(ws)
        BY <3>3, CountedLies
      <3>5. NoteIn(us, ats[i]) = NoteIn(ws, ats[i])
        BY <3>3, <3>4, NoteStays
      <3>. QED  BY <1>2, <1>6, <2>1, <3>2, <3>5
    <2>2. CASE i = l + 1
      <3>1. m + 1 - (l + 1) + i = m + 1
        BY <1>1, <2>2
      <3>. QED  BY <1>6, <2>2, <3>1 DEF n
    <2>3. i \in 1 .. l \/ i = l + 1
      BY <1>1
    <2>. QED  BY <2>1, <2>2, <2>3
  <1>8. l + 1 <= m + 1
    BY <1>1, <1>2
  <1>9. AddedAreLast(us, qs, xs, ms)
    <2>1. Len(xs) = l + 1 /\ Len(qs) = m + 1
      BY <1>6
    <2>2. \A i \in 1 .. Len(xs) :
             qs[Len(qs) - Len(xs) + i] = xs[i] /\ NoteIn(us, xs[i]) = ms[i]
      <3>. TAKE i \in 1 .. Len(xs)
      <3>1. i \in 1 .. l + 1
        BY <2>1
      <3>2. qs[m + 1 - (l + 1) + i] = xs[i] /\ NoteIn(us, xs[i]) = ms[i]
        BY <1>7, <3>1
      <3>3. Len(qs) - Len(xs) + i = m + 1 - (l + 1) + i
        BY <1>1, <2>1
      <3>. QED  BY <3>2, <3>3, Zenon
    <2>. QED  BY <1>4, <1>8, <2>1, <2>2 DEF AddedAreLast
  <1>. QED  BY <1>5, <1>9 DEF xs, ms, n

LEMMA AddNoteStep ==
    ASSUME NotesInv, NEW a \in Accessors, NEW type \in NoteTypes, NEW n \in NameSizes,
           NEW d \in DescSizes, NEW filler \in Fillers, NEW null \in BOOLEAN,
           Notes!AddNote(a, type, n, d, filler, null)
    PROVE  NotesInv'
  <1>. DEFINE new == NewNote(type, n, d, filler, null)
              note == Notes!Note(type, n, d, filler)
              us == words'
  <1>1. /\ words' = words \o new
        /\ starts' = [starts EXCEPT ![a] = Append(@, Len(words))]
        /\ notes' = Append(notes, note) /\ noteStarts' = Append(noteStarts, Len(words))
        /\ hollow' = (hollow \/ (null /\ d > 0)) /\ whole' = whole
    BY Zenon DEF Notes!AddNote, Notes!NameOf, Notes!StartOf, NewNote
  <1>2. /\ words \in Seq(Nat) /\ starts \in [Accessors -> Seq(Nat)]
        /\ noteStarts \in Seq(Nat) /\ hollow \in BOOLEAN /\ Len(notes) = Len(noteStarts)
        /\ notes \in Seq([type : Nat, name : Seq(Nat), size : Nat, desc : Seq(Nat)])
        /\ Len(words) \in Nat
    BY DEF NotesInv, NotesTyped
  <1>3. /\ new \in Seq(Nat) /\ n \in Nat /\ d \in Nat /\ type \in Nat /\ Padded(d) \in Nat
        /\ Notes!NameWords(n) \in Seq(Nat)
        /\ Notes!DescWords(d, filler) = [k \in 1 .. Padded(d) |-> filler]
    <2>1. Laid(new, type, n, d, filler, null)
      BY NewNoteIs, Zenon
    <2>. QED  BY <2>1, Zenon DEF Laid
  <1>4. note \in [type : Nat, name : Seq(Nat), size : Nat, desc : Seq(Nat)]
    <2>1. filler \in Nat
      BY NotesAssumption
    <2>. QED  BY <1>3, <2>1 DEF Notes!Note
  <1>5. /\ us \in Seq(Nat) /\ Len(us) >= Len(words) + 3 /\ Len(us) \in Nat
        /\ Len(words) + 3 + Padded(us[Len(words) + 1]) <= Len(us)
        /\ ~(null /\ d > 0) => /\ Counted(us, Len(words))
                               /\ Len(words) + Advance(us, Len(words)) = Len(us)
                               /\ NoteIn(us, Len(words)) = note
    <2>1. Grows(words, new, us)
      BY <1>1 DEF Grows
    <2>2. us \in Seq(Nat)
      BY <1>1, <1>2, <1>3
    <2>. HIDE DEF us, note
    <2>. QED  BY <1>2, <2>1, <2>2, AddedNote DEF note
  <1>6. Grows(words, new, us)
    BY <1>1 DEF Grows
  <1>. HIDE DEF new, note, us
  <1>7. NotesTyped'
    <2>1. starts' \in [Accessors -> Seq(Nat)] /\ noteStarts' \in Seq(Nat) /\ hollow' \in BOOLEAN
          /\ words' \in Seq(Nat) /\ notes' \in Seq([type : Nat, name : Seq(Nat), size : Nat, desc : Seq(Nat)])
      BY <1>1, <1>2, <1>4, <1>5 DEF us
    <2>2. Len(notes') = Len(noteStarts')
      BY <1>1, <1>2
    <2>. QED  BY <2>1, <2>2 DEF NotesTyped
  <1>8. Lies(us, Len(words), hollow')
    <2>1. hollow' \/ Len(words) + Advance(us, Len(words)) <= Len(us)
      BY <1>1, <1>5
    <2>. QED  BY <1>2, <1>5, <2>1 DEF Lies
  <1>9. \A c \in Accessors : \A k \in 1 .. Len(starts'[c]) : Lies(us, starts'[c][k], hollow')
    <2>. SUFFICES ASSUME NEW c \in Accessors, NEW k \in 1 .. Len(starts'[c])
                  PROVE  Lies(us, starts'[c][k], hollow')
      OBVIOUS
    <2>1. CASE c = a /\ k = Len(starts[a]) + 1
      <3>1. starts'[c][k] = Len(words)
        BY <1>1, <1>2, <2>1
      <3>. QED  BY <1>8, <3>1
    <2>2. CASE ~(c = a /\ k = Len(starts[a]) + 1)
      <3>1. k \in 1 .. Len(starts[c]) /\ starts'[c][k] = starts[c][k] /\ starts[c][k] \in Nat
        <4>1. CASE c = a
          BY <1>1, <1>2, <2>2, <4>1
        <4>2. CASE c # a
          BY <1>1, <1>2, <4>2
        <4>. QED  BY <4>1, <4>2
      <3>2. Lies(words, starts[c][k], hollow)
        BY <3>1 DEF NotesInv
      <3>. DEFINE p == starts[c][k]
      <3>3. p \in Nat /\ Lies(words, p, hollow)
        BY <3>1, <3>2
      <3>. HIDE DEF p
      <3>4. Lies(us, p, hollow')
        BY <1>1, <1>2, <1>3, <1>6, <3>3, LiesStays
      <3>. QED  BY <3>1, <3>4 DEF p
    <2>. QED  BY <2>1, <2>2
  <1>10. ASSUME whole', ~hollow'
         PROVE  AddedAreLast(us, Notes!Process(us), Append(noteStarts, Len(words)), Append(notes, note))
    <2>1. whole /\ ~hollow /\ ~(null /\ d > 0)
      BY <1>1, <1>2, <1>10
    <2>2. AddedAreLast(words, Notes!Process(words), noteStarts, notes)
      BY <2>1 DEF NotesInv
    <2>3. notes \in Seq(Notes!Range(notes))
      BY <1>2 DEF Notes!Range
    <2>4. /\ Counted(us, Len(words)) /\ Len(words) + Advance(us, Len(words)) = Len(us)
          /\ NoteIn(us, Len(words)) = note
      BY <1>5, <2>1
    <2>. QED  BY <1>2, <1>3, <1>6, <2>2, <2>3, <2>4, AddedAreLastGrows
  <1>11. (whole /\ ~hollow => AddedAreLast(words, Notes!Process(words), noteStarts, notes))'
    BY <1>1, <1>10 DEF us
  <1>12. (\A c \in Accessors : \A k \in 1 .. Len(starts[c]) : Lies(words, starts[c][k], hollow))'
    BY <1>9 DEF us
  <1>. QED  BY <1>7, <1>11, <1>12 DEF NotesInv

LEMMA StepNotesInv == NotesInv /\ [Notes!Next]_notesVars => NotesInv'
  <1>. SUFFICES ASSUME NotesInv, [Notes!Next]_notesVars PROVE NotesInv'
    OBVIOUS
  <1>1. CASE Notes!Next
    BY <1>1, AddNoteStep, ReopenNotesStep DEF Notes!Next
  <1>2. CASE UNCHANGED notesVars
    BY <1>2 DEF notesVars, NotesInv, NotesTyped, Lies, AddedAreLast
  <1>. QED  BY <1>1, <1>2

\* What an accessor reads of the notes it knows, and what another would find.
LEMMA NotesInvReads == NotesInv => NotesAreWhole
  <1>. SUFFICES ASSUME NotesInv PROVE NotesAreWhole
    OBVIOUS
  <1>. DEFINE ps == Notes!Process(words)
              l == Len(noteStarts)
              m == Len(ps)
  <1>1. /\ words \in Seq(Nat) /\ starts \in [Accessors -> Seq(Nat)] /\ noteStarts \in Seq(Nat)
        /\ Len(notes) = l /\ l \in Nat
    BY DEF NotesInv, NotesTyped
  <1>2. ps \in Seq(Nat) /\ m \in Nat
    BY <1>1, ProcessIs DEF AllOf, Chain
  <1>3. Notes!ReadsInside
    <2>. SUFFICES ASSUME NEW a \in Accessors, NEW p \in Notes!Range(starts[a])
                  PROVE  /\ p + 3 + Notes!Padded(words[p + 1]) <= Len(words)
                         /\ p + Notes!Advance(words, p) <= Len(words) \/ hollow
      BY DEF Notes!ReadsInside
    <2>1. PICK k \in 1 .. Len(starts[a]) : p = starts[a][k]
      BY <1>1 DEF Notes!Range
    <2>2. Lies(words, p, hollow)
      BY <2>1 DEF NotesInv
    <2>. QED  BY <2>2 DEF Lies, Padded, Notes!Padded, Advance
  <1>4. ASSUME whole, ~hollow
        PROVE  /\ l <= m /\ SubSeq(ps, m - l + 1, m) = noteStarts
               /\ \A i \in DOMAIN noteStarts : Notes!GetNote(noteStarts[i]) = notes[i]
    <2>1. AddedAreLast(words, ps, noteStarts, notes)
      BY <1>4 DEF NotesInv
    <2>2. /\ l <= m
          /\ \A i \in 1 .. l : ps[m - l + i] = noteStarts[i] /\ NoteIn(words, noteStarts[i]) = notes[i]
      BY <2>1 DEF AddedAreLast
    <2>. HIDE DEF ps, l, m
    <2>3. SubSeq(ps, m - l + 1, m) = noteStarts
      <3>. DEFINE r == SubSeq(ps, m - l + 1, m)
      <3>1. m - l \in Nat /\ m = (m - l) + l /\ m <= Len(ps)
        BY <1>1, <1>2, <2>2 DEF m
      <3>2. r \in Seq(Nat) /\ Len(r) = l /\ \A i \in 1 .. l : r[i] = ps[(m - l) + i]
        <4>. DEFINE k == m - l
        <4>1. k \in Nat /\ l \in Nat /\ k + l <= Len(ps) /\ m = k + l /\ ps \in Seq(Nat)
          BY <1>1, <1>2, <3>1
        <4>. HIDE DEF k
        <4>2. LET q == SubSeq(ps, k + 1, k + l)
              IN  q \in Seq(Nat) /\ Len(q) = l /\ \A i \in 1 .. l : q[i] = ps[k + i]
          BY <4>1, SliceIs
        <4>. QED  BY <4>1, <4>2 DEF k
      <3>. HIDE DEF r
      <3>3. Len(r) = Len(noteStarts) /\ \A i \in 1 .. Len(r) : r[i] = noteStarts[i]
        BY <2>2, <3>2 DEF l
      <3>4. r = noteStarts
        BY <1>1, <3>2, <3>3, SeqEqual
      <3>. QED  BY <3>4 DEF r
    <2>4. \A i \in DOMAIN noteStarts : Notes!GetNote(noteStarts[i]) = notes[i]
      <3>. TAKE i \in DOMAIN noteStarts
      <3>1. i \in 1 .. l
        BY <1>1 DEF l
      <3>. QED  BY <2>2, <3>1, NoteInIs
    <2>. QED  BY <2>2, <2>3, <2>4
  <1>5. Notes!ReopenedSeesAll
    BY <1>4, Zenon DEF Notes!ReopenedSeesAll
  <1>. QED  BY <1>3, <1>5 DEF NotesAreWhole, Notes!NotesAreWhole

LEMMA NotesApart == AccessorSpec => Notes!Init /\ [][Notes!Next]_notesVars
  <1>1. AccessorInit => Notes!Init
    BY DEF AccessorInit
  <1>2. [AccessorNext]_AccessorVars => [Notes!Next]_notesVars
    BY Zenon DEF AccessorNext, AccessorVars, FollowSymbols, FollowDynamic, FollowNotes, FollowModinfo
  <1>. QED  BY <1>1, <1>2, PTL DEF AccessorSpec

\* The accessors of a section of notes (elfio_note.hpp:62-139): none reads
\* beyond the section, but for the description a note claims and was given
\* none, and one that is opened later finds every note that was added, in order
\* and as it was added, if the notes in front of it are whole.
THEOREM NotesAreRead == AccessorSpec => []NotesAreWhole
  BY NotesApart, InitNotesInv, StepNotesInv, NotesInvReads, PTL
-----------------------------------------------------------------------------
(***************************************************************************)
(* The attributes of a .modinfo section.                                   *)
(***************************************************************************)
Plain == Letters \cup {Eq}
Line(f, v) == f \o <<Eq>> \o v

LEMMA TextsArePlain == Modinfo!Texts \subseteq Seq(Plain)
  <1>. SUFFICES ASSUME NEW n \in 0 .. MaxText, NEW t \in [1 .. n -> Letters \cup {Eq}] PROVE t \in Seq(Plain)
    BY DEF Modinfo!Texts
  <1>. QED  BY TextAssumption DEF Plain

LEMMA PlainIsNotNul == Nul \notin Plain /\ Eq \in Plain /\ Eq # Nul
  BY DistinctChars DEF Plain

LEMMA JoinIs ==
    ASSUME NEW S, NEW s \in Seq(S), NEW t \in Seq(S), NEW u, Grows(s, t, u)
    PROVE  /\ u \in Seq(S) /\ Len(u) = Len(s) + Len(t)
           /\ Len(s) \in Nat /\ Len(t) \in Nat /\ Len(u) \in Nat
           /\ \A i \in 1 .. Len(s) : u[i] = s[i]
           /\ \A i \in 1 .. Len(t) : u[Len(s) + i] = t[i]
  BY DEF Grows

LEMMA LineIs ==
    ASSUME NEW f \in Seq(Plain), NEW v \in Seq(Plain), NEW t, t = Line(f, v)
    PROVE  /\ t \in Seq(Plain) /\ Len(t) = Len(f) + 1 + Len(v)
           /\ Len(f) \in Nat /\ Len(v) \in Nat /\ Len(t) \in Nat /\ Len(t) > 0
           /\ t[Len(f) + 1] = Eq
           /\ \A i \in 1 .. Len(f) : t[i] = f[i]
           /\ \A i \in 1 .. Len(v) : t[Len(f) + 1 + i] = v[i]
  <1>. DEFINE u == f \o <<Eq>>
  <1>1. Eq \in Plain
    BY PlainIsNotNul
  <1>2. <<Eq>> \in Seq(Plain) /\ Len(<<Eq>>) = 1
    BY <1>1
  <1>3. u \in Seq(Plain) /\ Len(u) = Len(f) + 1 /\ u[Len(f) + 1] = Eq /\ \A i \in 1 .. Len(f) : u[i] = f[i]
    BY <1>1, <1>2
  <1>4. Grows(u, v, t)
    BY DEF Line, Grows
  <1>. HIDE DEF u
  <1>5. /\ t \in Seq(Plain) /\ Len(t) = Len(u) + Len(v)
        /\ \A i \in 1 .. Len(u) : t[i] = u[i]
        /\ \A i \in 1 .. Len(v) : t[Len(u) + i] = v[i]
    <2>1. u \in Seq(Plain)
      BY <1>3
    <2>2. t = u \o v
      BY <1>4, Zenon DEF Grows
    <2>. QED  BY <2>1, <2>2
  <1>6. Len(f) \in Nat /\ Len(v) \in Nat /\ Len(f) + 1 \in 1 .. Len(u) /\ \A i \in 1 .. Len(f) : i \in 1 .. Len(u)
    BY <1>3
  <1>7. t[Len(f) + 1] = Eq /\ \A i \in 1 .. Len(f) : t[i] = f[i]
    BY <1>3, <1>5, <1>6
  <1>8. Len(t) = Len(f) + 1 + Len(v) /\ Len(t) \in Nat /\ Len(t) > 0
    BY <1>3, <1>5, <1>6
  <1>9. \A i \in 1 .. Len(v) : t[Len(f) + 1 + i] = v[i]
    BY <1>3, <1>5
  <1>. QED  BY <1>5, <1>6, <1>7, <1>8, <1>9

LEMMA PartIs ==
    ASSUME NEW S, NEW s \in Seq(S), NEW i \in Nat, NEW k \in Nat, i + k <= Len(s)
    PROVE  LET r == SubSeq(s, i + 1, i + k)
           IN  r \in Seq(S) /\ Len(r) = k /\ \A j \in 1 .. k : r[j] = s[i + j]
  OBVIOUS

\* The first '=' of a text separates.
LEMMA PairIs ==
    ASSUME NEW t \in Seq(Plain), NEW m \in 1 .. Len(t), t[m] = Eq, \A j \in 1 .. m - 1 : t[j] # Eq
    PROVE  /\ Modinfo!Pair(t)[1] \in Seq(Plain) /\ Len(Modinfo!Pair(t)[1]) = m - 1
           /\ Modinfo!Pair(t)[2] \in Seq(Plain) /\ Len(Modinfo!Pair(t)[2]) = Len(t) - m
           /\ \A j \in 1 .. m - 1 : Modinfo!Pair(t)[1][j] = t[j]
           /\ \A j \in 1 .. Len(t) - m : Modinfo!Pair(t)[2][j] = t[m + j]
           /\ Modinfo!Pair(t) = <<Modinfo!Pair(t)[1], Modinfo!Pair(t)[2]>>
  <1>. DEFINE E == Modinfo!Equals(t)
              a == SubSeq(t, 1, m - 1)
              b == SubSeq(t, m + 1, Len(t))
  <1>1. Len(t) \in Nat /\ m \in Nat /\ m - 1 \in Nat /\ Len(t) - m \in Nat
    OBVIOUS
  <1>2. E = {m}
    <2>1. m \in E
      BY DEF Modinfo!Equals
    <2>2. ASSUME NEW i \in E PROVE i = m
      <3>1. i \in 1 .. Len(t) /\ t[i] = Eq /\ \A j \in 1 .. i - 1 : t[j] # Eq
        BY <2>2 DEF Modinfo!Equals
      <3>2. ~(i < m)
        BY <1>1, <3>1
      <3>3. ~(m < i)
        BY <1>1, <3>1
      <3>. QED  BY <1>1, <3>1, <3>2, <3>3
    <2>. QED  BY <2>1, <2>2
  <1>3. Min(E) = m
    <2>1. E \in SUBSET Nat /\ E # {}
      BY <1>1, <1>2
    <2>2. Min(E) \in E
      <3>. HIDE DEF E
      <3>. QED  BY <2>1, MinOf
    <2>. QED  BY <1>2, <2>2
  <1>4. Modinfo!Pair(t) = <<a, b>>
    <2>1. Modinfo!Min(E) = Min(E)
      BY DEF Modinfo!Min, Min
    <2>2. E # {}
      BY <1>2
    <2>. QED  BY <1>3, <2>1, <2>2, Zenon DEF Modinfo!Pair
  <1>5. a \in Seq(Plain) /\ Len(a) = m - 1 /\ \A j \in 1 .. m - 1 : a[j] = t[j]
    <2>1. LET r == SubSeq(t, 0 + 1, 0 + (m - 1))
          IN  r \in Seq(Plain) /\ Len(r) = m - 1 /\ \A j \in 1 .. m - 1 : r[j] = t[0 + j]
      <3>1. 0 + (m - 1) <= Len(t) /\ 0 \in Nat
        BY <1>1
      <3>. DEFINE k == m - 1
      <3>2. k \in Nat
        BY <1>1
      <3>. HIDE DEF k
      <3>3. 0 + k <= Len(t)
        BY <3>1 DEF k
      <3>4. LET r == SubSeq(t, 0 + 1, 0 + k)
            IN  r \in Seq(Plain) /\ Len(r) = k /\ \A j \in 1 .. k : r[j] = t[0 + j]
        BY <3>1, <3>2, <3>3, PartIs
      <3>. QED  BY <3>4 DEF k
    <2>2. 0 + 1 = 1 /\ 0 + (m - 1) = m - 1 /\ \A j \in 1 .. m - 1 : 0 + j = j
      BY <1>1
    <2>. QED  BY <2>1, <2>2
  <1>6. b \in Seq(Plain) /\ Len(b) = Len(t) - m /\ \A j \in 1 .. Len(t) - m : b[j] = t[m + j]
    <2>. DEFINE k == Len(t) - m
    <2>1. k \in Nat /\ m \in Nat /\ m + k <= Len(t) /\ m + k = Len(t)
      BY <1>1
    <2>. HIDE DEF k
    <2>2. LET r == SubSeq(t, m + 1, m + k)
          IN  r \in Seq(Plain) /\ Len(r) = k /\ \A j \in 1 .. k : r[j] = t[m + j]
      BY <2>1, PartIs
    <2>. QED  BY <2>1, <2>2 DEF k
  <1>. HIDE DEF a, b
  <1>7. Modinfo!Pair(t)[1] = a /\ Modinfo!Pair(t)[2] = b
    BY <1>4
  <1>. QED  BY <1>4, <1>5, <1>6, <1>7

\* What process_section makes of the text of an attribute.
LEMMA PairOfLine ==
    ASSUME NEW f \in Seq(Plain), NEW v \in Seq(Plain)
    PROVE  /\ ~Modinfo!HasEq(f) => Modinfo!Pair(Line(f, v)) = <<f, v>>
           /\ Modinfo!Pair(Line(f, v))[1] \o <<Eq>> \o Modinfo!Pair(Line(f, v))[2] = Line(f, v)
  <1>. DEFINE t == Line(f, v)
              S == {i \in 1 .. Len(t) : t[i] = Eq}
              m == Min(S)
              a == Modinfo!Pair(t)[1]
              b == Modinfo!Pair(t)[2]
  <1>1. /\ t \in Seq(Plain) /\ Len(t) = Len(f) + 1 + Len(v)
        /\ Len(f) \in Nat /\ Len(v) \in Nat /\ Len(t) \in Nat
        /\ t[Len(f) + 1] = Eq
        /\ \A i \in 1 .. Len(f) : t[i] = f[i]
        /\ \A i \in 1 .. Len(v) : t[Len(f) + 1 + i] = v[i]
    BY LineIs
  <1>. HIDE DEF t
  <1>2. m \in S /\ \A j \in S : m <= j
    <2>1. Len(f) + 1 \in S /\ S \in SUBSET Nat
      BY <1>1
    <2>. HIDE DEF S
    <2>. QED  BY <2>1, MinOf
  <1>. HIDE DEF m
  <1>3. m \in 1 .. Len(t) /\ t[m] = Eq
    BY <1>2
  <1>4. \A j \in 1 .. m - 1 : t[j] # Eq
    <2>. SUFFICES ASSUME NEW j \in 1 .. m - 1, t[j] = Eq PROVE FALSE
      OBVIOUS
    <2>1. j \in S /\ ~(m <= j)
      BY <1>1, <1>3
    <2>. QED  BY <1>2, <2>1
  <1>5. /\ a \in Seq(Plain) /\ Len(a) = m - 1 /\ b \in Seq(Plain) /\ Len(b) = Len(t) - m
        /\ \A j \in 1 .. m - 1 : a[j] = t[j]
        /\ \A j \in 1 .. Len(t) - m : b[j] = t[m + j]
        /\ Modinfo!Pair(t) = <<a, b>>
    BY <1>1, <1>3, <1>4, PairIs
  <1>. HIDE DEF a, b
  <1>6. Line(a, b) = t
    <2>. DEFINE u == Line(a, b)
    <2>1. /\ u \in Seq(Plain) /\ Len(u) = Len(a) + 1 + Len(b) /\ u[Len(a) + 1] = Eq
          /\ \A i \in 1 .. Len(a) : u[i] = a[i]
          /\ \A i \in 1 .. Len(b) : u[Len(a) + 1 + i] = b[i]
      BY <1>5, LineIs
    <2>. HIDE DEF u
    <2>2. Len(u) = Len(t)
      BY <1>1, <1>3, <1>5, <2>1
    <2>3. ASSUME NEW i \in 1 .. Len(u) PROVE u[i] = t[i]
      <3>1. CASE i < m
        <4>1. i \in 1 .. m - 1 /\ i \in 1 .. Len(a)
          BY <1>1, <1>3, <1>5, <2>2, <3>1
        <4>. QED  BY <1>5, <2>1, <4>1
      <3>2. CASE i = m
        BY <1>1, <1>3, <1>5, <2>1, <2>2, <3>2
      <3>3. CASE i > m
        <4>1. i - m \in 1 .. Len(b) /\ Len(a) + 1 + (i - m) = i /\ m + (i - m) = i /\ Len(b) = Len(t) - m
          BY <1>1, <1>3, <1>5, <2>1, <2>2, <3>3
        <4>2. u[Len(a) + 1 + (i - m)] = b[i - m] /\ b[i - m] = t[m + (i - m)]
          BY <1>5, <2>1, <4>1
        <4>. QED  BY <4>1, <4>2
      <3>. QED  BY <1>1, <1>3, <2>2, <3>1, <3>2, <3>3
    <2>4. u = t
      BY <1>1, <2>1, <2>2, <2>3, SeqEqual
    <2>. QED  BY <2>4 DEF u
  <1>7. ASSUME ~Modinfo!HasEq(f) PROVE a = f /\ b = v
    <2>1. \A i \in 1 .. Len(f) : f[i] # Eq
      BY <1>7 DEF Modinfo!HasEq
    <2>2. m = Len(f) + 1
      <3>1. Len(f) + 1 \in S
        BY <1>1
      <3>2. m <= Len(f) + 1
        BY <1>2, <3>1
      <3>3. ~(m <= Len(f))
        <4>. SUFFICES ASSUME m <= Len(f) PROVE FALSE
          OBVIOUS
        <4>1. m \in 1 .. Len(f)
          BY <1>1, <1>3
        <4>. QED  BY <1>1, <1>3, <2>1, <4>1
      <3>. QED  BY <1>1, <1>3, <3>2, <3>3
    <2>3. Len(a) = Len(f) /\ Len(b) = Len(v)
      BY <1>1, <1>5, <2>2
    <2>4. \A i \in 1 .. Len(a) : a[i] = f[i]
      BY <1>1, <1>5, <2>2, <2>3
    <2>5. \A i \in 1 .. Len(b) : b[i] = v[i]
      BY <1>1, <1>5, <2>2, <2>3
    <2>6. a = f
      BY <1>5, <2>3, <2>4, SeqEqual
    <2>7. b = v
      BY <1>5, <2>3, <2>5, SeqEqual
    <2>. QED  BY <2>6, <2>7
  <1>. QED  BY <1>5, <1>6, <1>7 DEF t, a, b, Line
-----------------------------------------------------------------------------
Chars == Plain \cup {Nul}

\* Every text of the section has its NUL.
Closed(cs) == cs = <<>> \/ cs[Len(cs)] = Nul

\* A text t stands in the section behind position p, between NULs.
Stands(cs, p, t) ==
    /\ p \in Nat /\ t \in Seq(Plain) /\ Len(t) > 0 /\ p + Len(t) + 1 <= Len(cs)
    /\ p = 0 \/ cs[p] = Nul
    /\ \A i \in 1 .. Len(t) : cs[p + i] = t[i]
    /\ cs[p + Len(t) + 1] = Nul

LEMMA StandsGives ==
    ASSUME NEW cs \in Seq(Chars), NEW p, NEW t, Stands(cs, p, t)
    PROVE  /\ p + Len(t) \in Modinfo!Ends(cs) /\ Modinfo!From(cs, p + Len(t)) = p + 1
           /\ SubSeq(cs, p + 1, p + Len(t)) = t
  <1>. DEFINE n == Len(t)
              e == p + n
              Z == {0} \cup {i \in 1 .. e : cs[i] = Nul}
  <1>1. /\ p \in Nat /\ t \in Seq(Plain) /\ n \in Nat /\ n > 0 /\ e + 1 <= Len(cs)
        /\ Len(cs) \in Nat /\ e \in Nat /\ cs[e + 1] = Nul /\ (p = 0 \/ cs[p] = Nul)
        /\ \A i \in 1 .. n : cs[p + i] = t[i]
    BY DEF Stands
  <1>. HIDE DEF n
  <1>2. \A i \in 1 .. n : cs[p + i] # Nul
    <2>. TAKE i \in 1 .. n
    <2>1. t[i] \in Plain
      BY <1>1 DEF n
    <2>. QED  BY <1>1, <2>1, PlainIsNotNul
  <1>3. e \in Modinfo!Ends(cs)
    <2>1. e \in 1 .. Len(cs) /\ n \in 1 .. n /\ DOMAIN cs = 1 .. Len(cs)
      BY <1>1
    <2>2. cs[e] # Nul
      BY <1>2, <2>1
    <2>3. cs[e + 1] = Nul
      BY <1>1
    <2>. HIDE DEF e
    <2>. QED  BY <2>1, <2>2, <2>3 DEF Modinfo!Ends
  <1>4. Max(Z) = p
    <2>1. p \in Z /\ Z \in SUBSET Nat
      BY <1>1
    <2>2. \A y \in Z : y <= p
      <3>. SUFFICES ASSUME NEW y \in Z, y > p PROVE FALSE
        BY <1>1
      <3>1. y \in Nat /\ y \in p + 1 .. e /\ cs[y] = Nul
        BY <1>1
      <3>2. y - p \in 1 .. n /\ p + (y - p) = y
        BY <1>1, <3>1
      <3>. QED  BY <1>2, <3>1, <3>2
    <2>3. Max(Z) \in Z /\ \A y \in Z : y <= Max(Z)
      <3>. HIDE DEF Z
      <3>. QED  BY <1>1, <2>1, <2>2, MaxOf
    <2>4. Max(Z) <= p /\ p <= Max(Z) /\ Max(Z) \in Nat
      <3>. HIDE DEF Z
      <3>. QED  BY <2>1, <2>2, <2>3
    <2>. HIDE DEF Z
    <2>. QED  BY <1>1, <2>4
  <1>5. Modinfo!From(cs, e) = p + 1
    <2>1. Modinfo!Max(Z) = Max(Z)
      BY DEF Modinfo!Max, Max
    <2>. HIDE DEF e
    <2>. QED  BY <1>4, <2>1, Zenon DEF Modinfo!From
  <1>6. SubSeq(cs, p + 1, e) = t
    <2>. DEFINE r == SubSeq(cs, p + 1, e)
    <2>1. p \in Nat /\ n \in Nat /\ p + n <= Len(cs)
      BY <1>1
    <2>2. LET q == SubSeq(cs, p + 1, p + n)
          IN  q \in Seq(Chars) /\ Len(q) = n /\ \A j \in 1 .. n : q[j] = cs[p + j]
      BY <2>1, PartIs
    <2>3. r \in Seq(Chars) /\ Len(r) = n /\ \A j \in 1 .. n : r[j] = cs[p + j]
      BY <2>2
    <2>. HIDE DEF r
    <2>4. t \in Seq(Chars)
      BY <1>1 DEF Chars
    <2>5. Len(r) = Len(t) /\ \A j \in 1 .. Len(r) : r[j] = t[j]
      BY <1>1, <2>3 DEF n
    <2>6. r = t
      BY <2>3, <2>4, <2>5, SeqEqual
    <2>. QED  BY <2>6 DEF r
  <1>. QED  BY <1>3, <1>5, <1>6 DEF n

LEMMA StandsStays ==
    ASSUME NEW cs \in Seq(Chars), NEW new \in Seq(Chars), NEW us, Grows(cs, new, us),
           NEW p, NEW t, Stands(cs, p, t)
    PROVE  Stands(us, p, t)
  <1>1. /\ Len(us) = Len(cs) + Len(new) /\ Len(cs) \in Nat /\ Len(new) \in Nat
        /\ \A i \in 1 .. Len(cs) : us[i] = cs[i]
    BY JoinIs
  <1>2. /\ p \in Nat /\ t \in Seq(Plain) /\ Len(t) \in Nat /\ Len(t) > 0 /\ p + Len(t) + 1 <= Len(cs)
        /\ (p = 0 \/ cs[p] = Nul) /\ cs[p + Len(t) + 1] = Nul
        /\ \A i \in 1 .. Len(t) : cs[p + i] = t[i]
    BY DEF Stands
  <1>3. /\ p + Len(t) + 1 \in 1 .. Len(cs) /\ (p # 0 => p \in 1 .. Len(cs))
        /\ \A i \in 1 .. Len(t) : p + i \in 1 .. Len(cs)
    BY <1>1, <1>2
  <1>4. us[p + Len(t) + 1] = Nul /\ (p = 0 \/ us[p] = Nul)
    BY <1>1, <1>2, <1>3
  <1>5. \A i \in 1 .. Len(t) : us[p + i] = t[i]
    BY <1>1, <1>2, <1>3
  <1>6. p + Len(t) + 1 <= Len(us)
    BY <1>1, <1>2
  <1>. QED  BY <1>2, <1>4, <1>5, <1>6 DEF Stands

\* An attribute more is a text more, behind the others.
LEMMA OneTextMore ==
    ASSUME NEW cs \in Seq(Chars), Closed(cs), NEW t \in Seq(Plain), Len(t) > 0,
           NEW us, Grows(cs, t \o <<Nul>>, us)
    PROVE  /\ us \in Seq(Chars) /\ Closed(us) /\ Stands(us, Len(cs), t)
           /\ t \o <<Nul>> \in Seq(Chars)
           /\ Modinfo!Ends(us) = Modinfo!Ends(cs) \cup {Len(cs) + Len(t)}
  <1>. DEFINE n == Len(t)
              new == t \o <<Nul>>
              l == Len(cs)
              m == Len(us)
  <1>1. /\ new \in Seq(Chars) /\ Len(new) = n + 1 /\ n \in Nat /\ l \in Nat
        /\ new[n + 1] = Nul /\ \A i \in 1 .. n : new[i] = t[i]
    <2>. DEFINE z == <<Nul>>
    <2>1. Grows(t, z, new)
      BY DEF Grows
    <2>2. t \in Seq(Chars) /\ z \in Seq(Chars) /\ Len(z) = 1 /\ z[1] = Nul
      BY DEF Chars
    <2>. HIDE DEF new, z
    <2>5. /\ new \in Seq(Chars) /\ Len(new) = Len(t) + Len(z) /\ \A i \in 1 .. Len(t) : new[i] = t[i]
          /\ \A i \in 1 .. Len(z) : new[Len(t) + i] = z[i]
      <3>1. t \in Seq(Chars)
        BY <2>2
      <3>2. z \in Seq(Chars)
        BY <2>2
      <3>. QED  BY <2>1, <3>1, <3>2, JoinIs
    <2>3. /\ new \in Seq(Chars) /\ Len(new) = n + 1 /\ \A i \in 1 .. n : new[i] = t[i]
          /\ \A i \in 1 .. 1 : new[n + i] = z[i]
      BY <2>2, <2>5
    <2>4. n \in Nat /\ l \in Nat /\ 1 \in 1 .. 1
      OBVIOUS
    <2>. QED  BY <2>2, <2>3, <2>4
  <1>. HIDE DEF new, n, l, m
  <1>2. /\ us \in Seq(Chars) /\ m = l + Len(new) /\ \A i \in 1 .. l : us[i] = cs[i]
        /\ \A i \in 1 .. Len(new) : us[l + i] = new[i]
    <2>1. Grows(cs, new, us)
      BY DEF new
    <2>2. new \in Seq(Chars)
      BY <1>1
    <2>3. /\ us \in Seq(Chars) /\ Len(us) = Len(cs) + Len(new) /\ \A i \in 1 .. Len(cs) : us[i] = cs[i]
          /\ \A i \in 1 .. Len(new) : us[Len(cs) + i] = new[i]
      BY <2>1, <2>2, JoinIs
    <2>. QED  BY <2>3 DEF l, m
  <1>3. m = l + n + 1 /\ m \in Nat
    BY <1>1, <1>2
  <1>4. us[m] = Nul /\ \A i \in 1 .. n : us[l + i] = t[i]
    <2>1. us[l + (n + 1)] = new[n + 1]
      BY <1>1, <1>2
    <2>2. l + (n + 1) = m
      BY <1>1, <1>3
    <2>3. \A i \in 1 .. n : us[l + i] = new[i]
      BY <1>1, <1>2
    <2>. QED  BY <1>1, <2>1, <2>2, <2>3
  <1>5. \A i \in 1 .. n : t[i] # Nul /\ us[l + i] # Nul
    <2>. TAKE i \in 1 .. n
    <2>1. t[i] \in Plain
      BY DEF n
    <2>. QED  BY <1>4, <2>1, PlainIsNotNul
  <1>6. l = 0 \/ (us[l] = Nul /\ cs[l] = Nul)
    <2>1. CASE cs = <<>>
      BY <2>1 DEF l
    <2>2. CASE cs # <<>>
      <3>1. cs[l] = Nul
        BY <2>2 DEF Closed, l
      <3>2. l = 0 \/ l \in 1 .. l
        BY <1>1
      <3>. QED  BY <1>2, <3>1, <3>2
    <2>. QED  BY <2>1, <2>2
  <1>7. Closed(us)
    BY <1>4 DEF Closed, m
  <1>8. Stands(us, l, t)
    <2>1. n > 0
      BY DEF n
    <2>. QED  BY <1>1, <1>3, <1>4, <1>6, <2>1 DEF Stands, n, m
  <1>9. Modinfo!Ends(us) = Modinfo!Ends(cs) \cup {l + n}
    <2>. DEFINE Cs == Modinfo!Ends(cs)
                Us == Modinfo!Ends(us)
    <2>1. /\ \A i : i \in Cs <=> i \in 1 .. l /\ cs[i] # Nul /\ (i = l \/ cs[i + 1] = Nul)
          /\ \A i : i \in Us <=> i \in 1 .. m /\ us[i] # Nul /\ (i = m \/ us[i + 1] = Nul)
      BY <1>2 DEF Modinfo!Ends, l, m
    <2>. HIDE DEF Cs, Us
    <2>2. ASSUME NEW i \in 1 .. m PROVE i \in Us <=> i \in Cs \/ i = l + n
      <3>1. CASE i < l
        <4>1. i \in 1 .. l /\ i + 1 \in 1 .. l /\ i # m /\ i # l /\ i # l + n
          BY <1>1, <1>3, <3>1
        <4>2. us[i] = cs[i] /\ us[i + 1] = cs[i + 1]
          BY <1>2, <4>1
        <4>. QED  BY <2>1, <4>1, <4>2
      <3>2. CASE i = l
        <4>1. us[i] = Nul /\ cs[i] = Nul /\ i # l + n
          BY <1>1, <1>6, <3>2 DEF n
        <4>. QED  BY <2>1, <4>1
      <3>3. CASE i > l /\ i < l + n
        <4>1. i + 1 - l \in 1 .. n /\ l + (i + 1 - l) = i + 1 /\ i # m /\ i # l + n /\ i \notin 1 .. l
          BY <1>1, <1>3, <3>3
        <4>2. us[i + 1] # Nul
          BY <1>5, <4>1
        <4>. QED  BY <2>1, <4>1, <4>2
      <3>4. CASE i = l + n
        <4>1. n \in 1 .. n /\ i \in 1 .. m /\ i + 1 = m
          BY <1>1, <1>3, <3>4 DEF n
        <4>2. us[i] # Nul /\ us[i + 1] = Nul
          BY <1>4, <1>5, <3>4, <4>1
        <4>. QED  BY <2>1, <3>4, <4>1, <4>2
      <3>5. CASE i = m
        <4>1. us[i] = Nul /\ i \notin 1 .. l /\ i # l + n
          BY <1>1, <1>3, <1>4, <3>5
        <4>. QED  BY <2>1, <4>1
      <3>6. i < l \/ i = l \/ (i > l /\ i < l + n) \/ i = l + n \/ i = m
        <4>1. l \in Nat /\ n \in Nat /\ m = l + n + 1 /\ i \in Nat /\ i <= m
          BY <1>1, <1>3
        <4>. QED  BY <4>1
      <3>. QED  BY <3>1, <3>2, <3>3, <3>4, <3>5, <3>6
    <2>3. \A i : i \in Cs \/ i = l + n \/ i \in Us => i \in 1 .. m
      <3>1. l + n \in 1 .. m /\ \A i \in 1 .. l : i \in 1 .. m
        BY <1>1, <1>3 DEF n
      <3>. QED  BY <2>1, <3>1
    <2>. QED  BY <2>2, <2>3 DEF Cs, Us
  <1>. QED  BY <1>1, <1>2, <1>7, <1>8, <1>9 DEF n, l, new
-----------------------------------------------------------------------------
\* The ends of the texts are numbered in order.
LEMMA UptoIs ==
    ASSUME NEW cs \in Seq(Chars)
    PROVE  /\ IsFiniteSet(Modinfo!Ends(cs)) /\ Cardinality(Modinfo!Ends(cs)) \in Nat
           /\ \A i \in Modinfo!Ends(cs) : i \in 1 .. Len(cs)
           /\ \A e \in Nat : /\ Modinfo!Upto(cs, e) = Cardinality({i \in Modinfo!Ends(cs) : i <= e})
                             /\ Modinfo!Upto(cs, e) \in Nat
           /\ Modinfo!Cardinality(Modinfo!Ends(cs)) = Cardinality(Modinfo!Ends(cs))
  <1>. DEFINE E == Modinfo!Ends(cs)
              U(e) == {i \in E : i <= e}
  <1>0. \A S : Modinfo!Cardinality(S) = Cardinality(S)
    BY DEF Modinfo!Cardinality, Cardinality
  <1>1. \A i \in E : i \in 1 .. Len(cs)
    BY DEF Modinfo!Ends
  <1>2. E \in SUBSET Nat /\ Len(cs) \in Nat /\ \A i \in E : i <= Len(cs)
    BY <1>1
  <1>. HIDE DEF E
  <1>3. IsFiniteSet(E)
    BY <1>2, FS_BoundedSetOfNaturals
  <1>4. Cardinality(E) \in Nat
    BY <1>3, FS_CardinalityType
  <1>5. ASSUME NEW e \in Nat
        PROVE  Modinfo!Upto(cs, e) = Cardinality(U(e)) /\ Cardinality(U(e)) \in Nat
    <2>1. U(e) \in SUBSET E
      OBVIOUS
    <2>2. Modinfo!Upto(cs, e) = Cardinality(U(e))
      BY <1>0, Zenon DEF Modinfo!Upto, E
    <2>. HIDE DEF U
    <2>3. IsFiniteSet(U(e))
      BY <1>3, <2>1, FS_Subset
    <2>4. Cardinality(U(e)) \in Nat
      BY <2>3, FS_CardinalityType
    <2>. QED  BY <2>2, <2>4
  <1>6. Modinfo!Cardinality(E) = Cardinality(E)
    BY <1>0
  <1>. QED  BY <1>1, <1>3, <1>4, <1>5, <1>6 DEF E, U

LEMMA EndIs ==
    ASSUME NEW cs \in Seq(Chars), NEW e \in Modinfo!Ends(cs)
    PROVE  Modinfo!EndOf(cs, Modinfo!Upto(cs, e)) = e
  <1>. DEFINE E == Modinfo!Ends(cs)
              U(d) == {i \in E : i <= d}
              k == Modinfo!Upto(cs, e)
  <1>1. /\ IsFiniteSet(E) /\ \A i \in E : i \in Nat
        /\ \A d \in Nat : Modinfo!Upto(cs, d) = Cardinality(U(d))
    BY UptoIs
  <1>. HIDE DEF E
  <1>2. e \in E
    BY DEF E
  <1>3. ASSUME NEW c \in E, NEW d \in E, c < d PROVE Modinfo!Upto(cs, c) # Modinfo!Upto(cs, d)
    <2>1. U(c) \in SUBSET U(d) /\ d \in U(d) /\ d \notin U(c) /\ U(d) \in SUBSET E
      BY <1>1, <1>3
    <2>. DEFINE A == U(c)
                B == U(d)
    <2>2. A \in SUBSET B /\ A # B /\ B \in SUBSET E
      BY <2>1
    <2>3. c \in Nat /\ d \in Nat
      BY <1>1
    <2>4. Modinfo!Upto(cs, c) = Cardinality(A) /\ Modinfo!Upto(cs, d) = Cardinality(B)
      BY <1>1, <2>3
    <2>. HIDE DEF A, B, U
    <2>5. IsFiniteSet(B)
      BY <1>1, <2>2, FS_Subset
    <2>6. Cardinality(A) # Cardinality(B)
      BY <2>2, <2>5, FS_Subset
    <2>. QED  BY <2>4, <2>6
  <1>4. \A d \in E : Modinfo!Upto(cs, d) = k => d = e
    <2>. SUFFICES ASSUME NEW d \in E, Modinfo!Upto(cs, d) = k, d # e PROVE FALSE
      OBVIOUS
    <2>1. d < e \/ e < d
      BY <1>1, <1>2
    <2>. QED  BY <1>2, <1>3, <2>1
  <1>5. Modinfo!EndOf(cs, k) = CHOOSE d \in E : Modinfo!Upto(cs, d) = k
    BY Zenon DEF Modinfo!EndOf, E
  <1>. HIDE DEF k
  <1>6. \E d \in E : Modinfo!Upto(cs, d) = k
    BY <1>2 DEF k
  <1>. QED  BY <1>4, <1>5, <1>6 DEF k

LEMMA UptoGrows ==
    ASSUME NEW cs \in Seq(Chars), NEW us \in Seq(Chars), NEW e \in Nat, e > Len(cs),
           Modinfo!Ends(us) = Modinfo!Ends(cs) \cup {e}
    PROVE  /\ \A d \in Modinfo!Ends(cs) : Modinfo!Upto(us, d) = Modinfo!Upto(cs, d)
           /\ Modinfo!Upto(us, e) = Cardinality(Modinfo!Ends(cs)) + 1
           /\ Cardinality(Modinfo!Ends(us)) = Cardinality(Modinfo!Ends(cs)) + 1
  <1>. DEFINE C == Modinfo!Ends(cs)
              U == Modinfo!Ends(us)
  <1>1. /\ IsFiniteSet(C) /\ \A i \in C : i \in 1 .. Len(cs)
        /\ \A d \in Nat : Modinfo!Upto(cs, d) = Cardinality({i \in C : i <= d})
        /\ \A d \in Nat : Modinfo!Upto(us, d) = Cardinality({i \in U : i <= d})
    BY UptoIs
  <1>2. U = C \cup {e}
    OBVIOUS
  <1>. HIDE DEF C, U
  <1>3. Len(cs) \in Nat /\ e \notin C /\ \A i \in C : i \in Nat /\ i < e
    BY <1>1
  <1>4. ASSUME NEW d \in C PROVE Modinfo!Upto(us, d) = Modinfo!Upto(cs, d)
    <2>1. {i \in U : i <= d} = {i \in C : i <= d}
      BY <1>2, <1>3
    <2>2. d \in Nat
      BY <1>3
    <2>. QED  BY <1>1, <2>1, <2>2
  <1>5. Cardinality(U) = Cardinality(C) + 1
    BY <1>1, <1>2, <1>3, FS_AddElement
  <1>6. Modinfo!Upto(us, e) = Cardinality(U)
    <2>1. {i \in U : i <= e} = U
      BY <1>2, <1>3
    <2>. QED  BY <1>1, <2>1
  <1>. QED  BY <1>4, <1>5, <1>6 DEF C, U
-----------------------------------------------------------------------------
Pairs == Seq(Plain) \X Seq(Plain)
LineOf(a) == Line(a[1], a[2])

\* The texts of the section are the attributes, in order, each at its place.
Held(cs, xs, ps) ==
    /\ cs \in Seq(Chars) /\ Closed(cs)
    /\ xs \in Seq(Pairs) /\ ps \in Seq(Nat) /\ Len(ps) = Len(xs)
    /\ Cardinality(Modinfo!Ends(cs)) = Len(xs)
    /\ \A k \in 1 .. Len(xs) :
          Stands(cs, ps[k], LineOf(xs[k])) /\ Modinfo!Upto(cs, ps[k] + Len(LineOf(xs[k]))) = k

\* No field holds a '='.
Splits(xs) == \A k \in 1 .. Len(xs) : ~Modinfo!HasEq(xs[k][1])

TextInv == Held(chars, attributes, places) /\ (Splits(attributes) => content = attributes)

EndsIn(xs, ps, k, e) == e = ps[k] + Len(LineOf(xs[k]))

LEMMA HeldGives ==
    ASSUME NEW cs, NEW xs, NEW ps, Held(cs, xs, ps), NEW k \in 1 .. Len(xs), NEW e,
           EndsIn(xs, ps, k, e)
    PROVE  /\ xs[k] \in Pairs /\ LineOf(xs[k]) \in Seq(Plain) /\ Len(LineOf(xs[k])) > 0
           /\ ps[k] \in Nat /\ e \in Nat /\ e > ps[k] /\ e + 1 <= Len(cs) /\ cs[e + 1] = Nul
           /\ e \in Modinfo!Ends(cs) /\ Modinfo!EndOf(cs, k) = e
           /\ Modinfo!From(cs, e) = ps[k] + 1
           /\ SubSeq(cs, ps[k] + 1, e) = LineOf(xs[k])
  <1>. DEFINE t == LineOf(xs[k])
              p == ps[k]
  <1>1. Stands(cs, p, t) /\ Modinfo!Upto(cs, e) = k /\ cs \in Seq(Chars) /\ xs[k] \in Pairs
    <2>1. xs \in Seq(Pairs) /\ cs \in Seq(Chars)
      BY DEF Held
    <2>2. Stands(cs, p, t) /\ Modinfo!Upto(cs, p + Len(t)) = k
      BY Zenon DEF Held
    <2>. HIDE DEF p, t
    <2>3. e = p + Len(t)
      BY DEF EndsIn, p, t
    <2>. QED  BY <2>1, <2>2, <2>3
  <1>. HIDE DEF t, p
  <1>2. p \in Nat /\ t \in Seq(Plain) /\ Len(t) > 0 /\ p + Len(t) + 1 <= Len(cs) /\ cs[p + Len(t) + 1] = Nul
    BY <1>1 DEF Stands
  <1>3. e = p + Len(t)
    BY DEF EndsIn, p, t
  <1>4. Len(t) \in Nat
    BY <1>2
  <1>5. e \in Modinfo!Ends(cs) /\ Modinfo!From(cs, e) = p + 1 /\ SubSeq(cs, p + 1, e) = t
    BY <1>1, <1>3, StandsGives
  <1>6. Modinfo!EndOf(cs, k) = e
    BY <1>1, <1>5, EndIs
  <1>7. e \in Nat /\ e > p /\ e + 1 <= Len(cs) /\ cs[e + 1] = Nul
    BY <1>2, <1>3, <1>4
  <1>. QED  BY <1>1, <1>2, <1>5, <1>6, <1>7 DEF p, t

\* What an accessor opened now finds.
LEMMA SeenIs ==
    ASSUME NEW cs, NEW xs, NEW ps, Held(cs, xs, ps)
    PROVE  Modinfo!Process(cs) = [k \in 1 .. Len(xs) |-> Modinfo!Pair(LineOf(xs[k]))]
  <1>. DEFINE n == Len(xs)
  <1>1. Modinfo!Cardinality(Modinfo!Ends(cs)) = n
    BY UptoIs DEF Held
  <1>. HIDE DEF n
  <1>2. Modinfo!Infos(cs) = [k \in 1 .. n |->
            SubSeq(cs, Modinfo!From(cs, Modinfo!EndOf(cs, k)), Modinfo!EndOf(cs, k))]
    BY <1>1, Zenon DEF Modinfo!Infos
  <1>3. ASSUME NEW k \in 1 .. n
        PROVE  SubSeq(cs, Modinfo!From(cs, Modinfo!EndOf(cs, k)), Modinfo!EndOf(cs, k)) = LineOf(xs[k])
    <2>. DEFINE e == ps[k] + Len(LineOf(xs[k]))
    <2>1. Modinfo!EndOf(cs, k) = e /\ Modinfo!From(cs, e) = ps[k] + 1 /\ SubSeq(cs, ps[k] + 1, e) = LineOf(xs[k])
      <3>1. EndsIn(xs, ps, k, e)
        BY DEF EndsIn
      <3>. HIDE DEF e
      <3>. QED  BY <3>1, HeldGives DEF n
    <2>. HIDE DEF e
    <2>. QED  BY <2>1, Zenon
  <1>4. DOMAIN Modinfo!Infos(cs) = 1 .. n /\ \A k \in 1 .. n : Modinfo!Infos(cs)[k] = LineOf(xs[k])
    BY <1>2, <1>3
  <1>5. Modinfo!Process(cs) = [k \in DOMAIN Modinfo!Infos(cs) |-> Modinfo!Pair(Modinfo!Infos(cs)[k])]
    BY Zenon DEF Modinfo!Process
  <1>. DEFINE I == Modinfo!Infos(cs)
  <1>. HIDE DEF I
  <1>6. Modinfo!Process(cs) = [k \in 1 .. n |-> Modinfo!Pair(I[k])]
    BY <1>4, <1>5, Zenon DEF I
  <1>7. \A k \in 1 .. n : I[k] = LineOf(xs[k])
    BY <1>4 DEF I
  <1>. QED  BY <1>6, <1>7 DEF n

Sees(seen, cs) == seen = Modinfo!Process(cs)

\* Pairs that say what was added.
Agree(seen, xs) ==
    /\ DOMAIN seen = 1 .. Len(xs) /\ Len(seen) = Len(xs)
    /\ \A k \in 1 .. Len(xs) :
          /\ ~Modinfo!HasEq(xs[k][1]) => seen[k] = xs[k]
          /\ seen[k][1] \o <<Eq>> \o seen[k][2] = xs[k][1] \o <<Eq>> \o xs[k][2]

LEMMA SeenMeans ==
    ASSUME NEW cs, NEW xs, NEW ps, Held(cs, xs, ps), NEW seen, Sees(seen, cs)
    PROVE  Agree(seen, xs) /\ (Splits(xs) => seen = xs)
  <1>1. xs \in Seq(Pairs) /\ Len(xs) \in Nat /\ seen = [k \in 1 .. Len(xs) |-> Modinfo!Pair(LineOf(xs[k]))]
    <2>1. xs \in Seq(Pairs)
      BY DEF Held
    <2>2. seen = [k \in 1 .. Len(xs) |-> Modinfo!Pair(LineOf(xs[k]))]
      BY SeenIs, Zenon DEF Sees
    <2>. QED  BY <2>1, <2>2
  <1>2. DOMAIN seen = 1 .. Len(xs) /\ Len(seen) = Len(xs)
    BY <1>1
  <1>3. ASSUME NEW k \in 1 .. Len(xs)
        PROVE  /\ ~Modinfo!HasEq(xs[k][1]) => seen[k] = xs[k]
               /\ seen[k][1] \o <<Eq>> \o seen[k][2] = xs[k][1] \o <<Eq>> \o xs[k][2]
    <2>1. xs[k] \in Pairs
      BY <1>1
    <2>2. PICK f \in Seq(Plain), v \in Seq(Plain) : xs[k] = <<f, v>>
      <3>. DEFINE a == xs[k]
      <3>1. a \in Seq(Plain) \X Seq(Plain)
        BY <2>1, Zenon DEF Pairs
      <3>. HIDE DEF a
      <3>2. a[1] \in Seq(Plain) /\ a[2] \in Seq(Plain) /\ a = <<a[1], a[2]>>
        BY <3>1
      <3>. QED  BY <3>2, Zenon DEF a
    <2>3. xs[k][1] = f /\ xs[k][2] = v
      BY <2>2
    <2>4. seen[k] = Modinfo!Pair(Line(f, v))
      BY <1>1, <2>3 DEF LineOf
    <2>5. /\ ~Modinfo!HasEq(f) => seen[k] = <<f, v>>
          /\ seen[k][1] \o <<Eq>> \o seen[k][2] = Line(f, v)
      BY <2>4, PairOfLine, Zenon
    <2>. QED  BY <2>2, <2>3, <2>5, Zenon DEF Line
  <1>4. ASSUME Splits(xs) PROVE seen = xs
    <2>1. \A k \in 1 .. Len(xs) : seen[k] = xs[k]
      BY <1>3, <1>4 DEF Splits
    <2>. QED  BY <1>1, <1>2, <2>1
  <1>5. Agree(seen, xs)
    BY <1>2, <1>3, Zenon DEF Agree
  <1>. QED  BY <1>4, <1>5

LEMMA InitTextInv == Modinfo!Init => TextInv
  <1>. SUFFICES ASSUME Modinfo!Init PROVE TextInv
    OBVIOUS
  <1>1. chars = <<>> /\ content = <<>> /\ attributes = <<>> /\ places = <<>>
    BY DEF Modinfo!Init
  <1>2. Modinfo!Ends(<<>>) = {}
    BY DEF Modinfo!Ends
  <1>3. Cardinality(Modinfo!Ends(chars)) = 0
    BY <1>1, <1>2, FS_EmptySet
  <1>4. /\ chars \in Seq(Chars) /\ attributes \in Seq(Pairs) /\ places \in Seq(Nat)
        /\ Len(attributes) = 0 /\ Len(places) = 0
    BY <1>1
  <1>5. Held(chars, attributes, places)
    BY <1>1, <1>3, <1>4 DEF Held, Closed
  <1>. QED  BY <1>1, <1>5 DEF TextInv

LEMMA ReopenTextStep ==
    ASSUME TextInv, Modinfo!Reopen
    PROVE  TextInv'
  <1>1. content' = Modinfo!Process(chars) /\ chars' = chars /\ attributes' = attributes /\ places' = places
    BY DEF Modinfo!Reopen
  <1>2. Held(chars, attributes, places)
    BY DEF TextInv
  <1>3. Splits(attributes) => content' = attributes
    <2>. DEFINE seen == content'
    <2>1. Sees(seen, chars)
      BY <1>1 DEF Sees
    <2>. HIDE DEF seen
    <2>2. Splits(attributes) => seen = attributes
      BY <1>2, <2>1, SeenMeans
    <2>. QED  BY <2>2 DEF seen
  <1>. QED  BY <1>1, <1>2, <1>3 DEF TextInv

LEMMA HeldGrows ==
    ASSUME NEW cs, NEW xs, NEW ps, Held(cs, xs, ps), NEW f \in Seq(Plain), NEW v \in Seq(Plain),
           NEW us, Grows(cs, Modinfo!Attribute(f, v), us)
    PROVE  Held(us, Append(xs, <<f, v>>), Append(ps, Len(cs)))
  <1>. DEFINE t == Line(f, v)
              new == t \o <<Nul>>
              l == Len(cs)
              n == Len(xs)
              bs == Append(xs, <<f, v>>)
              qs == Append(ps, l)
              e == l + Len(t)
  <1>1. /\ cs \in Seq(Chars) /\ Closed(cs) /\ xs \in Seq(Pairs) /\ ps \in Seq(Nat)
        /\ Len(ps) = n /\ n \in Nat /\ l \in Nat /\ Cardinality(Modinfo!Ends(cs)) = n
    BY DEF Held
  <1>2. t \in Seq(Plain) /\ Len(t) \in Nat /\ Len(t) > 0
    BY LineIs
  <1>3. Grows(cs, new, us)
    BY Zenon DEF Line, Modinfo!Attribute
  <1>. HIDE DEF t
  <1>4. /\ us \in Seq(Chars) /\ Closed(us) /\ Stands(us, l, t) /\ new \in Seq(Chars)
        /\ Modinfo!Ends(us) = Modinfo!Ends(cs) \cup {e}
    BY <1>1, <1>2, <1>3, OneTextMore
  <1>5. e \in Nat /\ e > l
    BY <1>1, <1>2
  <1>. HIDE DEF e, l, new
  <1>6. /\ \A d \in Modinfo!Ends(cs) : Modinfo!Upto(us, d) = Modinfo!Upto(cs, d)
        /\ Modinfo!Upto(us, e) = n + 1 /\ Cardinality(Modinfo!Ends(us)) = n + 1
    <2>1. cs \in Seq(Chars) /\ us \in Seq(Chars) /\ Modinfo!Ends(us) = Modinfo!Ends(cs) \cup {e}
      BY <1>1, <1>4
    <2>2. e \in Nat /\ e > Len(cs)
      BY <1>5 DEF l
    <2>3. /\ \A d \in Modinfo!Ends(cs) : Modinfo!Upto(us, d) = Modinfo!Upto(cs, d)
          /\ Modinfo!Upto(us, e) = Cardinality(Modinfo!Ends(cs)) + 1
          /\ Cardinality(Modinfo!Ends(us)) = Cardinality(Modinfo!Ends(cs)) + 1
      BY <2>1, <2>2, UptoGrows, Zenon
    <2>. QED  BY <1>1, <2>3, Zenon
  <1>7. /\ bs \in Seq(Pairs) /\ qs \in Seq(Nat) /\ Len(bs) = n + 1 /\ Len(qs) = n + 1
        /\ bs[n + 1] = <<f, v>> /\ qs[n + 1] = l
        /\ \A k \in 1 .. n : bs[k] = xs[k] /\ qs[k] = ps[k]
    <2>1. <<f, v>> \in Pairs
      BY DEF Pairs
    <2>. DEFINE a == <<f, v>>
    <2>. HIDE DEF a
    <2>2. a \in Pairs
      BY <2>1 DEF a
    <2>3. Append(xs, a) \in Seq(Pairs) /\ Len(Append(xs, a)) = n + 1 /\ Append(xs, a)[n + 1] = a
          /\ \A k \in 1 .. n : Append(xs, a)[k] = xs[k]
      BY <1>1, <2>2
    <2>4. qs \in Seq(Nat) /\ Len(qs) = n + 1 /\ qs[n + 1] = l /\ \A k \in 1 .. n : qs[k] = ps[k]
      BY <1>1
    <2>. QED  BY <2>3, <2>4 DEF a
  <1>. HIDE DEF n, bs, qs
  <1>8. ASSUME NEW k \in 1 .. n + 1
        PROVE  Stands(us, qs[k], LineOf(bs[k])) /\ Modinfo!Upto(us, qs[k] + Len(LineOf(bs[k]))) = k
    <2>1. CASE k \in 1 .. n
      <3>. DEFINE d == ps[k] + Len(LineOf(xs[k]))
      <3>1. Stands(cs, ps[k], LineOf(xs[k])) /\ Modinfo!Upto(cs, d) = k /\ d \in Modinfo!Ends(cs)
        <4>1. Stands(cs, ps[k], LineOf(xs[k])) /\ Modinfo!Upto(cs, d) = k
          BY <2>1, Zenon DEF Held, n
        <4>2. EndsIn(xs, ps, k, d) /\ k \in 1 .. Len(xs)
          BY <2>1 DEF EndsIn, n
        <4>. HIDE DEF d
        <4>. QED  BY <4>1, <4>2, HeldGives
      <3>2. Stands(us, ps[k], LineOf(xs[k]))
        BY <1>1, <1>3, <1>4, <3>1, StandsStays
      <3>. HIDE DEF d
      <3>3. Modinfo!Upto(us, d) = k
        BY <1>6, <3>1
      <3>. QED  BY <1>7, <2>1, <3>2, <3>3 DEF d
    <2>2. CASE k = n + 1
      <3>1. LineOf(bs[k]) = t /\ qs[k] = l
        BY <1>7, <2>2 DEF LineOf, t
      <3>. QED  BY <1>4, <1>6, <2>2, <3>1 DEF e
    <2>3. k \in 1 .. n \/ k = n + 1
      BY <1>1
    <2>. QED  BY <2>1, <2>2, <2>3
  <1>9. Held(us, bs, qs)
    <2>1. \A k \in 1 .. Len(bs) :
             Stands(us, qs[k], LineOf(bs[k])) /\ Modinfo!Upto(us, qs[k] + Len(LineOf(bs[k]))) = k
      BY <1>7, <1>8
    <2>. QED  BY <1>4, <1>6, <1>7, <2>1 DEF Held
  <1>. QED  BY <1>9 DEF bs, qs, l

LEMMA AddAttributeStep ==
    ASSUME TextInv, NEW field \in Modinfo!Texts, NEW value \in Modinfo!Texts,
           Modinfo!AddAttribute(field, value)
    PROVE  TextInv'
  <1>. DEFINE bs == Append(attributes, <<field, value>>)
  <1>1. /\ chars' = chars \o Modinfo!Attribute(field, value)
        /\ content' = Append(content, <<field, value>>) /\ attributes' = bs
        /\ places' = Append(places, Len(chars))
    BY DEF Modinfo!AddAttribute
  <1>2. field \in Seq(Plain) /\ value \in Seq(Plain)
    BY TextsArePlain
  <1>3. Held(chars, attributes, places)
    BY DEF TextInv
  <1>4. Held(chars', attributes', places')
    <2>. DEFINE us == chars'
    <2>1. Grows(chars, Modinfo!Attribute(field, value), us)
      BY <1>1 DEF Grows
    <2>. HIDE DEF us
    <2>2. Held(us, bs, Append(places, Len(chars)))
      BY <1>2, <1>3, <2>1, HeldGrows
    <2>. QED  BY <1>1, <2>2, Zenon DEF us
  <1>5. ASSUME Splits(bs) PROVE content' = bs
    <2>1. attributes \in Seq(Pairs) /\ Len(attributes) \in Nat
      BY <1>3 DEF Held
    <2>2. Splits(attributes)
      <3>. SUFFICES ASSUME NEW k \in 1 .. Len(attributes) PROVE ~Modinfo!HasEq(attributes[k][1])
        BY DEF Splits
      <3>1. k \in 1 .. Len(bs) /\ bs[k] = attributes[k]
        BY <2>1
      <3>2. ~Modinfo!HasEq(bs[k][1])
        <4>. HIDE DEF bs
        <4>. QED  BY <1>5, <3>1 DEF Splits
      <3>. HIDE DEF bs
      <3>. QED  BY <3>1, <3>2
    <2>. QED  BY <1>1, <2>2 DEF TextInv
  <1>6. Held(chars, attributes, places)'
    BY <1>4
  <1>7. (Splits(attributes) => content = attributes)'
    <2>. HIDE DEF bs
    <2>. QED  BY <1>1, <1>5
  <1>. QED  BY <1>6, <1>7 DEF TextInv

LEMMA StepTextInv == TextInv /\ [Modinfo!Next]_modinfoVars => TextInv'
  <1>. SUFFICES ASSUME TextInv, [Modinfo!Next]_modinfoVars PROVE TextInv'
    OBVIOUS
  <1>1. CASE Modinfo!Next
    BY <1>1, AddAttributeStep, ReopenTextStep DEF Modinfo!Next
  <1>2. CASE UNCHANGED modinfoVars
    <2>1. chars' = chars /\ content' = content /\ attributes' = attributes /\ places' = places
      BY <1>2 DEF modinfoVars
    <2>. QED  BY <2>1 DEF TextInv
  <1>. QED  BY <1>1, <1>2

LEMMA TextInvMatches == TextInv => ModinfoTextMatches
  <1>. SUFFICES ASSUME TextInv PROVE ModinfoTextMatches
    OBVIOUS
  <1>1. /\ Held(chars, attributes, places) /\ attributes \in Seq(Pairs) /\ places \in Seq(Nat)
        /\ Len(places) = Len(attributes) /\ Len(attributes) \in Nat /\ chars \in Seq(Chars)
    BY DEF TextInv, Held
  <1>2. Modinfo!PlacesMean
    <2>. SUFFICES ASSUME NEW k \in DOMAIN places
                  PROVE  \E e \in places[k] + 1 .. Len(chars) :
                            /\ SubSeq(chars, places[k] + 1, e) = attributes[k][1] \o <<Eq>> \o attributes[k][2]
                            /\ e < Len(chars) /\ chars[e + 1] = Nul
      BY DEF Modinfo!PlacesMean
    <2>. DEFINE e == places[k] + Len(LineOf(attributes[k]))
    <2>1. k \in 1 .. Len(attributes)
      BY <1>1
    <2>2. /\ places[k] \in Nat /\ e \in Nat /\ e > places[k] /\ e + 1 <= Len(chars) /\ chars[e + 1] = Nul
          /\ SubSeq(chars, places[k] + 1, e) = LineOf(attributes[k])
      <3>1. EndsIn(attributes, places, k, e)
        BY DEF EndsIn
      <3>. HIDE DEF e
      <3>. QED  BY <1>1, <2>1, <3>1, HeldGives
    <2>. HIDE DEF e
    <2>3. e \in places[k] + 1 .. Len(chars) /\ e < Len(chars)
      BY <1>1, <2>2
    <2>. QED  BY <2>2, <2>3, Zenon DEF LineOf, Line
  <1>. DEFINE seen == Modinfo!Process(chars)
  <1>3. Agree(seen, attributes)
    <2>1. Sees(seen, chars)
      BY DEF Sees
    <2>. HIDE DEF seen
    <2>. QED  BY <1>1, <2>1, SeenMeans
  <1>4. Modinfo!SectionSaysSame
    BY <1>3, Zenon DEF Modinfo!SectionSaysSame, Agree
  <1>5. Modinfo!FirstValueFound
    <2>. SUFFICES ASSUME ~(\E i \in DOMAIN attributes : Modinfo!HasEq(attributes[i][1]))
                  PROVE  content = attributes
      BY Zenon DEF Modinfo!FirstValueFound
    <2>1. Splits(attributes)
      BY <1>1 DEF Splits
    <2>. QED  BY <2>1 DEF TextInv
  <1>. QED  BY <1>2, <1>4, <1>5 DEF ModinfoTextMatches, Modinfo!TextMatches

LEMMA ModinfoApart == AccessorSpec => Modinfo!Init /\ [][Modinfo!Next]_modinfoVars
  <1>1. AccessorInit => Modinfo!Init
    BY DEF AccessorInit
  <1>2. [AccessorNext]_AccessorVars => [Modinfo!Next]_modinfoVars
    BY Zenon DEF AccessorNext, AccessorVars, FollowSymbols, FollowDynamic, FollowNotes, FollowModinfo
  <1>. QED  BY <1>1, <1>2, PTL DEF AccessorSpec

\* The accessors of a .modinfo section (elfio_modinfo.hpp:59-111): the section
\* holds the attributes that were added, in order, each where add_attribute said,
\* and who opens it finds them, split at the first '=' of each; by name, both
\* the accessor that added a field and one that found it give its first value.
THEOREM ModinfoIsRead == AccessorSpec => []ModinfoTextMatches
  BY ModinfoApart, InitTextInv, StepTextInv, TextInvMatches, PTL
=============================================================================
