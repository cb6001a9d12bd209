----------------------------- MODULE ElfModinfo -----------------------------
(***************************************************************************)
(* The attributes of a .modinfo section, elfio_modinfo.hpp: each is kept   *)
(* twice, as "field=value" in the section, where the next accessor finds   *)
(* it, and as a pair in the content of the accessor that added it.         *)
(***************************************************************************)
EXTENDS Integers, Sequences, FiniteSets, FiniteSetsExt

CONSTANTS
    Letters,        \* a text is a sequence of these and of Eq
    Eq, Nul,        \* the characters = and NUL, which are no letters
    MaxText,        \* bound: length of a field or value
    MaxAttributes   \* bound: attributes of the section

Texts == UNION {[1 .. n -> Letters \cup {Eq}] : n \in 0 .. MaxText}

VARIABLES
    chars,    \* the section
    content,  \* of the accessor in use
    added,    \* history: the attributes added, by all accessors
    places    \* history: the positions add_attribute returned

vars == <<chars, content, added, places>>

Init == chars = <<>> /\ content = <<>> /\ added = <<>> /\ places = <<>>

\* Mutant: the last '=' separates.
EqualsLast(info) == {i \in DOMAIN info : info[i] = Eq /\ Eq \notin {info[j] : j \in i + 1 .. Len(info)}}

\* find: the first '=', if there is one.
Equals(info) == {i \in DOMAIN info : info[i] = Eq /\ Eq \notin {info[j] : j \in 1 .. i - 1}}

\* substr(loc + 1) of a text without '=' begins at 0: npos wraps.
Pair(info) ==
    IF Equals(info) = {} THEN <<info, info>>
    ELSE LET loc == Min(Equals(info)) IN <<SubSeq(info, 1, loc - 1), SubSeq(info, loc + 1, Len(info))>>

\* The texts of the section: what lies between NULs and is not empty.
Ends(cs) == {i \in DOMAIN cs : cs[i] # Nul /\ (i = Len(cs) \/ cs[i + 1] = Nul)}
Upto(cs, e) == Cardinality({i \in Ends(cs) : i <= e})
EndOf(cs, k) == CHOOSE e \in Ends(cs) : Upto(cs, e) = k
From(cs, e) == Max({0} \cup {i \in 1 .. e : cs[i] = Nul}) + 1

Infos(cs) ==
    [k \in 1 .. Cardinality(Ends(cs)) |-> SubSeq(cs, From(cs, EndOf(cs, k)), EndOf(cs, k))]

\* process_section.
Process(cs) == [k \in DOMAIN Infos(cs) |-> Pair(Infos(cs)[k])]

Attribute(field, value) == field \o <<Eq>> \o value \o <<Nul>>

AddAttribute(field, value) ==
    /\ Len(added) < MaxAttributes
    /\ chars' = chars \o Attribute(field, value)
    /\ content' = Append(content, <<field, value>>)
    /\ added' = Append(added, <<field, value>>)
    /\ places' = Append(places, Len(chars))

Reopen == content' = Process(chars) /\ UNCHANGED <<chars, added, places>>

\* get_attribute by name: the value of the first that has it, if any has.
AttributeOf(pairs, field) ==
    LET hits == {i \in DOMAIN pairs : pairs[i][1] = field}
    IN  IF hits = {} THEN {} ELSE {pairs[Min(hits)][2]}

Next == Reopen \/ \E field, value \in Texts : AddAttribute(field, value)

Spec == Init /\ [][Next]_vars
-----------------------------------------------------------------------------
HasEq(text) == \E i \in DOMAIN text : text[i] = Eq

\* The returned position is that of the attribute's text in the section.
PlacesMean ==
    \A k \in DOMAIN places : \E e \in places[k] + 1 .. Len(chars) :
        /\ SubSeq(chars, places[k] + 1, e) = added[k][1] \o <<Eq>> \o added[k][2]
        /\ e < Len(chars) /\ chars[e + 1] = Nul

\* The section says what the callers said: whoever opens it sees as many
\* attributes as were added, in order, each split elsewhere only when its field
\* holds a '=' itself; a '=' in a value is no harm.
SectionSaysSame ==
    LET seen == Process(chars)
    IN  /\ Len(seen) = Len(added)
        /\ \A k \in DOMAIN seen : ~HasEq(added[k][1]) => seen[k] = added[k]
        /\ \A k \in DOMAIN seen : seen[k][1] \o <<Eq>> \o seen[k][2] = added[k][1] \o <<Eq>> \o added[k][2]

\* get_attribute gives the value a field was given first, whether the accessor
\* has added it or found it.
FirstValueFound ==
    ~(\E i \in DOMAIN added : HasEq(added[i][1])) =>
        \A field \in Texts : AttributeOf(content, field) = AttributeOf(added, field)

\* The pairs an accessor keeps, the text of the section and what the callers
\* have added are one and the same.
TextMatches == PlacesMean /\ SectionSaysSame /\ FirstValueFound
=============================================================================
