--------------------------- MODULE AssemblyProofs ---------------------------
(***************************************************************************)
(* Proofs about a run of the assembler over a file of any length: where    *)
(* the cursor goes, what of the file it leaves behind, what the two passes *)
(* agree about, how a run ends, and the symbol table it leaves.            *)
(***************************************************************************)
EXTENDS AssemblyProperties, OrderLemmas, FiniteSetTheorems

\* What is known of the text.
TextOK ==
    /\ Len(text) \in Nat
    /\ \A p \in 1 .. Len(text) :
          /\ text[p].kind \in Kinds
          /\ text[p].kind \in {"mov", "copy", "org"} => text[p].value \in Nat
          /\ p > 1 /\ text[p].kind \notin {"nl", "cmt", "stray", "sign"} =>
                text[p - 1].kind = "nl"
          /\ p > 1 /\ text[p].kind \in Strays => text[p - 1].kind # "cmt"

LEMMA TextIsOK == text \in Programs => TextOK
  BY ProgramsAssumption DEF TextOK, Strays

-----------------------------------------------------------------------------
(***************************************************************************)
(* The cursor.                                                             *)
(***************************************************************************)
LEMMA AtFacts ==
    ASSUME TextOK
    PROVE  /\ End \in Nat \ {0} /\ End = Len(text) + 1
           /\ At(End) = "end"
           /\ \A p \in 1 .. End : p # End <=> p \in 1 .. Len(text)
           /\ \A p \in 1 .. Len(text) : At(p) = text[p].kind /\ At(p) \in Kinds
           /\ \A p \in 1 .. End : At(p) = "end" <=> p = End
  <1>1. "end" \notin Kinds
    BY DEF Kinds, Code, Directives, Declarations, Strays
  <1>2. \A p \in 1 .. Len(text) : p # End /\ text[p].kind \in Kinds
    BY DEF TextOK, End
  <1>. QED  BY <1>1, <1>2 DEF TextOK, End, At

LEMMA SkipAllFacts ==
    ASSUME TextOK, NEW p \in 1 .. End, NEW kinds, "end" \notin kinds
    PROVE  /\ SkipAll(p, kinds) \in p .. End
           /\ At(SkipAll(p, kinds)) \notin kinds
           /\ \A q \in p .. SkipAll(p, kinds) - 1 : At(q) \in kinds
  <1>. DEFINE S == {q \in p .. End : At(q) \notin kinds}
  <1>1. S \in SUBSET Nat /\ End \in S
    BY AtFacts
  <1>2. Min(S) \in S /\ \A y \in S : Min(S) <= y
    <2>. HIDE DEF S
    <2>. QED  BY <1>1, MinOf
  <1>. DEFINE m == Min(S)
  <1>3. m \in p .. End /\ m \in Nat /\ \A q \in p .. m - 1 : q \in p .. End /\ q \notin S
    <2>. HIDE DEF m
    <2>1. m \in S /\ \A y \in S : m <= y
      BY <1>2 DEF m
    <2>. QED  BY <2>1, AtFacts
  <1>4. m = SkipAll(p, kinds)
    BY DEF SkipAll
  <1>. HIDE DEF m
  <1>. QED  BY <1>2, <1>3, <1>4 DEF m

LEMMA EndOfLineFacts ==
    ASSUME TextOK, NEW p \in 1 .. End
    PROVE  /\ EndOfLine(p) \in p .. End
           /\ At(EndOfLine(p)) \in {"nl", "end"}
           /\ \A q \in p .. EndOfLine(p) - 1 : At(q) \notin {"nl", "end"}
  <1>. DEFINE S == {q \in p .. End : At(q) \in {"nl", "end"}}
  <1>1. S \in SUBSET Nat /\ End \in S
    BY AtFacts
  <1>2. Min(S) \in S /\ \A y \in S : Min(S) <= y
    <2>. HIDE DEF S
    <2>. QED  BY <1>1, MinOf
  <1>. DEFINE m == Min(S)
  <1>3. m \in p .. End /\ m \in Nat /\ \A q \in p .. m - 1 : q \in p .. End /\ q \notin S
    <2>. HIDE DEF m
    <2>1. m \in S /\ \A y \in S : m <= y
      BY <1>2 DEF m
    <2>. QED  BY <2>1, AtFacts
  <1>4. m = EndOfLine(p)
    BY DEF EndOfLine
  <1>. HIDE DEF m
  <1>. QED  BY <1>2, <1>3, <1>4 DEF m

\* No declaration, newline or comment is code, and none is what no pass knows.
LEMMA KindsApart ==
    /\ \A k \in Code : k \notin Declarations \cup Directives \cup Strays
                                \cup {"nl", "cmt", "junk", "stray", "sign", "end"}
    /\ \A k \in Strays : k \notin Declarations \cup Directives \cup {"nl", "cmt", "end"}
    /\ \A k \in Declarations : k \notin Directives \cup {"nl", "cmt", "stray", "sign", "end"}
    /\ \A k \in Directives : k \notin {"nl", "cmt", "stray", "sign", "end"}
  BY DEF Code, Declarations, Directives, Strays

\* An instruction or a directive stands on no declaration's line.
LEMMA OpenersOff ==
    ASSUME TextOK, NEW p \in 1 .. Len(text), At(p) \in Code \cup Directives
    PROVE  ~OnDeclaration(p)
  <1>. SUFFICES ASSUME NEW d \in 1 .. p, At(d) \in Declarations,
                       \A i \in d .. p : At(i) # "nl"
                PROVE  FALSE
    BY DEF OnDeclaration
  <1>1. p # d /\ Len(text) \in Nat /\ p \in Nat /\ d \in Nat
    BY KindsApart DEF TextOK
  <1>2. p > 1 /\ p - 1 \in d .. p /\ p - 1 \in 1 .. Len(text)
    BY <1>1
  <1>3. At(p) \notin {"nl", "cmt", "stray", "sign"}
    BY KindsApart
  <1>4. text[p].kind = At(p) /\ text[p - 1].kind = At(p - 1)
    BY <1>2, AtFacts
  <1>. QED  BY <1>2, <1>3, <1>4 DEF TextOK

\* No code lies from a to b - 1.
Clear(a, b) == \A q \in a .. b - 1 : At(q) \notin Code

LEMMA SkipDeclarationsFacts ==
    ASSUME TextOK, NEW p \in 1 .. End
    PROVE  /\ SkipDeclarations(p) \in p .. End
           /\ Clear(p, SkipDeclarations(p))
           /\ At(SkipDeclarations(p)) \notin Declarations
           /\ SkipDeclarations(p) # End => ~OnDeclaration(SkipDeclarations(p))
  <1>. DEFINE S == {q \in p .. End : q = End \/ (At(q) # "nl" /\ ~OnDeclaration(q))}
  <1>1. S \in SUBSET Nat /\ End \in S
    BY AtFacts
  <1>2. Min(S) \in S /\ \A y \in S : Min(S) <= y
    <2>. HIDE DEF S
    <2>. QED  BY <1>1, MinOf
  <1>. DEFINE m == Min(S)
  <1>3. m \in p .. End /\ m \in Nat /\ \A q \in p .. m - 1 : q \in p .. End /\ q \notin S
    <2>. HIDE DEF m
    <2>1. m \in S /\ \A y \in S : m <= y
      BY <1>2 DEF m
    <2>. QED  BY <2>1, AtFacts
  <1>4. m = SkipDeclarations(p)
    BY DEF SkipDeclarations
  <1>5. m = End \/ (At(m) # "nl" /\ ~OnDeclaration(m))
    BY <1>2
  <1>. HIDE DEF m
  <1>6. At(m) \notin Declarations
    <2>1. CASE m = End
      BY <2>1, AtFacts, KindsApart
    <2>2. CASE m # End
      <3>. SUFFICES ASSUME At(m) \in Declarations PROVE FALSE
        OBVIOUS
      <3>1. m \in 1 .. m /\ \A i \in m .. m : At(i) # "nl"
        BY <1>3, <1>5, <2>2
      <3>. QED  BY <1>5, <2>2, <3>1 DEF OnDeclaration
    <2>. QED  BY <2>1, <2>2
  <1>7. Clear(p, m)
    <2>. SUFFICES ASSUME NEW q \in p .. m - 1, At(q) \in Code PROVE FALSE
      BY DEF Clear
    <2>1. q \in p .. End /\ q # End /\ q \notin S /\ q \in 1 .. Len(text)
      BY <1>3, AtFacts
    <2>2. At(q) = "nl" \/ OnDeclaration(q)
      BY <2>1
    <2>. QED  BY <2>1, <2>2, OpenersOff, KindsApart
  <1>. QED  BY <1>3, <1>4, <1>5, <1>6, <1>7

LEMMA ClearNewlines ==
    ASSUME TextOK, NEW p \in 1 .. End
    PROVE  /\ SkipNewlines(p) \in p .. End /\ Clear(p, SkipNewlines(p))
           /\ At(SkipNewlines(p)) # "nl"
           /\ SkipComments(p) \in p .. End /\ Clear(p, SkipComments(p))
           /\ At(SkipComments(p)) \notin {"nl", "cmt"}
  <1>1. /\ SkipNewlines(p) \in p .. End /\ At(SkipNewlines(p)) \notin {"nl"}
        /\ \A q \in p .. SkipNewlines(p) - 1 : At(q) \in {"nl"}
    BY SkipAllFacts DEF SkipNewlines
  <1>2. /\ SkipComments(p) \in p .. End /\ At(SkipComments(p)) \notin {"nl", "cmt"}
        /\ \A q \in p .. SkipComments(p) - 1 : At(q) \in {"nl", "cmt"}
    BY SkipAllFacts DEF SkipComments
  <1>. QED  BY <1>1, <1>2, KindsApart DEF Clear

LEMMA ClearJoins ==
    ASSUME NEW a \in Nat, NEW b \in Nat, NEW c \in Nat, Clear(a, b), Clear(b, c)
    PROVE  Clear(a, c)
  <1>1. \A q \in a .. c - 1 : q \in a .. b - 1 \/ q \in b .. c - 1
    OBVIOUS
  <1>. QED  BY <1>1 DEF Clear

\* Looking for a token never moves over code, and where the text
\* seems to have run out there is none left.
LEMMA ApproachFacts ==
    ASSUME TextOK, NEW p \in 1 .. End
    PROVE  /\ Approach(p).at \in p .. End
           /\ Clear(p, Approach(p).at)
           /\ Approach(p).token \in {"eof", "blank", "none", "here"}
           /\ Approach(p).token = "eof" => Approach(p).at = End
           /\ Approach(p).token = "blank" => Clear(p, End)
           /\ Approach(p).token = "here" => Approach(p).at # End
  <1>. DEFINE q == SkipNewlines(p)
              Stp(at, token) == [at |-> at, token |-> token]
              Ends(at, found) == IF at = End THEN Stp(End, "eof") ELSE Stp(at, found)
  <1>1. /\ q \in p .. End /\ q \in 1 .. End /\ Clear(p, q) /\ At(q) # "nl"
        /\ p \in Nat /\ End \in Nat \ {0} /\ End = Len(text) + 1 /\ Len(text) \in Nat
    BY ClearNewlines, AtFacts
  <1>. HIDE DEF q
  <1>2. CASE p = End
    <2>1. Approach(p) = Stp(End, "eof")
      BY <1>2 DEF Approach
    <2>. QED  BY <1>1, <1>2, <2>1 DEF Clear
  <1>3. CASE p # End /\ q = End
    <2>1. Approach(p) = Stp(Len(text), "blank")
      BY <1>3 DEF Approach, q
    <2>2. Len(text) \in p .. End /\ Clear(p, Len(text))
      BY <1>1, <1>3 DEF Clear
    <2>. QED  BY <1>1, <1>3, <2>1, <2>2
  <1>4. CASE p # End /\ q # End /\ At(q) = "cmt"
    <2>1. Approach(p) = Ends(SkipComments(q), "none")
      BY <1>4 DEF Approach, q
    <2>2. SkipComments(q) \in p .. End /\ Clear(p, SkipComments(q))
      BY <1>1, ClearNewlines, ClearJoins
    <2>. QED  BY <2>1, <2>2
  <1>5. CASE p # End /\ q # End /\ At(q) \in Declarations
    <2>1. At(q) # "cmt"
      BY <1>5 DEF Declarations
    <2>2. SkipDeclarations(q) \in p .. End /\ Clear(p, SkipDeclarations(q))
      BY <1>1, SkipDeclarationsFacts, ClearJoins
    <2>3. CASE SkipDeclarations(q) = End /\ EndsInBlankLine
      <3>1. Approach(p) = Stp(Len(text), "blank")
        BY <1>5, <2>1, <2>3 DEF Approach, q
      <3>2. Len(text) \in p .. End
        BY <1>1, <1>5
      <3>3. Clear(p, Len(text))
        BY <1>1, <2>2, <2>3 DEF Clear
      <3>. QED  BY <2>2, <2>3, <3>1, <3>2, <3>3
    <2>4. CASE ~(SkipDeclarations(q) = End /\ EndsInBlankLine)
      <3>1. Approach(p) = Ends(SkipDeclarations(q), "here")
        BY <1>5, <2>1, <2>4 DEF Approach, q
      <3>. QED  BY <2>2, <3>1
    <2>. QED  BY <2>3, <2>4
  <1>6. CASE p # End /\ q # End /\ At(q) # "cmt" /\ At(q) \notin Declarations
    <2>1. Approach(p) = Stp(q, "here")
      BY <1>6 DEF Approach, q
    <2>. QED  BY <1>1, <1>6, <2>1
  <1>. QED  BY <1>2, <1>3, <1>4, <1>5, <1>6

\* One round of a pass stands at the next code or has none in front of it.
LEMMA FetchFacts ==
    ASSUME TextOK, NEW p \in 1 .. End
    PROVE  /\ Fetch(p).at \in p .. End
           /\ Clear(p, Fetch(p).at)
           /\ Fetch(p).token \in {"code", "directive", "none", "eof"}
           /\ Fetch(p).token = "eof" => Fetch(p).at = End
           /\ Fetch(p).token = "code" =>
                 Fetch(p).at \in 1 .. Len(text) /\ At(Fetch(p).at) \in Code
           /\ Fetch(p).token = "directive" =>
                 Fetch(p).at \in 1 .. Len(text) /\ At(Fetch(p).at) \notin Code
  <1>. DEFINE i == Approach(p)
              d == Approach(i.at)
              g == Approach(d.at)
              Found(kinds, a) == a.token = "here" /\ At(a.at) \in kinds
  <1>1. /\ i.at \in p .. End /\ Clear(p, i.at)
        /\ i.token = "eof" => i.at = End
        /\ i.token = "here" => i.at # End
    BY ApproachFacts
  <1>2. p \in Nat /\ End \in Nat \ {0} /\ i.at \in 1 .. End
    BY <1>1, AtFacts
  <1>3. /\ d.at \in i.at .. End /\ Clear(i.at, d.at)
        /\ d.token = "blank" => Clear(i.at, End)
    BY <1>2, ApproachFacts
  <1>4. d.at \in 1 .. End
    BY <1>2, <1>3
  <1>5. /\ g.at \in d.at .. End /\ Clear(d.at, g.at)
        /\ g.token \in {"eof", "blank", "none", "here"}
        /\ g.token = "eof" => g.at = End
        /\ g.token = "here" => g.at # End
        /\ g.token = "blank" => Clear(d.at, End)
    BY <1>4, ApproachFacts
  <1>. DEFINE f == Fetch(p)
  <1>6. f = IF i.token = "eof" THEN [at |-> End, token |-> "eof"]
            ELSE IF Found(Code, i) THEN [at |-> i.at, token |-> "code"]
            ELSE IF Found(Directives, g) /\ d.token # "eof"
            THEN [at |-> g.at, token |-> "directive"]
            ELSE IF g.token \in {"eof", "blank"} THEN [at |-> End, token |-> "eof"]
            ELSE [at |-> g.at, token |-> "none"]
    BY DEF Fetch
  <1>7. g.at \in p .. End /\ Clear(p, g.at)
    <2>1. Clear(p, d.at)
      BY <1>1, <1>2, <1>3, <1>4, ClearJoins
    <2>. QED  BY <1>1, <1>2, <1>3, <1>4, <1>5, <2>1, ClearJoins
  <1>8. g.token = "blank" => Clear(p, End)
    <2>1. Clear(p, d.at)
      BY <1>1, <1>2, <1>3, <1>4, ClearJoins
    <2>. QED  BY <1>2, <1>4, <1>5, <2>1, ClearJoins
  <1>9. \A r \in 1 .. End : r # End => r \in 1 .. Len(text)
    BY AtFacts
  <1>. HIDE DEF i, d, g, f
  <1>10. CASE i.token = "eof"
    <2>1. f = [at |-> End, token |-> "eof"]
      BY <1>6, <1>10
    <2>2. Clear(p, End)
      BY <1>1, <1>10
    <2>. QED  BY <1>2, <2>1, <2>2 DEF f
  <1>11. CASE i.token # "eof" /\ Found(Code, i)
    <2>1. f = [at |-> i.at, token |-> "code"]
      BY <1>6, <1>11
    <2>. QED  BY <1>1, <1>2, <1>9, <1>11, <2>1 DEF f
  <1>12. CASE i.token # "eof" /\ ~Found(Code, i) /\ Found(Directives, g) /\ d.token # "eof"
    <2>1. f = [at |-> g.at, token |-> "directive"]
      <3>. HIDE DEF Found
      <3>. QED  BY <1>6, <1>12
    <2>2. At(g.at) \notin Code
      BY <1>12, KindsApart
    <2>. QED  BY <1>2, <1>5, <1>7, <1>9, <1>12, <2>1, <2>2 DEF f
  <1>13. CASE /\ i.token # "eof" /\ ~Found(Code, i) /\ ~(Found(Directives, g) /\ d.token # "eof")
              /\ g.token \in {"eof", "blank"}
    <2>1. f = [at |-> End, token |-> "eof"]
      <3>. HIDE DEF Found
      <3>. QED  BY <1>6, <1>13
    <2>2. Clear(p, End)
      BY <1>5, <1>7, <1>8, <1>13
    <2>. QED  BY <1>2, <2>1, <2>2 DEF f
  <1>14. CASE /\ i.token # "eof" /\ ~Found(Code, i) /\ ~(Found(Directives, g) /\ d.token # "eof")
              /\ g.token \notin {"eof", "blank"}
    <2>1. f = [at |-> g.at, token |-> "none"]
      <3>. HIDE DEF Found
      <3>. QED  BY <1>6, <1>14
    <2>. QED  BY <1>7, <2>1 DEF f
  <1>. QED  BY <1>10, <1>11, <1>12, <1>13, <1>14

-----------------------------------------------------------------------------
(***************************************************************************)
(* The cursor stays inside the file.                                       *)
(***************************************************************************)
LEMMA StartFacts ==
    ASSUME TextOK
    PROVE  Start \in 1 .. End /\ Clear(1, Start)
  <1>1. CASE At(1) = "nl"
    <2>1. 1 # End /\ 1 \in 1 .. End
      BY <1>1, AtFacts
    <2>2. Clear(1, 2)
      BY <1>1, KindsApart DEF Clear
    <2>. QED  BY <1>1, <2>1, <2>2, AtFacts DEF Start
  <1>2. CASE At(1) # "nl"
    BY <1>2, AtFacts DEF Start, Clear
  <1>. QED  BY <1>1, <1>2

\* The lines of a file are counted upwards.
LEMMA LinesGrow ==
    ASSUME TextOK, NEW p \in 1 .. End, NEW q \in 1 .. End, p <= q
    PROVE  Line(p) \in Nat /\ Line(p) <= Line(q)
  <1>. DEFINE N == Len(text)
              Newlines(k) == {r \in 1 .. k - 1 : At(r) = "nl"}
              a == Min({p, N})
              b == Min({q, N})
  <1>1. N \in Nat /\ p \in Nat /\ q \in Nat /\ Start \in Nat
    BY AtFacts, StartFacts DEF TextOK
  <1>2. a \in Nat /\ b \in Nat /\ a <= b
    <2>. HIDE DEF N
    <2>1. a = (IF p <= N THEN p ELSE N) /\ b = (IF q <= N THEN q ELSE N)
      BY <1>1, MinMaxOfTwo
    <2>. QED  BY <1>1, <2>1
  <1>3. Line(p) = Start + Cardinality(Newlines(a)) /\ Line(q) = Start + Cardinality(Newlines(b))
    BY DEF Line
  <1>. HIDE DEF a, b
  <1>4. IsFiniteSet(1 .. a - 1) /\ IsFiniteSet(1 .. b - 1)
    BY <1>2, FS_Interval
  <1>5. /\ Newlines(a) \subseteq 1 .. a - 1 /\ Newlines(b) \subseteq 1 .. b - 1
        /\ Newlines(a) \subseteq Newlines(b)
    BY <1>2
  <1>. DEFINE S == Newlines(a)
              T == Newlines(b)
  <1>6. Line(p) = Start + Cardinality(S) /\ Line(q) = Start + Cardinality(T) /\ S \subseteq T
    BY <1>3, <1>5
  <1>7. IsFiniteSet(S) /\ IsFiniteSet(T)
    BY <1>4, <1>5, FS_Subset
  <1>. HIDE DEF S, T
  <1>8. Cardinality(S) \in Nat /\ Cardinality(T) \in Nat /\ Cardinality(S) <= Cardinality(T)
    BY <1>6, <1>7, FS_Subset, FS_CardinalityType
  <1>. QED  BY <1>1, <1>6, <1>8

\* A newline inside the text ends its line.
LEMMA NewlineCounts ==
    ASSUME TextOK, NEW p \in 1 .. End, NEW q \in 1 .. Len(text), p < q, At(q - 1) = "nl"
    PROVE  Line(p) < Line(q)
  <1>. DEFINE N == Len(text)
              S == {r \in 1 .. p - 1 : At(r) = "nl"}
              T == {r \in 1 .. q - 1 : At(r) = "nl"}
  <1>1. N \in Nat /\ p \in Nat /\ q \in Nat /\ Start \in Nat /\ p <= N /\ q <= N
    BY AtFacts, StartFacts DEF TextOK
  <1>2. Min({p, N}) = p /\ Min({q, N}) = q
    <2>. HIDE DEF N
    <2>. QED  BY <1>1, MinMaxOfTwo
  <1>3. Line(p) = Start + Cardinality(S) /\ Line(q) = Start + Cardinality(T)
    BY <1>2 DEF Line
  <1>4. IsFiniteSet(1 .. q - 1) /\ S \cup {q - 1} \subseteq T /\ q - 1 \notin S
        /\ T \subseteq 1 .. q - 1 /\ S \subseteq T
    <2>1. IsFiniteSet(1 .. q - 1)
      BY <1>1, FS_Interval
    <2>2. \A r \in 1 .. p - 1 : r \in 1 .. q - 1
      BY <1>1
    <2>3. q - 1 \in 1 .. q - 1 /\ q - 1 \notin 1 .. p - 1
      BY <1>1
    <2>. QED  BY <2>1, <2>2, <2>3
  <1>5. IsFiniteSet(T) /\ IsFiniteSet(S)
    BY <1>4, FS_Subset
  <1>. HIDE DEF S, T
  <1>6. Cardinality(S \cup {q - 1}) = Cardinality(S) + 1 /\ Cardinality(S) \in Nat
    BY <1>4, <1>5, FS_AddElement, FS_CardinalityType
  <1>7. Cardinality(S \cup {q - 1}) <= Cardinality(T) /\ Cardinality(T) \in Nat
    BY <1>4, <1>5, FS_Subset, FS_CardinalityType
  <1>. QED  BY <1>1, <1>3, <1>6, <1>7

LEMMA NextDeclarationFacts ==
    ASSUME TextOK, NEW p \in 1 .. End
    PROVE  /\ NextDeclaration(p) \in p .. End
           /\ NextDeclaration(p) # End =>
                 AfterDeclaration(NextDeclaration(p)) \in NextDeclaration(p) + 1 .. End
  <1>. DEFINE q == SkipNewlines(p)
  <1>1. q \in p .. End /\ p \in Nat /\ End \in Nat /\ End = Len(text) + 1
    BY ClearNewlines, AtFacts
  <1>2. NextDeclaration(p) \in p .. End
    <2>1. CASE At(q) \in {"end", "cmt"}
      <3>1. NextDeclaration(p) = End
        BY <2>1 DEF NextDeclaration, Declarations
      <3>. QED  BY <1>1, <3>1
    <2>2. CASE At(q) \in Declarations
      <3>1. NextDeclaration(p) = q
        BY <2>2 DEF NextDeclaration, Declarations
      <3>. QED  BY <1>1, <3>1
    <2>3. CASE At(q) \notin {"end", "cmt"} /\ At(q) \notin Declarations
      <3>. DEFINE S == DeclarationsAfter(q) \cup {End}
      <3>1. NextDeclaration(p) = Min(S)
        BY <2>3 DEF NextDeclaration
      <3>2. S \in SUBSET (q .. End) /\ S # {}
        BY <1>1 DEF DeclarationsAfter
      <3>. HIDE DEF S
      <3>3. S \in SUBSET Nat
        BY <1>1, <3>2
      <3>4. Min(S) \in S
        BY <3>2, <3>3, MinOf
      <3>5. Min(S) \in q .. End
        BY <3>2, <3>4
      <3>. HIDE DEF q
      <3>. QED  BY <1>1, <3>1, <3>5
    <2>. QED  BY <2>1, <2>2, <2>3
  <1>3. ASSUME NEW n \in 1 .. End, n # End
        PROVE  AfterDeclaration(n) \in n + 1 .. End
    <2>. DEFINE r == SkipNewlines(n + 1)
    <2>1. n + 1 \in 1 .. End /\ n \in Nat
      BY <1>1, <1>3
    <2>2. r \in n + 1 .. End
      BY <2>1, ClearNewlines
    <2>. HIDE DEF r
    <2>3. r \in 1 .. End
      BY <1>1, <2>1, <2>2
    <2>4. SkipComments(r) \in r .. End
      BY <2>3, ClearNewlines
    <2>5. AfterDeclaration(n) \in {r, SkipComments(r)}
      BY DEF AfterDeclaration, r
    <2>. QED  BY <1>1, <2>1, <2>2, <2>4, <2>5
  <1>4. NextDeclaration(p) \in 1 .. End
    BY <1>1, <1>2
  <1>. QED  BY <1>2, <1>3, <1>4

\* The text is one of the files considered and the cursor inside it.
InText == text \in Programs /\ position \in 1 .. End

\* Where pass 1 goes from a newline.
LEMMA NextTextFacts ==
    ASSUME InText, TextOK
    PROVE  /\ NextText \in position .. End
           /\ EndOfLine(NextText) \in NextText .. End
           /\ Clear(position, NextText)
  <1>. DEFINE q == NextLine
  <1>1. /\ q \in position .. End /\ Clear(position, q)
        /\ position \in Nat /\ End \in Nat
    BY ClearNewlines, AtFacts DEF InText, NextLine
  <1>2. q \in 1 .. End
    BY <1>1 DEF InText
  <1>3. SkipComments(q) \in q .. End /\ Clear(q, SkipComments(q))
    BY <1>2, ClearNewlines
  <1>. HIDE DEF q
  <1>4. SkipComments(q) \in position .. End /\ Clear(position, SkipComments(q))
    BY <1>1, <1>2, <1>3, ClearJoins
  <1>5. NextText \in {q, SkipComments(q)}
    BY DEF NextText, q
  <1>6. NextText \in position .. End /\ Clear(position, NextText)
    BY <1>1, <1>4, <1>5
  <1>7. NextText \in 1 .. End
    BY <1>1, <1>6 DEF InText
  <1>. QED  BY <1>6, <1>7, EndOfLineFacts

LEMMA StepInText ==
    ASSUME InText, TextOK, Next
    PROVE  /\ text' = text /\ End' = End
           /\ position' \in 1 .. End
  <1>0. /\ position \in 1 .. End /\ position \in Nat /\ End \in Nat
        /\ End = Len(text) + 1
    BY AtFacts DEF InText
  <1>1. text' = text /\ End' = End
    BY DEF Next, Step, OpenFile, DeclareVariable, DeclareSubset, DeclarationsEnd, KeepPass,
           StartPreprocessor, AssignMemAddress, AssignSpins, PassLine, Preprocess,
           AssigningEnds, Assigning, Emit, EmittingEnds, Emitting, Ended, vars, End
  <1>2. CASE OpenFile
    <2>1. position' = position \/ (phase = "open" /\ phase' = "declare" /\ position' = Start)
      BY <1>2 DEF OpenFile, Stop, Spin, Goto
    <2>. QED  BY <1>0, <1>1, <2>1, StartFacts
  <1>3. CASE DeclareVariable \/ DeclareSubset
    <2>1. /\ NextDeclaration(position) \in position .. End
          /\ AfterDeclaration(NextDeclaration(position))
                 \in NextDeclaration(position) + 1 .. End
      BY <1>0, <1>3, NextDeclarationFacts DEF DeclareVariable, DeclareSubset, Declaring
    <2>2. position' \in {position, AfterDeclaration(NextDeclaration(position))}
      BY <1>3 DEF DeclareVariable, DeclareSubset, Stop, Spin, Goto
    <2>. QED  BY <1>0, <1>1, <2>1, <2>2
  <1>4. CASE DeclarationsEnd \/ StartPreprocessor
    BY <1>0, <1>1, <1>4, StartFacts DEF DeclarationsEnd, StartPreprocessor, Goto
  <1>5. CASE AssignMemAddress \/ PassLine
    <2>1. position' \in {position, Start, NextText, EndOfLine(NextText)}
      BY <1>5 DEF AssignMemAddress, PassLine, Assigning, EndAssigning, Goto
    <2>. QED  BY <1>0, <1>1, <2>1, StartFacts, NextTextFacts
  <1>6. CASE AssignSpins \/ EmittingEnds \/ Ended
    BY <1>0, <1>1, <1>6 DEF AssignSpins, EmittingEnds, Ended, Spin, Stop, vars
  <1>7. CASE AssigningEnds
    BY <1>0, <1>1, <1>7, StartFacts DEF AssigningEnds, Assigning, EndAssigning, Goto
  <1>8. CASE Preprocess \/ Emit
    <2>. DEFINE f == Fetch(position)
    <2>1. /\ f.at \in position .. End
          /\ f.token \in {"code", "directive"} => f.at \in 1 .. Len(text)
      BY <1>0, FetchFacts
    <2>2. f.token \in {"code", "directive"} => f.at + 1 \in position .. End
      BY <1>0, <2>1
    <2>. HIDE DEF f
    <2>3. \/ position' \in {position, f.at, End}
          \/ f.token \in {"code", "directive"} /\ position' = f.at + 1
          \/ position' = Start
      <3>1. CASE Preprocess
        BY <3>1 DEF Preprocess, Assigning, EndAssigning, Goto, Stop, Move, Spin, Refuse, f
      <3>2. CASE Emit
        BY <3>2 DEF Emit, Goto, Stop, Move, Spin, Refuse, f
      <3>. QED  BY <1>8, <3>1, <3>2
    <2>. QED  BY <1>0, <1>1, <2>1, <2>2, <2>3, StartFacts
  <1>. QED  BY <1>2, <1>3, <1>4, <1>5, <1>6, <1>7, <1>8 DEF Next, Step

LEMMA InitInText == Init => InText
  <1>. SUFFICES ASSUME Init PROVE InText
    OBVIOUS
  <1>1. TextOK
    BY TextIsOK DEF Init
  <1>. QED  BY <1>1, AtFacts DEF Init, InText

LEMMA NextInText == InText /\ [Next]_vars => InText'
  <1>. SUFFICES ASSUME InText, [Next]_vars PROVE InText'
    OBVIOUS
  <1>1. CASE Next
    BY <1>1, StepInText, TextIsOK DEF InText
  <1>2. CASE UNCHANGED vars
    BY <1>2 DEF vars, InText, passVars, End
  <1>. QED  BY <1>1, <1>2

-----------------------------------------------------------------------------
(***************************************************************************)
(* What is emitted.                                                        *)
(***************************************************************************)
LEMMA RankFacts ==
    ASSUME NEW N \in Nat, NEW S \in SUBSET (1 .. N)
    PROVE  /\ IsFiniteSet(S) /\ Cardinality(S) \in Nat
           /\ \A p \in Nat : Rank(S, p) \in Nat /\ Rank(S, p) <= Cardinality(S)
           /\ \A p, q \in Nat : p <= q => Rank(S, p) <= Rank(S, q)
           /\ \A p \in S : Rank(S, p) = Rank(S, p - 1) + 1
  <1>1. \A T \in SUBSET S : IsFiniteSet(T) /\ Cardinality(T) \in Nat
    <2>1. IsFiniteSet(1 .. N)
      BY FS_Interval
    <2>. QED  BY <2>1, FS_Subset, FS_CardinalityType
  <1>2. \A T \in SUBSET S : \A U \in SUBSET T : Cardinality(U) <= Cardinality(T)
    BY <1>1, FS_Subset
  <1>0. \A r \in S : r \in Nat \ {0}
    OBVIOUS
  <1>3. ASSUME NEW p \in Nat, NEW q \in Nat, p <= q
        PROVE  {r \in S : r <= p} \subseteq {r \in S : r <= q}
    <2>1. \A r \in S : r <= p => r <= q
      BY <1>0, <1>3
    <2>. QED  BY <2>1
  <1>4. ASSUME NEW p \in S PROVE Rank(S, p) = Rank(S, p - 1) + 1
    <2>. DEFINE T == {r \in S : r <= p - 1}
    <2>1. {r \in S : r <= p} = T \cup {p} /\ p \notin T
      <3>1. \A r \in S : r <= p <=> r <= p - 1 \/ r = p
        BY <1>0
      <3>2. p \notin T
        BY <1>0
      <3>. QED  BY <3>1, <3>2
    <2>2. IsFiniteSet(T)
      BY <1>1
    <2>. HIDE DEF T
    <2>3. Cardinality(T \cup {p}) = Cardinality(T) + 1
      BY <2>1, <2>2, FS_AddElement
    <2>. QED  BY <2>1, <2>3 DEF Rank, T
  <1>. QED  BY <1>1, <1>2, <1>3, <1>4 DEF Rank

\* Two members of a set of positions have different ranks.
LEMMA RankApart ==
    ASSUME NEW N \in Nat, NEW S \in SUBSET (1 .. N), NEW p \in S, NEW q \in S,
           Rank(S, p) = Rank(S, q)
    PROVE  p = q
  <1>1. ASSUME NEW a \in S, NEW b \in S, a < b PROVE Rank(S, a) < Rank(S, b)
    <2>1. a \in Nat /\ b - 1 \in Nat /\ a <= b - 1
      BY <1>1
    <2>2. Rank(S, a) <= Rank(S, b - 1) /\ Rank(S, a) \in Nat /\ Rank(S, b - 1) \in Nat
      BY <2>1, RankFacts
    <2>3. Rank(S, b) = Rank(S, b - 1) + 1
      BY RankFacts
    <2>. QED  BY <2>2, <2>3
  <1>2. p \in Nat /\ q \in Nat
    OBVIOUS
  <1>3. Rank(S, p) \in Nat
    BY <1>2, RankFacts
  <1>. QED  BY <1>1, <1>2, <1>3

\* Where no code lies no rank grows.
LEMMA RankClear ==
    ASSUME NEW S, \A q \in S : q \in Nat /\ At(q) \in Code,
           NEW a \in Nat \ {0}, NEW b \in Nat, a <= b, Clear(a, b)
    PROVE  Rank(S, b - 1) = Rank(S, a - 1)
  <1>1. {q \in S : q <= b - 1} = {q \in S : q <= a - 1}
    BY DEF Clear
  <1>. QED  BY <1>1 DEF Rank

LEMMA MovsAreCode ==
    ASSUME TextOK
    PROVE  /\ Movs \in SUBSET (1 .. Len(text))
           /\ \A q \in Movs : q \in Nat /\ At(q) \in Code
  BY DEF Movs, Assembles, Code, TextOK

\* Before pass 2 nothing is written; in it, one instruction for each that the
\* cursor has passed.
EmitInv ==
    /\ InText
    /\ bin_data \in Seq(Int \X Int)
    /\ phase \in {"open", "declare", "scan", "assign"} => bin_data = <<>>
    /\ phase = "emit" => Len(bin_data) = Rank(Movs, position - 1)
    /\ EmittedInOrder

LEMMA InitEmit == Init => EmitInv
  <1>. SUFFICES ASSUME Init PROVE EmitInv
    OBVIOUS
  <1>1. InText /\ TextOK /\ bin_data = <<>> /\ phase = "open"
    BY InitInText, TextIsOK DEF Init
  <1>2. /\ Movs \in SUBSET (1 .. Len(text)) /\ Len(text) \in Nat
        /\ Cardinality(Movs) \in Nat
        /\ \A p \in Movs : Rank(Movs, p) = Rank(Movs, p - 1) + 1 /\ Rank(Movs, p - 1) \in Nat
    <2>1. Movs \in SUBSET (1 .. Len(text)) /\ Len(text) \in Nat
      BY <1>1, MovsAreCode DEF TextOK
    <2>2. \A p \in Movs : p - 1 \in Nat
      BY <2>1
    <2>. QED  BY <2>1, <2>2, RankFacts
  <1>3. EmittedInOrder
    BY <1>1, <1>2 DEF EmittedInOrder
  <1>. QED  BY <1>1, <1>3 DEF EmitInv

\* Steps that write nothing: the cursor may pass what is not assembled.
\* What it says of the next state.
LEMMA EmittedNext ==
    EmittedInOrder' <=>
        /\ Len(bin_data') <= Cardinality(Movs')
        /\ \A p \in Movs' : Rank(Movs', p) <= Len(bin_data') =>
              \E opcode \in Opcodes(text'[p].reg) :
                  bin_data'[Rank(Movs', p)] = Encoded(opcode, text'[p])
  BY DEF EmittedInOrder, Rank, Encoded, Opcodes

LEMMA EmitStutters ==
    ASSUME EmitInv, InText', text' = text, bin_data' = bin_data,
           phase' \in {"open", "declare", "scan", "assign"} =>
               phase \in {"open", "declare", "scan", "assign"},
           phase' = "emit" => Rank(Movs, position' - 1) = Len(bin_data)
    PROVE  EmitInv'
  <1>1. Movs' = Movs
    BY DEF Movs, Assembles, At, End
  <1>2. \A p : text'[p] = text[p]
    OBVIOUS
  <1>3. EmittedInOrder'
    <2>1. EmittedInOrder
      BY DEF EmitInv
    <2>. QED  BY <1>1, <1>2, <2>1, EmittedNext DEF EmittedInOrder
  <1>4. phase' = "emit" => Len(bin_data') = Rank(Movs', position' - 1)
    BY <1>1
  <1>. QED  BY <1>3, <1>4 DEF EmitInv

\* An instruction written is the next one of the file.
LEMMA EmitWrites ==
    ASSUME EmitInv, InText', text' = text, phase = "emit", phase' = "emit",
           NEW p \in Movs, Clear(position, p), position <= p, position' = p + 1,
           NEW opcode \in Opcodes(text[p].reg),
           bin_data' = Append(bin_data, Encoded(opcode, text[p]))
    PROVE  EmitInv'
  <1>. DEFINE n == Len(bin_data)
  <1>1. /\ TextOK /\ Len(text) \in Nat
        /\ Movs \in SUBSET (1 .. Len(text)) /\ \A q \in Movs : q \in Nat /\ At(q) \in Code
        /\ position \in Nat \ {0} /\ p \in Nat
    <2>1. TextOK
      BY TextIsOK DEF EmitInv, InText
    <2>2. position \in Nat \ {0}
      BY <2>1, AtFacts DEF EmitInv, InText
    <2>. QED  BY <2>1, <2>2, MovsAreCode DEF TextOK
  <1>2. Movs' = Movs
    BY DEF Movs, Assembles, At, End
  <1>3. bin_data \in Seq(Int \X Int) /\ n \in Nat /\ n = Rank(Movs, position - 1)
    BY DEF EmitInv
  <1>4. Encoded(opcode, text[p]) \in Int \X Int
    <2>1. text[p].value \in Nat
      <3>1. p \in 1 .. Len(text) /\ Assembles(p) /\ At(p) = text[p].kind
        BY <1>1, AtFacts DEF Movs
      <3>. QED  BY <1>1, <3>1 DEF TextOK, Assembles
    <2>2. opcode \in Int
      BY DEF Opcodes
    <2>. QED  BY <2>1, <2>2, WidthAssumption DEF Encoded
  <1>5. /\ bin_data' \in Seq(Int \X Int) /\ Len(bin_data') = n + 1
        /\ bin_data'[n + 1] = Encoded(opcode, text[p])
        /\ \A i \in 1 .. n : bin_data'[i] = bin_data[i]
    BY <1>3, <1>4
  <1>6. Rank(Movs, p) = n + 1 /\ Rank(Movs, p) <= Cardinality(Movs)
    <2>1. Rank(Movs, p - 1) = Rank(Movs, position - 1)
      BY <1>1, RankClear
    <2>2. Rank(Movs, p) = Rank(Movs, p - 1) + 1 /\ Rank(Movs, p) <= Cardinality(Movs)
      BY <1>1, RankFacts
    <2>. QED  BY <1>3, <2>1, <2>2
  <1>7. EmittedInOrder'
    <2>1. Len(bin_data') <= Cardinality(Movs')
      BY <1>2, <1>5, <1>6
    <2>2. ASSUME NEW q \in Movs, Rank(Movs, q) <= n + 1
          PROVE  \E o \in Opcodes(text[q].reg) :
                     bin_data'[Rank(Movs, q)] = Encoded(o, text[q])
      <3>1. CASE Rank(Movs, q) = n + 1
        <4>1. q = p
          BY <1>1, <1>6, <3>1, RankApart
        <4>. QED  BY <1>5, <3>1, <4>1
      <3>2. CASE Rank(Movs, q) # n + 1
        <4>1. Rank(Movs, q) \in Nat /\ Rank(Movs, q) = Rank(Movs, q - 1) + 1
              /\ Rank(Movs, q - 1) \in Nat
          <5>1. q \in Nat /\ q - 1 \in Nat
            BY <1>1
          <5>. QED  BY <1>1, <5>1, RankFacts
        <4>2. Rank(Movs, q) \in 1 .. n
          BY <1>3, <2>2, <3>2, <4>1
        <4>3. \E o \in Opcodes(text[q].reg) : bin_data[Rank(Movs, q)] = Encoded(o, text[q])
          BY <4>2 DEF EmitInv, EmittedInOrder
        <4>. QED  BY <1>5, <4>2, <4>3
      <3>. QED  BY <3>1, <3>2
    <2>. QED  BY <1>2, <1>5, <2>1, <2>2, EmittedNext
  <1>8. Len(bin_data') = Rank(Movs', position' - 1)
    <2>1. position' - 1 = p
      BY <1>1
    <2>. QED  BY <1>2, <1>5, <1>6, <2>1
  <1>. QED  BY <1>5, <1>7, <1>8 DEF EmitInv

\* A round of pass 2.
LEMMA EmitStep ==
    ASSUME EmitInv, TextOK, Emit, InText'
    PROVE  EmitInv'
  <1>. DEFINE f == Fetch(position)
  <1>1. /\ phase = "emit" /\ text' = text
        /\ position \in 1 .. End /\ position \in Nat \ {0} /\ End \in Nat
        /\ End = Len(text) + 1
    BY AtFacts DEF Emit, Emitting, EmitInv, InText
  <1>2. /\ f.at \in position .. End /\ Clear(position, f.at)
        /\ f.token = "code" => f.at \in 1 .. Len(text)
        /\ f.token = "directive" => f.at \in 1 .. Len(text) /\ At(f.at) \notin Code
    BY <1>1, FetchFacts
  <1>3. /\ Movs \in SUBSET (1 .. Len(text))
        /\ \A q \in Movs : q \in Nat /\ At(q) \in Code
    BY MovsAreCode
  <1>4. Rank(Movs, position - 1) = Len(bin_data)
    BY <1>1 DEF EmitInv
  <1>5. \/ /\ f.token = "code" /\ Assembles(f.at)
           /\ \E opcode \in Opcodes(text[f.at].reg) :
                 bin_data' = Append(bin_data, Encoded(opcode, text[f.at]))
           /\ Goto("emit", f.at + 1)
        \/ bin_data' = bin_data /\ phase' \in {"stopped", "spinning"}
        \/ f.token = "code" /\ Nothing(f.at) /\ bin_data' = bin_data /\ Goto("emit", End)
        \/ f.token = "directive" /\ bin_data' = bin_data /\ Goto("emit", f.at + 1)
        \/ bin_data' = bin_data /\ Goto("emit", f.at)
    BY <1>1 DEF Emit, Emitting, Stop, Move, Spin, Refuse, Goto
  <1>6. CASE /\ f.token = "code" /\ Assembles(f.at)
             /\ \E opcode \in Opcodes(text[f.at].reg) :
                   bin_data' = Append(bin_data, Encoded(opcode, text[f.at]))
             /\ Goto("emit", f.at + 1)
    <2>1. f.at \in Movs /\ position <= f.at
      BY <1>1, <1>2, <1>6 DEF Movs
    <2>. HIDE DEF f
    <2>. QED  BY <1>1, <1>2, <1>6, <2>1, EmitWrites DEF Goto
  <1>7. CASE bin_data' = bin_data /\ phase' \in {"stopped", "spinning"}
    BY <1>1, <1>7, EmitStutters
  <1>8. CASE f.token = "code" /\ Nothing(f.at) /\ bin_data' = bin_data /\ Goto("emit", End)
    <2>1. f.at = Len(text) /\ f.at \notin Movs
      BY <1>8, AtFacts DEF Nothing, Movs, Assembles
    <2>2. Clear(position, Len(text)) /\ position <= Len(text)
      BY <1>1, <1>2, <1>8, <2>1
    <2>3. {q \in Movs : q <= End - 1} = {q \in Movs : q <= position - 1}
      <3>1. ASSUME NEW q \in Movs PROVE q <= End - 1 <=> q <= position - 1
        <4>1. q \in Nat /\ q # Len(text) /\ At(q) \in Code
          BY <1>3, <2>1
        <4>2. ~(q \in position .. Len(text) - 1)
          BY <2>2, <4>1 DEF Clear
        <4>. QED  BY <1>1, <2>2, <4>1, <4>2
      <3>. QED  BY <3>1
    <2>. QED  BY <1>1, <1>4, <1>8, <2>3, EmitStutters DEF Goto, Rank
  <1>9. CASE f.token = "directive" /\ bin_data' = bin_data /\ Goto("emit", f.at + 1)
    <2>1. f.at \in Nat /\ position <= f.at /\ f.at \notin Movs /\ position' = f.at + 1
      BY <1>1, <1>2, <1>3, <1>9 DEF Goto
    <2>. HIDE DEF f
    <2>2. {q \in Movs : q <= position' - 1} = {q \in Movs : q <= position - 1}
      <3>1. ASSUME NEW q \in Movs PROVE q <= position' - 1 <=> q <= position - 1
        <4>1. q \in Nat /\ q # f.at /\ At(q) \in Code
          BY <1>3, <2>1
        <4>2. ~(q \in position .. f.at - 1)
          BY <1>2, <4>1 DEF Clear
        <4>. QED  BY <1>1, <2>1, <4>1, <4>2
      <3>. QED  BY <3>1
    <2>. QED  BY <1>1, <1>4, <1>9, <2>2, EmitStutters DEF Goto, Rank
  <1>10. CASE bin_data' = bin_data /\ Goto("emit", f.at)
    <2>1. f.at \in Nat /\ position <= f.at
      BY <1>1, <1>2
    <2>. HIDE DEF f
    <2>2. Rank(Movs, f.at - 1) = Rank(Movs, position - 1)
      BY <1>1, <1>2, <1>3, <2>1, RankClear
    <2>. QED  BY <1>1, <1>4, <1>10, <2>2, EmitStutters DEF Goto
  <1>. HIDE DEF f
  <1>. QED  BY <1>5, <1>6, <1>7, <1>8, <1>9, <1>10

LEMMA NextEmit == EmitInv /\ [Next]_vars => EmitInv'
  <1>. SUFFICES ASSUME EmitInv, [Next]_vars PROVE EmitInv'
    OBVIOUS
  <1>1. InText /\ InText' /\ TextOK
    BY NextInText, TextIsOK DEF EmitInv, InText
  <1>2. CASE Emit
    BY <1>1, <1>2, EmitStep
  <1>3. CASE UNCHANGED vars
    <2>1. text' = text /\ bin_data' = bin_data /\ phase' = phase /\ position' = position
      BY <1>3 DEF vars, passVars
    <2>. QED  BY <1>1, <2>1, EmitStutters DEF EmitInv
  <1>4. CASE EmittingEnds
    BY <1>1, <1>4, EmitStutters DEF EmittingEnds, Emitting, Stop
  <1>5. CASE Step /\ ~Emit /\ ~EmittingEnds
    <2>1. /\ text' = text /\ bin_data' = bin_data
          /\ phase \in {"open", "declare", "scan", "assign"}
          /\ phase' = "emit" => position' = Start
      BY <1>5 DEF Step, OpenFile, DeclareVariable, DeclareSubset, DeclarationsEnd, Declaring,
             KeepPass, passVars, StartPreprocessor, AssignMemAddress, AssignSpins, PassLine,
             Preprocess, AssigningEnds, Assigning, EndAssigning, Refuse, Goto, Stop, Spin, Move
    <2>2. Rank(Movs, Start - 1) = Rank(Movs, 0)
      <3>1. Clear(1, Start) /\ Start \in Nat /\ 1 <= Start
        BY <1>1, StartFacts, AtFacts
      <3>2. Rank(Movs, Start - 1) = Rank(Movs, 1 - 1)
        BY <1>1, <3>1, MovsAreCode, RankClear
      <3>. QED  BY <3>2
    <2>3. Rank(Movs, 0) = 0
      <3>1. {q \in Movs : q <= 0} = {}
        BY <1>1, MovsAreCode
      <3>. QED  BY <3>1, FS_EmptySet DEF Rank
    <2>4. Len(bin_data) = 0
      BY <2>1 DEF EmitInv
    <2>. QED  BY <1>1, <2>1, <2>2, <2>3, <2>4, EmitStutters
  <1>. QED  BY <1>2, <1>3, <1>4, <1>5 DEF Next, Ended

\* Whatever the file and however long, test.bin holds the encodings of its
\* instructions from the first one on, none missing and none twice.
THEOREM EmitsInOrder == Spec => []EmittedInOrder
  <1>1. EmitInv => EmittedInOrder
    BY DEF EmitInv
  <1>. QED  BY <1>1, InitEmit, NextEmit, PTL DEF Spec
-----------------------------------------------------------------------------
(***************************************************************************)
(* The two passes read the same instructions: what pass 1 counts is what   *)
(* pass 2 emits; how a run ends; and that what is refused is refused       *)
(* before a byte is written.                                               *)
(***************************************************************************)
\* The instructions pass 1 counts, among all of the file.
Counted == {p \in 1 .. Len(text) : At(p) \in Code /\ At(p) # "store" /\ ~Refused(p)}
Instructions == {p \in 1 .. Len(text) : At(p) \in Code}

\* The counter after n of them.
Full(n) == IF n = 0 THEN 0 ELSE 1 + 3 * n

\* No instruction but those of S stands before position p.
Only(S, p) == \A q \in Instructions : q < p => q \in S

\* The instructions before the last line and on it.
Inner == {q \in Instructions : Line(q) # max_line}
OnLast == {q \in 1 .. Len(text) : At(q) \in Code /\ Line(q) = max_line}
OnlyInner(S, p) == \A q \in Inner : q < p => q \in S
Past(p) == \A q \in Inner : q < p

\* Each pass has read up to some place from which the last line is left at most.
CountInv ==
    /\ EmitInv
    /\ outcome # "none" => phase = "stopped"
    /\ phase \in {"open", "declare", "scan"} =>
           program_counter = 1 /\ counters = 0 /\ ~has_code
    /\ phase = "assign" =>
           /\ program_counter = 1 + 3 * Rank(Counted, position - 1)
           /\ counters = Full(Rank(Counted, position - 1))
           /\ Only(Counted, position)
           /\ has_code
    /\ phase = "emit" \/ outcome = "assembled" =>
           \/ ~has_code /\ ~HasCode /\ counters = 0
           \/ \E a \in 1 .. End :
                 /\ has_code /\ counters = Full(Rank(Counted, a - 1))
                 /\ Only(Counted, a) /\ Past(a)
    /\ phase = "emit" => OnlyInner(Movs, position)
    /\ outcome = "assembled" =>
           /\ OnlyInner(Movs, position) /\ Past(position)
           /\ Len(bin_data) = Rank(Movs, position - 1)

LEMMA SetsOfCode ==
    ASSUME TextOK
    PROVE  /\ Len(text) \in Nat
           /\ Counted \in SUBSET (1 .. Len(text)) /\ Counted \subseteq Instructions
           /\ Movs \in SUBSET (1 .. Len(text)) /\ Movs \subseteq Counted
           /\ Instructions \in SUBSET (1 .. Len(text))
           /\ \A q \in Instructions : q \in Nat /\ At(q) \in Code
  <1>1. Movs \subseteq Counted
    BY MovsAreCode DEF Movs, Counted, Assembles, Refused, Code
  <1>. QED  BY <1>1, MovsAreCode DEF Counted, Instructions, TextOK

\* Behind a position on the last line stands nothing of another line.
LEMMA LastLineLeft ==
    ASSUME TextOK, NEW n \in 1 .. End, NEW a \in Nat, Clear(a, n),
           n = End \/ Line(n) = max_line
    PROVE  Past(a)
  <1>. SUFFICES ASSUME NEW q \in Inner, ~(q < a) PROVE FALSE
    BY DEF Past
  <1>1. /\ q \in Nat /\ n \in Nat /\ q \in 1 .. End /\ End \in 1 .. End /\ q < End
        /\ End \in Nat /\ At(q) \in Code /\ Line(q) # max_line
    BY SetsOfCode, AtFacts DEF Inner
  <1>2. ~(q < n)
    BY <1>1 DEF Clear
  <1>3. Line(n) = max_line /\ n <= q
    BY <1>1, <1>2
  <1>4. Line(n) <= Line(q) /\ Line(n) \in Nat
    BY <1>1, <1>3, LinesGrow
  <1>5. Line(q) <= Line(End) /\ Line(q) \in Nat
    BY <1>1, LinesGrow
  <1>. QED  BY <1>1, <1>3, <1>4, <1>5 DEF max_line

\* The last item is on the last line.
LEMMA LastLineCounts ==
    ASSUME TextOK, Len(text) > 0
    PROVE  Line(Len(text)) = max_line
  <1>1. Len(text) \in Nat /\ End = Len(text) + 1
    BY AtFacts DEF TextOK
  <1>2. Min({Len(text), Len(text)}) = Len(text) /\ Min({End, Len(text)}) = Len(text)
    <2>. DEFINE N == Len(text)
    <2>. HIDE DEF N
    <2>1. N \in Nat /\ N + 1 \in Nat /\ ~(N + 1 <= N) /\ N <= N /\ End = N + 1
      BY <1>1 DEF N
    <2>. QED  BY <2>1, MinMaxOfTwo DEF N
  <1>. QED  BY <1>2 DEF Line, max_line

\* The last line of a file that ends in a blank line is its last newline.
LEMMA LastLine ==
    ASSUME TextOK, EndsInBlankLine, NEW p \in 1 .. End, Line(p) = max_line
    PROVE  p >= Len(text)
  <1>. SUFFICES ASSUME p < Len(text) PROVE FALSE
    BY AtFacts DEF TextOK
  <1>1. /\ Len(text) \in Nat /\ Len(text) \in 1 .. Len(text) /\ End = Len(text) + 1
        /\ At(Len(text) - 1) = "nl" /\ Len(text) \in 1 .. End /\ End \in 1 .. End
    BY AtFacts DEF EndsInBlankLine, TextOK
  <1>2. Line(p) < Line(Len(text))
    BY <1>1, NewlineCounts
  <1>3. Line(Len(text)) <= Line(End) /\ Line(Len(text)) \in Nat /\ Line(p) \in Nat
    BY <1>1, LinesGrow
  <1>. QED  BY <1>2, <1>3 DEF max_line

\* An instruction opens its line, so one stands on the last line at most.
LEMMA OneOnLast ==
    ASSUME TextOK
    PROVE  /\ OnLast \in SUBSET Instructions /\ Inner \in SUBSET Instructions
           /\ \A p, q \in OnLast : p = q
  <1>1. ASSUME NEW p \in OnLast, NEW q \in OnLast, p < q PROVE FALSE
    <2>1. /\ p \in 1 .. End /\ q \in 1 .. Len(text) /\ q > 1 /\ Len(text) \in Nat
          /\ q - 1 \in 1 .. Len(text) /\ Line(p) = Line(q) /\ At(q) \in Code
      BY <1>1, AtFacts DEF OnLast
    <2>2. text[q].kind = At(q) /\ text[q - 1].kind = At(q - 1)
      BY <2>1, AtFacts
    <2>3. At(q) \notin {"nl", "cmt", "stray", "sign"}
      BY <2>1, KindsApart
    <2>4. At(q - 1) = "nl"
      BY <2>1, <2>2, <2>3 DEF TextOK
    <2>5. Line(p) < Line(q)
      BY <1>1, <2>1, <2>4, NewlineCounts
    <2>6. Line(p) \in Nat /\ Line(q) \in Nat
      BY <2>1, AtFacts, LinesGrow
    <2>. QED  BY <2>1, <2>5, <2>6
  <1>2. \A p \in OnLast : p \in Nat /\ p \in Instructions
    BY DEF OnLast, Instructions
  <1>. QED  BY <1>1, <1>2 DEF Inner

\* Of a pass that has left at most the last line: how many instructions it took.
LEMMA AllButLast ==
    ASSUME TextOK, NEW S \in SUBSET Instructions, NEW a \in Nat \ {0},
           OnlyInner(S, a), Past(a)
    PROVE  /\ Inner \subseteq S
           /\ Rank(S, a - 1) \in {Cardinality(Inner), Cardinality(Inner) + Cardinality(OnLast)}
  <1>. DEFINE T == {q \in S : q <= a - 1}
  <1>1. Len(text) \in Nat /\ Instructions \in SUBSET (1 .. Len(text))
        /\ \A q \in Instructions : q \in Nat
    BY SetsOfCode
  <1>2. Inner \subseteq S
    BY DEF OnlyInner, Past
  <1>3. Inner \subseteq T
    <2>1. ASSUME NEW q \in Inner PROVE q \in S /\ q <= a - 1
      <3>1. q \in S /\ q \in Nat /\ q < a
        BY <1>1, <1>2 DEF Past, Inner
      <3>. QED  BY <3>1
    <2>. QED  BY <2>1
  <1>4. T \subseteq Inner \cup OnLast
    BY <1>1 DEF Inner, OnLast, Instructions
  <1>5. IsFiniteSet(Inner) /\ Cardinality(Inner) \in Nat
    <2>1. IsFiniteSet(1 .. Len(text))
      BY <1>1, FS_Interval
    <2>2. Inner \subseteq 1 .. Len(text)
      BY <1>1 DEF Inner
    <2>. QED  BY <2>1, <2>2, FS_Subset, FS_CardinalityType
  <1>6. Rank(S, a - 1) = Cardinality(T)
    BY DEF Rank
  <1>. HIDE DEF T
  <1>7. CASE T = Inner
    BY <1>2, <1>6, <1>7
  <1>8. CASE T # Inner
    <2>1. PICK q \in T : q \notin Inner
      BY <1>3, <1>8
    <2>2. q \in OnLast
      BY <1>4, <2>1
    <2>3. OnLast = {q}
      BY <2>2, OneOnLast
    <2>4. T = Inner \cup {q}
      BY <1>3, <1>4, <2>1, <2>3
    <2>5. Cardinality(T) = Cardinality(Inner) + 1
      BY <1>5, <2>1, <2>4, FS_AddElement
    <2>6. Cardinality(OnLast) = 1
      BY <2>3, FS_Singleton
    <2>. QED  BY <1>2, <1>6, <2>5, <2>6
  <1>. QED  BY <1>7, <1>8

\* Moving over what is no instruction keeps what is known of those before.
LEMMA OnlyMoves ==
    ASSUME TextOK, NEW S, S \subseteq Instructions, NEW a \in Nat \ {0}, NEW b \in Nat, a <= b,
           Clear(a, b), Only(S, a)
    PROVE  Only(S, b) /\ Rank(S, b - 1) = Rank(S, a - 1)
  <1>1. \A q \in S : q \in Nat /\ At(q) \in Code
    BY SetsOfCode
  <1>2. Rank(S, b - 1) = Rank(S, a - 1)
    BY <1>1, RankClear
  <1>3. \A q \in Instructions : q < b => q < a
    BY SetsOfCode DEF Clear
  <1>. QED  BY <1>2, <1>3 DEF Only

\* Behind a declaration its line holds comments only.
LEMMA DeclarationLineClear ==
    ASSUME TextOK, InText, AtDeclaration
    PROVE  Clear(NextText, EndOfLine(NextText))
  <1>. DEFINE n == NextText  e == EndOfLine(NextText)
  <1>1. At(n) \in {"var", "sub"}
    BY DEF AtDeclaration
  <1>2. /\ n \in position .. End /\ position \in Nat \ {0} /\ End \in Nat
        /\ e \in n .. End /\ End = Len(text) + 1
    BY NextTextFacts, AtFacts DEF InText
  <1>3. \A q \in n .. e - 1 : At(q) \notin {"nl", "end"}
    BY <1>2, EndOfLineFacts DEF InText
  <1>. SUFFICES ASSUME NEW q \in n .. e - 1, At(q) \in Code PROVE FALSE
    BY DEF Clear
  <1>. HIDE DEF n, e
  <1>4. q # n
    BY <1>1, KindsApart DEF Declarations
  <1>5. q \in 1 .. Len(text) /\ q > 1 /\ q - 1 \in n .. e - 1 /\ q - 1 \in 1 .. Len(text)
    BY <1>2, <1>4
  <1>6. At(q - 1) = "nl"
    <2>1. text[q].kind \notin {"nl", "cmt", "stray", "sign"}
      BY <1>5, AtFacts, KindsApart
    <2>. QED  BY <1>5, <2>1, AtFacts DEF TextOK
  <1>. QED  BY <1>3, <1>5, <1>6

-----------------------------------------------------------------------------
LEMMA SameText ==
    ASSUME text' = text
    PROVE  /\ Movs' = Movs /\ Counted' = Counted /\ Instructions' = Instructions
           /\ End' = End /\ HasCode' = HasCode /\ Inner' = Inner
  BY DEF Movs, Counted, Instructions, Assembles, Refused, At, End, HasCode, EndsInLetter,
         Start, Inner, Line, max_line

\* A pass starts with no instruction behind it.
LEMMA AtStart ==
    ASSUME TextOK, NEW S, S \subseteq Instructions
    PROVE  Only(S, Start) /\ Rank(S, Start - 1) = 0
  <1>1. Clear(1, Start) /\ Start \in Nat /\ 1 <= Start
    BY StartFacts, AtFacts
  <1>2. Only(S, 1)
    BY SetsOfCode DEF Only, Instructions
  <1>3. Only(S, Start) /\ Rank(S, Start - 1) = Rank(S, 1 - 1)
    BY <1>1, <1>2, OnlyMoves
  <1>4. {q \in S : q <= 1 - 1} = {}
    BY SetsOfCode
  <1>. QED  BY <1>3, <1>4, FS_EmptySet DEF Rank

LEMMA InitCount == Init => CountInv
  BY InitEmit DEF Init, CountInv

\* A run that ends otherwise than by assembling promises nothing more.
LEMMA RunStops ==
    ASSUME CountInv, EmitInv', phase' \in {"stopped", "spinning", "undefined"},
           outcome' # "assembled", outcome' # "none" => phase' = "stopped"
    PROVE  CountInv'
  BY DEF CountInv

\* What pass 1 and what follows it know is kept by a step that does nothing.
LEMMA CountStutters ==
    ASSUME CountInv, EmitInv', UNCHANGED vars
    PROVE  CountInv'
  <1>1. /\ UNCHANGED <<text, phase, outcome, position, program_counter, counters,
                       has_code, bin_data>>
    BY DEF vars, passVars
  <1>2. /\ Movs' = Movs /\ Counted' = Counted /\ Instructions' = Instructions
        /\ End' = End /\ HasCode' = HasCode /\ Inner' = Inner
    BY <1>1, SameText
  <1>3. /\ \A a : /\ Rank(Counted, a)' = Rank(Counted, a') /\ Rank(Movs, a)' = Rank(Movs, a')
                  /\ Only(Counted, a)' = Only(Counted, a') /\ Past(a)' = Past(a')
                  /\ OnlyInner(Movs, a)' = OnlyInner(Movs, a')
    BY <1>1, <1>2 DEF Rank, Only, Past, OnlyInner
  <1>. QED  BY <1>1, <1>2, <1>3 DEF CountInv

LEMMA EarlySteps ==
    ASSUME CountInv, EmitInv', TextOK,
           OpenFile \/ DeclareVariable \/ DeclareSubset \/ DeclarationsEnd
    PROVE  CountInv'
  <1>1. /\ phase \in {"open", "declare"}
        /\ UNCHANGED <<program_counter, counters, has_code>>
        /\ \/ phase' \in {"declare", "scan"} /\ outcome' = outcome
           \/ phase' \in {"spinning", "undefined"} /\ outcome' = outcome
           \/ phase' = "stopped" /\ outcome' # "assembled"
    BY DEF OpenFile, DeclareVariable, DeclareSubset, DeclarationsEnd, Declaring, KeepPass,
           passVars, Goto, Stop, Spin
  <1>2. outcome = "none" /\ program_counter = 1 /\ counters = 0 /\ ~has_code
    BY <1>1 DEF CountInv
  <1>3. CASE phase' \in {"declare", "scan"} /\ outcome' = outcome
    BY <1>1, <1>2, <1>3 DEF CountInv
  <1>4. CASE phase' \in {"spinning", "undefined"} /\ outcome' = outcome
    BY <1>2, <1>4, RunStops
  <1>5. CASE phase' = "stopped" /\ outcome' # "assembled"
    BY <1>5, RunStops
  <1>. QED  BY <1>1, <1>3, <1>4, <1>5

LEMMA StartStep ==
    ASSUME CountInv, EmitInv', TextOK, StartPreprocessor
    PROVE  CountInv'
  <1>1. /\ phase = "scan" /\ text' = text /\ outcome' = outcome /\ position' = Start
        /\ counters' = counters /\ has_code' = HasCode
        /\ HasCode => phase' = "assign" /\ program_counter' = program_counter
        /\ ~HasCode => phase' = "emit"
    BY DEF StartPreprocessor, Goto
  <1>2. outcome = "none" /\ program_counter = 1 /\ counters = 0
    BY <1>1 DEF CountInv
  <1>3. /\ Only(Counted, Start) /\ Rank(Counted, Start - 1) = 0
        /\ Only(Movs, Start)
    BY SetsOfCode, AtStart
  <1>4. CASE HasCode
    <2>1. Rank(Counted, position' - 1) = 0
      BY <1>1, <1>3
    <2>2. Rank(Counted', position' - 1) = 0 /\ Only(Counted, position)'
      BY <1>1, <1>3, <2>1, SameText DEF Only
    <2>3. counters' = Full(0) /\ program_counter' = 1 + 3 * 0
      BY <1>1, <1>2, <1>4 DEF Full
    <2>. QED  BY <1>1, <1>2, <1>4, <2>2, <2>3 DEF CountInv, Full, Rank
  <1>5. CASE ~HasCode
    <2>1. OnlyInner(Movs, position)'
      BY <1>1, <1>3, SameText DEF Only, OnlyInner, Inner
    <2>2. ~has_code' /\ ~HasCode' /\ counters' = 0
      BY <1>1, <1>2, <1>5, SameText
    <2>. QED  BY <1>1, <1>2, <1>5, <2>1, <2>2 DEF CountInv
  <1>. QED  BY <1>4, <1>5

-----------------------------------------------------------------------------
(***************************************************************************)
(* Pass 1.                                                                 *)
(***************************************************************************)
LEMMA AssignMoves ==
    ASSUME CountInv, EmitInv', TextOK, InText, phase = "assign", phase' = "assign",
           UNCHANGED <<text, outcome, program_counter, counters, has_code>>,
           position' \in Nat, position <= position', Clear(position, position')
    PROVE  CountInv'
  <1>1. position \in Nat \ {0}
    BY AtFacts DEF InText
  <1>2. /\ Only(Counted, position')
        /\ Rank(Counted, position' - 1) = Rank(Counted, position - 1)
    BY <1>1, SetsOfCode, OnlyMoves DEF CountInv
  <1>3. Only(Counted, position)'
    BY <1>2, SameText DEF Only
  <1>4. Rank(Counted', position' - 1) = Rank(Counted, position - 1)
    BY <1>2, SameText
  <1>. QED  BY <1>3, <1>4 DEF CountInv, Full, Rank

LEMMA AssignEnds ==
    ASSUME CountInv, EmitInv', TextOK, InText, phase = "assign", EndAssigning,
           UNCHANGED <<text, counters, has_code>>, Past(position)
    PROVE  CountInv'
  <1>1. /\ position \in Nat \ {0} /\ phase' = "emit" /\ position' = Start
        /\ outcome' = "none" /\ position \in 1 .. End
    BY AtFacts DEF InText, EndAssigning, Goto, CountInv
  <1>2. Only(Movs, Start)
    BY SetsOfCode, AtStart
  <1>3. OnlyInner(Movs, position)'
    BY <1>1, <1>2, SameText DEF Only, OnlyInner, Inner
  <1>4. /\ has_code /\ counters = Full(Rank(Counted, position - 1))
        /\ Only(Counted, position) /\ Past(position)
    BY DEF CountInv
  <1>5. \E a \in 1 .. End' :
           /\ has_code' /\ counters' = Full(Rank(Counted', a - 1))
           /\ Only(Counted, a)' /\ Past(a)'
    <2>1. PICK a \in 1 .. End : a = position
      BY <1>1
    <2>2. /\ has_code' /\ counters' = Full(Rank(Counted, a - 1))
          /\ Only(Counted, a)' /\ Past(a)'
      BY <1>4, <2>1, SameText DEF Only, Past
    <2>. QED  BY <2>2, SameText
  <1>. QED  BY <1>1, <1>3, <1>5 DEF CountInv, Full, Rank

\* An instruction counted: one for the mnemonic and two for its operands.
LEMMA AssignCounts ==
    ASSUME CountInv, EmitInv', TextOK, InText, phase = "assign", phase' = "assign",
           UNCHANGED <<text, outcome, has_code>>,
           program_counter' = program_counter + 3, counters' = program_counter',
           NEW p \in Counted, position <= p, Clear(position, p), position' = p + 1
    PROVE  CountInv'
  <1>1. /\ position \in Nat \ {0} /\ p \in Nat /\ p \in 1 .. Len(text)
        /\ Len(text) \in Nat /\ Counted \in SUBSET (1 .. Len(text))
    BY AtFacts, SetsOfCode DEF InText
  <1>2. Only(Counted, p) /\ Rank(Counted, p - 1) = Rank(Counted, position - 1)
    BY <1>1, SetsOfCode, OnlyMoves DEF CountInv
  <1>3. Rank(Counted, p) = Rank(Counted, position - 1) + 1
    BY <1>1, <1>2, RankFacts
  <1>4. Rank(Counted, position - 1) \in Nat
    <2>1. position - 1 \in Nat
      BY <1>1
    <2>. QED  BY <1>1, <2>1, RankFacts
  <1>5. Only(Counted, position)'
    <2>1. Only(Counted, p + 1)
      BY <1>1, <1>2, SetsOfCode DEF Only
    <2>. QED  BY <2>1, SameText DEF Only
  <1>6. Rank(Counted', position' - 1) = Rank(Counted, position - 1) + 1
    <2>1. position' - 1 = p
      BY <1>1
    <2>. QED  BY <1>3, <2>1, SameText
  <1>7. /\ program_counter' = 1 + 3 * Rank(Counted', position' - 1)
        /\ counters' = Full(Rank(Counted', position' - 1))
    <2>. DEFINE r == Rank(Counted, position - 1)
    <2>1. program_counter = 1 + 3 * r
      BY DEF CountInv
    <2>. HIDE DEF r
    <2>2. program_counter' = 1 + 3 * (r + 1) /\ counters' = Full(r + 1)
      BY <1>4, <2>1 DEF Full, r
    <2>. QED  BY <1>6, <2>2 DEF r
  <1>. QED  BY <1>5, <1>7 DEF CountInv, Full, Rank

\* A line passed, with or without a declaration placed.
LEMMA AssignLine ==
    ASSUME CountInv, EmitInv', TextOK, InText, AssignMemAddress \/ PassLine
    PROVE  CountInv'
  <1>. DEFINE e == EndOfLine(NextText)
  <1>1. /\ phase = "assign" /\ outcome = "none" /\ position \in Nat \ {0} /\ End \in Nat
        /\ UNCHANGED <<text, counters, has_code>>
        /\ position \in 1 .. End /\ End = Len(text) + 1
    BY AtFacts DEF AssignMemAddress, PassLine, Assigning, CountInv, InText
  <1>2. /\ NextText \in position .. End /\ Clear(position, NextText)
        /\ e \in NextText .. End
    BY NextTextFacts
  <1>3. NextText \in 1 .. End /\ NextText \in Nat
    BY <1>1, <1>2
  <1>4. CASE AssignMemAddress
    <2>1. /\ AtDeclaration
          /\ \/ Goto("undefined", position)
             \/ Line(e) = max_line /\ EndAssigning
             \/ Goto("assign", e) /\ program_counter' = program_counter
      BY <1>4 DEF AssignMemAddress
    <2>2. e \in Nat /\ e \in 1 .. End /\ position <= e /\ Clear(position, e)
      <3>1. Clear(NextText, e)
        BY <2>1, DeclarationLineClear
      <3>. HIDE DEF e
      <3>2. e \in Nat /\ e \in 1 .. End /\ position <= e
        BY <1>1, <1>2, <1>3
      <3>. QED  BY <1>1, <1>2, <1>3, <3>1, <3>2, ClearJoins
    <2>. HIDE DEF e
    <2>3. CASE Goto("undefined", position)
      BY <1>1, <2>3, RunStops DEF Goto
    <2>4. CASE Line(e) = max_line /\ EndAssigning
      <3>1. Past(position)
        BY <1>1, <2>2, <2>4, LastLineLeft
      <3>. QED  BY <1>1, <2>4, <3>1, AssignEnds
    <2>5. CASE Goto("assign", e) /\ program_counter' = program_counter
      BY <1>1, <2>2, <2>5, AssignMoves DEF Goto
    <2>. QED  BY <2>1, <2>3, <2>4, <2>5
  <1>5. CASE PassLine
    <2>1. \/ /\ NextText = End \/ Line(NextText) = max_line
             /\ EndAssigning
          \/ Goto("assign", NextText) /\ program_counter' = program_counter
      BY <1>5 DEF PassLine
    <2>2. CASE (NextText = End \/ Line(NextText) = max_line) /\ EndAssigning
      <3>1. Past(position)
        BY <1>1, <1>2, <1>3, <2>2, LastLineLeft
      <3>. QED  BY <1>1, <2>2, <3>1, AssignEnds
    <2>3. CASE Goto("assign", NextText) /\ program_counter' = program_counter
      BY <1>1, <1>2, <1>3, <2>3, AssignMoves DEF Goto
    <2>. QED  BY <2>1, <2>2, <2>3
  <1>. QED  BY <1>4, <1>5

LEMMA PreprocessStep ==
    ASSUME CountInv, EmitInv', TextOK, InText, Preprocess
    PROVE  CountInv'
  <1>. DEFINE f == Fetch(position)
  <1>1. /\ phase = "assign" /\ outcome = "none" /\ position \in Nat \ {0}
        /\ position \in 1 .. End /\ End = Len(text) + 1 /\ End \in Nat
        /\ UNCHANGED <<text, has_code>>
    BY AtFacts DEF Preprocess, Assigning, CountInv, InText
  <1>2. /\ f.at \in position .. End /\ Clear(position, f.at)
        /\ f.token = "eof" => f.at = End
        /\ f.token = "code" => f.at \in 1 .. Len(text) /\ At(f.at) \in Code
        /\ f.token = "directive" => f.at \in 1 .. Len(text) /\ At(f.at) \notin Code
    BY <1>1, FetchFacts
  <1>3. \/ /\ f.token = "code" /\ At(f.at) # "store" /\ ~Refused(f.at)
           /\ program_counter' = program_counter + 3 /\ counters' = program_counter'
           /\ Goto("assign", f.at + 1)
        \/ phase' = "stopped" /\ outcome' # "assembled"
        \/ phase' = "spinning" /\ outcome' = outcome
        \/ /\ f.token = "directive" /\ Goto("assign", f.at + 1)
           /\ UNCHANGED <<program_counter, counters>>
        \/ Goto("assign", f.at) /\ UNCHANGED <<program_counter, counters>>
        \/ f.token = "eof" /\ EndAssigning /\ UNCHANGED counters
    BY <1>1 DEF Preprocess, Assigning, Stop, StoreEnds, Refuse, Move, Spin, Goto
  <1>4. f.at \in Nat /\ position <= f.at
    BY <1>1, <1>2
  <1>. HIDE DEF f
  <1>5. CASE /\ f.token = "code" /\ At(f.at) # "store" /\ ~Refused(f.at)
             /\ program_counter' = program_counter + 3 /\ counters' = program_counter'
             /\ Goto("assign", f.at + 1)
    <2>1. f.at \in Counted
      BY <1>2, <1>5 DEF Counted
    <2>. QED  BY <1>1, <1>2, <1>4, <1>5, <2>1, AssignCounts DEF Goto
  <1>6. CASE phase' = "stopped" /\ outcome' # "assembled"
    BY <1>6, RunStops
  <1>7. CASE phase' = "spinning" /\ outcome' = outcome
    BY <1>1, <1>7, RunStops
  <1>8. CASE /\ f.token = "directive" /\ Goto("assign", f.at + 1)
             /\ UNCHANGED <<program_counter, counters>>
    <2>1. Clear(position, f.at + 1)
      BY <1>1, <1>2, <1>4, <1>8 DEF Clear
    <2>2. f.at + 1 \in Nat /\ position <= f.at + 1
      BY <1>1, <1>4
    <2>. QED  BY <1>1, <1>8, <2>1, <2>2, AssignMoves DEF Goto
  <1>9. CASE Goto("assign", f.at) /\ UNCHANGED <<program_counter, counters>>
    BY <1>1, <1>2, <1>4, <1>9, AssignMoves DEF Goto
  <1>10. CASE f.token = "eof" /\ EndAssigning /\ UNCHANGED counters
    <2>1. Clear(position, End) /\ End \in 1 .. End /\ position \in Nat
      BY <1>1, <1>2, <1>10, AtFacts
    <2>2. Past(position)
      BY <2>1, LastLineLeft
    <2>. QED  BY <1>1, <1>10, <2>2, AssignEnds
  <1>. QED  BY <1>3, <1>5, <1>6, <1>7, <1>8, <1>9, <1>10

LEMMA AssigningEndsStep ==
    ASSUME CountInv, EmitInv', TextOK, InText, AssigningEnds
    PROVE  CountInv'
  <1>1. /\ phase = "assign" /\ EndAssigning /\ UNCHANGED <<text, counters, has_code>>
        /\ position >= Len(text)
    BY DEF AssigningEnds, Assigning
  <1>2. /\ position \in Nat /\ position \in 1 .. End /\ End \in 1 .. End /\ End \in Nat
        /\ Len(text) \in Nat /\ End = Len(text) + 1 /\ At(position) \in {"nl", "end"}
    BY <1>1, AtFacts DEF InText, AssigningEnds
  <1>3. Clear(position, End)
    BY <1>1, <1>2, KindsApart DEF Clear
  <1>4. Past(position)
    BY <1>2, <1>3, LastLineLeft
  <1>. QED  BY <1>1, <1>4, AssignEnds

-----------------------------------------------------------------------------
(***************************************************************************)
(* Pass 2.                                                                 *)
(***************************************************************************)
\* What pass 1 has left stays what it was.
LEMMA CountedKept ==
    ASSUME CountInv, TextOK, phase = "emit", UNCHANGED <<text, counters, has_code>>
    PROVE  \/ ~has_code' /\ ~HasCode' /\ counters' = 0
           \/ \E a \in 1 .. End' :
                 /\ has_code' /\ counters' = Full(Rank(Counted', a - 1))
                 /\ Only(Counted, a)' /\ Past(a)'
  <1>1. CASE ~has_code /\ ~HasCode /\ counters = 0
    BY <1>1, SameText
  <1>2. CASE \E a \in 1 .. End : /\ has_code /\ counters = Full(Rank(Counted, a - 1))
                                  /\ Only(Counted, a) /\ Past(a)
    <2>1. PICK a \in 1 .. End : /\ has_code /\ counters = Full(Rank(Counted, a - 1))
                                /\ Only(Counted, a) /\ Past(a)
      BY <1>2
    <2>2. Only(Counted, a)' /\ Past(a)' /\ has_code' /\ counters' = Full(Rank(Counted', a - 1))
      BY <2>1, SameText DEF Only, Past
    <2>. QED  BY <2>2, SameText
  <1>. QED  BY <1>1, <1>2 DEF CountInv

LEMMA Assembled ==
    ASSUME CountInv, EmitInv', TextOK, InText, phase = "emit",
           phase' = "stopped", outcome' = "assembled",
           UNCHANGED <<text, position, counters, has_code, bin_data>>, Past(position)
    PROVE  CountInv'
  <1>1. OnlyInner(Movs, position)' /\ Past(position)'
    BY SameText DEF CountInv, OnlyInner, Past
  <1>2. Len(bin_data') = Rank(Movs', position' - 1)
    BY SameText DEF CountInv, EmitInv
  <1>. QED  BY <1>1, <1>2, CountedKept DEF CountInv, Full, Rank

\* Pass 2 goes on behind instructions that are assembled and what is none.
LEMMA EmitMoves ==
    ASSUME CountInv, EmitInv', TextOK, InText, phase = "emit", phase' = "emit",
           UNCHANGED <<text, outcome, counters, has_code>>, OnlyInner(Movs, position')
    PROVE  CountInv'
  <1>1. OnlyInner(Movs, position)'
    BY SameText DEF OnlyInner
  <1>2. outcome' = "none"
    BY DEF CountInv
  <1>. QED  BY <1>1, <1>2, CountedKept DEF CountInv, Full, Rank

LEMMA EmitCountStep ==
    ASSUME CountInv, EmitInv', TextOK, InText, Emit
    PROVE  CountInv'
  <1>. DEFINE f == Fetch(position)
  <1>1. /\ phase = "emit" /\ outcome = "none" /\ position \in Nat \ {0}
        /\ position \in 1 .. End /\ End = Len(text) + 1 /\ End \in Nat
        /\ UNCHANGED <<text, counters, has_code>>
    BY AtFacts DEF Emit, Emitting, CountInv, InText
  <1>2. /\ f.at \in position .. End /\ Clear(position, f.at)
        /\ f.token = "eof" => f.at = End
        /\ f.token = "code" => f.at \in 1 .. Len(text) /\ At(f.at) \in Code
        /\ f.token = "directive" => f.at \in 1 .. Len(text) /\ At(f.at) \notin Code
    BY <1>1, FetchFacts
  <1>3. \/ f.token = "code" /\ Assembles(f.at) /\ Goto("emit", f.at + 1)
        \/ f.token = "eof" /\ Stop("assembled") /\ bin_data' = bin_data
        \/ phase' = "stopped" /\ outcome' # "assembled"
        \/ phase' = "spinning" /\ outcome' = outcome
        \/ f.token = "code" /\ Nothing(f.at) /\ Goto("emit", End)
        \/ f.token = "directive" /\ Goto("emit", f.at + 1)
        \/ Goto("emit", f.at)
    BY <1>1 DEF Emit, Emitting, Stop, Move, Spin, Refuse, Goto
  <1>4. f.at \in Nat /\ position <= f.at
    BY <1>1, <1>2
  <1>5. OnlyInner(Movs, f.at)
    BY <1>1, <1>2 DEF CountInv, OnlyInner, Inner, Instructions, Clear
  <1>. HIDE DEF f
  <1>6. CASE f.token = "code" /\ Assembles(f.at) /\ Goto("emit", f.at + 1)
    <2>1. f.at \in Movs
      BY <1>2, <1>6 DEF Movs
    <2>2. OnlyInner(Movs, f.at + 1)
      BY <1>4, <1>5, <2>1, SetsOfCode DEF OnlyInner, Inner
    <2>. QED  BY <1>1, <1>6, <2>2, EmitMoves DEF Goto
  <1>7. CASE f.token = "eof" /\ Stop("assembled") /\ bin_data' = bin_data
    <2>1. Clear(position, End) /\ End \in 1 .. End /\ position \in Nat
      BY <1>1, <1>2, <1>7, AtFacts
    <2>2. Past(position)
      BY <2>1, LastLineLeft
    <2>. QED  BY <1>1, <1>7, <2>2, Assembled DEF Stop
  <1>8. CASE phase' = "stopped" /\ outcome' # "assembled"
    BY <1>8, RunStops
  <1>9. CASE phase' = "spinning" /\ outcome' = outcome
    BY <1>1, <1>9, RunStops
  <1>10. CASE f.token = "code" /\ Nothing(f.at) /\ Goto("emit", End)
    <2>1. f.at = Len(text) /\ f.at \in 1 .. End /\ f.at \in Nat
      BY <1>1, <1>2, <1>10 DEF Nothing
    <2>2. Line(f.at) = max_line
      BY <1>1, <1>2, <2>1, LastLineCounts
    <2>3. Past(f.at)
      <3>1. Clear(f.at, f.at)
        BY <2>1 DEF Clear
      <3>. QED  BY <2>1, <2>2, <3>1, LastLineLeft
    <2>4. OnlyInner(Movs, End)
      BY <1>5, <2>3 DEF OnlyInner, Past
    <2>. QED  BY <1>1, <1>10, <2>4, EmitMoves DEF Goto
  <1>11. CASE f.token = "directive" /\ Goto("emit", f.at + 1)
    <2>1. f.at \notin Instructions
      BY <1>2, <1>11, SetsOfCode
    <2>2. OnlyInner(Movs, f.at + 1)
      BY <1>4, <1>5, <2>1, SetsOfCode DEF OnlyInner, Inner
    <2>. QED  BY <1>1, <1>11, <2>2, EmitMoves DEF Goto
  <1>12. CASE Goto("emit", f.at)
    BY <1>1, <1>5, <1>12, EmitMoves DEF Goto
  <1>. QED  BY <1>3, <1>6, <1>7, <1>8, <1>9, <1>10, <1>11, <1>12

LEMMA EmittingEndsStep ==
    ASSUME CountInv, EmitInv', TextOK, InText, EmittingEnds
    PROVE  CountInv'
  <1>1. /\ phase = "emit" /\ phase' = "stopped" /\ outcome' = "assembled"
        /\ UNCHANGED <<text, position, counters, has_code, bin_data>>
        /\ Line(position) = max_line
    BY DEF EmittingEnds, Emitting, Stop
  <1>2. position \in Nat /\ position \in 1 .. End
    BY AtFacts DEF InText
  <1>3. Clear(position, position)
    BY <1>2 DEF Clear
  <1>4. Past(position)
    BY <1>1, <1>2, <1>3, LastLineLeft
  <1>. QED  BY <1>1, <1>4, Assembled

LEMMA NextCount == CountInv /\ [Next]_vars => CountInv'
  <1>. SUFFICES ASSUME CountInv, [Next]_vars PROVE CountInv'
    OBVIOUS
  <1>1. EmitInv' /\ InText /\ TextOK
    BY NextEmit, TextIsOK DEF CountInv, EmitInv, InText
  <1>2. CASE OpenFile \/ DeclareVariable \/ DeclareSubset \/ DeclarationsEnd
    BY <1>1, <1>2, EarlySteps
  <1>3. CASE StartPreprocessor
    BY <1>1, <1>3, StartStep
  <1>4. CASE AssignMemAddress \/ PassLine
    BY <1>1, <1>4, AssignLine
  <1>5. CASE AssignSpins
    <2>1. phase = "assign" /\ phase' = "spinning" /\ outcome' = outcome
      BY <1>5 DEF AssignSpins, Assigning, Spin
    <2>. QED  BY <1>1, <2>1, RunStops DEF CountInv
  <1>6. CASE Preprocess
    BY <1>1, <1>6, PreprocessStep
  <1>7. CASE AssigningEnds
    BY <1>1, <1>7, AssigningEndsStep
  <1>8. CASE Emit
    BY <1>1, <1>8, EmitCountStep
  <1>9. CASE EmittingEnds
    BY <1>1, <1>9, EmittingEndsStep
  <1>10. CASE Ended \/ UNCHANGED vars
    BY <1>1, <1>10, CountStutters DEF Ended
  <1>. QED  BY <1>2, <1>3, <1>4, <1>5, <1>6, <1>7, <1>8, <1>9, <1>10 DEF Next, Step

\* Where no code is seen an instruction can only open the file.
LEMMA NoCodeSeen ==
    ASSUME TextOK, ~HasCode
    PROVE  Cardinality(Movs) <= 1
  <1>1. Start \in 1 .. End /\ Start \in {1, 2} /\ (Start = 2 => At(1) = "nl")
        /\ Len(text) \in Nat /\ End = Len(text) + 1
    BY StartFacts, AtFacts DEF Start
  <1>2. ASSUME NEW q \in Movs PROVE q = Start
    <2>1. q \in 1 .. Len(text) /\ At(q) \in Code /\ q \in Nat
      BY <1>2, MovsAreCode
    <2>2. CASE q > Start
      <3>1. q - 1 \in Start .. Len(text) - 1 /\ q > 1 /\ q - 1 \in 1 .. Len(text)
        BY <1>1, <2>1, <2>2
      <3>2. text[q].kind = At(q) /\ text[q - 1].kind = At(q - 1)
            /\ At(q) \notin {"nl", "cmt", "stray", "sign"}
        BY <2>1, <3>1, AtFacts, KindsApart
      <3>3. At(q - 1) = "nl" /\ At((q - 1) + 1) \in Code
        BY <2>1, <3>1, <3>2 DEF TextOK
      <3>. QED  BY <3>1, <3>3 DEF HasCode
    <2>3. CASE q < Start
      <3>1. q = 1 /\ At(1) = "nl"
        BY <1>1, <2>1, <2>3
      <3>. QED  BY <2>1, <3>1, KindsApart
    <2>. QED  BY <1>1, <2>1, <2>2, <2>3
  <1>3. CASE Movs = {}
    <2>1. Cardinality(Movs) = 0
      BY <1>3, FS_EmptySet
    <2>. QED  BY <2>1
  <1>4. CASE Movs = {Start}
    <2>1. Cardinality(Movs) = 1
      <3>. DEFINE x == Start
      <3>. HIDE DEF x
      <3>1. Cardinality({x}) = 1
        BY FS_Singleton
      <3>. QED  BY <1>4, <3>1 DEF x
    <2>. QED  BY <2>1
  <1>5. Movs = {} \/ Movs = {Start}
    BY <1>2
  <1>. QED  BY <1>3, <1>4, <1>5

\* In a file of any length that is assembled to its end, whatever it is, pass 1
\* has counted three bytes and pass 2 has written two for every instruction
\* before the last line and at most one more; where no code was seen pass 1 has
\* counted nothing.
THEOREM SameInstructions == Spec => []PassesAgree
  <1>1. ASSUME CountInv, outcome = "assembled" PROVE PassesAgree
    <2>. DEFINE before == Cardinality(Inner)
                last == Cardinality(OnLast)
    <2>1. /\ TextOK /\ position \in 1 .. End /\ End \in Nat
          /\ bin_data \in Seq(Int \X Int) /\ EmittedInOrder
      BY <1>1, TextIsOK, AtFacts DEF CountInv, EmitInv, InText
    <2>2. Movs \in SUBSET Instructions /\ Counted \in SUBSET Instructions
      BY <2>1, SetsOfCode
    <2>3. Inner \subseteq Movs /\ Len(bin_data) \in {before, before + last}
      BY <1>1, <2>1, <2>2, AllButLast DEF CountInv
    <2>4. {p \in Movs : Line(p) # max_line} = Inner
      BY <2>2, <2>3 DEF Inner
    <2>5. \A i \in DOMAIN bin_data : Len(bin_data[i]) = 2
      <3>. SUFFICES ASSUME NEW i \in DOMAIN bin_data PROVE Len(bin_data[i]) = 2
        OBVIOUS
      <3>1. bin_data[i] \in Int \X Int
        BY <2>1
      <3>2. PICK x \in Int, y \in Int : bin_data[i] = <<x, y>>
        BY <3>1
      <3>. QED  BY <3>2
    <2>6. CASE ~has_code /\ ~HasCode /\ counters = 0
      <3>1. Len(bin_data) <= 1
        <4>1. Cardinality(Movs) <= 1 /\ Cardinality(Movs) \in Nat /\ Len(bin_data) \in Nat
          <5>1. Len(text) \in Nat /\ Movs \in SUBSET (1 .. Len(text))
            BY <2>1, MovsAreCode DEF TextOK
          <5>2. Cardinality(Movs) \in Nat
            BY <5>1, RankFacts
          <5>. QED  BY <2>1, <2>6, <5>2, NoCodeSeen
        <4>. QED  BY <2>1, <4>1 DEF EmittedInOrder
      <3>. QED  BY <2>3, <2>4, <2>5, <2>6, <3>1 DEF PassesAgree, OnLast
    <2>7. CASE \E a \in 1 .. End : /\ has_code /\ counters = Full(Rank(Counted, a - 1))
                                    /\ Only(Counted, a) /\ Past(a)
      <3>1. PICK a \in 1 .. End : /\ has_code /\ counters = Full(Rank(Counted, a - 1))
                                  /\ Only(Counted, a) /\ Past(a)
        BY <2>7
      <3>2. OnlyInner(Counted, a) /\ a \in Nat \ {0}
        BY <2>1, <3>1 DEF Only, OnlyInner, Inner
      <3>3. Rank(Counted, a - 1) \in {before, before + last}
        BY <2>1, <2>2, <3>1, <3>2, AllButLast
      <3>4. \E n \in {before, before + last} : counters = IF n = 0 THEN 0 ELSE 1 + 3 * n
        BY <3>1, <3>3 DEF Full
      <3>. QED  BY <2>3, <2>4, <2>5, <3>1, <3>4 DEF PassesAgree, OnLast
    <2>. QED  BY <1>1, <2>6, <2>7 DEF CountInv
  <1>2. CountInv => PassesAgree
    BY <1>1 DEF PassesAgree
  <1>. QED  BY <1>2, InitCount, NextCount, PTL DEF Spec

-----------------------------------------------------------------------------
(***************************************************************************)
(* How a run over a file of any length ends: a well-formed file is         *)
(* assembled to its last instruction, and a run hangs in three places at   *)
(* most.  First: a well-formed file is not refused.                        *)
(***************************************************************************)
\* A file with nothing in it that ends a run early.
Plain ==
    /\ EndsInBlankLine /\ At(1) = "use16"
    /\ \A p \in 2 .. Len(text) :
          /\ At(p) \in {"org", "nl", "mov", "var", "sub", "cmt"}
          /\ At(p) = "org" => p = 3
          /\ At(p) = "var" => text[p].value # "over"
          /\ At(p) = "sub" => text[p].value = "hex"

PlainInv ==
    /\ CountInv
    /\ Plain => outcome \in {"none", "assembled"}
    /\ Plain /\ phase = "stopped" => outcome = "assembled"

LEMMA WellFormedIsPlain ==
    ASSUME WellFormed, \A p \in 1 .. Len(text) : At(p) # "load", TextOK
    PROVE  Plain
  <1>1. /\ EndsInBlankLine /\ At(1) = "use16"
        /\ \A p \in 2 .. Len(text) :
              /\ At(p) \in {"org", "nl", "mov", "load", "var", "sub", "cmt"}
              /\ At(p) = "org" => p = 3
              /\ At(p) = "var" => text[p].value # "over"
              /\ At(p) = "sub" => text[p].value = "hex"
    BY DEF WellFormed, Ordinary
  <1>2. \A p \in 2 .. Len(text) : p \in 1 .. Len(text)
    BY DEF TextOK
  <1>. QED  BY <1>1, <1>2 DEF Plain

\* The items of such a file.
LEMMA PlainFacts ==
    ASSUME TextOK, Plain
    PROVE  /\ Len(text) \in Nat /\ Len(text) > 1
           /\ \A p \in 1 .. Len(text) : At(p) \in {"org", "nl", "mov", "var", "sub", "cmt", "use16"}
  <1>1. Len(text) \in Nat /\ Len(text) > 1
    BY DEF Plain, EndsInBlankLine, TextOK
  <1>2. \A p \in 1 .. Len(text) : p = 1 \/ p \in 2 .. Len(text)
    BY <1>1
  <1>. QED  BY <1>1, <1>2 DEF Plain

\* It begins as the header should.
LEMMA HeaderOpens ==
    ASSUME TextOK, Len(text) > 1, At(1) = "use16",
           \A p \in 2 .. Len(text) :
              /\ At(p) \in {"org", "nl", "mov", "load", "var", "sub", "cmt"}
              /\ At(p) = "org" => p = 3
    PROVE  ~UnwantedValue /\ ~DirectiveMisplaced /\ Start = 1
  <1>1. /\ Len(text) \in Nat /\ Len(text) > 1 /\ At(1) = "use16"
        /\ \A p \in 2 .. Len(text) :
              /\ At(p) \in {"org", "nl", "mov", "load", "var", "sub", "cmt"}
              /\ At(p) = "org" => p = 3
    BY DEF TextOK
  <1>2. ~UnwantedValue
    BY <1>1 DEF UnwantedValue
  <1>3. Start = 1
    BY <1>1 DEF Start
  <1>4. Line(1) = 1
    <2>1. Min({1, Len(text)}) = 1
      BY <1>1, MinOf
    <2>2. {q \in 1 .. 1 - 1 : At(q) = "nl"} = {}
      OBVIOUS
    <2>3. Line(1) = Start + Cardinality({q \in 1 .. 1 - 1 : At(q) = "nl"})
      BY <2>1, Zenon DEF Line
    <2>. QED  BY <1>3, <2>2, <2>3, FS_EmptySet
  <1>5. ASSUME At(SecondToken) = "org" PROVE Line(SecondToken) = 2
    <2>1. BehindFirstToken = 2
      BY <1>1, <1>3 DEF BehindFirstToken
    <2>2. 2 \in 1 .. End /\ End = Len(text) + 1
      BY <1>1, AtFacts
    <2>3. SecondToken \in 2 .. End
      BY <2>1, <2>2, ClearNewlines DEF SecondToken
    <2>4. SecondToken # End
      BY <1>5, AtFacts
    <2>5. SecondToken \in 2 .. Len(text)
      BY <1>1, <2>2, <2>3, <2>4
    <2>6. SecondToken = 3 /\ 3 <= Len(text)
      BY <1>1, <1>5, <2>5
    <2>7. At(2) = "nl"
      BY <1>1, <1>5, <2>6, AtFacts DEF TextOK
    <2>8. Min({3, Len(text)}) = 3
      BY <1>1, <2>6, MinOf
    <2>9. {q \in 1 .. 3 - 1 : At(q) = "nl"} = {2}
      BY <1>1, <2>7
    <2>10. Line(3) = Start + Cardinality({q \in 1 .. 3 - 1 : At(q) = "nl"})
      BY <2>8, Zenon DEF Line
    <2>11. Cardinality({2}) = 1
      BY FS_Singleton
    <2>12. Line(3) = 2
      BY <1>3, <2>9, <2>10, <2>11
    <2>. QED  BY <2>6, <2>12, Zenon
  <1>6. ~DirectiveMisplaced
    BY <1>1, <1>3, <1>4, <1>5 DEF DirectiveMisplaced
  <1>. QED  BY <1>2, <1>3, <1>6

\* What the parser reads next is a declaration.
LEMMA NextIsDeclaration ==
    ASSUME TextOK, NEW p \in 1 .. End, NextDeclaration(p) # End
    PROVE  At(NextDeclaration(p)) \in Declarations
  <1>. DEFINE q == SkipNewlines(p)
              S == DeclarationsAfter(q) \cup {End}
  <1>1. q \in p .. End /\ p \in Nat /\ End \in Nat /\ End = Len(text) + 1
    BY ClearNewlines, AtFacts
  <1>2. CASE At(q) \in {"end", "cmt"}
    BY <1>2 DEF NextDeclaration, Declarations
  <1>3. CASE At(q) \in Declarations
    BY <1>3 DEF NextDeclaration, Declarations
  <1>4. CASE At(q) \notin {"end", "cmt"} /\ At(q) \notin Declarations
    <2>1. NextDeclaration(p) = Min(S)
      BY <1>4 DEF NextDeclaration
    <2>2. S \in SUBSET Nat /\ S # {} /\ \A r \in S : r = End \/ At(r) \in {"var", "flush"}
      BY <1>1 DEF DeclarationsAfter
    <2>. HIDE DEF S
    <2>3. Min(S) \in S
      BY <2>2, MinOf
    <2>. QED  BY <2>1, <2>2, <2>3 DEF Declarations
  <1>. QED  BY <1>2, <1>3, <1>4

LEMMA SamePlain ==
    ASSUME text' = text
    PROVE  Plain' = Plain
  BY DEF Plain, EndsInBlankLine, At, End

\* No step ends a run over such a file but the last one.
LEMMA PlainStops ==
    ASSUME TextOK, InText, Plain, Next, phase' = "stopped"
    PROVE  outcome' = "assembled" \/ (phase = "stopped" /\ outcome' = outcome)
  <1>1. /\ Len(text) \in Nat /\ Len(text) > 1 /\ At(1) = "use16"
        /\ \A p \in 2 .. Len(text) :
              /\ At(p) \in {"org", "nl", "mov", "var", "sub", "cmt"}
              /\ At(p) = "var" => text[p].value # "over"
              /\ At(p) = "sub" => text[p].value = "hex"
        /\ \A p \in 1 .. Len(text) : At(p) \in {"org", "nl", "mov", "var", "sub", "cmt", "use16"}
    BY PlainFacts DEF Plain
  <1>2. CASE OpenFile
    <2>1. ~UnwantedValue /\ ~DirectiveMisplaced
      BY <1>1, HeaderOpens DEF Plain
    <2>. QED  BY <1>2, <2>1 DEF OpenFile, Spin, Goto
  <1>3. CASE DeclareVariable \/ DeclareSubset
    <2>. DEFINE n == NextDeclaration(position)
    <2>1. n \in 1 .. Len(text)
      BY <1>3, NextDeclarationFacts, AtFacts
         DEF DeclareVariable, DeclareSubset, Declaring, InText
    <2>2. At(n) = text[n].kind
      BY <2>1, AtFacts
    <2>3. At(n) \in Declarations
      BY <1>3, <2>2, NextIsDeclaration DEF DeclareVariable, DeclareSubset, Declaring, InText
    <2>4. \/ At(n) = "var" /\ text[n].value # "over"
          \/ At(n) = "sub" /\ text[n].value = "hex"
      BY <1>1, <2>1, <2>3, PlainFacts DEF Declarations, Plain
    <2>. HIDE DEF n
    <2>5. CASE DeclareVariable
      BY <2>2, <2>4, <2>5 DEF DeclareVariable, Declared, Goto, Spin, n
    <2>6. CASE DeclareSubset
      BY <2>2, <2>4, <2>6 DEF DeclareSubset, Declared, Goto, Spin, n
    <2>. QED  BY <1>3, <2>5, <2>6
  <1>4. CASE DeclarationsEnd \/ StartPreprocessor \/ AssignMemAddress \/ AssignSpins
             \/ PassLine \/ AssigningEnds
    BY <1>4 DEF DeclarationsEnd, StartPreprocessor, AssignMemAddress, AssignSpins, PassLine,
           AssigningEnds, EndAssigning, Goto, Spin
  <1>5. ASSUME NEW p \in 1 .. Len(text), At(p) \in Code
        PROVE  At(p) = "mov" /\ ~Refused(p) /\ Assembles(p)
    BY <1>1, <1>5 DEF Code, Refused, Assembles
  <1>6. CASE Preprocess \/ Emit
    <2>. DEFINE f == Fetch(position)
    <2>1. f.token = "code" => f.at \in 1 .. Len(text) /\ At(f.at) \in Code
      BY FetchFacts DEF InText
    <2>2. f.token = "code" => At(f.at) = "mov" /\ ~Refused(f.at) /\ Assembles(f.at)
      BY <1>5, <2>1
    <2>. HIDE DEF f
    <2>3. CASE Preprocess
      BY <2>2, <2>3 DEF Preprocess, Goto, Move, Spin, EndAssigning, Assigning, f
    <2>4. CASE Emit
      BY <2>2, <2>4 DEF Emit, Goto, Move, Spin, Stop, Nothing, f
    <2>. QED  BY <1>6, <2>3, <2>4
  <1>7. CASE EmittingEnds \/ Ended
    BY <1>7 DEF EmittingEnds, Ended, Stop, vars
  <1>. QED  BY <1>2, <1>3, <1>4, <1>6, <1>7 DEF Next, Step

LEMMA NextPlain == PlainInv /\ [Next]_vars => PlainInv'
  <1>. SUFFICES ASSUME PlainInv, [Next]_vars PROVE PlainInv'
    OBVIOUS
  <1>1. CountInv' /\ InText /\ TextOK
    BY NextCount, TextIsOK DEF PlainInv, CountInv, EmitInv, InText
  <1>2. outcome' # "none" => phase' = "stopped"
    BY <1>1 DEF CountInv
  <1>3. CASE Next
    <2>1. text' = text
      BY <1>1, <1>3, StepInText
    <2>2. Plain /\ phase' = "stopped" => outcome' = "assembled"
      BY <1>1, <1>3, PlainStops DEF PlainInv
    <2>. QED  BY <1>1, <1>2, <2>1, <2>2, SamePlain DEF PlainInv
  <1>4. CASE UNCHANGED vars
    <2>1. UNCHANGED <<text, phase, outcome>>
      BY <1>4 DEF vars
    <2>. QED  BY <1>1, <2>1, SamePlain DEF PlainInv
  <1>. QED  BY <1>3, <1>4

\* A well-formed file of any length, without a load, is assembled to its last
\* instruction and never refused.
THEOREM AssemblesAll == Spec => []NothingLost
  <1>1. Init => PlainInv
    BY InitCount DEF PlainInv, Init
  <1>2. ASSUME PlainInv PROVE NothingLost
    <2>. SUFFICES ASSUME WellFormed, phase = "stopped", \A p \in 1 .. Len(text) : At(p) # "load"
                  PROVE  outcome = "assembled" /\ Len(bin_data) = Cardinality(Movs)
      BY DEF NothingLost
    <2>1. TextOK
      BY <1>2, TextIsOK DEF PlainInv, CountInv, EmitInv, InText
    <2>2. Plain
      BY <2>1, WellFormedIsPlain
    <2>3. outcome = "assembled" /\ EndsInBlankLine
      BY <1>2, <2>2 DEF PlainInv, Plain
    <2>4. \A q \in Instructions : Line(q) # max_line
      <3>. SUFFICES ASSUME NEW q \in Instructions, Line(q) = max_line PROVE FALSE
        OBVIOUS
      <3>1. q \in 1 .. Len(text) /\ q \in 1 .. End /\ At(q) \in Code
        BY <2>1, AtFacts DEF Instructions
      <3>2. q = Len(text)
        BY <2>1, <2>3, <3>1, LastLine DEF TextOK
      <3>. QED  BY <2>3, <3>1, <3>2, KindsApart DEF EndsInBlankLine
    <2>5. Only(Movs, position) /\ position \in 1 .. End /\ position \in Nat \ {0}
          /\ Len(bin_data) = Rank(Movs, position - 1)
          /\ \A q \in Instructions : q < position
      BY <1>2, <2>1, <2>3, <2>4, AtFacts
         DEF PlainInv, CountInv, EmitInv, InText, Only, OnlyInner, Past, Inner
    <2>6. {q \in Movs : q <= position - 1} = Movs
      <3>1. \A q \in Movs : q < position /\ q \in Nat
        BY <2>1, <2>5, SetsOfCode
      <3>. QED  BY <2>5, <3>1
    <2>. QED  BY <2>3, <2>5, <2>6 DEF Rank
  <1>. QED  BY <1>1, <1>2, NextPlain, PTL DEF Spec

-----------------------------------------------------------------------------
(***************************************************************************)
(* Where a run hangs.                                                      *)
(***************************************************************************)
\* The placement never gets ahead of the main variables.
CursorInTable ==
    /\ bit16_length \in Nat /\ index \in Nat /\ index <= bit16_length
    /\ DOMAIN subset_variables_count = 0 .. bit16_length - 1

\* What no pass knows at p is nothing trailing a declaration.
Off(p) == At(p) \in Strays => ~OnDeclaration(p)

SpinInv ==
    /\ InText /\ CursorInTable
    /\ phase \in {"declare", "scan", "assign", "emit"} => ~UnwantedValue
    /\ phase \in {"assign", "emit"} => Off(position)
    /\ SpinsOnlyWhen

LEMMA OffBehindNewline ==
    ASSUME TextOK, NEW q \in 2 .. End, At(q - 1) \in {"nl", "cmt"}
    PROVE  Off(q)
  <1>. SUFFICES ASSUME At(q) \in Strays, OnDeclaration(q) PROVE FALSE
    BY DEF Off
  <1>1. /\ q \in 1 .. End /\ Len(text) \in Nat /\ End = Len(text) + 1
        /\ At(q) \notin Declarations /\ At(q) # "end"
    BY AtFacts, KindsApart DEF TextOK
  <1>2. q \in 1 .. Len(text) /\ q - 1 \in 1 .. Len(text)
    BY <1>1, AtFacts
  <1>3. At(q - 1) = "nl"
    <2>1. text[q].kind \in Strays /\ text[q - 1].kind = At(q - 1)
      BY <1>2, AtFacts
    <2>. QED  BY <1>2, <2>1 DEF TextOK
  <1>4. PICK d \in 1 .. q : At(d) \in Declarations /\ \A i \in d .. q : At(i) # "nl"
    BY DEF OnDeclaration
  <1>5. d # q
    BY <1>1, <1>4
  <1>6. q - 1 \in d .. q
    BY <1>2, <1>5
  <1>. QED  BY <1>3, <1>4, <1>6

\* Behind an instruction or a directive.
LEMMA OffBehindOpener ==
    ASSUME TextOK, NEW p \in 1 .. Len(text), At(p) \in Code \cup Directives
    PROVE  Off(p + 1)
  <1>. SUFFICES ASSUME At(p + 1) \in Strays, OnDeclaration(p + 1) PROVE FALSE
    BY DEF Off
  <1>1. PICK d \in 1 .. p + 1 : At(d) \in Declarations /\ \A i \in d .. p + 1 : At(i) # "nl"
    BY DEF OnDeclaration
  <1>2. d # p + 1 /\ p \in Nat /\ d \in Nat
    BY <1>1, KindsApart
  <1>3. d \in 1 .. p /\ \A i \in d .. p : i \in d .. p + 1
    BY <1>2
  <1>4. OnDeclaration(p)
    BY <1>1, <1>3 DEF OnDeclaration
  <1>. QED  BY <1>4, OpenersOff

\* Behind newlines and comments.
LEMMA OffBehindBlanks ==
    ASSUME TextOK, NEW p \in 1 .. End, NEW q \in p + 1 .. End,
           \A i \in p .. q - 1 : At(i) \in {"nl", "cmt"}
    PROVE  Off(q)
  <1>1. q \in 2 .. End /\ q - 1 \in p .. q - 1
    BY AtFacts
  <1>. QED  BY <1>1, OffBehindNewline

LEMMA OffEnds ==
    ASSUME TextOK
    PROVE  /\ Off(Start) /\ Off(End)
           /\ \A p \in 1 .. End : At(p) \in {"nl", "end"} => Off(p)
  <1>1. Off(End) /\ \A p \in 1 .. End : At(p) \in {"nl", "end"} => Off(p)
    BY AtFacts, KindsApart DEF Off
  <1>2. CASE At(1) = "nl"
    <2>1. 2 \in 2 .. End
      BY <1>2, StartFacts, AtFacts DEF Start
    <2>. QED  BY <1>1, <1>2, <2>1, OffBehindNewline DEF Start
  <1>3. CASE At(1) # "nl"
    <2>1. At(1) \in Strays => ~OnDeclaration(1)
      BY KindsApart DEF OnDeclaration
    <2>. QED  BY <1>1, <1>3, <2>1 DEF Start, Off
  <1>. QED  BY <1>2, <1>3

\* A cursor that skips newlines, or newlines and comments.
LEMMA OffSkips ==
    ASSUME TextOK, NEW p \in 1 .. End
    PROVE  /\ Off(p) => Off(SkipNewlines(p))
           /\ At(p) \in {"nl", "cmt"} => Off(SkipComments(p))
           /\ At(p) = "nl" => Off(SkipNewlines(p))
  <1>1. /\ SkipNewlines(p) \in p .. End
        /\ \A q \in p .. SkipNewlines(p) - 1 : At(q) = "nl"
    BY SkipAllFacts DEF SkipNewlines
  <1>2. /\ SkipComments(p) \in p .. End /\ At(SkipComments(p)) \notin {"nl", "cmt"}
        /\ \A q \in p .. SkipComments(p) - 1 : At(q) \in {"nl", "cmt"}
    BY SkipAllFacts DEF SkipComments
  <1>3. SkipNewlines(p) # p => Off(SkipNewlines(p))
    <2>1. SkipNewlines(p) # p => SkipNewlines(p) \in p + 1 .. End
      BY <1>1, AtFacts
    <2>. QED  BY <1>1, <2>1, OffBehindBlanks
  <1>4. SkipComments(p) # p => Off(SkipComments(p))
    <2>1. SkipComments(p) # p => SkipComments(p) \in p + 1 .. End
      BY <1>2, AtFacts
    <2>. QED  BY <1>2, <2>1, OffBehindBlanks
  <1>5. At(p) = "nl" => SkipNewlines(p) # p
    BY ClearNewlines
  <1>. QED  BY <1>2, <1>3, <1>4, <1>5

LEMMA ApproachOff ==
    ASSUME TextOK, NEW p \in 1 .. End, Off(p)
    PROVE  Off(Approach(p).at)
  <1>. DEFINE q == SkipNewlines(p)
              Stp(at, token) == [at |-> at, token |-> token]
              Ends(at, found) == IF at = End THEN Stp(End, "eof") ELSE Stp(at, found)
  <1>1. q \in p .. End /\ q \in 1 .. End /\ Off(q) /\ Off(End) /\ p \in Nat
    BY ClearNewlines, OffSkips, OffEnds, AtFacts
  <1>2. Approach(p) = IF p = End THEN Stp(End, "eof")
        ELSE IF q = End THEN Stp(Len(text), "blank")
        ELSE IF At(q) = "cmt" THEN Ends(SkipComments(q), "none")
        ELSE IF At(q) \notin Declarations THEN Stp(q, "here")
        ELSE IF SkipDeclarations(q) = End /\ EndsInBlankLine THEN Stp(Len(text), "blank")
        ELSE Ends(SkipDeclarations(q), "here")
    BY DEF Approach
  <1>3. p # End /\ q = End => Off(Len(text))
    <2>. SUFFICES ASSUME p # End, q = End PROVE Off(Len(text))
      OBVIOUS
    <2>1. \A i \in p .. q - 1 : At(i) = "nl"
      BY SkipAllFacts DEF SkipNewlines
    <2>2. Len(text) \in p .. q - 1 /\ Len(text) \in 1 .. End
      BY <1>1, AtFacts
    <2>. QED  BY <2>1, <2>2, OffEnds
  <1>4. At(q) = "cmt" => Off(SkipComments(q))
    BY <1>1, OffSkips
  <1>5. Off(SkipDeclarations(q))
    BY <1>1, SkipDeclarationsFacts DEF Off
  <1>6. EndsInBlankLine => Off(Len(text))
    BY OffEnds, AtFacts DEF EndsInBlankLine, TextOK
  <1>. HIDE DEF q
  <1>. QED  BY <1>1, <1>2, <1>3, <1>4, <1>5, <1>6

\* Where a round of a pass leaves the cursor.
LEMMA FetchOff ==
    ASSUME TextOK, NEW p \in 1 .. End, Off(p)
    PROVE  /\ Fetch(p).token = "none" => Off(Fetch(p).at)
           /\ Fetch(p).token \in {"code", "directive"} => Off(Fetch(p).at + 1)
  <1>. DEFINE i == Approach(p)
              d == Approach(i.at)
              g == Approach(d.at)
              Found(kinds, a) == a.token = "here" /\ At(a.at) \in kinds
  <1>1. i.at \in 1 .. End /\ Off(i.at)
    <2>1. i.at \in p .. End
      BY ApproachFacts
    <2>. QED  BY <2>1, ApproachOff, AtFacts
  <1>2. d.at \in 1 .. End /\ Off(d.at)
    <2>1. d.at \in i.at .. End
      BY <1>1, ApproachFacts
    <2>. QED  BY <1>1, <2>1, ApproachOff, AtFacts
  <1>3. Off(g.at)
    BY <1>2, ApproachOff
  <1>4. Fetch(p) = IF i.token = "eof" THEN [at |-> End, token |-> "eof"]
            ELSE IF Found(Code, i) THEN [at |-> i.at, token |-> "code"]
            ELSE IF Found(Directives, g) /\ d.token # "eof"
            THEN [at |-> g.at, token |-> "directive"]
            ELSE IF g.token \in {"eof", "blank"} THEN [at |-> End, token |-> "eof"]
            ELSE [at |-> g.at, token |-> "none"]
    BY DEF Fetch
  <1>. HIDE DEF i, d, g
  <1>5. /\ Fetch(p).token = "none" => Fetch(p).at = g.at
        /\ Fetch(p).token \in {"code", "directive"} => At(Fetch(p).at) \in Code \cup Directives
    BY <1>4
  <1>6. Fetch(p).token \in {"code", "directive"} => Fetch(p).at \in 1 .. Len(text)
    BY FetchFacts
  <1>. QED  BY <1>3, <1>5, <1>6, OffBehindOpener

LEMMA RoundTheCounter ==
    ASSUME NEW n \in Nat
    PROVE  (n + 1) % Byte \in Nat /\ (n + 1) % Byte <= n + 1
  BY WidthAssumption

LEMMA TableKeeps ==
    ASSUME CursorInTable, Next
    PROVE  CursorInTable'
  <1>1. CASE \E name, size : AddVariable(name, size)
    BY <1>1 DEF AddVariable, placement, CursorInTable
  <1>2. CASE \E name, size : AddSubsetVariable(name, size)
    <2>1. CASE bit16_length = 0
      BY <1>2, <2>1 DEF AddSubsetVariable, declared, placement, CursorInTable
    <2>2. CASE bit16_length # 0
      BY <1>2, <2>2 DEF AddSubsetVariable, placement, CursorInTable
    <2>. QED  BY <2>1, <2>2
  <1>3. CASE \E id, counter, base : AddMemAddress(id, counter, base)
    <2>1. UNCHANGED <<bit16_length, subset_variables_count>>
      BY <1>3 DEF AddMemAddress, PlaceVariable, PlaceSubset, PlaceNothing, Corrupt, declared
    <2>2. index' = index \/ (index < bit16_length /\ index' = (index + 1) % Byte)
      BY <1>3 DEF AddMemAddress, PlaceVariable, PlaceSubset, PlaceNothing, Corrupt, placement, MatchesMain
    <2>. QED  BY <2>1, <2>2, RoundTheCounter DEF CursorInTable
  <1>4. CASE UNCHANGED tableVars
    BY <1>4 DEF tableVars, declared, placement, CursorInTable
  <1>5. \/ UNCHANGED tableVars
        \/ \E name, size : AddVariable(name, size)
        \/ \E name, size : AddSubsetVariable(name, size)
        \/ \E id, counter, base : AddMemAddress(id, counter, base)
    <2>1. CASE OpenFile \/ DeclarationsEnd \/ StartPreprocessor \/ AssignSpins \/ PassLine
               \/ Preprocess \/ AssigningEnds \/ Emit \/ EmittingEnds \/ Ended
      BY <2>1 DEF OpenFile, DeclarationsEnd, StartPreprocessor, AssignSpins, PassLine,
             Preprocess, AssigningEnds, Emit, EmittingEnds, Emitting, Ended, vars
    <2>2. CASE DeclareVariable
      BY <2>2 DEF DeclareVariable
    <2>3. CASE DeclareSubset
      BY <2>3 DEF DeclareSubset
    <2>4. CASE AssignMemAddress
      BY <2>4 DEF AssignMemAddress
    <2>. QED  BY <2>1, <2>2, <2>3, <2>4 DEF Next, Step
  <1>. QED  BY <1>1, <1>2, <1>3, <1>4, <1>5

\* Only what no pass knows keeps one where it is.
LEMMA StandsAtUnknown ==
    ASSUME TextOK, NEW p \in 1 .. End, Fetch(p).token = "none", Fetch(p).at = p
    PROVE  p \in 1 .. Len(text) /\ At(p) \in Strays \cup {"junk"}
  <1>. DEFINE i == Approach(p)
              d == Approach(i.at)
              g == Approach(d.at)
              Found(kinds, a) == a.token = "here" /\ At(a.at) \in kinds
  <1>1. /\ i.token # "eof" /\ ~Found(Code, i)
        /\ ~(Found(Directives, g) /\ d.token # "eof")
        /\ g.token \notin {"eof", "blank"} /\ g.at = p
    <2>1. Fetch(p) = IF i.token = "eof" THEN [at |-> End, token |-> "eof"]
            ELSE IF Found(Code, i) THEN [at |-> i.at, token |-> "code"]
            ELSE IF Found(Directives, g) /\ d.token # "eof"
            THEN [at |-> g.at, token |-> "directive"]
            ELSE IF g.token \in {"eof", "blank"} THEN [at |-> End, token |-> "eof"]
            ELSE [at |-> g.at, token |-> "none"]
      BY DEF Fetch
    <2>. HIDE DEF i, d, g, Found
    <2>. QED  BY <2>1
  <1>2. p \in Nat /\ End \in Nat /\ i.at \in p .. End
    BY ApproachFacts, AtFacts
  <1>3. i.at \in 1 .. End
    BY <1>2
  <1>4. d.at \in i.at .. End
    BY <1>3, ApproachFacts
  <1>5. d.at \in 1 .. End
    BY <1>2, <1>4
  <1>6. g.at \in d.at .. End
    BY <1>5, ApproachFacts
  <1>7. i.at = p
    <2>. HIDE DEF i, d, g
    <2>. QED  BY <1>1, <1>2, <1>4, <1>6
  <1>8. d = i /\ g = i
    BY <1>7
  <1>. DEFINE q == SkipNewlines(p)
  <1>9. Approach(p).at = p /\ Approach(p).token \in {"none", "here"}
    BY <1>1, <1>7, <1>8, ApproachFacts
  <1>10. /\ At(p) \notin Code \/ Approach(p).token # "here"
         /\ At(p) \notin Directives \/ Approach(p).token # "here"
    BY <1>1, <1>7, <1>8, <1>9
  <1>. HIDE DEF i, d, g, Found
  <1>11. /\ q \in p .. End /\ q \in 1 .. End /\ At(q) # "nl"
    BY <1>2, ClearNewlines
  <1>. DEFINE Stp(at, token) == [at |-> at, token |-> token]
              Ends(at, found) == IF at = End THEN Stp(End, "eof") ELSE Stp(at, found)
  <1>12. Approach(p) = IF p = End THEN Stp(End, "eof")
        ELSE IF q = End THEN Stp(Len(text), "blank")
        ELSE IF At(q) = "cmt" THEN Ends(SkipComments(q), "none")
        ELSE IF At(q) \notin Declarations THEN Stp(q, "here")
        ELSE IF SkipDeclarations(q) = End /\ EndsInBlankLine THEN Stp(Len(text), "blank")
        ELSE Ends(SkipDeclarations(q), "here")
    BY DEF Approach
  <1>. HIDE DEF q
  <1>13. p # End /\ q # End
    BY <1>9, <1>12
  <1>14. CASE At(q) = "cmt"
    <2>1. SkipComments(q) \in q .. End /\ At(SkipComments(q)) # "cmt"
      BY <1>11, ClearNewlines
    <2>2. SkipComments(q) = p
      BY <1>9, <1>12, <1>13, <1>14
    <2>. QED  BY <1>2, <1>11, <1>14, <2>1, <2>2
  <1>15. CASE At(q) \in Declarations
    <2>1. SkipDeclarations(q) \in q .. End /\ At(SkipDeclarations(q)) \notin Declarations
      BY <1>11, SkipDeclarationsFacts
    <2>2. SkipDeclarations(q) = p
      BY <1>9, <1>12, <1>13, <1>15 DEF Declarations
    <2>. QED  BY <1>2, <1>11, <1>15, <2>1, <2>2
  <1>16. CASE At(q) # "cmt" /\ At(q) \notin Declarations
    <2>1. q = p /\ Approach(p).token = "here"
      BY <1>12, <1>13, <1>16, <1>9
    <2>2. p \in 1 .. Len(text) /\ At(p) \in Kinds
      BY <1>13, AtFacts
    <2>. QED  BY <1>10, <1>11, <1>16, <2>1, <2>2 DEF Kinds
  <1>. QED  BY <1>14, <1>15, <1>16

LEMMA SpinStep ==
    ASSUME SpinInv, TextOK, Next, phase' = "spinning", phase # "spinning"
    PROVE  \/ CheckSpins
           \/ At(position) \in Strays /\ ~OnDeclaration(position) /\ position' = position
           \/ At(position) = "junk" /\ position = 1 /\ position' = position
           \/ bit16_length >= Byte
           \/ \E i \in DOMAIN subset_variables_count : subset_variables_count[i] >= Byte
  <1>1. CASE OpenFile
    BY <1>1 DEF OpenFile, Stop, Goto
  <1>2. CASE DeclareVariable
    BY <1>2 DEF DeclareVariable, Stop, Goto, AddVariableSpins
  <1>3. CASE AssignSpins
    <2>1. PICK i \in 0 .. index - 1 : subset_variables_count[i] >= Byte
      BY <1>3 DEF AssignSpins, SearchSpins
    <2>2. i \in DOMAIN subset_variables_count
      BY <2>1 DEF SpinInv, CursorInTable
    <2>. QED  BY <2>1, <2>2
  <1>4. CASE Preprocess \/ Emit
    <2>. DEFINE f == Fetch(position)
    <2>1. position \in 1 .. End /\ ~UnwantedValue
      BY <1>4 DEF SpinInv, InText, Preprocess, Assigning, Emit, Emitting
    <2>2. Off(position)
      BY <1>4 DEF SpinInv, Preprocess, Assigning, Emit, Emitting
    <2>3. f.token = "none" /\ f.at = position /\ position' = position
      <3>. HIDE DEF f
      <3>1. CASE Preprocess
        BY <3>1 DEF Preprocess, Stop, Goto, Move, Spin, EndAssigning, Refuse, f
      <3>2. CASE Emit
        BY <3>2 DEF Emit, Stop, Goto, Move, Spin, Refuse, f
      <3>. QED  BY <1>4, <3>1, <3>2
    <2>. HIDE DEF f
    <2>4. position \in 1 .. Len(text) /\ At(position) \in Strays \cup {"junk"}
      <3>. DEFINE p == position
      <3>. HIDE DEF p
      <3>1. p \in 1 .. End /\ Fetch(p).token = "none" /\ Fetch(p).at = p
        BY <2>1, <2>3 DEF p, f
      <3>2. p \in 1 .. Len(text) /\ At(p) \in Strays \cup {"junk"}
        BY <3>1, StandsAtUnknown
      <3>. QED  BY <3>2 DEF p
    <2>5. CASE At(position) \in Strays
      BY <2>2, <2>3, <2>5 DEF Off
    <2>6. CASE At(position) = "junk"
      <3>1. position = 1 \/ position \in 2 .. Len(text)
        BY <2>4, AtFacts
      <3>. QED  BY <2>1, <2>3, <2>6, <3>1 DEF UnwantedValue
    <2>. QED  BY <2>4, <2>5, <2>6
  <1>5. CASE DeclareSubset \/ DeclarationsEnd \/ StartPreprocessor \/ AssignMemAddress
             \/ PassLine \/ AssigningEnds \/ EmittingEnds
    BY <1>5 DEF DeclareSubset, DeclarationsEnd, StartPreprocessor, AssignMemAddress,
           PassLine, AssigningEnds, EndAssigning, EmittingEnds, Stop, Goto
  <1>6. CASE Ended
    BY <1>6 DEF Ended, vars
  <1>. QED  BY <1>1, <1>2, <1>3, <1>4, <1>5, <1>6 DEF Next, Step

\* Only a file without an unwanted value is read any further.
LEMMA Checked ==
    ASSUME Next, phase' \in {"declare", "scan", "assign", "emit"}
    PROVE  phase \in {"declare", "scan", "assign", "emit"} \/ ~UnwantedValue
  <1>1. CASE OpenFile
    BY <1>1 DEF OpenFile, Stop, Spin, Goto
  <1>2. CASE Step /\ ~OpenFile
    BY <1>2 DEF Step, DeclareVariable, DeclareSubset, Declaring, DeclarationsEnd,
           StartPreprocessor, AssignMemAddress, AssignSpins, PassLine, Preprocess,
           AssigningEnds, Assigning, Emit, EmittingEnds, Emitting
  <1>3. CASE Ended
    BY <1>3 DEF Ended, vars
  <1>. QED  BY <1>1, <1>2, <1>3 DEF Next

LEMMA SameFile ==
    ASSUME text' = text
    PROVE  /\ UnwantedValue' = UnwantedValue /\ CheckSpins' = CheckSpins
           /\ At(position)' = At(position')
           /\ OnDeclaration(position)' = OnDeclaration(position')
           /\ Off(position)' = Off(position')
  BY DEF UnwantedValue, CheckSpins, OnDeclaration, Off, At, End

\* The passes start, and go on, off the declarations' lines.
LEMMA KeepsOff ==
    ASSUME SpinInv, TextOK, Next, phase' \in {"assign", "emit"}
    PROVE  Off(position')
  <1>1. position \in 1 .. End
    BY DEF SpinInv, InText
  <1>2. CASE phase \notin {"assign", "emit"}
    <2>1. position' = Start
      BY <1>2 DEF Next, Step, OpenFile, DeclareVariable, DeclareSubset, Declaring,
             DeclarationsEnd, StartPreprocessor, AssignMemAddress, AssignSpins, PassLine,
             Preprocess, Assigning, AssigningEnds, Emit, EmittingEnds, Emitting, Ended,
             vars, Goto, Stop, Spin
    <2>. QED  BY <2>1, OffEnds
  <1>3. CASE phase \in {"assign", "emit"} /\ position' \in {position, Start, End}
    BY <1>3, OffEnds DEF SpinInv
  <1>4. CASE AssignMemAddress
    <2>1. position' \in {position, Start, EndOfLine(NextText)} /\ phase = "assign"
      BY <1>4 DEF AssignMemAddress, Assigning, EndAssigning, Goto
    <2>2. Off(EndOfLine(NextText))
      <3>1. NextText \in 1 .. End
        BY <1>1, NextTextFacts, AtFacts DEF SpinInv
      <3>2. EndOfLine(NextText) \in 1 .. End /\ At(EndOfLine(NextText)) \in {"nl", "end"}
        BY <3>1, EndOfLineFacts, AtFacts
      <3>. QED  BY <3>2, OffEnds
    <2>. QED  BY <1>3, <2>1, <2>2
  <1>5. CASE PassLine
    <2>1. position' \in {Start, NextText} /\ phase = "assign" /\ At(position) = "nl"
      BY <1>5 DEF PassLine, Assigning, EndAssigning, AtNewline, Goto
    <2>2. NextLine \in 1 .. End /\ Off(NextLine)
      <3>1. NextLine \in position .. End
        BY <1>1, ClearNewlines DEF NextLine
      <3>. QED  BY <1>1, <2>1, <3>1, OffSkips, AtFacts DEF NextLine
    <2>3. Off(NextText)
      BY <2>2, OffSkips DEF NextText
    <2>. QED  BY <2>1, <2>3, OffEnds
  <1>6. CASE Preprocess \/ Emit
    <2>. DEFINE f == Fetch(position)
    <2>1. phase \in {"assign", "emit"} /\ Off(position)
      BY <1>6 DEF SpinInv, Preprocess, Assigning, Emit, Emitting
    <2>2. /\ f.token = "none" => Off(f.at)
          /\ f.token \in {"code", "directive"} => Off(f.at + 1)
      BY <1>1, <2>1, FetchOff
    <2>. HIDE DEF f
    <2>3. \/ position' \in {position, Start, End}
          \/ f.token = "none" /\ position' = f.at
          \/ f.token \in {"code", "directive"} /\ position' = f.at + 1
      <3>1. CASE Preprocess
        BY <3>1 DEF Preprocess, EndAssigning, Goto, Stop, Move, Spin, Refuse, f
      <3>2. CASE Emit
        BY <3>2 DEF Emit, Goto, Stop, Move, Spin, Refuse, f
      <3>. QED  BY <1>6, <3>1, <3>2
    <2>. QED  BY <1>3, <2>1, <2>2, <2>3
  <1>7. CASE AssignSpins \/ EmittingEnds
    BY <1>7 DEF AssignSpins, EmittingEnds, Spin, Stop
  <1>8. CASE AssigningEnds
    BY <1>8, OffEnds DEF AssigningEnds, EndAssigning, Goto
  <1>9. CASE Ended
    BY <1>9 DEF Ended, vars
  <1>10. CASE phase \in {"assign", "emit"}
               /\ (OpenFile \/ DeclareVariable \/ DeclareSubset \/ DeclarationsEnd
                     \/ StartPreprocessor)
    BY <1>10 DEF OpenFile, DeclareVariable, DeclareSubset, Declaring, DeclarationsEnd,
           StartPreprocessor
  <1>. QED  BY <1>2, <1>4, <1>5, <1>6, <1>7, <1>8, <1>9, <1>10 DEF Next, Step

\* A run that is about to hang leaves the table as it is.
LEMMA SpinKeepsTable ==
    ASSUME Next, phase' = "spinning"
    PROVE  UNCHANGED <<bit16_length, subset_variables_count>>
  <1>1. CASE \/ OpenFile \/ DeclarationsEnd \/ StartPreprocessor \/ AssignSpins \/ PassLine
             \/ Preprocess \/ AssigningEnds \/ Emit \/ EmittingEnds \/ Ended
    BY <1>1 DEF OpenFile, DeclarationsEnd, StartPreprocessor, AssignSpins, PassLine,
           Preprocess, AssigningEnds, Emit, EmittingEnds, Emitting, Ended, vars,
           tableVars, declared, placement
  <1>2. CASE DeclareVariable
    BY <1>2 DEF DeclareVariable, Stop, Goto, tableVars, declared
  <1>3. CASE DeclareSubset \/ AssignMemAddress
    BY <1>3 DEF DeclareSubset, AssignMemAddress, EndAssigning, Stop, Goto
  <1>. QED  BY <1>1, <1>2, <1>3 DEF Next, Step

LEMMA NextSpin == SpinInv /\ [Next]_vars => SpinInv'
  <1>. SUFFICES ASSUME SpinInv, [Next]_vars PROVE SpinInv'
    OBVIOUS
  <1>1. InText' /\ TextOK
    BY NextInText, TextIsOK DEF SpinInv, InText
  <1>2. CASE Next
    <2>1. text' = text
      BY <1>1, <1>2, StepInText DEF SpinInv
    <2>2. CursorInTable'
      BY <1>2, TableKeeps DEF SpinInv
    <2>3. /\ phase' \in {"declare", "scan", "assign", "emit"} => ~UnwantedValue'
          /\ phase' \in {"assign", "emit"} => Off(position)'
      BY <1>1, <1>2, <2>1, SameFile, Checked, KeepsOff DEF SpinInv
    <2>4. SpinsOnlyWhen'
      <3>. SUFFICES ASSUME phase' = "spinning" PROVE SpinsOnlyWhen'
        BY DEF SpinsOnlyWhen
      <3>1. CASE phase = "spinning"
        <4>1. UNCHANGED vars
          BY <1>2, <3>1 DEF Next, Step, Ended, OpenFile, DeclareVariable, DeclareSubset,
                 Declaring, DeclarationsEnd, StartPreprocessor, AssignMemAddress,
                 AssignSpins, PassLine, Preprocess, Assigning, AssigningEnds, Emit,
                 EmittingEnds, Emitting
        <4>. QED  BY <3>1, <4>1, SameFile
                 DEF SpinInv, SpinsOnlyWhen, vars, tableVars, declared, placement
      <3>2. CASE phase # "spinning"
        <4>1. UNCHANGED <<bit16_length, subset_variables_count>>
          BY <1>2, SpinKeepsTable
        <4>. QED  BY <1>1, <1>2, <2>1, <3>2, <4>1, SpinStep, SameFile DEF SpinsOnlyWhen
      <3>. QED  BY <3>1, <3>2
    <2>. QED  BY <1>1, <2>2, <2>3, <2>4 DEF SpinInv
  <1>3. CASE UNCHANGED vars
    <2>1. UNCHANGED <<text, phase, position, bit16_length, index, subset_variables_count>>
      BY <1>3 DEF vars, tableVars, declared, placement
    <2>. QED  BY <1>1, <2>1, SameFile DEF SpinInv, CursorInTable, SpinsOnlyWhen
  <1>. QED  BY <1>2, <1>3

\* Whatever the file, a run that never ends hangs in the check of a file that
\* ends in a bare directive; at an unknown word that opens the file, or one that
\* is indented or trails another item, or at signs no token begins with, except
\* behind a declaration on its line; or in a usint8 counter over a full table.
THEOREM HangsOnlyThere == Spec => []SpinsOnlyWhen
  <1>1. Init => SpinInv
    BY InitInText DEF Init, TableInit, SpinInv, CursorInTable, SpinsOnlyWhen
  <1>2. SpinInv => SpinsOnlyWhen
    BY DEF SpinInv
  <1>. QED  BY <1>1, <1>2, NextSpin, PTL DEF Spec
-----------------------------------------------------------------------------
(***************************************************************************)
(* Where an operand no pass can take is met.                               *)
(***************************************************************************)
\* What pass 1 does not look at.
RefusedLast == \A p \in 1 .. Len(text) : Refused(p) => Line(p) = max_line

RefusalInv == CountInv /\ RefusedBeforeBytes

\* Pass 1 has taken every operand before the last line.
LEMMA CountedLast ==
    ASSUME CountInv, TextOK, phase = "emit", has_code
    PROVE  RefusedLast
  <1>1. PICK a \in 1 .. End : Only(Counted, a) /\ Past(a)
    BY DEF CountInv
  <1>. SUFFICES ASSUME NEW p \in 1 .. Len(text), Refused(p), Line(p) # max_line PROVE FALSE
    BY DEF RefusedLast
  <1>2. p \in Instructions /\ p \notin Counted
    BY DEF Refused, Counted, Instructions, Code
  <1>. QED  BY <1>1, <1>2 DEF Only, Past, Inner

\* A step that reports a refused operand is one of pass 1 or of pass 2.
LEMMA WhoRefuses ==
    ASSUME CountInv, Next, outcome' \in {"InvalidToken", "InvalidDigit", "InvalidCombination"}
    PROVE  \/ phase = "assign" /\ bin_data' = bin_data
           \/ phase = "emit" /\ has_code' = has_code
           \/ outcome' = outcome /\ bin_data' = bin_data /\ has_code' = has_code
  <1>1. CASE OpenFile \/ DeclareVariable \/ DeclareSubset \/ DeclarationsEnd
    <2>1. outcome = "none"
      BY <1>1 DEF OpenFile, DeclareVariable, DeclareSubset, Declaring, DeclarationsEnd, CountInv
    <2>. QED  BY <1>1, <2>1 DEF OpenFile, DeclareVariable, DeclareSubset, DeclarationsEnd,
             Goto, Stop, Spin
  <1>2. CASE StartPreprocessor
    BY <1>2 DEF StartPreprocessor, Goto, CountInv
  <1>3. CASE AssignMemAddress \/ AssignSpins \/ PassLine \/ Preprocess \/ AssigningEnds
    BY <1>3 DEF AssignMemAddress, AssignSpins, PassLine, Preprocess, AssigningEnds, Assigning
  <1>4. CASE Emit \/ EmittingEnds
    BY <1>4 DEF Emit, EmittingEnds, Emitting
  <1>5. CASE Ended
    BY <1>5 DEF Ended, vars, passVars
  <1>. QED  BY <1>1, <1>2, <1>3, <1>4, <1>5 DEF Next, Step

LEMMA SameRefused ==
    ASSUME text' = text
    PROVE  RefusedLast' = RefusedLast
  BY DEF RefusedLast, Refused, Line, max_line, Start, End, At

LEMMA NextRefusal == RefusalInv /\ [Next]_vars => RefusalInv'
  <1>. SUFFICES ASSUME RefusalInv, [Next]_vars PROVE RefusalInv'
    OBVIOUS
  <1>1. CountInv' /\ CountInv /\ EmitInv /\ EmitInv' /\ InText /\ TextOK
    BY NextCount, TextIsOK DEF RefusalInv, CountInv, EmitInv, InText
  <1>2. RefusedBeforeBytes' <=>
            ((outcome' \in {"InvalidToken", "InvalidDigit", "InvalidCombination"}
              /\ bin_data' # <<>>) => (~has_code' \/ RefusedLast'))
    BY DEF RefusedBeforeBytes, RefusedLast
  <1>3. CASE Next
    <2>1. text' = text
      BY <1>1, <1>3, StepInText
    <2>3. ASSUME outcome' \in {"InvalidToken", "InvalidDigit", "InvalidCombination"},
                 bin_data' # <<>>, has_code'
          PROVE  RefusedLast'
      <3>1. CASE phase = "assign" /\ bin_data' = bin_data
        BY <1>1, <2>3, <3>1 DEF EmitInv
      <3>2. CASE phase = "emit" /\ has_code' = has_code
        BY <1>1, <2>1, <2>3, <3>2, CountedLast, SameRefused
      <3>3. CASE outcome' = outcome /\ bin_data' = bin_data /\ has_code' = has_code
        BY <2>1, <2>3, <3>3, SameRefused DEF RefusalInv, RefusedBeforeBytes, RefusedLast
      <3>. QED  BY <1>1, <1>3, <2>3, <3>1, <3>2, <3>3, WhoRefuses
    <2>. QED  BY <1>1, <1>2, <2>3 DEF RefusalInv
  <1>4. CASE UNCHANGED vars
    <2>1. UNCHANGED <<text, phase, outcome, bin_data, has_code>>
      BY <1>4 DEF vars, passVars
    <2>2. RefusedBeforeBytes'
      BY <1>2, <2>1, SameRefused DEF RefusalInv, RefusedBeforeBytes, RefusedLast
    <2>. QED  BY <1>1, <2>1, <2>2, SameRefused DEF RefusalInv
  <1>. QED  BY <1>3, <1>4

\* In a file of any length in which code was seen, an operand that no pass can
\* take ends the run before test.bin has a byte, unless it is on the last line.
THEOREM RefusesFirst == Spec => []RefusedBeforeBytes
  <1>1. Init => RefusalInv
    BY InitCount DEF Init, RefusalInv, RefusedBeforeBytes
  <1>2. RefusalInv => RefusedBeforeBytes
    BY DEF RefusalInv
  <1>. QED  BY <1>1, <1>2, NextRefusal, PTL DEF Spec
-----------------------------------------------------------------------------
(***************************************************************************)
(* The symbol table a run leaves behind, for an ordinary file of any       *)
(* length: parser.hpp and pass 1 meet the same declarations in the same    *)
(* order, each is placed where the text puts it, and what a load reports   *)
(* of the table is what the text says.                                     *)
(***************************************************************************)
Mains == {q \in 1 .. Len(text) : At(q) = "var"}

\* The declarations of one main variable: itself and its subset variables.
Family(i) == {q \in Variables : VarsUpTo(q) = i}

\* How many declarations lie up to position p.
Nth(p) == Rank(Variables, p)

-----------------------------------------------------------------------------
(***************************************************************************)
(* An ordinary file.                                                       *)
(***************************************************************************)
Good == TextOK /\ Ordinary

LEMMA GoodItems ==
    ASSUME Good
    PROVE  /\ Len(text) \in Nat /\ Len(text) > 1 /\ End = Len(text) + 1 /\ End \in Nat
           /\ At(Len(text)) = "nl" /\ At(Len(text) - 1) = "nl" /\ At(1) = "use16" /\ Start = 1
           /\ \A p \in 1 .. Len(text) :
                 At(p) \in {"use16", "org", "nl", "mov", "load", "var", "sub", "cmt"}
           /\ \A p \in 2 .. Len(text) : At(p) # "use16" /\ (At(p) = "org" => p = 3)
           /\ \A p \in 1 .. Len(text) :
                 At(p) = "var" \/ At(p) = "sub" => text[p].value # "over" /\ text[p].kind = At(p)
           /\ \A p \in 1 .. Len(text) : At(p) = "sub" => text[p].value = "hex"
  <1>1. /\ At(1) = "use16" /\ Len(text) > 1
        /\ At(Len(text)) = "nl" /\ At(Len(text) - 1) = "nl"
        /\ \A p \in 2 .. Len(text) :
              /\ At(p) \in {"org", "nl", "mov", "load", "var", "sub", "cmt"}
              /\ At(p) = "org" => p = 3
              /\ At(p) = "var" => text[p].value # "over"
              /\ At(p) = "sub" => text[p].value = "hex"
    BY DEF Good, Ordinary, EndsInBlankLine
  <1>2. Len(text) \in Nat /\ End = Len(text) + 1 /\ End \in Nat
    BY AtFacts DEF Good, TextOK
  <1>3. \A p \in 1 .. Len(text) : p = 1 \/ p \in 2 .. Len(text)
    BY <1>2
  <1>4. \A p \in 1 .. Len(text) : At(p) = text[p].kind
    BY AtFacts DEF Good
  <1>. QED  BY <1>1, <1>2, <1>3, <1>4 DEF Start

\* Every item but a newline has its line to itself.
LEMMA NewlineBehind ==
    ASSUME Good, NEW p \in 1 .. Len(text), At(p) # "nl"
    PROVE  p + 1 \in 1 .. Len(text) /\ At(p + 1) = "nl"
  <1>1. p < Len(text)
    BY GoodItems
  <1>2. p + 1 \in 2 .. Len(text) /\ p + 1 \in 1 .. Len(text) /\ p + 1 > 1 /\ p = (p + 1) - 1
    BY <1>1, GoodItems
  <1>3. CASE At(p + 1) = "cmt"
    BY <1>2, <1>3 DEF Good, Ordinary
  <1>4. CASE At(p + 1) \notin {"nl", "cmt"}
    <2>1. text[p + 1].kind \notin {"nl", "cmt", "stray", "sign"} /\ At(p) = text[p].kind
      BY <1>2, <1>4, AtFacts, GoodItems DEF Good
    <2>. QED  BY <1>2, <2>1 DEF Good, TextOK
  <1>. QED  BY <1>2, <1>3, <1>4

\* Behind the main variable or another subset variable of it.
LEMMA SubsetFollows ==
    ASSUME Good, NEW p \in Variables, At(p) = "sub"
    PROVE  /\ LastItem(p) \in Variables /\ LastItem(p) < p
           /\ \A q \in 1 .. p - 1 : LastItem(p) < q => At(q) = "nl"
  <1>. DEFINE S == {0} \cup {q \in 1 .. p - 1 : At(q) # "nl"}
  <1>1. p \in 2 .. Len(text) /\ Len(text) \in Nat
    <2>1. p \in 1 .. Len(text) /\ p # 1
      BY GoodItems DEF Variables
    <2>. QED  BY <2>1, GoodItems
  <1>2. LastItem(p) > 0 /\ At(LastItem(p)) \in {"var", "sub"}
    BY <1>1 DEF Good, Ordinary
  <1>3. LastItem(p) \in S /\ \A q \in S : q <= LastItem(p)
    <2>1. S \in SUBSET Nat /\ S # {} /\ \A q \in S : q <= p
      BY <1>1
    <2>2. LastItem(p) = Max(S)
      BY DEF LastItem
    <2>. HIDE DEF S
    <2>3. p \in Nat
      BY <1>1
    <2>4. Max(S) \in S /\ \A q \in S : q <= Max(S)
      BY <2>1, <2>3, MaxOf
    <2>. QED  BY <2>2, <2>4
  <1>4. LastItem(p) \in 1 .. p - 1
    BY <1>1, <1>2, <1>3
  <1>5. \A q \in 1 .. p - 1 : LastItem(p) < q => At(q) = "nl"
    <2>. SUFFICES ASSUME NEW q \in 1 .. p - 1, LastItem(p) < q, At(q) # "nl" PROVE FALSE
      OBVIOUS
    <2>1. q \in S
      OBVIOUS
    <2>. HIDE DEF S
    <2>. QED  BY <1>1, <1>3, <1>4, <2>1
  <1>. QED  BY <1>1, <1>2, <1>4, <1>5 DEF Variables
-----------------------------------------------------------------------------
(***************************************************************************)
(* Ranks: the declarations, the main variables and the families.           *)
(***************************************************************************)
LEMMA Kinds16 ==
    ASSUME Good
    PROVE  /\ Variables \in SUBSET (1 .. Len(text)) /\ Mains \subseteq Variables
           /\ Mains \in SUBSET (1 .. Len(text)) /\ Instructions \in SUBSET (1 .. Len(text))
           /\ Counted = Instructions
           /\ \A i : Family(i) \in SUBSET (1 .. Len(text))
           /\ \A p \in Variables : p \in Nat \ {0} /\ p - 1 \in Nat /\ At(p) \notin Code
           /\ \A p \in Variables : p \in Mains \/ (p \notin Mains /\ At(p) = "sub")
  <1>1. Counted = Instructions
    <2>1. \A p \in 1 .. Len(text) : At(p) \in Code => At(p) \in {"mov", "load"}
      BY GoodItems DEF Code
    <2>. QED  BY <2>1 DEF Counted, Instructions, Refused, Code
  <1>. QED  BY <1>1, GoodItems DEF Variables, Mains, Instructions, Family, Code

\* The counts of the text are ranks.
LEMMA CountsAreRanks ==
    ASSUME Good, NEW p \in 0 .. End
    PROVE  /\ p <= Len(text) => VarsUpTo(p) = Rank(Mains, p)
           /\ p > 0 => MovsBefore(p) = Rank(Instructions, p - 1)
           /\ MovsBefore(0) = 0 /\ MovsBefore(p) \in Nat /\ Nth(p) \in Nat
           /\ p <= Len(text) => VarsUpTo(p) \in Nat
  <1>. DEFINE N == Len(text)
  <1>1. N \in Nat /\ p \in Nat /\ p <= N + 1 /\ End = N + 1
    BY GoodItems
  <1>2. p <= N => {q \in 1 .. p : At(q) = "var"} = {q \in Mains : q <= p}
    BY <1>1 DEF Mains
  <1>3. p > 0 => {q \in 1 .. p - 1 : At(q) \in {"mov", "load"}} = {q \in Instructions : q <= p - 1}
    <2>1. \A q \in 1 .. N : At(q) \in Code <=> At(q) \in {"mov", "load"}
      BY GoodItems DEF Code
    <2>. QED  BY <1>1, <2>1 DEF Instructions
  <1>4. MovsBefore(0) = 0
    <2>1. {q \in 1 .. 0 - 1 : At(q) \in {"mov", "load"}} = {}
      OBVIOUS
    <2>. QED  BY <2>1, FS_EmptySet, Zenon DEF MovsBefore
  <1>5. /\ p <= N => VarsUpTo(p) = Rank(Mains, p)
        /\ p > 0 => MovsBefore(p) = Rank(Instructions, p - 1)
    BY <1>2, <1>3 DEF VarsUpTo, MovsBefore, Rank
  <1>6. /\ Rank(Mains, p) \in Nat /\ Nth(p) \in Nat
        /\ p > 0 => Rank(Instructions, p - 1) \in Nat
    <2>1. p > 0 => p - 1 \in Nat
      BY <1>1
    <2>. QED  BY <1>1, <2>1, Kinds16, RankFacts DEF Nth
  <1>. QED  BY <1>1, <1>4, <1>5, <1>6

\* Ranks grow, and by one at each member.
LEMMA RankUp ==
    ASSUME NEW N \in Nat, NEW S \in SUBSET (1 .. N), NEW a \in Nat, NEW b \in Nat, a <= b
    PROVE  Rank(S, a) \in Nat /\ Rank(S, b) \in Nat /\ Rank(S, a) <= Rank(S, b)
  BY RankFacts

LEMMA RankMember ==
    ASSUME NEW N \in Nat, NEW S \in SUBSET (1 .. N), NEW p \in S
    PROVE  /\ p \in Nat /\ p - 1 \in Nat
           /\ Rank(S, p - 1) \in Nat /\ Rank(S, p) = Rank(S, p - 1) + 1
  <1>1. p \in Nat /\ p - 1 \in Nat
    OBVIOUS
  <1>2. Rank(S, p - 1) \in Nat
    BY <1>1, RankFacts
  <1>. QED  BY <1>1, <1>2, RankFacts

LEMMA RankBelow ==
    ASSUME NEW N \in Nat, NEW S \in SUBSET (1 .. N), NEW p \in S, NEW a \in Nat, a < p
    PROVE  Rank(S, a) \in Nat /\ Rank(S, p) \in Nat /\ Rank(S, a) < Rank(S, p)
  <1>1. /\ p \in Nat /\ p - 1 \in Nat
        /\ Rank(S, p - 1) \in Nat /\ Rank(S, p) = Rank(S, p - 1) + 1
    BY RankMember
  <1>2. Rank(S, a) \in Nat /\ Rank(S, a) <= Rank(S, p - 1)
    <2>1. a <= p - 1
      BY <1>1
    <2>. QED  BY <1>1, <2>1, RankUp
  <1>. QED  BY <1>1, <1>2

LEMMA NoneBetween ==
    ASSUME NEW N \in Nat, NEW S \in SUBSET (1 .. N), NEW a \in Nat, NEW b \in Nat, a <= b,
           \A q \in S : ~(a < q /\ q <= b)
    PROVE  Rank(S, b) = Rank(S, a)
  <1>1. \A q \in S : q \in Nat
    OBVIOUS
  <1>2. \A q \in S : q <= b <=> q <= a
    BY <1>1
  <1>3. {q \in S : q <= b} = {q \in S : q <= a}
    BY <1>2
  <1>. QED  BY <1>3 DEF Rank

LEMMA NextMember ==
    ASSUME NEW N \in Nat, NEW S \in SUBSET (1 .. N), NEW n \in S, NEW a \in Nat, a < n,
           \A q \in S : ~(a < q /\ q < n)
    PROVE  Rank(S, n) = Rank(S, a) + 1 /\ Rank(S, n - 1) = Rank(S, a)
  <1>1. n - 1 \in Nat /\ a <= n - 1 /\ \A q \in S : ~(a < q /\ q <= n - 1)
    OBVIOUS
  <1>2. Rank(S, n - 1) = Rank(S, a)
    BY <1>1, NoneBetween
  <1>. QED  BY <1>2, RankFacts

\* Every declaration belongs to a main variable.
LEMMA MainBefore ==
    ASSUME Good, NEW p \in Variables
    PROVE  VarsUpTo(p) \in Nat /\ VarsUpTo(p) >= 1 /\ p \in 0 .. Len(text) /\ p \in 0 .. End
  <1>. DEFINE N == Len(text)
              S == {q \in Variables : VarsUpTo(q) = 0}
  <1>1. /\ N \in Nat /\ End = N + 1 /\ Variables \in SUBSET (1 .. N) /\ Mains \in SUBSET (1 .. N)
        /\ \A q \in Variables : q \in 0 .. End /\ q <= N /\ q \in Nat /\ q - 1 \in Nat
    BY GoodItems, Kinds16
  <1>2. \A q \in Variables : VarsUpTo(q) = Rank(Mains, q) /\ VarsUpTo(q) \in Nat
    BY <1>1, CountsAreRanks
  <1>3. S = {}
    <2>. SUFFICES ASSUME S # {} PROVE FALSE
      OBVIOUS
    <2>1. S \in SUBSET Nat
      BY <1>1
    <2>2. PICK m \in S : \A q \in S : m <= q
      <3>. HIDE DEF S
      <3>. QED  BY <2>1, MinOf
    <2>3. m \in Variables /\ Rank(Mains, m) = 0
      BY <1>2
    <2>4. m \notin Mains
      <3>. SUFFICES ASSUME m \in Mains PROVE FALSE
        OBVIOUS
      <3>1. Rank(Mains, m) = Rank(Mains, m - 1) + 1 /\ Rank(Mains, m - 1) \in Nat
        BY <1>1, <2>3, RankFacts
      <3>. QED  BY <2>3, <3>1
    <2>5. At(m) = "sub"
      BY <2>3, <2>4, Kinds16
    <2>6. LastItem(m) \in Variables /\ LastItem(m) < m
      BY <2>3, <2>5, SubsetFollows
    <2>7. LastItem(m) \in Nat /\ m \in Nat
      BY <1>1, <2>3, <2>6
    <2>8. Rank(Mains, LastItem(m)) \in Nat /\ Rank(Mains, LastItem(m)) <= Rank(Mains, m)
      <3>1. LastItem(m) <= m
        BY <2>6, <2>7
      <3>. HIDE DEF S, N
      <3>. QED  BY <1>1, <2>7, <3>1, RankUp
    <2>9. LastItem(m) \in S
      BY <1>2, <2>3, <2>6, <2>8
    <2>. QED  BY <2>2, <2>6, <2>7, <2>9
  <1>. QED  BY <1>1, <1>2, <1>3

\* The entry of a declaration: that of a main variable has 0 behind.
LEMMA EntryFacts ==
    ASSUME Good, NEW p \in Variables
    PROVE  /\ EntryOf(p) = <<VarsUpTo(p) - 1, Rank(Family(VarsUpTo(p)), p) - 1>>
           /\ Rank(Family(VarsUpTo(p)), p) \in Nat /\ Rank(Family(VarsUpTo(p)), p) >= 1
           /\ Rank(Family(VarsUpTo(p)), p) <= Nth(p) /\ Nth(p) \in Nat /\ Nth(p) >= 1
           /\ Nth(p) <= Cardinality(Variables) /\ Cardinality(Variables) \in Nat
           /\ p \in Mains <=> Rank(Family(VarsUpTo(p)), p) = 1
  <1>. DEFINE N == Len(text)
              i == VarsUpTo(p)
              F == Family(i)
  <1>1. /\ N \in Nat /\ Variables \in SUBSET (1 .. N) /\ Mains \in SUBSET (1 .. N)
        /\ F \in SUBSET (1 .. N) /\ p \in F /\ p \in Nat /\ p - 1 \in Nat /\ i \in Nat
        /\ \A q \in Variables : q \in 0 .. End /\ q <= N /\ q \in Nat /\ VarsUpTo(q) = Rank(Mains, q)
    <2>1. N \in Nat /\ Variables \in SUBSET (1 .. N) /\ Mains \in SUBSET (1 .. N) /\ F \in SUBSET (1 .. N)
      BY GoodItems, Kinds16
    <2>2. \A q \in Variables : q \in 0 .. End /\ q <= N /\ q \in Nat
      BY <2>1, MainBefore
    <2>3. \A q \in Variables : VarsUpTo(q) = Rank(Mains, q)
      BY <2>2, CountsAreRanks
    <2>4. i \in Nat
      BY MainBefore
    <2>. QED  BY <2>1, <2>2, <2>3, <2>4, Kinds16 DEF Family
  <1>2. EntryOf(p) = <<i - 1, Rank(F, p) - 1>>
    <2>1. {q \in Variables : q <= p /\ VarsUpTo(q) = VarsUpTo(p)} = {q \in F : q <= p}
      BY DEF Family
    <2>. QED  BY <2>1 DEF EntryOf, Rank
  <1>. HIDE DEF F, N
  <1>3. Rank(F, p) = Rank(F, p - 1) + 1 /\ Rank(F, p - 1) \in Nat
    BY <1>1, RankFacts
  <1>4. Nth(p) = Rank(Variables, p - 1) + 1 /\ Rank(Variables, p - 1) \in Nat
        /\ Nth(p) <= Cardinality(Variables) /\ Cardinality(Variables) \in Nat
    BY <1>1, RankFacts DEF Nth
  <1>5. Rank(F, p) <= Nth(p)
    <2>1. {q \in F : q <= p} \subseteq {q \in Variables : q <= p}
      BY DEF F, Family
    <2>2. IsFiniteSet({q \in Variables : q <= p})
      <3>1. IsFiniteSet(Variables) /\ {q \in Variables : q <= p} \subseteq Variables
        BY <1>1, RankFacts
      <3>. QED  BY <3>1, FS_Subset
    <2>3. Cardinality({q \in F : q <= p}) <= Cardinality({q \in Variables : q <= p})
      BY <2>1, <2>2, FS_Subset
    <2>. QED  BY <2>3 DEF Rank, Nth
  <1>6. ASSUME p \in Mains PROVE Rank(F, p) = 1
    <2>1. Rank(Mains, p) = Rank(Mains, p - 1) + 1 /\ Rank(Mains, p - 1) \in Nat
      BY <1>1, <1>6, RankFacts
    <2>2. \A q \in F : q <= p - 1 => FALSE
      <3>. SUFFICES ASSUME NEW q \in F, q <= p - 1 PROVE FALSE
        OBVIOUS
      <3>1. q \in Variables /\ Rank(Mains, q) = Rank(Mains, p) /\ q \in Nat
        BY <1>1 DEF F, Family
      <3>2. Rank(Mains, q) <= Rank(Mains, p - 1)
        BY <1>1, <3>1, RankFacts
      <3>. QED  BY <2>1, <3>1, <3>2
    <2>3. {q \in F : q <= p - 1} = {}
      BY <2>2
    <2>. QED  BY <1>3, <2>3, FS_EmptySet DEF Rank
  <1>7. ASSUME p \notin Mains PROVE Rank(F, p) # 1
    <2>. DEFINE l == LastItem(p)
    <2>1. At(p) = "sub" /\ l \in Variables /\ l < p /\ \A q \in 1 .. p - 1 : l < q => At(q) = "nl"
      BY <1>7, Kinds16, SubsetFollows
    <2>. HIDE DEF l
    <2>2. l \in Nat /\ l <= p - 1 /\ l \in 1 .. N
      BY <1>1, <2>1
    <2>3. \A q \in Mains : ~(l < q /\ q <= p)
      <3>. SUFFICES ASSUME NEW q \in Mains, l < q, q <= p PROVE FALSE
        OBVIOUS
      <3>1. q # p /\ q \in 1 .. N
        BY <1>1, <1>7
      <3>2. q \in 1 .. p - 1
        BY <1>1, <3>1
      <3>. QED  BY <2>1, <3>2 DEF Mains
    <2>4. Rank(Mains, p) = Rank(Mains, l)
      BY <1>1, <2>2, <2>3, NoneBetween
    <2>5. l \in F
      BY <1>1, <2>1, <2>4 DEF F, Family
    <2>6. Rank(F, l) = Rank(F, l - 1) + 1 /\ Rank(F, l - 1) \in Nat /\ l - 1 \in Nat
      BY <1>1, <2>5, RankMember
    <2>7. Rank(F, l) <= Rank(F, p - 1)
      BY <1>1, <2>2, RankFacts
    <2>. QED  BY <1>3, <2>6, <2>7
  <1>. QED  BY <1>2, <1>3, <1>4, <1>5, <1>6, <1>7 DEF F

\* Entries are in the order of the text: by main variable, then by subset.
LEMMA EntriesAscend ==
    ASSUME Good, NEW p \in Variables, NEW q \in Variables, p < q
    PROVE  /\ VarsUpTo(p) <= VarsUpTo(q)
           /\ VarsUpTo(p) = VarsUpTo(q) =>
                 Rank(Family(VarsUpTo(p)), p) < Rank(Family(VarsUpTo(p)), q)
           /\ q \in Mains => VarsUpTo(p) < VarsUpTo(q)
  <1>. DEFINE N == Len(text)
              F == Family(VarsUpTo(p))
  <1>1. /\ N \in Nat /\ Mains \in SUBSET (1 .. N) /\ F \in SUBSET (1 .. N)
        /\ p \in Nat /\ q \in Nat /\ q - 1 \in Nat /\ p \in 0 .. End /\ q \in 0 .. End /\ p <= N /\ q <= N
    BY GoodItems, Kinds16, MainBefore
  <1>2. VarsUpTo(p) = Rank(Mains, p) /\ VarsUpTo(q) = Rank(Mains, q)
    BY <1>1, CountsAreRanks
  <1>. HIDE DEF F, N
  <1>3. Rank(Mains, p) <= Rank(Mains, q)
    <2>1. N \in Nat /\ Mains \in SUBSET (1 .. N) /\ p \in Nat /\ q \in Nat /\ p <= q
      BY <1>1
    <2>. QED  BY ONLY <2>1, RankUp
  <1>4. ASSUME VarsUpTo(p) = VarsUpTo(q) PROVE Rank(F, p) < Rank(F, q)
    <2>1. q \in F
      BY <1>4 DEF F, Family
    <2>. QED  BY <1>1, <2>1, RankBelow
  <1>5. ASSUME q \in Mains PROVE Rank(Mains, p) < Rank(Mains, q)
    BY <1>1, <1>5, RankBelow
  <1>. QED  BY <1>2, <1>3, <1>4, <1>5 DEF F
-----------------------------------------------------------------------------
(***************************************************************************)
(* Where a declaration is placed.                                          *)
(***************************************************************************)
LEMMA DeclarationBeforeFacts ==
    ASSUME Good, NEW c \in Nat
    PROVE  /\ DeclarationBefore(c) \in Nat
           /\ DeclarationBefore(c) = 0 \/ DeclarationBefore(c) \in Variables
           /\ DeclarationBefore(c) # 0 => DeclarationBefore(c) < c
           /\ \A q \in Variables : q < c => q <= DeclarationBefore(c)
           /\ DeclarationBefore(c) = 0 => \A q \in Variables : ~(q < c)
  <1>. DEFINE T == {q \in Variables : q < c}
              S == {0} \cup T
  <1>1. /\ S \in SUBSET Nat /\ S # {} /\ \A y \in S : y <= c
        /\ \A q \in Variables : q \in Nat \ {0}
        /\ DeclarationBefore(c) = Max(S)
    BY Kinds16 DEF DeclarationBefore
  <1>2. \A y \in S : y = 0 \/ (y \in Variables /\ y < c)
    OBVIOUS
  <1>3. \A q \in Variables : q < c => q \in S
    OBVIOUS
  <1>. HIDE DEF S
  <1>4. Max(S) \in S /\ \A y \in S : y <= Max(S)
    BY <1>1, MaxOf
  <1>. DEFINE d == DeclarationBefore(c)
  <1>5. d \in S /\ \A y \in S : y <= d
    BY <1>1, <1>4
  <1>. HIDE DEF d
  <1>6. d \in Nat /\ (d = 0 \/ d \in Variables) /\ (d # 0 => d < c)
    BY <1>1, <1>2, <1>5
  <1>7. \A q \in Variables : q < c => q <= d
    BY <1>3, <1>5
  <1>8. d = 0 => \A q \in Variables : ~(q < c)
    BY <1>1, <1>7
  <1>. QED  BY <1>6, <1>7, <1>8 DEF d

LEMMA BytesOfSize == \A size : Bytes(size) \in {1, 2, 4}
  BY DEF Bytes

\* The bytes before a declaration are those of finitely many declarations.
LEMMA BytesBeforeFinite ==
    ASSUME Good, NEW p
    PROVE  IsFiniteSet(BytesBefore(p)) /\ Cardinality(BytesBefore(p)) \in Nat
  <1>. DEFINE A == 1 .. Len(text)  B == 1 .. 4
  <1>1. IsFiniteSet(A) /\ IsFiniteSet(B)
    <2>1. 1 \in Int /\ 4 \in Int /\ Len(text) \in Int
      BY GoodItems
    <2>. QED  BY <2>1, FS_Interval, Zenon
  <1>2. BytesBefore(p) \subseteq A \X B
    <2>. SUFFICES ASSUME NEW x \in BytesBefore(p) PROVE x \in A \X B
      OBVIOUS
    <2>1. PICK q \in Variables : x \in {q} \X (1 .. Bytes(text[q].size))
      BY DEF BytesBefore
    <2>2. q \in A /\ 1 .. Bytes(text[q].size) \subseteq B
      BY Kinds16, BytesOfSize
    <2>. QED  BY <2>1, <2>2
  <1>. HIDE DEF A, B
  <1>3. IsFiniteSet(A \X B)
    BY <1>1, FS_Product
  <1>. QED  BY <1>2, <1>3, FS_Subset, FS_CardinalityType

\* They are the bytes of the declaration before, and of those before that one.
LEMMA BytesBeforeFacts ==
    ASSUME Good, NEW n \in Variables
    PROVE  LET d == DeclarationBefore(n)
           IN  /\ d = 0 => Cardinality(BytesBefore(n)) = 0
               /\ d # 0 => Cardinality(BytesBefore(n)) =
                               Cardinality(BytesBefore(d)) + Bytes(text[d].size)
  <1>. DEFINE d == DeclarationBefore(n)
              b == Bytes(text[d].size)
              Of(q) == {q} \X (1 .. Bytes(text[q].size))
  <1>1. /\ n \in Nat /\ d \in Nat /\ (d = 0 \/ d \in Variables) /\ (d # 0 => d < n)
        /\ \A q \in Variables : q < n => q <= d
        /\ d = 0 => \A q \in Variables : ~(q < n)
        /\ \A q \in Variables : q \in Nat
    BY Kinds16, DeclarationBeforeFacts
  <1>2. ASSUME d = 0 PROVE Cardinality(BytesBefore(n)) = 0
    <2>1. BytesBefore(n) = {}
      BY <1>1, <1>2 DEF BytesBefore
    <2>. QED  BY <2>1, FS_EmptySet
  <1>3. ASSUME d # 0 PROVE Cardinality(BytesBefore(n)) = Cardinality(BytesBefore(d)) + b
    <2>. DEFINE A == BytesBefore(d)  B == {d} \X (1 .. b)
    <2>1. d \in Variables /\ d < n
      BY <1>1, <1>3
    <2>2. \A q \in Variables : q < n <=> (q < d \/ q = d)
      <3>. HIDE DEF d
      <3>. QED  BY <1>1, <2>1
    <2>3. {q \in Variables : q < n} = {q \in Variables : q < d} \cup {d}
      BY <2>1, <2>2
    <2>4. BytesBefore(n) = UNION {Of(q) : q \in {r \in Variables : r < n}}
      BY Zenon DEF BytesBefore
    <2>5. A = UNION {Of(q) : q \in {r \in Variables : r < d}}
      BY Zenon DEF BytesBefore
    <2>6. B = Of(d)
      OBVIOUS
    <2>. HIDE DEF d, b, A, B, Of
    <2>7. BytesBefore(n) = A \cup B
      BY <2>3, <2>4, <2>5, <2>6
    <2>8. A \cap B = {}
      <3>. SUFFICES ASSUME NEW x, x \in A, x \in B PROVE FALSE
        OBVIOUS
      <3>1. PICK q \in Variables : q < d /\ x \in Of(q)
        BY <2>5
      <3>2. x[1] = q /\ x[1] = d
        BY <2>6, <3>1 DEF Of
      <3>. QED  BY <1>1, <3>1, <3>2
    <2>9. IsFiniteSet(A) /\ Cardinality(A) \in Nat
      BY BytesBeforeFinite DEF A
    <2>10. IsFiniteSet(B) /\ Cardinality(B) = b
      <3>1. b \in {1, 2, 4}
        BY BytesOfSize DEF b
      <3>2. IsFiniteSet(1 .. b) /\ Cardinality(1 .. b) = b
        <4>1. b \in Int /\ ~(1 > b) /\ b - 1 + 1 = b
          BY <3>1
        <4>. QED  BY <4>1, FS_Interval
      <3>3. IsFiniteSet({d}) /\ Cardinality({d}) = 1
        BY FS_Singleton
      <3>4. IsFiniteSet({d} \X (1 .. b)) /\ Cardinality({d} \X (1 .. b)) = 1 * b
        BY <3>2, <3>3, FS_Product
      <3>. QED  BY <3>1, <3>4 DEF B
    <2>11. Cardinality(A \cup B) = Cardinality(A) + Cardinality(B) - Cardinality(A \cap B)
      BY <2>9, <2>10, FS_Union
    <2>12. Cardinality(A \cap B) = 0
      BY <2>8, FS_EmptySet
    <2>13. b \in Nat
      BY BytesOfSize DEF b
    <2>14. Cardinality(BytesBefore(n)) = Cardinality(A) + b
      BY <2>7, <2>9, <2>10, <2>11, <2>12, <2>13
    <2>. QED  BY <2>14 DEF A
  <1>. QED  BY <1>2, <1>3

\* The code between declarations that a place counts stands before declarations.
LEMMA LaterCodeIsDeclared ==
    ASSUME Good
    PROVE  BehindLaterCode \in SUBSET (1 .. Len(text)) /\ BehindLaterCode \subseteq Variables
  BY Kinds16 DEF BehindLaterCode

\* The code before a declaration and before the one that precedes it.
LEMMA CodeBetween ==
    ASSUME Good, NEW n \in Variables
    PROVE  LET d == DeclarationBefore(n)
           IN  /\ MovsBefore(d) \in Nat /\ MovsBefore(n) \in Nat
               /\ MovsBefore(d) <= MovsBefore(n)
               /\ d = 0 => MovsBefore(d) = 0
  <1>. DEFINE d == DeclarationBefore(n)
              N == Len(text)
  <1>1. /\ N \in Nat /\ End = N + 1 /\ n \in 1 .. N /\ n \in 0 .. End /\ n \in Nat
        /\ Instructions \in SUBSET (1 .. N)
        /\ d \in Nat /\ (d = 0 \/ d \in Variables) /\ (d # 0 => d < n)
    <2>1. /\ N \in Nat /\ End = N + 1 /\ n \in 1 .. N /\ n \in Nat
          /\ Instructions \in SUBSET (1 .. N)
      BY GoodItems, Kinds16
    <2>2. d \in Nat /\ (d = 0 \/ d \in Variables) /\ (d # 0 => d < n)
      BY <2>1, DeclarationBeforeFacts
    <2>. HIDE DEF d, N
    <2>. QED  BY <2>1, <2>2
  <1>. HIDE DEF d, N
  <1>2. d \in 0 .. End /\ d <= n
    BY <1>1
  <1>3. /\ MovsBefore(d) \in Nat /\ MovsBefore(n) \in Nat
        /\ d = 0 => MovsBefore(d) = 0
    BY <1>1, <1>2, CountsAreRanks
  <1>4. ASSUME d # 0 PROVE MovsBefore(d) <= MovsBefore(n)
    <2>1. MovsBefore(d) = Rank(Instructions, d - 1) /\ MovsBefore(n) = Rank(Instructions, n - 1)
      BY <1>1, <1>2, <1>4, CountsAreRanks
    <2>2. d - 1 \in Nat /\ n - 1 \in Nat /\ d - 1 <= n - 1
      BY <1>1, <1>2, <1>4
    <2>. QED  BY <1>1, <2>1, <2>2, RankUp
  <1>. QED  BY <1>3, <1>4 DEF d

\* From one declaration to the next.
LEMMA PlaceStep ==
    ASSUME Good, origin \in Nat, NEW n \in Variables
    PROVE  LET d == DeclarationBefore(n)
               before == MovsBefore(d)
               now == MovsBefore(n)
           IN  /\ Place(n) \in Int
               /\ d = 0 => Place(n) = origin + 3 * now
               /\ d # 0 => Place(n) = Place(d) + Bytes(text[d].size) + 3 * now - 3 * before
                                         - (IF before > 0 /\ now > before THEN 1 ELSE 0)
  <1>. DEFINE d == DeclarationBefore(n)
              N == Len(text)
              L == BehindLaterCode
              b == Bytes(text[d].size)
              before == MovsBefore(d)
              now == MovsBefore(n)
  <1>1. /\ N \in Nat /\ n \in Nat /\ n - 1 \in Nat /\ L \in SUBSET (1 .. N) /\ L \subseteq Variables
        /\ d \in Nat /\ (d = 0 \/ d \in Variables) /\ (d # 0 => d < n)
        /\ \A q \in Variables : q < n => q <= d
        /\ \A q \in Variables : q \in Nat \ {0}
    BY GoodItems, Kinds16, DeclarationBeforeFacts, LaterCodeIsDeclared
  <1>2. /\ before \in Nat /\ now \in Nat /\ before <= now /\ (d = 0 => before = 0)
    BY CodeBetween
  <1>3. b \in Nat
    BY BytesOfSize
  <1>4. \A p : Place(p) = origin + 3 * MovsBefore(p) + Cardinality(BytesBefore(p)) - Rank(L, p)
    BY Zenon DEF Place, Rank
  <1>5. n \in L <=> before > 0 /\ now > before
    BY DEF BehindLaterCode
  <1>6. /\ d = 0 => Cardinality(BytesBefore(n)) = 0
        /\ d # 0 => Cardinality(BytesBefore(n)) = Cardinality(BytesBefore(d)) + b
    BY BytesBeforeFacts
  <1>7. Cardinality(BytesBefore(d)) \in Nat /\ Cardinality(BytesBefore(n)) \in Nat
    BY BytesBeforeFinite
  <1>. HIDE DEF d, N, L, b, before, now
  <1>8. Rank(L, n - 1) = Rank(L, d) /\ Rank(L, d) \in Nat
    <2>1. d <= n - 1 /\ \A q \in L : ~(d < q /\ q <= n - 1)
      BY <1>1
    <2>2. Rank(L, n - 1) = Rank(L, d)
      BY <1>1, <2>1, NoneBetween
    <2>3. d <= d
      BY <1>1
    <2>. QED  BY <1>1, <2>2, <2>3, RankUp
  <1>9. Rank(L, n) = Rank(L, d) + (IF n \in L THEN 1 ELSE 0)
    <2>1. CASE n \in L
      BY <1>1, <1>8, <2>1, RankMember
    <2>2. CASE n \notin L
      <3>1. /\ N \in Nat /\ L \in SUBSET (1 .. N) /\ n - 1 \in Nat /\ n \in Nat /\ n - 1 <= n
            /\ \A q \in L : ~(n - 1 < q /\ q <= n)
        BY <1>1, <2>2
      <3>2. Rank(L, n) = Rank(L, n - 1)
        BY ONLY <3>1, NoneBetween
      <3>. QED  BY <1>8, <2>2, <3>2
    <2>. QED  BY <2>1, <2>2
  <1>10. d = 0 => Rank(L, d) = 0
    <2>1. {q \in L : q <= 0} = {}
      <3>1. \A q \in L : q \in Nat \ {0}
        BY <1>1
      <3>2. \A q \in L : ~(q <= 0)
        BY <3>1
      <3>. QED  BY <3>2
    <2>2. Rank(L, 0) = 0
      BY <2>1, FS_EmptySet DEF Rank
    <2>. QED  BY <2>2
  <1>11. Place(n) = origin + 3 * now + Cardinality(BytesBefore(n)) - Rank(L, n)
    BY <1>4 DEF now
  <1>12. Place(d) = origin + 3 * before + Cardinality(BytesBefore(d)) - Rank(L, d)
    BY <1>4 DEF before
  <1>13. CASE d = 0
    <2>1. n \notin L
      BY <1>2, <1>5, <1>13
    <2>2. Rank(L, n) = 0 /\ Cardinality(BytesBefore(n)) = 0
      BY <1>6, <1>9, <1>10, <1>13, <2>1
    <2>3. Place(n) = origin + 3 * now /\ Place(n) \in Int
      BY <1>2, <1>11, <2>2
    <2>. QED  BY <1>13, <2>3 DEF d, now
  <1>14. CASE d # 0
    <2>1. Place(n) = Place(d) + b + 3 * now - 3 * before - (IF n \in L THEN 1 ELSE 0)
          /\ Place(n) \in Int
      <3>1. Cardinality(BytesBefore(n)) = Cardinality(BytesBefore(d)) + b
        BY <1>6, <1>14
      <3>. QED  BY <1>2, <1>3, <1>7, <1>8, <1>9, <1>11, <1>12, <3>1
    <2>2. Place(n) = Place(d) + b + 3 * now - 3 * before - (IF before > 0 /\ now > before THEN 1 ELSE 0)
      BY <1>5, <2>1
    <2>. QED  BY <1>14, <2>1, <2>2 DEF d, b, before, now
  <1>. QED  BY <1>13, <1>14

\* Declarations are placed behind the origin, each behind the one before it.
LEMMA PlacesAscend ==
    ASSUME Good, origin \in Nat
    PROVE  /\ \A p \in Variables : Place(p) \in Nat /\ origin <= Place(p)
           /\ \A p, q \in Variables : p < q => Place(p) < Place(q)
  <1>. DEFINE Bad == {p \in Variables : ~(Place(p) \in Nat /\ origin <= Place(p)
                                            /\ \A q \in Variables : q < p => Place(q) < Place(p))}
  <1>1. Bad = {}
    <2>. SUFFICES ASSUME Bad # {} PROVE FALSE
      OBVIOUS
    <2>1. Bad \in SUBSET Nat
      BY Kinds16
    <2>2. PICK n \in Bad : \A q \in Bad : n <= q
      <3>. HIDE DEF Bad
      <3>. QED  BY <2>1, MinOf
    <2>. DEFINE d == DeclarationBefore(n)
                b == Bytes(text[d].size)
                before == MovsBefore(d)
                now == MovsBefore(n)
    <2>3. n \in Variables /\ n \in Nat
      BY Kinds16
    <2>4. /\ d \in Nat /\ (d = 0 \/ d \in Variables) /\ (d # 0 => d < n)
          /\ \A q \in Variables : q < n => q <= d
          /\ d = 0 => \A q \in Variables : ~(q < n)
      BY <2>3, DeclarationBeforeFacts
    <2>5. b \in Nat /\ b >= 1
      BY BytesOfSize
    <2>6. before \in Nat /\ now \in Nat /\ before <= now
      BY <2>3, CodeBetween
    <2>7. /\ Place(n) \in Int
          /\ d = 0 => Place(n) = origin + 3 * now
          /\ d # 0 => Place(n) = Place(d) + b + 3 * now - 3 * before
                                    - (IF before > 0 /\ now > before THEN 1 ELSE 0)
      BY <2>3, PlaceStep
    <2>8. d # 0 => /\ Place(d) \in Nat /\ origin <= Place(d)
                   /\ \A q \in Variables : q < d => Place(q) < Place(d)
      <3>. SUFFICES ASSUME d # 0 PROVE d \notin Bad /\ d \in Variables
        OBVIOUS
      <3>1. ~(n <= d)
        <4>. HIDE DEF d
        <4>. QED  BY <2>3, <2>4
      <3>. QED  BY <2>2, <2>4, <3>1
    <2>9. n \in Bad
      OBVIOUS
    <2>10. \A q \in Variables : q \in Nat
      BY Kinds16
    <2>11. ~(Place(n) \in Nat /\ origin <= Place(n) /\ \A q \in Variables : q < n => Place(q) < Place(n))
      BY <2>9
    <2>. HIDE DEF d, b, before, now, Bad
    <2>12. CASE d = 0
      BY <2>4, <2>6, <2>7, <2>11, <2>12
    <2>13. CASE d # 0
      <3>1. Place(d) < Place(n) /\ Place(d) \in Nat /\ origin <= Place(d)
        BY <2>5, <2>6, <2>7, <2>8, <2>13
      <3>2. Place(n) \in Nat /\ origin <= Place(n)
        BY <2>7, <3>1
      <3>3. ASSUME NEW q \in Variables, q < n PROVE Place(q) < Place(n)
        <4>1. q = d \/ q < d
          BY <2>4, <2>10, <3>3
        <4>2. CASE q < d
          <5>1. Place(q) < Place(d)
            BY <2>8, <2>13, <4>2
          <5>2. Place(q) \in Int
            BY PlaceStep
          <5>. QED  BY <2>7, <3>1, <5>1, <5>2
        <4>. QED  BY <3>1, <4>1, <4>2
      <3>. QED  BY <2>11, <3>2, <3>3
    <2>. QED  BY <2>12, <2>13
  <1>2. \A p \in Variables : p \notin Bad
    BY <1>1
  <1>. QED  BY <1>2
-----------------------------------------------------------------------------
(***************************************************************************)
(* What is known of the table.                                             *)
(***************************************************************************)
Before(c) == {p \in Variables : p < c}

\* What the table holds for a declaration when j of them have been placed.
Address(p, j) == IF Nth(p) <= j /\ Nth(p) <= Byte THEN Place(p) ELSE Nth(p) - 1

Entry(p, j) == [name |-> text[p].name, size |-> text[p].size, address |-> Address(p, j)]

\* The table has the declarations before position c, of which j are placed.
Holds(c, j) ==
    /\ bit16_length = Rank(Mains, c - 1)
    /\ DOMAIN metadata = {EntryOf(p) : p \in Before(c)}
    /\ \A p \in Before(c) : metadata[EntryOf(p)] = Entry(p, j)
    /\ IsFiniteSet(DOMAIN metadata)
    /\ Cardinality(DOMAIN metadata) = Rank(Variables, c - 1)

\* The number the next subset variable gets.
SubsetsCounted(c) ==
    /\ DOMAIN subset_variables_count = 0 .. bit16_length - 1
    /\ bit16_length > 0 =>
          subset_variables_count[bit16_length - 1] = Rank(Family(bit16_length), c - 1) - 1

\* Pass 1 has placed nothing.
Unplaced ==
    /\ index = 0 /\ ~last_was_subset_var /\ variable_id = 0
    /\ last_address = 0 /\ last_program_counter = 0

\* Up to the last value of variable_id the placement keeps step with the text.
InStep(c) ==
    LET d == DeclarationBefore(c)
    IN  /\ variable_id = Nth(c - 1)
        /\ index = IF d = 0 THEN 0 ELSE VarsUpTo(d)
        /\ last_was_subset_var <=> (d # 0 /\ d \notin Mains)
        /\ last_was_subset_var => last_subset_var_id = EntryOf(d)[2] - 1
        /\ last_address = IF d = 0 THEN 0 ELSE Place(d)
        /\ last_program_counter = Full(MovsBefore(d))

\* Where pass 1 can stand.
Stands == position \in 1 .. Len(text) /\ At(position) \in {"nl", "use16", "org", "mov", "load"}

\* What is known of the table in each phase.
Progress ==
    /\ bit_type = "bit16" /\ (Variables # {} => origin = text[3].value)
    /\ phase # "undefined" => ~corrupted
    /\ phase = "declare" =>
          /\ At(position) \notin {"nl", "cmt"}
          /\ Holds(position, 0) /\ SubsetsCounted(position) /\ Unplaced
    /\ phase = "scan" => Holds(End, 0) /\ Unplaced
    /\ phase = "assign" =>
          /\ Stands /\ Holds(End, Nth(position - 1)) /\ variable_id \in 0 .. Byte - 1
          /\ Nth(position - 1) < Byte => InStep(position)
    /\ phase \in {"emit", "stopped"} => Holds(End, Cardinality(Variables))
    /\ phase = "undefined" =>
          Cardinality(Variables) >= Byte \/ At(Max(Variables)) = "sub"

TableInv ==
    /\ CountInv /\ SpinInv
    /\ phase = "open" => TableInit /\ bit_type = "NoneSet" /\ variable_id = 0 /\ position = 1
    /\ Good /\ Fits /\ phase # "open" => Progress

\* No two declarations share an entry of the table.
LEMMA EntriesApart ==
    ASSUME Good, NEW p \in Variables, NEW q \in Variables, EntryOf(p) = EntryOf(q)
    PROVE  p = q
  <1>1. ASSUME NEW a \in Variables, NEW b \in Variables, a < b, EntryOf(a) = EntryOf(b)
        PROVE  FALSE
    <2>. DEFINE ra == Rank(Family(VarsUpTo(a)), a)
                rb == Rank(Family(VarsUpTo(b)), b)
    <2>1. /\ EntryOf(a) = <<VarsUpTo(a) - 1, ra - 1>> /\ EntryOf(b) = <<VarsUpTo(b) - 1, rb - 1>>
          /\ ra \in Nat /\ rb \in Nat
      BY EntryFacts
    <2>2. VarsUpTo(a) \in Nat /\ VarsUpTo(b) \in Nat
      BY MainBefore
    <2>. HIDE DEF ra, rb
    <2>3. VarsUpTo(a) = VarsUpTo(b) /\ ra = rb
      <3>1. <<VarsUpTo(a) - 1, ra - 1>> = <<VarsUpTo(b) - 1, rb - 1>>
        BY <1>1, <2>1, Zenon
      <3>2. VarsUpTo(a) - 1 = VarsUpTo(b) - 1 /\ ra - 1 = rb - 1
        BY <3>1
      <3>. QED  BY <2>1, <2>2, <3>2
    <2>. QED  BY <1>1, <2>1, <2>3, EntriesAscend DEF ra, rb
  <1>2. p \in Nat /\ q \in Nat
    BY Kinds16
  <1>. QED  BY <1>1, <1>2

LEMMA GoodOrigin ==
    ASSUME Good, Variables # {}
    PROVE  /\ 3 \in 1 .. Len(text) /\ At(3) = "org" /\ At(2) = "nl"
           /\ text[3].value \in Nat /\ Cardinality(Variables) <= text[3].value
  <1>1. At(3) = "org" /\ text[3].value >= Cardinality(Variables)
    BY DEF Good, Ordinary
  <1>2. PICK n \in Variables : TRUE
    OBVIOUS
  <1>3. n \in 1 .. Len(text) /\ At(n) \notin {"nl", "use16"}
    BY Kinds16 DEF Variables
  <1>4. n # 1 /\ n # Len(text) /\ Len(text) \in Nat
    BY <1>3, GoodItems
  <1>5. 3 \in 1 .. Len(text) /\ 3 > 1 /\ 3 - 1 = 2 /\ 2 \in 1 .. Len(text)
    BY <1>3, <1>4
  <1>6. /\ text[3].kind = "org" /\ text[3].value \in Nat /\ text[2].kind = "nl"
        /\ At(2) = text[2].kind
    <2>1. /\ At(3) = text[3].kind /\ At(2) = text[2].kind
      BY <1>5, AtFacts DEF Good
    <2>2. text[3].kind = "org"
      BY <1>1, <2>1
    <2>. QED  BY <1>5, <2>1, <2>2 DEF Good, TextOK
  <1>7. Cardinality(Variables) \in Nat
    BY <1>4, Kinds16, RankFacts
  <1>. QED  BY <1>1, <1>5, <1>6, <1>7
-----------------------------------------------------------------------------
(***************************************************************************)
(* parser.hpp: the table as it is declared.                                *)
(***************************************************************************)
LEMMA SameTables ==
    ASSUME text' = text, origin' = origin
    PROVE  /\ Variables' = Variables /\ Mains' = Mains /\ Good' = Good /\ Fits' = Fits
           /\ \A p : Before(p)' = Before(p) /\ EntryOf(p)' = EntryOf(p)
                     /\ VarsUpTo(p)' = VarsUpTo(p) /\ MovsBefore(p)' = MovsBefore(p)
                     /\ DeclarationBefore(p)' = DeclarationBefore(p)
                     /\ Place(p)' = Place(p) /\ Nth(p)' = Nth(p)
           /\ \A p, j : Entry(p, j)' = Entry(p, j)
           /\ \A i : Family(i)' = Family(i)
  <1>1. Variables' = Variables /\ Mains' = Mains
    BY DEF Variables, Mains, At, End
  <1>2. \A p : VarsUpTo(p)' = VarsUpTo(p) /\ MovsBefore(p)' = MovsBefore(p)
    BY DEF VarsUpTo, MovsBefore, At, End
  <1>3. \A i : Family(i)' = Family(i)
    BY <1>1, <1>2 DEF Family
  <1>4. \A p : Before(p)' = Before(p) /\ EntryOf(p)' = EntryOf(p)
               /\ DeclarationBefore(p)' = DeclarationBefore(p) /\ BytesBefore(p)' = BytesBefore(p)
    BY <1>1, <1>2 DEF Before, EntryOf, DeclarationBefore, BytesBefore
  <1>5. BehindLaterCode' = BehindLaterCode
    BY <1>1, <1>2, <1>4 DEF BehindLaterCode
  <1>6. \A p : Place(p)' = Place(p) /\ Nth(p)' = Nth(p)
    BY <1>1, <1>2, <1>4, <1>5 DEF Place, Nth
  <1>7. \A p, j : Entry(p, j)' = Entry(p, j)
    BY <1>6 DEF Entry, Address
  <1>8. Fits' = Fits
    BY <1>1, <1>6 DEF Fits
  <1>9. Good' = Good
    BY <1>1, SameRefused DEF Good, TextOK, Ordinary, LastItem, EndsInBlankLine, At, End, Variables
  <1>. QED  BY <1>1, <1>2, <1>3, <1>4, <1>6, <1>7, <1>8, <1>9

\* A declaration enters the table behind those before it.
LEMMA EntryAdded ==
    ASSUME Good, Cardinality(Variables) <= Word, NEW c \in Nat \ {0}, NEW n \in Variables, c <= n,
           \A q \in Variables : ~(c <= q /\ q < n),
           NEW e \in Nat, n < e, \A q \in Variables : ~(n < q /\ q < e),
           Holds(c, 0), text' = text, origin' = origin,
           Insert(EntryOf(n), text[n].name, text[n].size),
           bit16_length' = Rank(Mains, e - 1)
    PROVE  Holds(e, 0)'
  <1>. DEFINE N == Len(text)
              D == DOMAIN metadata
              m == Rank(Variables, c - 1)
  <1>1. /\ N \in Nat /\ Variables \in SUBSET (1 .. N) /\ \A q \in Variables : q \in Nat \ {0}
        /\ c - 1 \in Nat /\ n \in Nat /\ e - 1 \in Nat
    BY GoodItems, Kinds16
  <1>2. /\ D = {EntryOf(p) : p \in Before(c)} /\ IsFiniteSet(D) /\ Cardinality(D) = m
        /\ \A p \in Before(c) : metadata[EntryOf(p)] = Entry(p, 0)
    BY DEF Holds
  <1>3. Before(e) = Before(c) \cup {n} /\ n \notin Before(c) /\ Before(c) \subseteq Variables
    <2>1. \A q \in Variables : q < e <=> q < c \/ q = n
      BY <1>1
    <2>2. \A q \in Variables : q < e => q < c \/ q = n
      BY <2>1
    <2>3. ~(n < c) /\ n < e
      BY <1>1
    <2>. QED  BY <2>1, <2>3 DEF Before
  <1>4. /\ Nth(n) = m + 1 /\ m \in Nat /\ Rank(Variables, e - 1) = m + 1
        /\ m < Cardinality(Variables) /\ Cardinality(Variables) \in Nat
    <2>1. c - 1 < n /\ \A q \in Variables : ~(c - 1 < q /\ q < n)
      BY <1>1
    <2>2. Rank(Variables, n) = m + 1
      BY <1>1, <2>1, NextMember
    <2>3. n <= e - 1 /\ \A q \in Variables : ~(n < q /\ q <= e - 1)
      BY <1>1
    <2>4. Rank(Variables, e - 1) = Rank(Variables, n)
      BY <1>1, <2>3, NoneBetween
    <2>5. m \in Nat /\ Rank(Variables, n) <= Cardinality(Variables) /\ Cardinality(Variables) \in Nat
      BY <1>1, RankFacts
    <2>. QED  BY <2>2, <2>4, <2>5 DEF Nth
  <1>5. EntryOf(n) \notin D
    <2>. SUFFICES ASSUME EntryOf(n) \in D PROVE FALSE
      OBVIOUS
    <2>1. PICK p \in Before(c) : EntryOf(n) = EntryOf(p)
      BY <1>2
    <2>2. p = n
      BY <1>3, <2>1, EntriesApart
    <2>. QED  BY <1>3, <2>1, <2>2
  <1>6. Ordinal = m
    <2>1. m % Word = m
      <3>. HIDE DEF m
      <3>1. m \in 0 .. Word - 1 /\ Word \in Nat \ {0}
        BY <1>4, WidthAssumption
      <3>. QED  BY <3>1
    <2>. QED  BY <1>2, <2>1 DEF Ordinal
  <1>7. Address(n, 0) = m
    BY <1>4 DEF Address
  <1>8. DOMAIN metadata' = D \cup {EntryOf(n)}
    BY DEF Insert
  <1>9. metadata'[EntryOf(n)] = Entry(n, 0)
    BY <1>6, <1>7 DEF Insert, Entry
  <1>10. \A p \in Before(c) : metadata'[EntryOf(p)] = Entry(p, 0)
    <2>. SUFFICES ASSUME NEW p \in Before(c) PROVE metadata'[EntryOf(p)] = Entry(p, 0)
      OBVIOUS
    <2>1. EntryOf(p) \in D /\ EntryOf(p) # EntryOf(n)
      BY <1>2, <1>5
    <2>2. metadata'[EntryOf(p)] = metadata[EntryOf(p)]
      BY <2>1 DEF Insert
    <2>. QED  BY <1>2, <2>2
  <1>11. IsFiniteSet(D \cup {EntryOf(n)}) /\ Cardinality(D \cup {EntryOf(n)}) = m + 1
    <2>. HIDE DEF D
    <2>1. Cardinality(D \cup {EntryOf(n)}) = Cardinality(D) + 1
      BY <1>2, <1>5, FS_AddElement
    <2>. QED  BY <1>2, <2>1, FS_AddElement
  <1>12. DOMAIN metadata' = {EntryOf(p) : p \in Before(e)}
    <2>. HIDE DEF D
    <2>. QED  BY <1>2, <1>3, <1>8
  <1>13. \A p \in Before(e) : metadata'[EntryOf(p)] = Entry(p, 0)
    BY <1>3, <1>9, <1>10
  <1>14. IsFiniteSet(DOMAIN metadata') /\ Cardinality(DOMAIN metadata') = Rank(Variables, e - 1)
    BY <1>4, <1>8, <1>11
  <1>. QED  BY <1>12, <1>13, <1>14, SameTables DEF Holds

\* A main variable is added to the table with its own number.
LEMMA MainAdded ==
    ASSUME Good, Cardinality(Variables) <= Word, NEW c \in Nat \ {0}, NEW n \in Mains, c <= n,
           \A q \in Variables : ~(c <= q /\ q < n),
           NEW e \in Nat, n < e, \A q \in Variables : ~(n < q /\ q < e),
           Holds(c, 0), SubsetsCounted(c), text' = text, origin' = origin,
           AddVariable(text[n].name, text[n].size)
    PROVE  Holds(e, 0)' /\ SubsetsCounted(e)'
  <1>. DEFINE N == Len(text)
              b == bit16_length
  <1>1. /\ N \in Nat /\ Mains \in SUBSET (1 .. N) /\ Mains \subseteq Variables /\ n \in Variables
        /\ c - 1 \in Nat /\ n \in Nat /\ e - 1 \in Nat /\ Variables \in SUBSET (1 .. N)
        /\ \A q \in Variables : q \in Nat \ {0}
        /\ \A i : Family(i) \in SUBSET (1 .. N)
    BY GoodItems, Kinds16
  <1>2. \A S : S \subseteq Variables => \A q \in S : ~(c - 1 < q /\ q < n) /\ ~(n < q /\ q <= e - 1)
    BY <1>1
  <1>3. b = Rank(Mains, c - 1) /\ DOMAIN subset_variables_count = 0 .. b - 1
    BY DEF Holds, SubsetsCounted
  <1>4. b \in Nat /\ Rank(Mains, n) = b + 1 /\ Rank(Mains, e - 1) = b + 1
    <2>1. Rank(Mains, n) = Rank(Mains, c - 1) + 1
      <3>1. c - 1 < n /\ \A q \in Mains : ~(c - 1 < q /\ q < n)
        BY <1>1, <1>2
      <3>. QED  BY <1>1, <3>1, NextMember
    <2>2. Rank(Mains, e - 1) = Rank(Mains, n)
      <3>1. n <= e - 1 /\ \A q \in Mains : ~(n < q /\ q <= e - 1)
        BY <1>1, <1>2
      <3>. QED  BY <1>1, <3>1, NoneBetween
    <2>3. Rank(Mains, c - 1) \in Nat
      BY <1>1, RankFacts
    <2>. QED  BY <1>3, <2>1, <2>2, <2>3
  <1>5. VarsUpTo(n) = b + 1
    <2>1. n \in 0 .. End /\ n <= N
      BY <1>1, MainBefore
    <2>. QED  BY <1>4, <2>1, CountsAreRanks
  <1>6. Rank(Family(b + 1), n) = 1 /\ EntryOf(n) = <<b, 0>>
    <2>1. /\ EntryOf(n) = <<VarsUpTo(n) - 1, Rank(Family(VarsUpTo(n)), n) - 1>>
          /\ Rank(Family(VarsUpTo(n)), n) = 1
      BY <1>1, EntryFacts
    <2>. QED  BY <1>4, <1>5, <2>1
  <1>7. Rank(Family(b + 1), e - 1) = 1
    <2>1. n <= e - 1 /\ \A q \in Family(b + 1) : ~(n < q /\ q <= e - 1)
      BY <1>1, <1>2 DEF Family
    <2>2. Family(b + 1) \in SUBSET (1 .. N)
      BY <1>1
    <2>3. Rank(Family(b + 1), e - 1) = Rank(Family(b + 1), n)
      BY <1>1, <2>1, <2>2, NoneBetween
    <2>. QED  BY <1>6, <2>3
  <1>8. Insert(EntryOf(n), text[n].name, text[n].size) /\ bit16_length' = b + 1
    BY <1>6 DEF AddVariable, Main
  <1>9. Holds(e, 0)'
    <2>1. bit16_length' = Rank(Mains, e - 1)
      BY <1>4, <1>8
    <2>. HIDE DEF b, N
    <2>. QED  BY <1>1, <1>8, <2>1, EntryAdded
  <1>10. SubsetsCounted(e)'
    <2>1. /\ DOMAIN subset_variables_count' = 0 .. b
          /\ subset_variables_count'[b] = 0
      BY <1>4 DEF AddVariable
    <2>2. bit16_length' - 1 = b /\ bit16_length' = b + 1
      BY <1>4, <1>8
    <2>3. Rank(Family(b + 1), e - 1) - 1 = 0
      BY <1>7
    <2>4. \A i : Family(i)' = Family(i)
      BY SameTables
    <2>5. PICK l \in Nat : l = bit16_length' /\ l = b + 1 /\ l - 1 = b
      BY <1>4, <2>2
    <2>. HIDE DEF b
    <2>6. Rank(Family(l), e - 1)' = Rank(Family(l), e - 1)
      BY <2>4 DEF Rank
    <2>. QED  BY <2>1, <2>3, <2>4, <2>5, <2>6 DEF SubsetsCounted
  <1>. QED  BY <1>9, <1>10

\* A subset variable is added behind those its main variable has.
LEMMA SubsetAdded ==
    ASSUME Good, Cardinality(Variables) <= Word, NEW c \in Nat \ {0}, NEW n \in Variables,
           n \notin Mains, c <= n, \A q \in Variables : ~(c <= q /\ q < n),
           NEW e \in Nat, n < e, \A q \in Variables : ~(n < q /\ q < e),
           Holds(c, 0), SubsetsCounted(c), text' = text, origin' = origin,
           AddSubsetVariable(text[n].name, text[n].size)
    PROVE  Holds(e, 0)' /\ SubsetsCounted(e)' /\ corrupted' = corrupted
  <1>. DEFINE N == Len(text)
              b == bit16_length
              i == b - 1
              x == subset_variables_count[i]
  <1>1. /\ N \in Nat /\ Mains \in SUBSET (1 .. N) /\ Mains \subseteq Variables
        /\ c - 1 \in Nat /\ n \in Nat /\ e - 1 \in Nat /\ Variables \in SUBSET (1 .. N)
        /\ \A q \in Variables : q \in Nat \ {0}
        /\ \A k : Family(k) \in SUBSET (1 .. N)
    BY GoodItems, Kinds16
  <1>2. \A S : S \subseteq Variables => \A q \in S : ~(c - 1 < q /\ q < n) /\ ~(n < q /\ q <= e - 1)
    BY <1>1
  <1>3. b = Rank(Mains, c - 1) /\ DOMAIN subset_variables_count = 0 .. b - 1
    BY DEF Holds, SubsetsCounted
  <1>4. b = Rank(Mains, n) /\ Rank(Mains, e - 1) = b
    <2>1. Rank(Mains, n) = Rank(Mains, c - 1)
      <3>1. c - 1 <= n /\ \A q \in Mains : ~(c - 1 < q /\ q <= n)
        <4>1. \A q \in Mains : q # n /\ ~(c - 1 < q /\ q < n) /\ q \in Nat
          BY <1>1, <1>2
        <4>2. c - 1 <= n
          BY <1>1
        <4>. QED  BY <1>1, <4>1, <4>2
      <3>. QED  BY <1>1, <3>1, NoneBetween
    <2>2. Rank(Mains, e - 1) = Rank(Mains, n)
      <3>1. n <= e - 1 /\ \A q \in Mains : ~(n < q /\ q <= e - 1)
        BY <1>1, <1>2
      <3>. QED  BY <1>1, <3>1, NoneBetween
    <2>. QED  BY <1>3, <2>1, <2>2
  <1>5. VarsUpTo(n) = b /\ b \in Nat /\ b >= 1
    <2>1. n \in 0 .. End /\ n <= N /\ VarsUpTo(n) \in Nat /\ VarsUpTo(n) >= 1
      BY <1>1, MainBefore
    <2>2. VarsUpTo(n) = b
      BY <1>4, <2>1, CountsAreRanks
    <2>. QED  BY <2>1, <2>2
  <1>. DEFINE F == Family(b)
  <1>6. Rank(F, n) = x + 2 /\ x \in Int /\ x + 1 \in Nat /\ EntryOf(n) = <<i, x + 1>>
    <2>1. EntryOf(n) = <<b - 1, Rank(F, n) - 1>>
      <3>1. EntryOf(n) = <<VarsUpTo(n) - 1, Rank(Family(VarsUpTo(n)), n) - 1>>
        BY EntryFacts
      <3>. QED  BY <1>5, <3>1
    <2>2. n \in F /\ F \in SUBSET (1 .. N)
      BY <1>1, <1>5 DEF Family
    <2>3. c - 1 < n /\ \A q \in F : ~(c - 1 < q /\ q < n)
      BY <1>1, <1>2 DEF Family
    <2>4. Rank(F, c - 1) \in Nat /\ x = Rank(F, c - 1) - 1
      <3>1. x = Rank(F, c - 1) - 1
        BY <1>5 DEF SubsetsCounted
      <3>2. c - 1 <= c - 1
        BY <1>1
      <3>. HIDE DEF F
      <3>. QED  BY <1>1, <2>2, <3>1, <3>2, RankUp
    <2>. HIDE DEF F, x
    <2>5. Rank(F, n) = Rank(F, c - 1) + 1
      BY <1>1, <2>2, <2>3, NextMember
    <2>. QED  BY <1>5, <2>1, <2>4, <2>5
  <1>7. Rank(F, e - 1) = Rank(F, n)
    <2>1. n <= e - 1 /\ \A q \in F : ~(n < q /\ q <= e - 1)
      BY <1>1, <1>2 DEF Family
    <2>2. F \in SUBSET (1 .. N)
      BY <1>1
    <2>. HIDE DEF F
    <2>. QED  BY <1>1, <2>1, <2>2, NoneBetween
  <1>8. /\ Insert(EntryOf(n), text[n].name, text[n].size)
        /\ subset_variables_count' = [subset_variables_count EXCEPT ![i] = @ + 1]
        /\ bit16_length' = b /\ corrupted' = corrupted
    BY <1>5, <1>6 DEF AddSubsetVariable, Sub
  <1>9. Holds(e, 0)'
    <2>1. bit16_length' = Rank(Mains, e - 1)
      BY <1>4, <1>8
    <2>. HIDE DEF b, N
    <2>. QED  BY <1>1, <1>8, <2>1, EntryAdded
  <1>10. SubsetsCounted(e)'
    <2>1. /\ DOMAIN subset_variables_count' = 0 .. b - 1
          /\ subset_variables_count'[b - 1] = x + 1
      BY <1>3, <1>5, <1>8
    <2>2. Rank(F, e - 1) - 1 = x + 1
      BY <1>6, <1>7
    <2>3. \A k : Family(k)' = Family(k)
      BY SameTables
    <2>4. PICK l \in Nat : l = bit16_length' /\ l = b
      BY <1>5, <1>8
    <2>. HIDE DEF b, x
    <2>5. Rank(Family(l), e - 1)' = Rank(Family(l), e - 1)
      BY <2>3 DEF Rank
    <2>. QED  BY <2>1, <2>2, <2>3, <2>4, <2>5 DEF SubsetsCounted
  <1>. QED  BY <1>8, <1>9, <1>10

\* The parser comes to the next declaration, whichever kind it is.
LEMMA NextDeclared ==
    ASSUME Good, NEW c \in 1 .. End, At(c) \notin {"nl", "cmt"}
    PROVE  LET n == NextDeclaration(c)
           IN  /\ n \in c .. End
               /\ n # End => n \in Variables
               /\ \A q \in Variables : ~(c <= q /\ q < n)
  <1>. DEFINE n == NextDeclaration(c)  N == Len(text)
  <1>1. /\ N \in Nat /\ End = N + 1 /\ c \in Nat \ {0} /\ n \in c .. End /\ TextOK
        /\ \A q \in Variables : q \in 1 .. N /\ q \in Nat
    BY GoodItems, NextDeclarationFacts, Kinds16 DEF Good
  <1>2. SkipNewlines(c) = c
    <2>1. /\ SkipNewlines(c) \in c .. End
          /\ \A q \in c .. SkipNewlines(c) - 1 : At(q) \in {"nl"}
      BY <1>1, SkipAllFacts DEF SkipNewlines
    <2>2. c = SkipNewlines(c) \/ c \in c .. SkipNewlines(c) - 1
      BY <1>1, <2>1
    <2>. QED  BY <2>1, <2>2
  <1>3. n # End => n \in Variables
    <2>. SUFFICES ASSUME n # End PROVE n \in Variables
      OBVIOUS
    <2>1. n \in 1 .. N
      BY <1>1
    <2>2. At(n) \in Declarations
      BY <1>1, NextIsDeclaration
    <2>. HIDE DEF n
    <2>3. At(n) \in {"var", "sub"}
      BY <2>1, <2>2, GoodItems DEF Declarations
    <2>. QED  BY <2>1, <2>3 DEF Variables
  <1>4. CASE At(c) = "end"
    <2>1. c = End
      BY <1>1, <1>4, AtFacts
    <2>. HIDE DEF n
    <2>. QED  BY <1>1, <1>3, <2>1 DEF n
  <1>5. CASE At(c) \in Declarations
    <2>1. n = c
      BY <1>2, <1>5 DEF NextDeclaration, Declarations
    <2>. HIDE DEF n
    <2>. QED  BY <1>1, <1>3, <2>1 DEF n
  <1>6. CASE At(c) \notin Declarations /\ At(c) # "end"
    <2>. DEFINE S == DeclarationsAfter(c) \cup {End}
    <2>1. n = Min(S)
      BY <1>2, <1>6 DEF NextDeclaration
    <2>2. S \in SUBSET Nat /\ S # {}
      BY <1>1 DEF DeclarationsAfter
    <2>3. \A y \in S : n <= y
      <3>. HIDE DEF S
      <3>. QED  BY <2>1, <2>2, MinOf
    <2>4. c \notin Variables /\ c # End
      BY <1>1, <1>6, AtFacts DEF Variables, Declarations
    <2>5. \A q \in Mains : ~(c <= q /\ q < n)
      <3>. SUFFICES ASSUME NEW q \in Mains, c <= q, q < n PROVE FALSE
        OBVIOUS
      <3>1. q \in Variables /\ q \in 1 .. N /\ At(q) = "var"
        BY <1>1, Kinds16 DEF Mains
      <3>2. q \in c + 1 .. N
        BY <1>1, <2>4, <3>1
      <3>3. q \in S
        BY <3>1, <3>2 DEF DeclarationsAfter
      <3>4. n <= q
        BY <2>3, <3>3
      <3>. HIDE DEF n, S
      <3>. QED  BY <1>1, <3>1, <3>4
    <2>. HIDE DEF n, S
    <2>6. {q \in Variables : c <= q /\ q < n} = {}
      <3>. DEFINE B == {q \in Variables : c <= q /\ q < n}
      <3>. SUFFICES ASSUME B # {} PROVE FALSE
        OBVIOUS
      <3>1. B \in SUBSET Nat
        BY <1>1
      <3>2. PICK r \in B : \A q \in B : r <= q
        <4>. HIDE DEF B
        <4>. QED  BY <3>1, MinOf
      <3>3. r \in Variables /\ c <= r /\ r < n /\ r \notin Mains
        BY <2>5
      <3>4. /\ LastItem(r) \in Variables /\ LastItem(r) < r
            /\ \A q \in 1 .. r - 1 : LastItem(r) < q => At(q) = "nl"
        BY <3>3, Kinds16, SubsetFollows
      <3>5. c # r /\ c \in 1 .. r - 1
        BY <1>1, <2>4, <3>3
      <3>6. ~(LastItem(r) < c)
        BY <3>4, <3>5
      <3>7. LastItem(r) \in B
        <4>1. LastItem(r) \in Nat /\ r \in Nat /\ n \in Nat
          BY <1>1, <3>3, <3>4
        <4>2. c <= LastItem(r) /\ LastItem(r) < n
          BY <1>1, <3>3, <3>4, <3>6, <4>1
        <4>. QED  BY <3>4, <4>2
      <3>8. r \in Nat /\ LastItem(r) \in Nat
        BY <1>1, <3>3, <3>4
      <3>. HIDE DEF B
      <3>. QED  BY <3>2, <3>4, <3>7, <3>8
    <2>7. \A q \in Variables : ~(c <= q /\ q < n)
      BY <2>6
    <2>. QED  BY <1>1, <1>3, <2>7 DEF n
  <1>. QED  BY <1>4, <1>5, <1>6

\* Behind a declaration the parser skips nothing but newlines and comments.
LEMMA BehindDeclaration ==
    ASSUME Good, NEW n \in Variables
    PROVE  LET e == AfterDeclaration(n)
           IN  /\ e \in n + 1 .. End /\ At(e) \notin {"nl", "cmt"}
               /\ \A q \in Variables : ~(n < q /\ q < e)
  <1>. DEFINE e == AfterDeclaration(n)
              r == SkipNewlines(n + 1)
  <1>1. /\ n \in 1 .. Len(text) /\ n \in Nat /\ End = Len(text) + 1 /\ End \in Nat /\ Len(text) \in Nat
        /\ At(n) # "nl" /\ TextOK
        /\ \A q \in Variables : q \in Nat /\ At(q) \notin {"nl", "cmt"}
    BY GoodItems, Kinds16 DEF Variables, Good
  <1>2. n + 1 \in 1 .. Len(text) /\ n + 1 \in 1 .. End /\ At(n + 1) = "nl"
    BY <1>1, NewlineBehind
  <1>3. /\ r \in n + 1 .. End /\ At(r) # "nl"
        /\ \A q \in n + 1 .. r - 1 : At(q) \in {"nl"}
    BY <1>1, <1>2, SkipAllFacts DEF SkipNewlines
  <1>. HIDE DEF r
  <1>4. e = IF At(r) = "cmt" THEN SkipComments(r) ELSE r
    BY <1>2 DEF AfterDeclaration, r
  <1>5. r \in 1 .. End
    BY <1>1, <1>3
  <1>6. /\ SkipComments(r) \in r .. End /\ At(SkipComments(r)) \notin {"nl", "cmt"}
        /\ \A q \in r .. SkipComments(r) - 1 : At(q) \in {"nl", "cmt"}
    BY <1>1, <1>5, SkipAllFacts DEF SkipComments
  <1>. HIDE DEF e
  <1>7. e \in n + 1 .. End /\ At(e) \notin {"nl", "cmt"}
    BY <1>1, <1>3, <1>4, <1>6
  <1>8. \A q \in n + 1 .. e - 1 : At(q) \in {"nl", "cmt"}
    BY <1>1, <1>3, <1>4, <1>6
  <1>9. \A q \in Variables : n < q /\ q < e => q \in n + 1 .. e - 1
    BY <1>1, <1>7
  <1>. QED  BY <1>1, <1>7, <1>8, <1>9 DEF e
-----------------------------------------------------------------------------
(***************************************************************************)
(* The steps of a run over an ordinary file.                               *)
(***************************************************************************)
LEMMA GoodOpens ==
    ASSUME Good
    PROVE  /\ ~UnwantedValue /\ ~CheckSpins /\ ~DirectiveMisplaced
           /\ Variables # {} => At(SecondToken) = "org" /\ SecondToken = 3
           /\ Variables # {} => HasCode
  <1>1. /\ Len(text) \in Nat /\ Len(text) > 1 /\ At(1) = "use16" /\ Start = 1 /\ TextOK
        /\ At(Len(text)) = "nl"
        /\ \A p \in 2 .. Len(text) :
              /\ At(p) \in {"org", "nl", "mov", "load", "var", "sub", "cmt"}
              /\ At(p) = "org" => p = 3
    BY GoodItems DEF Good, Ordinary
  <1>2. ~UnwantedValue /\ ~DirectiveMisplaced
    BY <1>1, HeaderOpens
  <1>3. ~CheckSpins
    BY <1>1 DEF CheckSpins
  <1>4. ASSUME Variables # {} PROVE At(SecondToken) = "org" /\ SecondToken = 3 /\ HasCode
    <2>1. 3 \in 1 .. Len(text) /\ At(3) = "org" /\ At(2) = "nl"
      BY <1>4, GoodOrigin
    <2>2. SecondToken = SkipNewlines(2)
      BY <1>1 DEF SecondToken, BehindFirstToken
    <2>3. 2 \in 1 .. End /\ End = Len(text) + 1
      BY <1>1, AtFacts
    <2>. DEFINE r == SkipNewlines(2)
    <2>4. /\ r \in 2 .. End /\ At(r) # "nl" /\ \A q \in 2 .. r - 1 : At(q) \in {"nl"}
      BY <1>1, <2>3, SkipAllFacts DEF SkipNewlines
    <2>. HIDE DEF r
    <2>5. r = 3
      <3>1. r # 2
        BY <2>1, <2>4
      <3>2. ~(3 \in 2 .. r - 1)
        BY <2>1, <2>4
      <3>. QED  BY <1>1, <2>3, <2>4, <3>1, <3>2
    <2>6. HasCode
      <3>1. 2 \in Start .. Len(text) - 1 /\ 2 + 1 = 3
        BY <1>1, <2>1
      <3>. QED  BY <2>1, <3>1 DEF HasCode, Directives
    <2>. QED  BY <2>1, <2>2, <2>5, <2>6 DEF r
  <1>. QED  BY <1>2, <1>3, <1>4

\* The numbers the declarations get fit in an address.
LEMMA NumbersFit ==
    ASSUME Good, Fits, Variables # {} => origin = text[3].value
    PROVE  /\ Cardinality(Variables) \in Nat /\ Cardinality(Variables) <= Word
           /\ Variables # {} => origin \in Nat /\ Cardinality(Variables) <= origin
  <1>1. CASE Variables = {}
    BY <1>1, FS_EmptySet, WidthAssumption
  <1>2. CASE Variables # {}
    <2>1. origin \in Nat /\ Cardinality(Variables) <= origin
      BY <1>2, GoodOrigin
    <2>2. PICK n \in Variables : TRUE
      BY <1>2
    <2>3. Place(n) \in Nat /\ origin <= Place(n) /\ Place(n) < Word
      BY <2>1, <2>2, PlacesAscend DEF Fits
    <2>4. Cardinality(Variables) \in Nat
      BY GoodItems, Kinds16, RankFacts
    <2>. QED  BY <2>1, <2>3, <2>4, WidthAssumption
  <1>. QED  BY <1>1, <1>2

\* The table stays what it is while its own variables do.
LEMMA HoldsKept ==
    ASSUME UNCHANGED <<text, origin, metadata, bit16_length>>, NEW c, NEW j, Holds(c, j)
    PROVE  Holds(c, j)'
  <1>1. /\ Mains' = Mains /\ Variables' = Variables /\ Before(c)' = Before(c)
        /\ \A p : EntryOf(p)' = EntryOf(p) /\ Entry(p, j)' = Entry(p, j)
    BY SameTables
  <1>. QED  BY <1>1 DEF Holds

\* What is known of the table does not depend on what lies between declarations.
LEMMA HoldsMoves ==
    ASSUME Good, NEW c \in Nat \ {0}, NEW e \in Nat, c <= e, NEW j, Holds(c, j),
           \A q \in Variables : ~(c <= q /\ q < e)
    PROVE  Holds(e, j)
  <1>1. /\ Len(text) \in Nat /\ Mains \in SUBSET (1 .. Len(text)) /\ Mains \subseteq Variables
        /\ Variables \in SUBSET (1 .. Len(text)) /\ \A q \in Variables : q \in Nat
        /\ c - 1 \in Nat /\ e - 1 \in Nat /\ c - 1 <= e - 1
    BY GoodItems, Kinds16
  <1>2. \A q \in Variables : ~(c - 1 < q /\ q <= e - 1)
    BY <1>1
  <1>3. Rank(Variables, e - 1) = Rank(Variables, c - 1)
    BY <1>1, <1>2, NoneBetween
  <1>4. Rank(Mains, e - 1) = Rank(Mains, c - 1)
    <2>1. \A q \in Mains : ~(c - 1 < q /\ q <= e - 1)
      BY <1>1, <1>2
    <2>. QED  BY <1>1, <2>1, NoneBetween
  <1>5. Before(e) = Before(c)
    <2>1. \A q \in Variables : q < e <=> q < c
      BY <1>1
    <2>. QED  BY <2>1 DEF Before
  <1>. QED  BY <1>3, <1>4, <1>5 DEF Holds

\* Opening the file leaves an empty table.
LEMMA OpenTables ==
    ASSUME Good, phase = "open", TableInit, variable_id = 0, OpenFile
    PROVE  Progress'
  <1>1. /\ ~UnwantedValue /\ ~CheckSpins /\ ~DirectiveMisplaced
        /\ Variables # {} => At(SecondToken) = "org" /\ SecondToken = 3
        /\ Len(text) \in Nat /\ At(1) = "use16" /\ Start = 1
    BY GoodOpens, GoodItems
  <1>2. /\ phase' = "declare" /\ position' = 1 /\ text' = text /\ variable_id' = 0
        /\ bit_type' = "bit16" /\ UNCHANGED tableVars
        /\ Variables # {} => origin' = text[3].value
    BY <1>1 DEF OpenFile, Stop, Spin, Goto
  <1>3. /\ bit16_length' = 0 /\ index' = 0 /\ ~last_was_subset_var' /\ last_address' = 0
        /\ last_program_counter' = 0 /\ ~corrupted'
        /\ DOMAIN metadata' = {} /\ DOMAIN subset_variables_count' = {}
    BY <1>2 DEF TableInit, tableVars, declared, placement
  <1>4. Variables' = Variables /\ Mains' = Mains /\ At(1)' = At(1)
    BY <1>2 DEF Variables, Mains, At, End
  <1>5. Before(1)' = {} /\ Rank(Mains, 0) = 0 /\ Rank(Variables, 0) = 0
    <2>1. \A q \in Variables : ~(q < 1) /\ ~(q <= 0)
      BY Kinds16
    <2>2. {q \in Variables : q <= 0} = {} /\ {q \in Mains : q <= 0} = {}
      BY <2>1, Kinds16
    <2>3. Before(1)' = {}
      BY <1>4, <2>1 DEF Before
    <2>. QED  BY <2>2, <2>3, FS_EmptySet DEF Rank
  <1>6. Rank(Mains, 0)' = 0 /\ Rank(Variables, 0)' = 0
    BY <1>4, <1>5 DEF Rank
  <1>7. Holds(1, 0)' /\ SubsetsCounted(1)'
    <2>1. IsFiniteSet({}) /\ Cardinality({}) = 0
      BY FS_EmptySet
    <2>2. 1 - 1 = 0
      OBVIOUS
    <2>. QED  BY <1>3, <1>4, <1>5, <1>6, <2>1, <2>2 DEF Holds, SubsetsCounted
  <1>8. Holds(position, 0)' /\ SubsetsCounted(position)'
    BY <1>2, <1>7 DEF Holds, SubsetsCounted, Before
  <1>9. At(position)' \notin {"nl", "cmt"}
    BY <1>1, <1>2, <1>4 DEF At
  <1>10. Variables' # {} => origin' = text'[3].value
    BY <1>2, <1>4
  <1>. QED  BY <1>2, <1>3, <1>8, <1>9, <1>10 DEF Progress, Unplaced

\* A declaration the parser meets joins the table.
LEMMA DeclareTables ==
    ASSUME Good, Fits, InText, Progress, phase = "declare", DeclareVariable \/ DeclareSubset
    PROVE  Progress'
  <1>1. /\ bit_type = "bit16" /\ (Variables # {} => origin = text[3].value) /\ ~corrupted
        /\ At(position) \notin {"nl", "cmt"}
        /\ Holds(position, 0) /\ SubsetsCounted(position) /\ Unplaced
    BY DEF Progress
  <1>2. /\ UNCHANGED <<text, passVars>> /\ NextDeclaration(position) # End /\ text' = text /\ origin' = origin
        /\ bit_type' = "bit16" /\ variable_id' = variable_id
    BY <1>1 DEF DeclareVariable, DeclareSubset, Declaring, KeepPass, passVars
  <1>3. /\ position \in 1 .. End /\ End \in Nat /\ End = Len(text) + 1
        /\ Len(text) \in Nat
    BY GoodItems DEF InText
  <1>4. PICK c \in 1 .. End : c = position
    BY <1>3
  <1>5. At(c) \notin {"nl", "cmt"} /\ Holds(c, 0) /\ SubsetsCounted(c) /\ c \in Nat \ {0}
    BY <1>1, <1>3, <1>4
  <1>6. PICK n \in c .. End : n = NextDeclaration(c)
    BY <1>5, NextDeclared
  <1>7. n \in Variables /\ \A q \in Variables : ~(c <= q /\ q < n)
    BY <1>2, <1>4, <1>5, <1>6, NextDeclared
  <1>8. PICK e \in n + 1 .. End : e = AfterDeclaration(n)
    BY <1>7, BehindDeclaration
  <1>9. At(e) \notin {"nl", "cmt"} /\ \A q \in Variables : ~(n < q /\ q < e)
    BY <1>7, <1>8, BehindDeclaration
  <1>10. /\ Cardinality(Variables) <= Word
         /\ At(n) = text[n].kind /\ At(n) \in {"var", "sub"}
         /\ text[n].value # "over" /\ (At(n) = "sub" => text[n].value = "hex")
         /\ n \in Mains <=> At(n) = "var"
    <2>1. n \in 1 .. Len(text) /\ At(n) \in {"var", "sub"}
      BY <1>7, Kinds16 DEF Variables
    <2>2. At(n) = text[n].kind
      BY <2>1, AtFacts DEF Good
    <2>. QED  BY <1>1, <2>1, <2>2, GoodItems, NumbersFit DEF Mains
  <1>11. Declared = text[n]
    BY <1>4, <1>6 DEF Declared
  <1>12. e \in Nat /\ n < e /\ c <= n
    BY <1>3, <1>5
  <1>13. Variables' = Variables /\ At(e)' = At(e)
    BY <1>2 DEF Variables, At, End
  <1>14. ASSUME phase' = "spinning", corrupted' = corrupted PROVE Progress'
    BY <1>1, <1>2, <1>13, <1>14 DEF Progress
  <1>15. ASSUME phase' = "declare", position' = e, Holds(e, 0)', SubsetsCounted(e)',
                corrupted' = corrupted, UNCHANGED placement
         PROVE  Progress'
    <2>1. Holds(position, 0)' /\ SubsetsCounted(position)'
      BY <1>15 DEF Holds, SubsetsCounted, Before
    <2>2. At(position)' \notin {"nl", "cmt"}
      BY <1>9, <1>13, <1>15 DEF At
    <2>3. Unplaced'
      BY <1>1, <1>2, <1>15 DEF Unplaced, placement
    <2>. QED  BY <1>1, <1>2, <1>13, <1>15, <2>1, <2>2, <2>3 DEF Progress
  <1>16. CASE DeclareVariable
    <2>1. Declared.kind = "var"
      BY <1>16 DEF DeclareVariable
    <2>2. n \in Mains
      BY <1>10, <1>11, <2>1
    <2>3. \/ Stop("OverflowError") /\ Declared.value = "over"
          \/ bit_type # "bit16"
          \/ Spin /\ UNCHANGED tableVars
          \/ /\ AddVariable(Declared.name, Declared.size)
             /\ Goto("declare", AfterDeclaration(NextDeclaration(position)))
      BY <1>16 DEF DeclareVariable
    <2>4. \/ phase' = "spinning" /\ corrupted' = corrupted
          \/ /\ AddVariable(text[n].name, text[n].size) /\ phase' = "declare" /\ position' = e
      BY <1>1, <1>4, <1>6, <1>8, <1>10, <1>11, <2>3 DEF Goto, Spin, tableVars
    <2>5. ASSUME AddVariable(text[n].name, text[n].size)
          PROVE  Holds(e, 0)' /\ SubsetsCounted(e)' /\ corrupted' = corrupted /\ UNCHANGED placement
      <3>1. Holds(e, 0)' /\ SubsetsCounted(e)'
        BY <1>2, <1>5, <1>7, <1>9, <1>10, <1>12, <2>2, <2>5, MainAdded, Zenon
      <3>. QED  BY <2>5, <3>1 DEF AddVariable
    <2>. QED  BY <1>14, <1>15, <2>4, <2>5
  <1>17. CASE DeclareSubset
    <2>1. Declared.kind # "var"
      BY <1>17 DEF DeclareSubset
    <2>2. n \notin Mains /\ text[n].value = "hex"
      BY <1>10, <1>11, <2>1
    <2>3. \/ Declared.value \in {"letter", "decimal"}
          \/ /\ AddSubsetVariable(Declared.name, Declared.size)
             /\ ~corrupted' => Goto("declare", AfterDeclaration(NextDeclaration(position)))
      BY <1>17 DEF DeclareSubset
    <2>4. AddSubsetVariable(text[n].name, text[n].size)
          /\ (~corrupted' => phase' = "declare" /\ position' = e)
      BY <1>4, <1>6, <1>8, <1>11, <2>2, <2>3 DEF Goto
    <2>5. Holds(e, 0)' /\ SubsetsCounted(e)' /\ corrupted' = corrupted
      BY <1>2, <1>5, <1>7, <1>9, <1>10, <1>12, <2>2, <2>4, SubsetAdded, Zenon
    <2>6. UNCHANGED placement
      BY <2>4 DEF AddSubsetVariable
    <2>. QED  BY <1>1, <1>15, <2>4, <2>5, <2>6
  <1>. QED  BY <1>16, <1>17

\* The parser ends with every declaration in the table, none of them placed.
LEMMA DeclaredTables ==
    ASSUME Good, InText, Progress, phase = "declare", DeclarationsEnd
    PROVE  Progress'
  <1>1. /\ bit_type = "bit16" /\ (Variables # {} => origin = text[3].value) /\ ~corrupted
        /\ At(position) \notin {"nl", "cmt"} /\ Holds(position, 0) /\ Unplaced
        /\ position \in 1 .. End
    BY DEF Progress, InText
  <1>2. /\ UNCHANGED <<text, origin, metadata, bit16_length>> /\ phase' = "scan" /\ bit_type' = bit_type
        /\ corrupted' = corrupted /\ NextDeclaration(position) = End
        /\ UNCHANGED <<variable_id, placement>>
    BY DEF DeclarationsEnd, KeepPass, passVars, tableVars, declared, Goto
  <1>3. \A q \in Variables : ~(position <= q /\ q < End)
    <2>1. \A q \in Variables : ~(position <= q /\ q < NextDeclaration(position))
      BY <1>1, NextDeclared
    <2>. QED  BY <1>2, <2>1
  <1>4. Holds(End, 0)
    <2>1. position \in Nat \ {0} /\ End \in Nat /\ position <= End
      BY <1>1, GoodItems
    <2>. QED  BY <1>1, <1>3, <2>1, HoldsMoves
  <1>5. Holds(End, 0)'
    <2>1. PICK l : l = End
      OBVIOUS
    <2>2. End' = l
      BY <1>2, <2>1 DEF End
    <2>3. Holds(l, 0)'
      BY <1>2, <1>4, <2>1, HoldsKept
    <2>. QED  BY <2>2, <2>3 DEF Holds, Before
  <1>6. Unplaced' /\ Variables' = Variables
    BY <1>1, <1>2 DEF Unplaced, placement, Variables, At, End
  <1>. QED  BY <1>1, <1>2, <1>5, <1>6 DEF Progress

\* A declaration placed leaves pass 1 in step with the text.
LEMMA InStepAfter ==
    ASSUME text' = text, origin' = origin, NEW c, NEW d, d = DeclarationBefore(c), position' = c,
           variable_id' = Nth(c - 1),
           index' = IF d = 0 THEN 0 ELSE VarsUpTo(d),
           last_was_subset_var' <=> (d # 0 /\ d \notin Mains),
           last_was_subset_var' => last_subset_var_id' = EntryOf(d)[2] - 1,
           last_address' = IF d = 0 THEN 0 ELSE Place(d),
           last_program_counter' = Full(MovsBefore(d))
    PROVE  InStep(position)'
  <1>1. /\ Mains' = Mains /\ Variables' = Variables
        /\ \A p : EntryOf(p)' = EntryOf(p) /\ VarsUpTo(p)' = VarsUpTo(p) /\ Place(p)' = Place(p)
                  /\ DeclarationBefore(p)' = DeclarationBefore(p) /\ MovsBefore(p)' = MovsBefore(p)
                  /\ Nth(p)' = Nth(p)
    BY SameTables
  <1>2. InStep(c)'
    BY <1>1 DEF InStep
  <1>. QED  BY <1>2 DEF InStep, DeclarationBefore, Nth

\* Pass 1 starts in step: nothing is placed.
LEMMA ScanTables ==
    ASSUME Good, Progress, phase = "scan", StartPreprocessor
    PROVE  Progress'
  <1>1. /\ bit_type = "bit16" /\ (Variables # {} => origin = text[3].value) /\ ~corrupted
        /\ Holds(End, 0) /\ Unplaced /\ Len(text) \in Nat /\ Len(text) > 1 /\ Start = 1
        /\ At(1) = "use16" /\ (Variables # {} => HasCode)
        /\ \A q \in Variables : q \in Nat \ {0}
    BY GoodItems, GoodOpens, Kinds16 DEF Progress
  <1>2. /\ UNCHANGED <<text, origin, metadata, bit16_length>> /\ bit_type' = bit_type
        /\ corrupted' = corrupted /\ UNCHANGED <<variable_id, placement>> /\ position' = 1
        /\ HasCode => phase' = "assign"
        /\ ~HasCode => phase' = "emit"
    BY <1>1 DEF StartPreprocessor, tableVars, declared, Goto
  <1>3. Nth(0) = 0
    <2>1. \A q \in Variables : ~(q <= 0)
      BY <1>1
    <2>2. {q \in Variables : q <= 0} = {}
      BY <2>1
    <2>. QED  BY <2>2, FS_EmptySet DEF Nth, Rank
  <1>4. PICK l : l = End
    OBVIOUS
  <1>5. End' = l /\ Variables' = Variables /\ At(1)' = At(1) /\ Holds(l, 0)'
    <2>1. Holds(l, 0)'
      BY <1>1, <1>2, <1>4, HoldsKept
    <2>. QED  BY <1>2, <1>4, <2>1 DEF End, Variables, At
  <1>6. CASE HasCode
    <2>1. Stands'
      BY <1>1, <1>2, <1>5 DEF Stands, At
    <2>2. InStep(position)'
      <3>1. DeclarationBefore(1) = 0
        <4>1. 1 \in Nat /\ ~(DeclarationBefore(1) # 0 /\ DeclarationBefore(1) < 1 /\ DeclarationBefore(1) \in Nat \ {0})
          OBVIOUS
        <4>. QED  BY <1>1, <4>1, DeclarationBeforeFacts
      <3>2. MovsBefore(0) = 0 /\ 0 \in 0 .. End
        <4>1. 0 \in 0 .. End
          BY GoodItems
        <4>. QED  BY <4>1, CountsAreRanks
      <3>3. /\ variable_id' = Nth(1 - 1) /\ index' = 0 /\ ~last_was_subset_var' /\ last_address' = 0
            /\ last_program_counter' = Full(MovsBefore(0))
        BY <1>1, <1>2, <1>3, <3>2 DEF Unplaced, placement, Full
      <3>4. PICK c : c = 1
        OBVIOUS
      <3>5. PICK d : d = 0 /\ d = DeclarationBefore(c)
        BY <3>1, <3>4
      <3>. QED  BY <1>2, <3>3, <3>4, <3>5, InStepAfter
    <2>3. Nth(position - 1)' = 0
      <3>1. Nth(0)' = 0
        BY <1>3, <1>5 DEF Nth, Rank
      <3>. QED  BY <1>2, <3>1 DEF Nth
    <2>4. Holds(End, Nth(position - 1))'
      BY <1>5, <2>3 DEF Holds, Before
    <2>5. variable_id' \in 0 .. Byte - 1
      BY <1>1, <1>2, WidthAssumption DEF Unplaced
    <2>. QED  BY <1>1, <1>2, <1>5, <1>6, <2>1, <2>2, <2>4, <2>5 DEF Progress
  <1>7. CASE ~HasCode
    <2>1. Variables = {} /\ Before(l)' = {}
      BY <1>1, <1>5, <1>7 DEF Before
    <2>2. \A j : Holds(l, j)'
      BY <1>5, <2>1 DEF Holds
    <2>3. Holds(End, Cardinality(Variables))'
      BY <1>5, <2>2 DEF Holds, Before
    <2>. QED  BY <1>1, <1>2, <1>5, <1>7, <2>3 DEF Progress
  <1>. QED  BY <1>6, <1>7
-----------------------------------------------------------------------------
(***************************************************************************)
(* preprocessor.hpp: the table as it is placed.                            *)
(***************************************************************************)
\* Each rank up to the size of a set is that of a member.
LEMMA RankHits ==
    ASSUME NEW N \in Nat, NEW S \in SUBSET (1 .. N), NEW k \in Nat, 1 <= k, k <= Cardinality(S)
    PROVE  \E p \in S : Rank(S, p) = k
  <1>. DEFINE T == {p \in Nat : k <= Rank(S, p)}
  <1>1. N \in T
    <2>1. \A q \in S : q <= N
      OBVIOUS
    <2>2. {q \in S : q <= N} = S
      BY <2>1
    <2>. QED  BY <2>2 DEF Rank
  <1>2. PICK p \in T : \A q \in T : p <= q
    <2>1. T \in SUBSET Nat /\ T # {}
      BY <1>1
    <2>. HIDE DEF T
    <2>. QED  BY <2>1, MinOf
  <1>3. p \in Nat /\ k <= Rank(S, p) /\ Rank(S, p) \in Nat
    BY RankFacts
  <1>4. p # 0
    <2>1. \A q \in S : ~(q <= 0)
      OBVIOUS
    <2>2. {q \in S : q <= 0} = {}
      BY <2>1
    <2>3. Rank(S, 0) = 0
      BY <2>2, FS_EmptySet DEF Rank
    <2>. QED  BY <1>3, <2>3
  <1>5. p - 1 \in Nat /\ Rank(S, p - 1) \in Nat
    <2>1. p - 1 \in Nat
      BY <1>3, <1>4
    <2>. QED  BY <2>1, RankFacts
  <1>6. Rank(S, p - 1) < k
    <2>1. p - 1 \notin T
      BY <1>2, <1>3, <1>5
    <2>. QED  BY <1>5, <2>1
  <1>. HIDE DEF T
  <1>7. p \in S
    <2>. SUFFICES ASSUME p \notin S PROVE FALSE
      OBVIOUS
    <2>1. p - 1 <= p /\ \A q \in S : ~(p - 1 < q /\ q <= p)
      <3>1. \A q \in S : q \in Nat /\ q # p
        OBVIOUS
      <3>. QED  BY <1>3, <3>1
    <2>2. Rank(S, p) = Rank(S, p - 1)
      BY <1>3, <1>5, <2>1, NoneBetween
    <2>. QED  BY <1>3, <1>5, <1>6, <2>2
  <1>8. Rank(S, p) = Rank(S, p - 1) + 1
    BY <1>7, RankMember
  <1>9. Rank(S, p) = k
    BY <1>3, <1>5, <1>6, <1>8
  <1>. QED  BY <1>7, <1>9

\* From the declaration before position c to the one that comes next.
LEMMA NextPlaced ==
    ASSUME Good, NEW c \in Nat \ {0}, NEW n \in Variables, c <= n,
           \A q \in Variables : ~(c <= q /\ q < n)
    PROVE  /\ DeclarationBefore(c) = DeclarationBefore(n) /\ DeclarationBefore(n + 1) = n
           /\ Nth(c - 1) \in Nat /\ Nth(n) = Nth(c - 1) + 1
           /\ DeclarationBefore(c) = 0 => n \in Mains /\ VarsUpTo(n) = 1
           /\ DeclarationBefore(c) # 0 =>
                 /\ DeclarationBefore(c) \in Variables
                 /\ VarsUpTo(n) = VarsUpTo(DeclarationBefore(c)) + (IF n \in Mains THEN 1 ELSE 0)
           /\ n \notin Mains => MovsBefore(DeclarationBefore(c)) = MovsBefore(n)
  <1>. DEFINE N == Len(text)
              d == DeclarationBefore(n)
  <1>1. /\ N \in Nat /\ Variables \in SUBSET (1 .. N) /\ Mains \in SUBSET (1 .. N)
        /\ Mains \subseteq Variables /\ Instructions \in SUBSET (1 .. N)
        /\ \A q \in Variables : q \in Nat \ {0} /\ q - 1 \in Nat /\ q \in 0 .. End /\ q <= N
        /\ c - 1 \in Nat /\ n \in Nat /\ n - 1 \in Nat /\ n + 1 \in Nat
    <2>1. \A q \in Variables : q \in Nat \ {0} /\ q - 1 \in Nat /\ q \in 0 .. End /\ q <= N
      BY Kinds16, MainBefore
    <2>. QED  BY <2>1, GoodItems, Kinds16
  <1>2. /\ d \in Nat /\ (d = 0 \/ d \in Variables) /\ (d # 0 => d < n)
        /\ \A q \in Variables : q < n => q <= d
        /\ d = 0 => \A q \in Variables : ~(q < n)
    BY <1>1, DeclarationBeforeFacts
  <1>3. DeclarationBefore(c) = d
    <2>1. \A q \in Variables : q < c <=> q < n
      BY <1>1
    <2>2. {q \in Variables : q < c} = {q \in Variables : q < n}
      BY <2>1
    <2>. QED  BY <2>2 DEF DeclarationBefore
  <1>4. DeclarationBefore(n + 1) = n
    <2>. DEFINE m == DeclarationBefore(n + 1)
    <2>1. m \in Nat /\ (m # 0 => m < n + 1) /\ \A q \in Variables : q < n + 1 => q <= m
      BY <1>1, DeclarationBeforeFacts
    <2>. HIDE DEF m
    <2>2. n <= m
      BY <1>1, <2>1
    <2>. QED  BY <1>1, <2>1, <2>2 DEF m
  <1>5. Nth(c - 1) \in Nat /\ Nth(n) = Nth(c - 1) + 1
    <2>1. c - 1 < n /\ \A q \in Variables : ~(c - 1 < q /\ q < n)
      BY <1>1
    <2>2. Rank(Variables, n) = Rank(Variables, c - 1) + 1
      BY <1>1, <2>1, NextMember
    <2>3. Rank(Variables, c - 1) \in Nat
      BY <1>1, RankFacts
    <2>. QED  BY <2>2, <2>3 DEF Nth
  <1>6. \A q \in Variables : VarsUpTo(q) = Rank(Mains, q)
    BY <1>1, CountsAreRanks
  <1>. HIDE DEF d, N
  <1>7. Rank(Mains, n) = Rank(Mains, d) + (IF n \in Mains THEN 1 ELSE 0) /\ Rank(Mains, d) \in Nat
    <2>1. d < n /\ \A q \in Mains : ~(d < q /\ q < n)
      BY <1>1, <1>2
    <2>2. CASE n \in Mains
      <3>1. Rank(Mains, n) = Rank(Mains, d) + 1
        BY <1>1, <1>2, <2>1, <2>2, NextMember
      <3>2. Rank(Mains, d) \in Nat
        BY <1>1, <1>2, RankFacts
      <3>. QED  BY <2>2, <3>1, <3>2
    <2>3. CASE n \notin Mains
      <3>1. d <= n /\ \A q \in Mains : ~(d < q /\ q <= n)
        BY <1>1, <1>2, <2>1, <2>3
      <3>2. Rank(Mains, n) = Rank(Mains, d)
        BY <1>1, <1>2, <3>1, NoneBetween
      <3>3. Rank(Mains, d) \in Nat
        BY <1>1, <1>2, RankFacts
      <3>. QED  BY <2>3, <3>2, <3>3
    <2>. QED  BY <2>2, <2>3
  <1>8. ASSUME n \notin Mains PROVE d # 0 /\ MovsBefore(d) = MovsBefore(n)
    <2>. DEFINE l == LastItem(n)
    <2>1. /\ l \in Variables /\ l < n /\ \A q \in 1 .. n - 1 : l < q => At(q) = "nl"
      BY <1>8, Kinds16, SubsetFollows
    <2>. HIDE DEF l
    <2>2. l <= d /\ d # 0 /\ d \in Variables
      BY <1>1, <1>2, <2>1
    <2>3. At(d) \in {"var", "sub"} /\ d \in 1 .. n - 1
      <3>1. d < n /\ d \in Nat \ {0}
        BY <1>1, <1>2, <2>2
      <3>. QED  BY <1>1, <2>2, <3>1 DEF Variables
    <2>4. \A q \in 1 .. n - 1 : d < q => At(q) = "nl"
      BY <1>1, <1>2, <2>1, <2>2
    <2>5. \A q \in Instructions : ~(d - 1 < q /\ q <= n - 1)
      <3>. SUFFICES ASSUME NEW q \in Instructions, d - 1 < q, q <= n - 1 PROVE FALSE
        OBVIOUS
      <3>1. At(q) \in Code /\ q \in Nat \ {0}
        BY <1>1 DEF Instructions
      <3>2. q # d
        BY <2>3, <3>1 DEF Code
      <3>3. q \in 1 .. n - 1 /\ d < q
        BY <1>1, <1>2, <3>1, <3>2
      <3>. QED  BY <2>4, <3>1, <3>3 DEF Code
    <2>6. d - 1 \in Nat /\ d - 1 <= n - 1 /\ d > 0 /\ n > 0 /\ d \in 0 .. End /\ n \in 0 .. End
      BY <1>1, <2>2, <2>3
    <2>7. Rank(Instructions, n - 1) = Rank(Instructions, d - 1)
      BY <1>1, <2>5, <2>6, NoneBetween
    <2>8. MovsBefore(d) = Rank(Instructions, d - 1) /\ MovsBefore(n) = Rank(Instructions, n - 1)
      BY <2>6, CountsAreRanks
    <2>. QED  BY <2>2, <2>7, <2>8
  <1>9. ASSUME d = 0 PROVE n \in Mains /\ VarsUpTo(n) = 1
    <2>1. n \in Mains
      BY <1>8, <1>9
    <2>2. {q \in Mains : q <= 0} = {}
      <3>1. \A q \in Mains : ~(q <= 0)
        BY <1>1
      <3>. QED  BY <3>1
    <2>3. Rank(Mains, 0) = 0
      BY <2>2, FS_EmptySet DEF Rank
    <2>. QED  BY <1>6, <1>7, <1>9, <2>1, <2>3
  <1>10. ASSUME d # 0 PROVE d \in Variables /\ VarsUpTo(n) = VarsUpTo(d) + (IF n \in Mains THEN 1 ELSE 0)
    BY <1>2, <1>6, <1>7, <1>10
  <1>. QED  BY <1>3, <1>4, <1>5, <1>8, <1>9, <1>10 DEF d

\* What pass 1 knows when it comes to the next declaration: c is the cursor, n
\* the declaration, d the one before it, and j of them have been placed.
Coming(c, n, d, j) ==
    /\ Good /\ Fits /\ origin = text[3].value
    /\ c \in Nat \ {0} /\ n \in Variables /\ c <= n
    /\ \A q \in Variables : ~(c <= q /\ q < n)
    /\ d = DeclarationBefore(c) /\ j = Nth(c - 1)
    /\ Holds(End, j) /\ variable_id \in 0 .. Byte - 1
    /\ j < Byte => InStep(c)

LEMMA ComingFacts ==
    ASSUME NEW c, NEW n, NEW d, NEW j, Coming(c, n, d, j)
    PROVE  /\ j \in Nat /\ Nth(n) = j + 1 /\ j < Cardinality(Variables)
           /\ origin \in Nat /\ Cardinality(Variables) <= origin /\ Cardinality(Variables) \in Nat
           /\ DOMAIN metadata = {EntryOf(p) : p \in Variables}
           /\ bit16_length = Cardinality(Mains) /\ bit16_length \in Nat
           /\ \A p \in Variables : metadata[EntryOf(p)] = Entry(p, j)
           /\ \A p \in Variables : /\ Place(p) \in Nat /\ origin <= Place(p) /\ Place(p) < Word
                                   /\ Nth(p) \in Nat /\ Nth(p) >= 1
  <1>1. /\ Good /\ Fits /\ origin = text[3].value /\ Holds(End, j)
        /\ c \in Nat \ {0} /\ n \in Variables /\ c <= n
        /\ \A q \in Variables : ~(c <= q /\ q < n)
        /\ j = Nth(c - 1)
    BY DEF Coming
  <1>2. /\ origin \in Nat /\ Cardinality(Variables) <= origin /\ Cardinality(Variables) \in Nat
    BY <1>1, NumbersFit
  <1>3. j \in Nat /\ Nth(n) = j + 1
    BY <1>1, NextPlaced
  <1>4. \A p \in Variables : Nth(p) \in Nat /\ Nth(p) >= 1 /\ Nth(p) <= Cardinality(Variables)
    BY <1>1, EntryFacts
  <1>5. /\ \A q \in Variables : q \in Nat /\ q < End
        /\ Mains \in SUBSET (1 .. Len(text)) /\ Len(text) \in Nat /\ End - 1 = Len(text)
    BY <1>1, GoodItems, Kinds16
  <1>6. Before(End) = Variables
    BY <1>5 DEF Before
  <1>7. /\ DOMAIN metadata = {EntryOf(p) : p \in Variables}
        /\ \A p \in Variables : metadata[EntryOf(p)] = Entry(p, j)
        /\ bit16_length = Rank(Mains, End - 1)
    BY <1>1, <1>6 DEF Holds
  <1>8. bit16_length = Cardinality(Mains) /\ bit16_length \in Nat
    <2>1. \A q \in Mains : q <= Len(text)
      BY <1>5
    <2>2. {q \in Mains : q <= Len(text)} = Mains
      BY <2>1
    <2>3. Cardinality(Mains) \in Nat
      BY <1>5, RankFacts
    <2>. QED  BY <1>5, <1>7, <2>2, <2>3 DEF Rank
  <1>9. \A p \in Variables : Place(p) \in Nat /\ origin <= Place(p) /\ Place(p) < Word
    BY <1>1, <1>2, PlacesAscend DEF Fits
  <1>. QED  BY <1>1, <1>2, <1>3, <1>4, <1>7, <1>8, <1>9

\* An entry holds the id only if it is that of the declaration that comes next.
LEMMA OnlyNextMatches ==
    ASSUME NEW c, NEW n, NEW d, NEW j, Coming(c, n, d, j), NEW p \in Variables
    PROVE  metadata[EntryOf(p)].address = variable_id <=> (j < Byte /\ p = n)
  <1>1. /\ j \in Nat /\ Nth(n) = j + 1 /\ j < Cardinality(Variables)
        /\ origin \in Nat /\ Cardinality(Variables) <= origin /\ Cardinality(Variables) \in Nat
        /\ metadata[EntryOf(p)] = Entry(p, j)
        /\ Place(p) \in Nat /\ origin <= Place(p) /\ Nth(p) \in Nat /\ Nth(p) >= 1
    BY ComingFacts
  <1>2. metadata[EntryOf(p)].address = Address(p, j)
    BY <1>1 DEF Entry
  <1>3. /\ variable_id \in 0 .. Byte - 1 /\ Byte \in Nat /\ n \in Variables /\ Good
        /\ j < Byte => variable_id = j
    BY WidthAssumption DEF Coming, InStep
  <1>4. Nth(p) = j + 1 => p = n
    <2>1. Len(text) \in Nat /\ Variables \in SUBSET (1 .. Len(text))
      BY <1>3, GoodItems, Kinds16
    <2>. QED  BY <1>1, <1>3, <2>1, RankApart DEF Nth
  <1>5. CASE Nth(p) <= j /\ Nth(p) <= Byte
    <2>1. Address(p, j) = Place(p)
      BY <1>5 DEF Address
    <2>2. Place(p) > variable_id /\ p # n
      BY <1>1, <1>3, <1>5
    <2>. QED  BY <1>1, <1>2, <1>3, <2>1, <2>2
  <1>6. CASE ~(Nth(p) <= j /\ Nth(p) <= Byte)
    <2>1. Address(p, j) = Nth(p) - 1
      BY <1>6 DEF Address
    <2>2. Nth(p) - 1 = variable_id <=> (j < Byte /\ Nth(p) = j + 1)
      BY <1>1, <1>3, <1>6
    <2>. QED  BY <1>1, <1>2, <1>4, <2>1, <2>2
  <1>. QED  BY <1>5, <1>6

\* A main variable is met exactly when it comes next.
LEMMA MainMatches ==
    ASSUME NEW c, NEW n, NEW d, NEW j, Coming(c, n, d, j), index \in Nat
    PROVE  /\ MatchesMain(variable_id) =>
                 j < Byte /\ n \in Mains /\ Main(index) = EntryOf(n)
           /\ j < Byte /\ n \in Mains =>
                 MatchesMain(variable_id) /\ Main(index) = EntryOf(n)
  <1>1. /\ Good /\ n \in Variables /\ c \in Nat \ {0} /\ c <= n
        /\ \A q \in Variables : ~(c <= q /\ q < n)
        /\ d = DeclarationBefore(c) /\ (j < Byte => InStep(c))
    BY DEF Coming
  <1>2. bit16_length = Cardinality(Mains) /\ bit16_length \in Nat
    BY ComingFacts
  <1>3. /\ Len(text) \in Nat /\ Mains \in SUBSET (1 .. Len(text)) /\ Mains \subseteq Variables
        /\ \A q \in Variables : q \in Nat /\ q \in 0 .. End /\ q <= Len(text)
    <2>1. \A q \in Variables : q \in Nat /\ q \in 0 .. End /\ q <= Len(text)
      BY <1>1, Kinds16, MainBefore
    <2>. QED  BY <1>1, <2>1, GoodItems, Kinds16
  <1>4. \A p \in Mains : EntryOf(p) = <<Rank(Mains, p) - 1, 0>> /\ VarsUpTo(p) = Rank(Mains, p)
    <2>. SUFFICES ASSUME NEW p \in Mains
                  PROVE  EntryOf(p) = <<Rank(Mains, p) - 1, 0>> /\ VarsUpTo(p) = Rank(Mains, p)
      OBVIOUS
    <2>1. /\ EntryOf(p) = <<VarsUpTo(p) - 1, Rank(Family(VarsUpTo(p)), p) - 1>>
          /\ Rank(Family(VarsUpTo(p)), p) = 1
      BY <1>1, <1>3, EntryFacts
    <2>2. VarsUpTo(p) = Rank(Mains, p)
      BY <1>1, <1>3, CountsAreRanks
    <2>. QED  BY <2>1, <2>2
  <1>5. ASSUME MatchesMain(variable_id) PROVE j < Byte /\ n \in Mains /\ Main(index) = EntryOf(n)
    <2>1. index < bit16_length /\ metadata[Main(index)].address = variable_id
      BY <1>5 DEF MatchesMain
    <2>2. PICK p \in Mains : Rank(Mains, p) = index + 1
      <3>1. index + 1 \in Nat /\ 1 <= index + 1 /\ index + 1 <= Cardinality(Mains)
        BY <1>2, <2>1
      <3>. QED  BY <1>3, <3>1, RankHits
    <2>3. EntryOf(p) = Main(index)
      <3>1. Rank(Mains, p) - 1 = index
        BY <2>2
      <3>. QED  BY <1>4, <3>1 DEF Main
    <2>4. p \in Variables /\ metadata[EntryOf(p)].address = variable_id
      BY <1>3, <2>1, <2>3
    <2>5. j < Byte /\ p = n
      BY <2>4, OnlyNextMatches
    <2>. QED  BY <2>3, <2>5
  <1>6. ASSUME j < Byte, n \in Mains PROVE MatchesMain(variable_id) /\ Main(index) = EntryOf(n)
    <2>1. index = IF d = 0 THEN 0 ELSE VarsUpTo(d)
      BY <1>1, <1>6 DEF InStep
    <2>2. /\ d = 0 => VarsUpTo(n) = 1
          /\ d # 0 => d \in Variables /\ VarsUpTo(n) = VarsUpTo(d) + 1
      BY <1>1, <1>6, NextPlaced
    <2>3. VarsUpTo(n) = index + 1
      BY <2>1, <2>2
    <2>4. VarsUpTo(n) = Rank(Mains, n) /\ EntryOf(n) = <<Rank(Mains, n) - 1, 0>>
      BY <1>4, <1>6
    <2>5. EntryOf(n) = Main(index)
      <3>1. Rank(Mains, n) - 1 = index
        BY <2>3, <2>4
      <3>. QED  BY <2>4, <3>1 DEF Main
    <2>6. index < bit16_length
      <3>1. Rank(Mains, n) <= Cardinality(Mains)
        BY <1>3, <1>6, RankFacts
      <3>. QED  BY <1>2, <2>3, <2>4, <3>1
    <2>7. metadata[EntryOf(n)].address = variable_id
      BY <1>1, <1>6, OnlyNextMatches
    <2>. QED  BY <2>5, <2>6, <2>7 DEF MatchesMain
  <1>. QED  BY <1>5, <1>6

\* The entry of the declaration that comes next receives its address.
LEMMA EntryPlaced ==
    ASSUME NEW c, NEW n, NEW d, NEW j, Coming(c, n, d, j), j < Byte, NEW l, l = End,
           UNCHANGED <<text, origin, bit16_length>>,
           metadata' = [metadata EXCEPT ![EntryOf(n)].address = Place(n)]
    PROVE  Holds(l, j + 1)'
  <1>1. /\ j \in Nat /\ Nth(n) = j + 1 /\ Byte \in Nat /\ n \in Variables /\ Good /\ Holds(l, j)
        /\ DOMAIN metadata = {EntryOf(p) : p \in Variables}
        /\ \A p \in Variables : metadata[EntryOf(p)] = Entry(p, j) /\ Nth(p) \in Nat
        /\ \A p \in Before(l) : p \in Variables
    BY ComingFacts, WidthAssumption DEF Coming, Before
  <1>2. DOMAIN metadata' = DOMAIN metadata
    OBVIOUS
  <1>3. metadata'[EntryOf(n)] = Entry(n, j + 1)
    <2>1. Address(n, j + 1) = Place(n)
      BY <1>1 DEF Address
    <2>2. EntryOf(n) \in DOMAIN metadata /\ metadata[EntryOf(n)] = Entry(n, j)
      BY <1>1
    <2>3. metadata'[EntryOf(n)] = [metadata[EntryOf(n)] EXCEPT !.address = Place(n)]
      BY <2>2
    <2>. QED  BY <2>1, <2>2, <2>3 DEF Entry
  <1>4. ASSUME NEW p \in Variables, p # n PROVE metadata'[EntryOf(p)] = Entry(p, j + 1)
    <2>1. EntryOf(p) # EntryOf(n) /\ EntryOf(p) \in DOMAIN metadata
      BY <1>1, <1>4, EntriesApart
    <2>2. metadata'[EntryOf(p)] = Entry(p, j)
      BY <1>1, <2>1
    <2>3. Nth(p) # j + 1
      <3>1. Len(text) \in Nat /\ Variables \in SUBSET (1 .. Len(text))
        BY <1>1, GoodItems, Kinds16
      <3>. QED  BY <1>1, <1>4, <3>1, RankApart DEF Nth
    <2>4. Nth(p) \in Nat /\ (Nth(p) <= j <=> Nth(p) <= j + 1)
      BY <1>1, <2>3
    <2>5. Address(p, j + 1) = Address(p, j)
      BY <2>4 DEF Address
    <2>. QED  BY <2>2, <2>5 DEF Entry
  <1>5. \A p \in Before(l) : metadata'[EntryOf(p)] = Entry(p, j + 1)
    BY <1>1, <1>3, <1>4
  <1>6. /\ bit16_length' = Rank(Mains, l - 1) /\ DOMAIN metadata' = {EntryOf(p) : p \in Before(l)}
        /\ IsFiniteSet(DOMAIN metadata') /\ Cardinality(DOMAIN metadata') = Rank(Variables, l - 1)
    BY <1>1, <1>2 DEF Holds
  <1>7. /\ Mains' = Mains /\ Variables' = Variables /\ Before(l)' = Before(l)
        /\ \A p : EntryOf(p)' = EntryOf(p) /\ Entry(p, j + 1)' = Entry(p, j + 1)
    BY SameTables
  <1>. QED  BY <1>5, <1>6, <1>7 DEF Holds

\* Behind the last value of variable_id no entry changes any more.
LEMMA EntryKeeps ==
    ASSUME NEW c, NEW n, NEW d, NEW j, Coming(c, n, d, j), ~(j < Byte), NEW l, l = End,
           UNCHANGED <<text, origin, bit16_length, metadata>>
    PROVE  Holds(l, j + 1)'
  <1>1. j \in Nat /\ Byte \in Nat /\ Good /\ Holds(l, j)
        /\ \A p \in Variables : Nth(p) \in Nat
    BY ComingFacts, WidthAssumption DEF Coming
  <1>2. \A p \in Variables : Entry(p, j + 1) = Entry(p, j)
    <2>. SUFFICES ASSUME NEW p \in Variables PROVE Address(p, j + 1) = Address(p, j)
      BY DEF Entry
    <2>1. (Nth(p) <= j /\ Nth(p) <= Byte) <=> (Nth(p) <= j + 1 /\ Nth(p) <= Byte)
      BY <1>1
    <2>. QED  BY <2>1 DEF Address
  <1>3. Holds(l, j + 1)
    BY <1>1, <1>2 DEF Holds, Before
  <1>. QED  BY <1>3, HoldsKept

\* The declaration whose size the placement adds first.
LEMMA PreviousIs ==
    ASSUME NEW c, NEW n, NEW d, NEW j, Coming(c, n, d, j), j < Byte
    PROVE  /\ index \in Nat /\ (index = 0 <=> d = 0)
           /\ ~GrowthReadsPastEnd /\ ~FlagAfterGrowth
           /\ d = 0 => Grown = 0
           /\ d # 0 => /\ d \in Variables /\ Grown = Place(d) + Bytes(text[d].size)
                       /\ Grown \in Nat /\ Grown # 0
  <1>1. /\ Good /\ n \in Variables /\ c \in Nat \ {0} /\ c <= n
        /\ \A q \in Variables : ~(c <= q /\ q < n)
        /\ d = DeclarationBefore(c) /\ InStep(c)
    BY DEF Coming
  <1>2. /\ index = IF d = 0 THEN 0 ELSE VarsUpTo(d)
        /\ last_was_subset_var <=> (d # 0 /\ d \notin Mains)
        /\ last_was_subset_var => last_subset_var_id = EntryOf(d)[2] - 1
        /\ last_address = IF d = 0 THEN 0 ELSE Place(d)
    BY <1>1 DEF InStep
  <1>3. CASE d = 0
    <2>1. index = 0 /\ ~last_was_subset_var /\ last_address = 0
      BY <1>2, <1>3
    <2>. QED  BY <1>3, <2>1 DEF GrowthReadsPastEnd, FlagAfterGrowth, Grown
  <1>4. CASE d # 0
    <2>1. d \in Variables
      BY <1>1, <1>4, NextPlaced
    <2>2. VarsUpTo(d) \in Nat /\ VarsUpTo(d) >= 1
      BY <1>1, <2>1, MainBefore
    <2>3. index = VarsUpTo(d) /\ last_address = Place(d)
      BY <1>2, <1>4
    <2>. DEFINE r == Rank(Family(VarsUpTo(d)), d)
    <2>4. /\ EntryOf(d) = <<VarsUpTo(d) - 1, r - 1>> /\ r \in Nat /\ r >= 1
          /\ d \in Mains <=> r = 1
      BY <1>1, <2>1, EntryFacts
    <2>. HIDE DEF r
    <2>5. Previous = EntryOf(d)
      <3>1. CASE d \in Mains
        BY <1>2, <2>3, <2>4, <3>1 DEF Previous, Main
      <3>2. CASE d \notin Mains
        <4>1. EntryOf(d)[2] = r - 1
          BY <2>4
        <4>2. last_was_subset_var /\ last_subset_var_id + 1 = r - 1
          BY <1>2, <1>4, <2>4, <3>2, <4>1
        <4>. QED  BY <2>3, <2>4, <4>2 DEF Previous, Sub
      <3>. QED  BY <3>1, <3>2
    <2>6. /\ EntryOf(d) \in DOMAIN metadata /\ metadata[EntryOf(d)] = Entry(d, j)
          /\ Place(d) \in Nat
      BY <2>1, ComingFacts
    <2>7. metadata[Previous].size = text[d].size
      BY <2>5, <2>6 DEF Entry
    <2>8. Grown = Place(d) + Bytes(text[d].size)
      BY <2>2, <2>3, <2>7 DEF Grown
    <2>9. Bytes(text[d].size) \in {1, 2, 4}
      BY BytesOfSize
    <2>10. Grown \in Nat /\ Grown # 0
      BY <2>6, <2>8, <2>9
    <2>. QED  BY <1>4, <2>1, <2>2, <2>3, <2>5, <2>6, <2>8, <2>10 DEF GrowthReadsPastEnd, FlagAfterGrowth
  <1>. QED  BY <1>3, <1>4

\* The next declaration gets its place when it is a main variable.
LEMMA PlaceMain ==
    ASSUME NEW c, NEW n, NEW d, NEW j, Coming(c, n, d, j), j < Byte, n \in Mains,
           NEW pc, pc = Full(MovsBefore(n)), AddMemAddress(variable_id, pc, origin)
    PROVE  /\ UNCHANGED <<bit16_length, corrupted>>
           /\ metadata' = [metadata EXCEPT ![EntryOf(n)].address = Place(n)]
           /\ last_address' = Place(n) /\ last_program_counter' = pc
           /\ index' = VarsUpTo(n) % Byte /\ ~last_was_subset_var'
  <1>1. /\ Good /\ n \in Variables /\ c \in Nat \ {0} /\ c <= n
        /\ \A q \in Variables : ~(c <= q /\ q < n)
        /\ d = DeclarationBefore(c) /\ InStep(c) /\ j = Nth(c - 1)
    BY DEF Coming
  <1>2. /\ index \in Nat /\ (index = 0 <=> d = 0) /\ ~GrowthReadsPastEnd /\ ~FlagAfterGrowth
        /\ d = 0 => Grown = 0
        /\ d # 0 => d \in Variables /\ Grown = Place(d) + Bytes(text[d].size)
                    /\ Grown \in Nat /\ Grown # 0
    BY PreviousIs
  <1>3. MatchesMain(variable_id) /\ Main(index) = EntryOf(n)
    BY <1>2, MainMatches
  <1>4. ~PastEnd
    <2>1. index < bit16_length /\ bit16_length \in Nat
      BY <1>3, ComingFacts DEF MatchesMain
    <2>. QED  BY <1>2, <2>1 DEF PastEnd
  <1>5. PlaceVariable(variable_id, pc, origin)
    BY <1>2, <1>3, <1>4 DEF AddMemAddress, PlaceSubset, PlaceNothing
  <1>. DEFINE before == MovsBefore(d)  now == MovsBefore(n)
              same == last_program_counter = pc
              addr == CASE same /\ Grown # 0 -> Grown
                        [] same /\ Grown = 0 -> pc + origin + variable_id
                        [] ~same /\ index > 0 -> Grown + ((pc - 1) - last_program_counter)
                        [] OTHER -> (pc - 1) + origin
  <1>6. /\ metadata' = [metadata EXCEPT ![Main(index)].address = addr % Word]
        /\ last_address' = addr % Word /\ last_program_counter' = pc
        /\ index' = (index + 1) % Byte /\ last_was_subset_var' = FlagAfterGrowth
        /\ UNCHANGED <<bit16_length, corrupted>>
    BY <1>5 DEF PlaceVariable
  <1>7. d = DeclarationBefore(n) /\ last_program_counter = Full(before)
    BY <1>1, NextPlaced DEF InStep
  <1>8. before \in Nat /\ now \in Nat /\ before <= now /\ (d = 0 => before = 0)
    BY <1>1, <1>7, CodeBetween
  <1>9. /\ d = 0 => Place(n) = origin + 3 * now
        /\ d # 0 => Place(n) = Place(d) + Bytes(text[d].size) + 3 * now - 3 * before
                                  - (IF before > 0 /\ now > before THEN 1 ELSE 0)
    <2>1. origin \in Nat
      BY ComingFacts
    <2>. QED  BY <1>1, <1>7, <2>1, PlaceStep
  <1>10. d = 0 => variable_id = 0
    <2>. SUFFICES ASSUME d = 0 PROVE Nth(c - 1) = 0
      BY <1>1 DEF InStep
    <2>1. \A q \in Variables : ~(q < c) /\ q \in Nat
      BY <1>1, DeclarationBeforeFacts, Kinds16
    <2>2. {q \in Variables : q <= c - 1} = {}
      BY <1>1, <2>1
    <2>. QED  BY <2>2, FS_EmptySet DEF Nth, Rank
  <1>11. addr = Place(n)
    <2>1. origin \in Nat /\ variable_id \in Nat
      <3>1. variable_id \in 0 .. Byte - 1 /\ Byte \in Nat
        BY WidthAssumption DEF Coming
      <3>2. origin \in Nat
        BY ComingFacts
      <3>. QED  BY <3>1, <3>2
    <2>2. pc = IF now = 0 THEN 0 ELSE 1 + 3 * now
      BY DEF Full
    <2>3. last_program_counter = IF before = 0 THEN 0 ELSE 1 + 3 * before
      BY <1>7 DEF Full
    <2>. HIDE DEF before, now
    <2>4. same <=> before = now
      BY <1>8, <2>2, <2>3
    <2>5. CASE d = 0 /\ now = 0
      <3>1. same /\ Grown = 0 /\ pc = 0 /\ variable_id = 0
        BY <1>2, <1>8, <1>10, <2>2, <2>4, <2>5
      <3>2. addr = pc + origin + variable_id
        BY <3>1
      <3>. QED  BY <1>9, <2>1, <2>5, <3>1, <3>2
    <2>6. CASE d = 0 /\ now # 0
      <3>1. ~same /\ ~(index > 0) /\ pc = 1 + 3 * now
        BY <1>2, <1>8, <2>2, <2>4, <2>6
      <3>2. addr = (pc - 1) + origin
        BY <3>1
      <3>. QED  BY <1>8, <1>9, <2>1, <2>6, <3>1, <3>2
    <2>7. CASE d # 0 /\ before = now
      <3>1. addr = Grown
        BY <1>2, <2>4, <2>7
      <3>2. Place(d) \in Nat
        BY <1>2, <2>7, ComingFacts
      <3>3. Bytes(text[d].size) \in Nat
        BY BytesOfSize
      <3>. QED  BY <1>2, <1>8, <1>9, <2>7, <3>1, <3>2, <3>3
    <2>8. CASE d # 0 /\ before # now
      <3>1. addr = Grown + ((pc - 1) - last_program_counter) /\ before < now /\ pc = 1 + 3 * now
        BY <1>2, <1>8, <2>2, <2>4, <2>8
      <3>2. Place(d) \in Nat
        BY <1>2, <2>8, ComingFacts
      <3>3. Bytes(text[d].size) \in Nat
        BY BytesOfSize
      <3>. HIDE DEF addr
      <3>. QED  BY <1>2, <1>8, <1>9, <2>3, <2>8, <3>1, <3>2, <3>3
    <2>. QED  BY <2>5, <2>6, <2>7, <2>8
  <1>. HIDE DEF addr
  <1>12. addr % Word = Place(n)
    <2>1. Place(n) \in 0 .. Word - 1 /\ Word \in Nat \ {0}
      <3>1. Place(n) \in Nat /\ Place(n) < Word
        BY <1>1, ComingFacts
      <3>. QED  BY <3>1, WidthAssumption
    <2>. QED  BY <1>11, <2>1
  <1>13. VarsUpTo(n) = index + 1
    <2>1. /\ d = 0 => VarsUpTo(n) = 1
          /\ d # 0 => VarsUpTo(n) = VarsUpTo(d) + 1
      BY <1>1, NextPlaced
    <2>. QED  BY <1>1, <2>1 DEF InStep
  <1>14. metadata' = [metadata EXCEPT ![EntryOf(n)].address = Place(n)]
    BY <1>3, <1>6, <1>12, Zenon
  <1>15. last_address' = Place(n) /\ index' = VarsUpTo(n) % Byte
    BY <1>6, <1>12, <1>13, Zenon
  <1>. QED  BY <1>2, <1>6, <1>14, <1>15

\* With every main variable met before a subset variable, no main variable
\* comes behind it.
LEMMA NoMainBehind ==
    ASSUME Good, NEW n \in Variables, n \notin Mains, VarsUpTo(n) >= Cardinality(Mains)
    PROVE  At(Max(Variables)) = "sub"
  <1>. DEFINE N == Len(text)  m == Max(Variables)
  <1>1. /\ N \in Nat /\ Variables \in SUBSET (1 .. N) /\ Mains \in SUBSET (1 .. N)
        /\ Variables \in SUBSET Nat /\ Variables # {} /\ \A q \in Variables : q <= N
    BY GoodItems, Kinds16
  <1>2. m \in Variables /\ n <= m
    <2>1. Max(Variables) \in Variables /\ \A q \in Variables : q <= Max(Variables)
      BY <1>1, MaxOf
    <2>. QED  BY <2>1
  <1>. HIDE DEF m
  <1>3. m \notin Mains
    <2>. SUFFICES ASSUME m \in Mains PROVE FALSE
      OBVIOUS
    <2>1. n \in Nat /\ n < m /\ n \in 0 .. End /\ n <= N
      BY <1>1, <1>2, MainBefore
    <2>2. Rank(Mains, n) \in Nat /\ Rank(Mains, m) \in Nat /\ Rank(Mains, n) < Rank(Mains, m)
      BY <1>1, <2>1, RankBelow
    <2>3. m \in Nat /\ Cardinality(Mains) \in Nat /\ Rank(Mains, m) <= Cardinality(Mains)
      BY <1>1, <1>2, RankFacts
    <2>4. VarsUpTo(n) = Rank(Mains, n)
      BY <2>1, CountsAreRanks
    <2>. QED  BY <2>2, <2>3, <2>4
  <1>4. At(m) = "sub"
    BY <1>2, <1>3, Kinds16
  <1>. QED  BY <1>4 DEF m

\* The next declaration gets its place when it is a subset variable, unless the
\* table is read behind the last main variable.
LEMMA PlaceSub ==
    ASSUME NEW c, NEW n, NEW d, NEW j, Coming(c, n, d, j), j < Byte, n \notin Mains,
           NEW pc, pc = Full(MovsBefore(n)), AddMemAddress(variable_id, pc, origin)
    PROVE  \/ /\ UNCHANGED <<bit16_length, corrupted>>
              /\ metadata' = [metadata EXCEPT ![EntryOf(n)].address = Place(n)]
              /\ last_address' = Place(n) /\ last_program_counter' = pc
              /\ index' = VarsUpTo(n) /\ last_was_subset_var'
              /\ last_subset_var_id' = EntryOf(n)[2] - 1
           \/ corrupted' /\ At(Max(Variables)) = "sub"
  <1>1. /\ Good /\ n \in Variables /\ c \in Nat \ {0} /\ c <= n
        /\ \A q \in Variables : ~(c <= q /\ q < n)
        /\ d = DeclarationBefore(c) /\ InStep(c) /\ j = Nth(c - 1)
    BY DEF Coming
  <1>2. /\ d # 0 /\ d \in Variables /\ VarsUpTo(n) = VarsUpTo(d) /\ MovsBefore(d) = MovsBefore(n)
        /\ d = DeclarationBefore(n)
    BY <1>1, NextPlaced, MainBefore
  <1>3. /\ index \in Nat /\ index = VarsUpTo(n) /\ ~GrowthReadsPastEnd
        /\ Grown = Place(d) + Bytes(text[d].size) /\ last_program_counter = pc
    BY <1>1, <1>2, PreviousIs DEF InStep
  <1>4. ~MatchesMain(variable_id)
    BY <1>3, MainMatches
  <1>. DEFINE r == Rank(Family(VarsUpTo(n)), n)
              k == EntryOf(n)
              S == MatchingSubsets(variable_id)
  <1>5. /\ k = <<VarsUpTo(n) - 1, r - 1>> /\ r \in Nat /\ r - 1 \in 1 .. Byte
    <2>1. /\ k = <<VarsUpTo(n) - 1, r - 1>> /\ r \in Nat /\ r >= 1 /\ r <= Nth(n) /\ r # 1
      BY <1>1, EntryFacts
    <2>2. j \in Nat /\ Nth(n) = j + 1
      BY ComingFacts
    <2>. HIDE DEF r, k
    <2>. QED  BY <2>1, <2>2, WidthAssumption
  <1>. HIDE DEF r
  <1>6. S = {k}
    <2>1. DOMAIN metadata = {EntryOf(p) : p \in Variables}
      BY ComingFacts
    <2>2. ASSUME NEW e \in S PROVE e = k
      <3>1. PICK p \in Variables : e = EntryOf(p)
        BY <2>1 DEF MatchingSubsets
      <3>2. metadata[EntryOf(p)].address = variable_id
        BY <3>1 DEF MatchingSubsets
      <3>3. p = n
        BY <3>2, OnlyNextMatches
      <3>. QED  BY <3>1, <3>3
    <2>3. k \in S
      <3>1. metadata[k].address = variable_id
        BY <1>1, OnlyNextMatches
      <3>2. k \in DOMAIN metadata
        BY <1>1, <2>1
      <3>3. k[1] < index /\ k[2] \in 1 .. Byte
        BY <1>3, <1>5
      <3>. QED  BY <3>1, <3>2, <3>3 DEF MatchingSubsets
    <2>. HIDE DEF S, k
    <2>. QED  BY <2>2, <2>3
  <1>7. FirstInOrder(S) = k
    <2>1. k[1] = k[1] /\ k[2] <= k[2]
      BY <1>5
    <2>2. \A e \in {k} : k[1] < e[1] \/ (k[1] = e[1] /\ k[2] <= e[2])
      BY <2>1
    <2>. HIDE DEF S, k
    <2>. QED  BY <1>6, <2>2 DEF FirstInOrder
  <1>8. Grown % Word = Place(n)
    <2>1. /\ Place(n) \in 0 .. Word - 1 /\ Word \in Nat \ {0}
      <3>1. Place(n) \in Nat /\ Place(n) < Word
        BY <1>1, ComingFacts
      <3>. QED  BY <3>1, WidthAssumption
    <2>2. origin \in Nat /\ Place(d) \in Nat
      BY <1>2, ComingFacts
    <2>3. MovsBefore(n) \in Nat
      BY <1>1, CodeBetween
    <2>4. Place(n) = Place(d) + Bytes(text[d].size) + 3 * MovsBefore(n) - 3 * MovsBefore(n) - 0
      <3>1. Place(n) = Place(d) + Bytes(text[d].size) + 3 * MovsBefore(n) - 3 * MovsBefore(d)
                          - (IF MovsBefore(d) > 0 /\ MovsBefore(n) > MovsBefore(d) THEN 1 ELSE 0)
        BY <1>1, <1>2, <2>2, PlaceStep
      <3>2. ~(MovsBefore(n) > MovsBefore(d))
        BY <1>2, <2>3
      <3>. QED  BY <1>2, <3>1, <3>2
    <2>5. Bytes(text[d].size) \in Nat
      BY BytesOfSize
    <2>6. Grown = Place(n)
      BY <1>3, <2>2, <2>3, <2>4, <2>5
    <2>. QED  BY <2>1, <2>6
  <1>9. CASE PlaceSubset(variable_id, pc)
    <2>1. /\ metadata' = [metadata EXCEPT ![FirstInOrder(S)].address = Grown % Word]
          /\ last_address' = Grown % Word /\ last_program_counter' = pc
          /\ last_subset_var_id' = FirstInOrder(S)[2] - 1 /\ last_was_subset_var' = TRUE
          /\ UNCHANGED <<bit16_length, index, corrupted>>
      BY <1>3, <1>9 DEF PlaceSubset
    <2>. HIDE DEF S, k
    <2>2. /\ metadata' = [metadata EXCEPT ![k].address = Place(n)]
          /\ last_address' = Place(n) /\ last_subset_var_id' = k[2] - 1
      BY <1>7, <1>8, <2>1, Zenon
    <2>. QED  BY <1>3, <2>1, <2>2 DEF k
  <1>10. CASE corrupted' /\ (GrowthReadsPastEnd \/ PastEnd)
    <2>1. VarsUpTo(n) >= Cardinality(Mains)
      BY <1>3, <1>10, ComingFacts DEF PastEnd
    <2>. QED  BY <1>1, <1>10, <2>1, NoMainBehind
  <1>11. ~PlaceVariable(variable_id, pc, origin)
    BY <1>4 DEF PlaceVariable
  <1>12. ~PlaceNothing(variable_id)
    BY <1>6 DEF PlaceNothing
  <1>. QED  BY <1>9, <1>10, <1>11, <1>12 DEF AddMemAddress, Corrupt

\* Behind the last value of variable_id nothing is placed any more.
LEMMA PlaceNone ==
    ASSUME NEW c, NEW n, NEW d, NEW j, Coming(c, n, d, j), ~(j < Byte), index \in Nat,
           NEW pc, AddMemAddress(variable_id, pc, origin)
    PROVE  \/ UNCHANGED <<bit16_length, corrupted, metadata>>
           \/ corrupted' /\ Cardinality(Variables) >= Byte
  <1>1. ~MatchesMain(variable_id)
    BY MainMatches
  <1>2. MatchingSubsets(variable_id) = {}
    <2>. SUFFICES ASSUME NEW e \in MatchingSubsets(variable_id) PROVE FALSE
      OBVIOUS
    <2>1. DOMAIN metadata = {EntryOf(p) : p \in Variables}
      BY ComingFacts
    <2>2. PICK p \in Variables : e = EntryOf(p)
      BY <2>1 DEF MatchingSubsets
    <2>3. metadata[EntryOf(p)].address = variable_id
      BY <2>2 DEF MatchingSubsets
    <2>. QED  BY <2>3, OnlyNextMatches
  <1>3. Cardinality(Variables) >= Byte
    <2>1. j \in Nat /\ j < Cardinality(Variables) /\ Cardinality(Variables) \in Nat
      BY ComingFacts
    <2>. QED  BY <2>1, WidthAssumption
  <1>. QED  BY <1>1, <1>2, <1>3 DEF AddMemAddress, PlaceVariable, PlaceSubset, PlaceNothing, Corrupt, declared
-----------------------------------------------------------------------------
(***************************************************************************)
(* The steps of pass 1 over an ordinary file.                              *)
(***************************************************************************)
\* From a newline pass 1 comes to the next item that is no comment, and knows a
\* declaration for what it is.
LEMMA TextAhead ==
    ASSUME Good, InText
    PROVE  /\ NextText \in position .. End /\ At(NextText) \notin {"nl", "cmt"}
           /\ \A q \in position .. NextText - 1 : At(q) \in {"nl", "cmt"}
           /\ AtNewline => (AtDeclaration <=> NextText \in Variables)
  <1>. DEFINE r == NextLine
              n == NextText
  <1>1. /\ position \in 1 .. End /\ position \in Nat /\ End \in Nat /\ End = Len(text) + 1
        /\ Len(text) \in Nat /\ TextOK
    BY GoodItems DEF InText, Good
  <1>2. /\ r \in position .. End /\ At(r) # "nl" /\ \A q \in position .. r - 1 : At(q) \in {"nl"}
    BY <1>1, SkipAllFacts DEF NextLine, SkipNewlines
  <1>3. n = IF At(r) = "cmt" THEN SkipComments(r) ELSE r
    BY DEF NextText
  <1>. HIDE DEF r
  <1>4. r \in 1 .. End
    BY <1>1, <1>2
  <1>5. /\ SkipComments(r) \in r .. End /\ At(SkipComments(r)) \notin {"nl", "cmt"}
        /\ \A q \in r .. SkipComments(r) - 1 : At(q) \in {"nl", "cmt"}
    BY <1>1, <1>4, SkipAllFacts DEF SkipComments
  <1>. HIDE DEF n
  <1>6. n \in position .. End /\ At(n) \notin {"nl", "cmt"}
    BY <1>1, <1>2, <1>3, <1>5
  <1>7. \A q \in position .. n - 1 : At(q) \in {"nl", "cmt"}
    BY <1>1, <1>2, <1>3, <1>5
  <1>8. n \in Variables <=> At(n) \in {"var", "sub"}
    <2>1. n \in 1 .. Len(text) \/ n = End
      BY <1>1, <1>6
    <2>2. At(End) = "end"
      BY DEF At
    <2>3. n \in Variables => n \in 1 .. Len(text) /\ At(n) \in {"var", "sub"}
      BY DEF Variables
    <2>. QED  BY <2>1, <2>2, <2>3 DEF Variables
  <1>9. ~(At(r) = "cmt" /\ At(n) = "sub")
    <2>. SUFFICES ASSUME At(r) = "cmt", At(n) = "sub" PROVE FALSE
      OBVIOUS
    <2>. DEFINE l == LastItem(n)
    <2>1. n \in Variables
      BY <1>8
    <2>2. l \in Variables /\ l < n /\ \A q \in 1 .. n - 1 : l < q => At(q) = "nl"
      BY <2>1, SubsetFollows
    <2>. HIDE DEF l
    <2>3. l \in Nat /\ n \in Nat /\ r \in Nat /\ At(l) \in {"var", "sub"}
      BY <1>1, <1>2, <1>6, <2>2, Kinds16 DEF Variables
    <2>4. r # n /\ r \in 1 .. n - 1
      BY <1>1, <1>2, <1>3, <1>4, <1>5
    <2>5. ~(l < r)
      BY <2>2, <2>4
    <2>6. l \in position .. n - 1
      BY <1>1, <1>2, <2>2, <2>3, <2>5
    <2>. QED  BY <1>7, <2>3, <2>6
  <1>10. AtNewline => (AtDeclaration <=> n \in Variables)
    <2>1. AtDeclaration <=> AtNewline /\ IF At(r) = "cmt" THEN At(n) = "var" ELSE At(n) \in {"var", "sub"}
      BY DEF AtDeclaration, n, r
    <2>. QED  BY <1>8, <1>9, <2>1
  <1>. QED  BY <1>6, <1>7, <1>10 DEF n

\* A line with a declaration is its declaration, and never the last one.
LEMMA DeclarationLine ==
    ASSUME Good, NEW n \in Variables
    PROVE  EndOfLine(n) = n + 1 /\ n + 1 \in 1 .. Len(text) /\ At(n + 1) = "nl" /\ Line(n + 1) # max_line
  <1>. DEFINE e == EndOfLine(n)
  <1>1. /\ n \in 1 .. Len(text) /\ n \in 1 .. End /\ Len(text) \in Nat /\ End = Len(text) + 1 /\ TextOK
        /\ At(n) \in {"var", "sub"} /\ At(Len(text)) = "nl" /\ At(Len(text) - 1) = "nl"
    <2>1. n \in 1 .. Len(text) /\ At(n) \in {"var", "sub"}
      BY Kinds16 DEF Variables
    <2>. QED  BY <2>1, GoodItems DEF Good
  <1>2. n + 1 \in 1 .. Len(text) /\ At(n + 1) = "nl"
    BY <1>1, NewlineBehind
  <1>3. /\ e \in n .. End /\ At(e) \in {"nl", "end"}
        /\ \A q \in n .. e - 1 : At(q) \notin {"nl", "end"}
    BY <1>1, EndOfLineFacts
  <1>. HIDE DEF e
  <1>4. e = n + 1
    <2>1. e # n
      BY <1>1, <1>3
    <2>2. ~(n + 1 \in n .. e - 1)
      BY <1>2, <1>3
    <2>. QED  BY <1>1, <1>2, <1>3, <2>1, <2>2
  <1>5. ASSUME Line(n + 1) = max_line PROVE FALSE
    <2>1. EndsInBlankLine /\ n + 1 \in 1 .. End
      BY <1>1, <1>2 DEF Good, Ordinary
    <2>2. n + 1 >= Len(text)
      BY <1>1, <1>5, <2>1, LastLine
    <2>3. n = Len(text) - 1
      BY <1>1, <1>2, <2>2
    <2>. QED  BY <1>1, <2>3
  <1>. QED  BY <1>2, <1>4, <1>5 DEF e

\* The main variables are among the declarations.
LEMMA MainsAmong ==
    ASSUME Good, NEW n \in Variables
    PROVE  VarsUpTo(n) <= Nth(n) /\ VarsUpTo(n) \in Nat /\ Nth(n) \in Nat
  <1>1. /\ Len(text) \in Nat /\ Variables \in SUBSET (1 .. Len(text)) /\ Mains \subseteq Variables
        /\ n \in Nat /\ n \in 0 .. End /\ n <= Len(text)
    BY GoodItems, Kinds16, MainBefore
  <1>2. VarsUpTo(n) = Rank(Mains, n) /\ VarsUpTo(n) \in Nat
    BY <1>1, CountsAreRanks
  <1>. DEFINE A == {q \in Mains : q <= n}  B == {q \in Variables : q <= n}
  <1>3. A \subseteq B
    BY <1>1
  <1>4. IsFiniteSet(B)
    <2>1. IsFiniteSet(Variables) /\ B \subseteq Variables
      BY <1>1, RankFacts
    <2>. QED  BY <2>1, FS_Subset
  <1>5. Cardinality(A) <= Cardinality(B)
    <2>. HIDE DEF A, B
    <2>. QED  BY <1>3, <1>4, FS_Subset
  <1>6. Nth(n) \in Nat
    BY <1>1, RankFacts DEF Nth
  <1>. QED  BY <1>2, <1>5, <1>6 DEF Rank, Nth

\* A declaration met on the way is placed, and the cursor goes to the end of
\* its line.
LEMMA PlacedTables ==
    ASSUME Good, Fits, InText, CountInv, index \in Nat, Progress, AssignMemAddress
    PROVE  Progress'
  <1>1. /\ phase = "assign" /\ UNCHANGED <<text, origin, has_code>> /\ AtDeclaration /\ AtNewline
        /\ AddMemAddress(variable_id, counters, origin)
        /\ variable_id' = NextId
        /\ bit_type' = IF bit_type = "NoneSet" /\ Line(position) > 1 THEN "bit32" ELSE bit_type
        /\ \/ corrupted' /\ phase' = "undefined"
           \/ ~corrupted' /\ Line(EndOfLine(NextText)) = max_line
           \/ ~corrupted' /\ phase' = "assign" /\ position' = EndOfLine(NextText)
    BY DEF AssignMemAddress, Assigning, DefaultBitType, Goto, AtDeclaration
  <1>2. /\ bit_type = "bit16" /\ (Variables # {} => origin = text[3].value) /\ ~corrupted
        /\ Stands /\ Holds(End, Nth(position - 1)) /\ variable_id \in 0 .. Byte - 1
        /\ Nth(position - 1) < Byte => InStep(position)
    BY <1>1 DEF Progress
  <1>3. position \in 1 .. Len(text) /\ Len(text) \in Nat /\ End = Len(text) + 1 /\ TextOK
    BY <1>2, GoodItems DEF Stands, Good
  <1>4. PICK c \in Nat \ {0} : c = position
    BY <1>3
  <1>5. PICK n \in c .. End : n = NextText
    BY <1>4, TextAhead
  <1>6. n \in Variables /\ \A q \in c .. n - 1 : At(q) \in {"nl", "cmt"}
    BY <1>1, <1>4, <1>5, TextAhead
  <1>7. n \in Nat /\ n - 1 \in Nat /\ n + 1 \in Nat /\ c <= n /\ c - 1 \in Nat
    BY <1>3, <1>4, <1>5
  <1>8. \A q \in Variables : ~(c <= q /\ q < n)
    <2>. SUFFICES ASSUME NEW q \in Variables, c <= q, q < n PROVE FALSE
      OBVIOUS
    <2>1. q \in c .. n - 1 /\ At(q) \in {"var", "sub"}
      BY <1>7, Kinds16 DEF Variables
    <2>. QED  BY <1>6, <2>1
  <1>9. PICK d : d = DeclarationBefore(c)
    OBVIOUS
  <1>10. PICK j : j = Nth(c - 1)
    OBVIOUS
  <1>11. Coming(c, n, d, j)
    <2>1. origin = text[3].value
      BY <1>2, <1>6
    <2>2. Holds(End, j) /\ (j < Byte => InStep(c))
      BY <1>2, <1>4, <1>10 DEF InStep
    <2>. QED  BY <1>2, <1>4, <1>6, <1>7, <1>8, <1>9, <1>10, <2>1, <2>2 DEF Coming
  <1>12. PICK pc : pc = counters
    OBVIOUS
  <1>13. pc = Full(MovsBefore(n))
    <2>1. /\ Counted = Instructions /\ Instructions \in SUBSET (1 .. Len(text))
          /\ \A q \in Instructions : q \in Nat /\ At(q) \in Code
      BY <1>3, Kinds16, SetsOfCode
    <2>2. counters = Full(Rank(Instructions, c - 1))
      BY <1>1, <1>4, <2>1 DEF CountInv
    <2>3. Clear(c, n)
      BY <1>6 DEF Clear, Code
    <2>4. Rank(Instructions, n - 1) = Rank(Instructions, c - 1)
      BY <1>7, <2>1, <2>3, RankClear
    <2>5. n \in 0 .. End /\ n > 0
      BY <1>3, <1>4, <1>5, <1>7
    <2>6. MovsBefore(n) = Rank(Instructions, n - 1)
      BY <2>5, CountsAreRanks
    <2>. QED  BY <1>12, <2>2, <2>4, <2>6
  <1>14. AddMemAddress(variable_id, pc, origin)
    BY <1>1, <1>12
  <1>15. /\ EndOfLine(n) = n + 1 /\ n + 1 \in 1 .. Len(text) /\ At(n + 1) = "nl"
         /\ Line(n + 1) # max_line
    BY <1>6, DeclarationLine
  <1>16. /\ \/ corrupted' /\ phase' = "undefined"
            \/ ~corrupted' /\ phase' = "assign" /\ position' = n + 1
         /\ bit_type' = "bit16" /\ text' = text /\ origin' = origin
    BY <1>1, <1>2, <1>5, <1>15
  <1>17. Variables' = Variables /\ \A q : At(q)' = At(q)
    BY <1>16 DEF Variables, At, End
  <1>18. ASSUME corrupted', Cardinality(Variables) >= Byte \/ At(Max(Variables)) = "sub"
         PROVE  Progress'
    <2>1. phase' = "undefined"
      BY <1>16, <1>18
    <2>2. (Cardinality(Variables) >= Byte \/ At(Max(Variables)) = "sub")'
      BY <1>16, <1>17, <1>18 DEF At, End
    <2>. QED  BY <1>2, <1>16, <1>17, <2>1, <2>2 DEF Progress
  <1>19. PICK l : l = End
    OBVIOUS
  <1>20. j \in Nat /\ Nth(n) = j + 1 /\ Byte \in Nat /\ (j < Byte => variable_id = j)
    BY <1>11, ComingFacts, WidthAssumption DEF Coming, InStep
  <1>21. ASSUME ~corrupted', Holds(l, j + 1)', j + 1 < Byte => InStep(position)'
         PROVE  Progress'
    <2>1. phase' = "assign" /\ position' = n + 1
      BY <1>16, <1>21
    <2>2. Stands'
      BY <1>15, <1>16, <1>17, <2>1 DEF Stands, At
    <2>3. Nth(position - 1)' = j + 1
      <3>1. position' - 1 = n
        BY <1>7, <2>1
      <3>. QED  BY <1>16, <1>20, <3>1, <1>17 DEF Nth, Rank
    <2>4. End' = l
      BY <1>16, <1>19 DEF End
    <2>5. Holds(End, Nth(position - 1))'
      BY <1>21, <2>3, <2>4 DEF Holds, Before
    <2>6. variable_id' \in 0 .. Byte - 1
      <3>1. variable_id + 1 \in Nat /\ Byte \in Nat \ {0}
        BY <1>2, WidthAssumption
      <3>. QED  BY <1>1, <3>1 DEF NextId
    <2>7. (Nth(position - 1) < Byte => InStep(position))'
      BY <1>21, <2>3
    <2>. QED  BY <1>2, <1>16, <1>17, <1>21, <2>1, <2>2, <2>5, <2>6, <2>7 DEF Progress
  <1>22. ASSUME j < Byte, ~corrupted', bit16_length' = bit16_length,
                metadata' = [metadata EXCEPT ![EntryOf(n)].address = Place(n)],
                last_address' = Place(n), last_program_counter' = pc,
                VarsUpTo(n) < Byte => index' = VarsUpTo(n),
                last_was_subset_var' <=> n \notin Mains,
                last_was_subset_var' => last_subset_var_id' = EntryOf(n)[2] - 1
         PROVE  Progress'
    <2>1. Holds(l, j + 1)'
      BY <1>11, <1>16, <1>19, <1>22, EntryPlaced
    <2>2. ASSUME j + 1 < Byte PROVE InStep(position)'
      <3>1. PICK e : e = n + 1
        OBVIOUS
      <3>2. n = DeclarationBefore(e) /\ position' = e
        BY <1>4, <1>6, <1>7, <1>8, <1>16, <1>22, <3>1, NextPlaced
      <3>3. e - 1 = n /\ n # 0
        BY <1>6, <1>7, <3>1, Kinds16
      <3>4. variable_id' = Nth(e - 1)
        <4>1. (j + 1) % Byte = j + 1
          BY <1>20, <2>2, WidthAssumption
        <4>. QED  BY <1>1, <1>20, <1>22, <3>3, <4>1 DEF NextId
      <3>5. VarsUpTo(n) < Byte
        BY <1>6, <1>20, <2>2, MainsAmong
      <3>6. /\ index' = IF n = 0 THEN 0 ELSE VarsUpTo(n)
            /\ last_was_subset_var' <=> (n # 0 /\ n \notin Mains)
            /\ last_address' = IF n = 0 THEN 0 ELSE Place(n)
            /\ last_program_counter' = Full(MovsBefore(n))
        BY <1>13, <1>22, <3>3, <3>5
      <3>. QED  BY <1>16, <1>22, <3>2, <3>4, <3>6, InStepAfter
    <2>. QED  BY <1>21, <1>22, <2>1, <2>2
  <1>23. CASE j < Byte /\ n \in Mains
    <2>1. /\ UNCHANGED <<bit16_length, corrupted>>
          /\ metadata' = [metadata EXCEPT ![EntryOf(n)].address = Place(n)]
          /\ last_address' = Place(n) /\ last_program_counter' = pc
          /\ index' = VarsUpTo(n) % Byte /\ ~last_was_subset_var'
      BY <1>11, <1>13, <1>14, <1>23, PlaceMain
    <2>2. VarsUpTo(n) < Byte => VarsUpTo(n) % Byte = VarsUpTo(n)
      <3>1. VarsUpTo(n) \in Nat
        BY <1>6, MainsAmong
      <3>. QED  BY <3>1, WidthAssumption
    <2>. QED  BY <1>2, <1>22, <1>23, <2>1, <2>2
  <1>24. CASE j < Byte /\ n \notin Mains
    <2>1. \/ /\ UNCHANGED <<bit16_length, corrupted>>
             /\ metadata' = [metadata EXCEPT ![EntryOf(n)].address = Place(n)]
             /\ last_address' = Place(n) /\ last_program_counter' = pc
             /\ index' = VarsUpTo(n) /\ last_was_subset_var'
             /\ last_subset_var_id' = EntryOf(n)[2] - 1
          \/ corrupted' /\ At(Max(Variables)) = "sub"
      BY <1>11, <1>13, <1>14, <1>24, PlaceSub
    <2>. QED  BY <1>2, <1>18, <1>22, <1>24, <2>1
  <1>25. CASE ~(j < Byte)
    <2>1. \/ UNCHANGED <<bit16_length, corrupted, metadata>>
          \/ corrupted' /\ Cardinality(Variables) >= Byte
      BY <1>11, <1>14, <1>25, PlaceNone
    <2>2. ASSUME UNCHANGED <<bit16_length, corrupted, metadata>> PROVE Progress'
      <3>1. Holds(l, j + 1)'
        BY <1>11, <1>16, <1>19, <1>25, <2>2, EntryKeeps
      <3>2. ~(j + 1 < Byte)
        BY <1>20, <1>25
      <3>. QED  BY <1>2, <1>21, <2>2, <3>1, <3>2
    <2>. QED  BY <1>18, <2>1, <2>2
  <1>. QED  BY <1>23, <1>24, <1>25

\* Between declarations the table stays in step.
LEMMA StepsOver ==
    ASSUME Good, Progress, phase = "assign", phase' = "assign",
           UNCHANGED <<text, origin, tableVars, variable_id, bit_type>>,
           NEW e \in 1 .. Len(text), position' = e, position <= e,
           At(e) \in {"nl", "use16", "org", "mov", "load"},
           \A q \in Variables : ~(position <= q /\ q < e)
    PROVE  Progress'
  <1>1. /\ bit_type = "bit16" /\ (Variables # {} => origin = text[3].value) /\ ~corrupted
        /\ Stands /\ Holds(End, Nth(position - 1)) /\ variable_id \in 0 .. Byte - 1
        /\ Nth(position - 1) < Byte => InStep(position)
    BY DEF Progress
  <1>2. PICK c \in 1 .. Len(text) : c = position
    BY <1>1 DEF Stands
  <1>3. /\ Len(text) \in Nat /\ Variables \in SUBSET (1 .. Len(text)) /\ c \in Nat /\ e \in Nat
        /\ c - 1 \in Nat /\ e - 1 \in Nat /\ c <= e /\ \A q \in Variables : ~(c <= q /\ q < e)
        /\ \A q \in Variables : q \in Nat
    BY <1>2, GoodItems, Kinds16
  <1>4. Nth(e - 1) = Nth(c - 1)
    <2>1. c - 1 <= e - 1 /\ \A q \in Variables : ~(c - 1 < q /\ q <= e - 1)
      BY <1>3
    <2>. QED  BY <1>3, <2>1, NoneBetween DEF Nth
  <1>5. DeclarationBefore(e) = DeclarationBefore(c)
    <2>1. \A q \in Variables : q < e <=> q < c
      BY <1>3
    <2>2. {q \in Variables : q < e} = {q \in Variables : q < c}
      BY <2>1
    <2>. QED  BY <2>2 DEF DeclarationBefore
  <1>6. /\ Variables' = Variables /\ (\A q : At(q)' = At(q)) /\ text' = text /\ origin' = origin
        /\ UNCHANGED <<metadata, bit16_length>> /\ corrupted' = corrupted
        /\ UNCHANGED <<placement, variable_id>>
    BY DEF Variables, At, End, tableVars, declared
  <1>7. Stands'
    BY <1>6 DEF Stands, At
  <1>8. Nth(position - 1)' = Nth(c - 1)
    BY <1>4, <1>6 DEF Nth, Rank
  <1>9. PICK l : l = End
    OBVIOUS
  <1>10. PICK j : j = Nth(c - 1)
    OBVIOUS
  <1>11. Holds(l, j)'
    <2>1. Holds(l, j)
      BY <1>1, <1>2, <1>9, <1>10
    <2>. QED  BY <1>6, <2>1, HoldsKept
  <1>12. Holds(End, Nth(position - 1))'
    <2>1. End' = l
      BY <1>6, <1>9 DEF End
    <2>. QED  BY <1>8, <1>10, <1>11, <2>1 DEF Holds, Before
  <1>13. Nth(c - 1) < Byte => InStep(position)'
    <2>. SUFFICES ASSUME InStep(c) PROVE InStep(position)'
      BY <1>1, <1>2
    <2>. DEFINE d == DeclarationBefore(c)
    <2>1. /\ variable_id = Nth(c - 1)
          /\ index = IF d = 0 THEN 0 ELSE VarsUpTo(d)
          /\ last_was_subset_var <=> (d # 0 /\ d \notin Mains)
          /\ last_was_subset_var => last_subset_var_id = EntryOf(d)[2] - 1
          /\ last_address = IF d = 0 THEN 0 ELSE Place(d)
          /\ last_program_counter = Full(MovsBefore(d))
      BY DEF InStep
    <2>2. PICK f : f = DeclarationBefore(c)
      OBVIOUS
    <2>3. /\ variable_id' = Nth(e - 1)
          /\ index' = IF f = 0 THEN 0 ELSE VarsUpTo(f)
          /\ last_was_subset_var' <=> (f # 0 /\ f \notin Mains)
          /\ last_was_subset_var' => last_subset_var_id' = EntryOf(f)[2] - 1
          /\ last_address' = IF f = 0 THEN 0 ELSE Place(f)
          /\ last_program_counter' = Full(MovsBefore(f))
      BY <1>4, <1>6, <2>1, <2>2 DEF placement
    <2>4. f = DeclarationBefore(e)
      BY <1>5, <2>2
    <2>. QED  BY <1>6, <2>3, <2>4, InStepAfter
  <1>. QED  BY <1>1, <1>6, <1>7, <1>8, <1>12, <1>13 DEF Progress

\* Pass 1 leaves when no declaration is left.
LEMMA PassDone ==
    ASSUME Good, Progress, phase = "assign", phase' = "emit",
           UNCHANGED <<text, origin, tableVars, bit_type>>,
           \A q \in Variables : ~(position <= q)
    PROVE  Progress'
  <1>1. /\ bit_type = "bit16" /\ (Variables # {} => origin = text[3].value) /\ ~corrupted
        /\ Holds(End, Nth(position - 1)) /\ position \in 1 .. Len(text)
    BY DEF Progress, Stands
  <1>2. Nth(position - 1) = Cardinality(Variables)
    <2>1. \A q \in Variables : q <= position - 1
      BY <1>1, GoodItems, Kinds16
    <2>2. {q \in Variables : q <= position - 1} = Variables
      BY <2>1
    <2>. QED  BY <2>2 DEF Nth, Rank
  <1>3. /\ Variables' = Variables /\ text' = text /\ origin' = origin
        /\ UNCHANGED <<metadata, bit16_length>> /\ corrupted' = corrupted
    BY DEF Variables, At, End, tableVars, declared
  <1>4. PICK l : l = End
    OBVIOUS
  <1>5. PICK j : j = Cardinality(Variables)
    OBVIOUS
  <1>6. Holds(l, j)'
    <2>1. Holds(l, j)
      BY <1>1, <1>2, <1>4, <1>5
    <2>. QED  BY <1>3, <2>1, HoldsKept
  <1>7. Holds(End, Cardinality(Variables))'
    <2>1. End' = l /\ Cardinality(Variables)' = j
      BY <1>3, <1>4, <1>5 DEF End
    <2>. QED  BY <1>6, <2>1 DEF Holds, Before
  <1>. QED  BY <1>1, <1>3, <1>7 DEF Progress

LEMMA PassTables ==
    ASSUME Good, InText, Progress, PassLine
    PROVE  Progress'
  <1>1. /\ phase = "assign" /\ AtNewline /\ ~AtDeclaration
        /\ UNCHANGED <<text, origin, tableVars, variable_id>>
        /\ bit_type' = IF bit_type = "NoneSet" /\ Line(position) > 1 THEN "bit32" ELSE bit_type
        /\ \/ (NextText = End \/ Line(NextText) = max_line) /\ phase' = "emit"
           \/ NextText # End /\ phase' = "assign" /\ position' = NextText
    BY DEF PassLine, Assigning, DefaultBitType, EndAssigning, Goto
  <1>2. bit_type' = bit_type
    BY <1>1 DEF Progress
  <1>3. /\ position \in 1 .. End /\ position \in Nat /\ End = Len(text) + 1 /\ Len(text) \in Nat
        /\ TextOK /\ EndsInBlankLine /\ At(Len(text)) = "nl"
        /\ \A q \in Variables : q \in 1 .. Len(text) /\ At(q) \in {"var", "sub"}
    <2>1. \A q \in Variables : q \in 1 .. Len(text) /\ At(q) \in {"var", "sub"}
      BY Kinds16 DEF Variables
    <2>. QED  BY <2>1, GoodItems DEF InText, Good, Ordinary
  <1>4. PICK n \in position .. End : n = NextText
    BY TextAhead
  <1>5. /\ At(n) \notin {"nl", "cmt"} /\ n \notin Variables
        /\ \A q \in position .. n - 1 : At(q) \in {"nl", "cmt"}
    BY <1>1, <1>4, TextAhead
  <1>6. \A q \in Variables : ~(position <= q /\ q < n)
    <2>. SUFFICES ASSUME NEW q \in Variables, position <= q, q < n PROVE FALSE
      OBVIOUS
    <2>1. q \in position .. n - 1 /\ At(q) \in {"var", "sub"}
      BY <1>3, <1>4
    <2>. QED  BY <1>5, <2>1
  <1>7. CASE (NextText = End \/ Line(NextText) = max_line) /\ phase' = "emit"
    <2>1. n = End
      <3>. SUFFICES ASSUME Line(n) = max_line PROVE n = End
        BY <1>4, <1>7
      <3>1. n \in 1 .. End
        BY <1>3, <1>4
      <3>2. n >= Len(text)
        BY <1>3, <3>1, LastLine
      <3>3. n # Len(text)
        BY <1>3, <1>5
      <3>. QED  BY <1>3, <3>1, <3>2, <3>3
    <2>2. \A q \in Variables : ~(position <= q)
      BY <1>3, <1>6, <2>1
    <2>. QED  BY <1>1, <1>2, <1>7, <2>2, PassDone
  <1>8. CASE NextText # End /\ phase' = "assign" /\ position' = NextText
    <2>1. n \in 1 .. Len(text) /\ position <= n /\ position' = n
      BY <1>3, <1>4, <1>8
    <2>2. At(n) \in {"use16", "org", "nl", "mov", "load", "var", "sub", "cmt"}
      BY <2>1, GoodItems
    <2>3. At(n) \notin {"var", "sub"}
      BY <1>5, <2>1 DEF Variables
    <2>4. At(n) \in {"nl", "use16", "org", "mov", "load"}
      BY <1>5, <2>2, <2>3
    <2>. QED  BY <1>1, <1>2, <1>6, <1>8, <2>1, <2>4, StepsOver
  <1>. QED  BY <1>1, <1>7, <1>8

\* What stands at an instruction or a directive is fetched there.
LEMMA FetchedHere ==
    ASSUME TextOK, NEW p \in 1 .. Len(text), At(p) \in {"use16", "org", "mov", "load"}
    PROVE  Fetch(p) = [at |-> p, token |-> IF At(p) \in Code THEN "code" ELSE "directive"]
  <1>1. /\ p \in 1 .. End /\ p # End /\ End \in Nat /\ End = Len(text) + 1 /\ p \in Nat
        /\ Len(text) \in Nat
    BY AtFacts DEF TextOK
  <1>2. SkipNewlines(p) = p
    <2>1. /\ SkipNewlines(p) \in p .. End
          /\ \A q \in p .. SkipNewlines(p) - 1 : At(q) \in {"nl"}
      BY <1>1, SkipAllFacts DEF SkipNewlines
    <2>2. p = SkipNewlines(p) \/ p \in p .. SkipNewlines(p) - 1
      BY <1>1, <2>1
    <2>. QED  BY <2>1, <2>2
  <1>3. Approach(p) = [at |-> p, token |-> "here"]
    <2>1. At(p) \notin Declarations /\ At(p) # "cmt"
      BY DEF Declarations
    <2>. QED  BY <1>1, <1>2, <2>1 DEF Approach
  <1>4. CASE At(p) \in Code
    BY <1>3, <1>4 DEF Fetch
  <1>5. CASE At(p) \notin Code
    <2>1. At(p) \in Directives
      BY <1>5 DEF Code, Directives
    <2>. QED  BY <1>3, <1>5, <2>1 DEF Fetch
  <1>. QED  BY <1>4, <1>5

LEMMA PreprocessTables ==
    ASSUME Good, InText, Progress, Preprocess
    PROVE  Progress'
  <1>. DEFINE f == Fetch(position)
  <1>1. /\ phase = "assign" /\ At(position) \notin {"nl", "end"}
        /\ UNCHANGED <<text, origin, tableVars, variable_id>>
        /\ bit_type' = IF bit_type = "NoneSet" /\ Line(position) > 1 THEN "bit32" ELSE bit_type
        /\ \/ f.token \in {"code", "directive"} /\ Goto("assign", f.at + 1)
           \/ f.token = "code" /\ (At(f.at) = "store" \/ Refused(f.at))
           \/ f.token \in {"none", "eof"}
    BY DEF Preprocess, Assigning, DefaultBitType
  <1>2. bit_type' = bit_type /\ Stands
    BY <1>1 DEF Progress
  <1>3. /\ position \in 1 .. Len(text) /\ At(position) \in {"use16", "org", "mov", "load"} /\ TextOK
        /\ Len(text) \in Nat
    BY <1>1, <1>2, GoodItems DEF Stands, Good
  <1>4. f.at = position /\ f.token \in {"code", "directive"}
        /\ At(position) # "store" /\ ~Refused(position)
    BY <1>3, FetchedHere DEF Refused
  <1>5. phase' = "assign" /\ position' = position + 1
    BY <1>1, <1>4 DEF Goto
  <1>6. PICK e \in 1 .. Len(text) : e = position + 1 /\ At(e) = "nl"
    BY <1>3, NewlineBehind
  <1>7. \A q \in Variables : ~(position <= q /\ q < e)
    <2>. SUFFICES ASSUME NEW q \in Variables, position <= q, q < e PROVE FALSE
      OBVIOUS
    <2>1. q = position /\ At(q) \in {"var", "sub"}
      BY <1>3, <1>6, Kinds16 DEF Variables
    <2>. QED  BY <1>3, <2>1
  <1>8. position' = e /\ position <= e
    BY <1>3, <1>5, <1>6
  <1>. QED  BY <1>1, <1>2, <1>5, <1>6, <1>7, <1>8, StepsOver

LEMMA EndsTables ==
    ASSUME Good, Progress, AssigningEnds
    PROVE  Progress'
  <1>1. /\ phase = "assign" /\ position >= Len(text) /\ phase' = "emit"
        /\ UNCHANGED <<text, origin, tableVars>>
        /\ bit_type' \in {bit_type, IF bit_type = "NoneSet" /\ Line(position) > 1 THEN "bit32" ELSE bit_type}
    BY DEF AssigningEnds, Assigning, DefaultBitType, EndAssigning, Goto
  <1>2. bit_type' = bit_type /\ Stands
    BY <1>1 DEF Progress
  <1>3. \A q \in Variables : ~(position <= q)
    <2>. SUFFICES ASSUME NEW q \in Variables, position <= q PROVE FALSE
      OBVIOUS
    <2>1. q \in 1 .. Len(text) /\ At(q) \in {"var", "sub"} /\ Len(text) \in Nat /\ At(Len(text)) = "nl"
      BY Kinds16, GoodItems DEF Variables
    <2>2. q = Len(text)
      BY <1>1, <1>2, <2>1 DEF Stands
    <2>. QED  BY <2>1, <2>2
  <1>. QED  BY <1>1, <1>2, <1>3, PassDone

-----------------------------------------------------------------------------
\* Pass 2 and the ends of a run read the table only.
LEMMA ReadTables ==
    ASSUME Good, Progress, phase \in {"emit", "stopped", "spinning", "undefined"},
           phase' = phase \/ (phase = "emit" /\ phase' \in {"stopped", "spinning"}),
           UNCHANGED <<text, origin, tableVars, bit_type>>
    PROVE  Progress'
  <1>1. /\ Variables' = Variables /\ text' = text /\ origin' = origin /\ (\A q : At(q)' = At(q))
        /\ UNCHANGED <<metadata, bit16_length>> /\ corrupted' = corrupted
    BY DEF Variables, At, End, tableVars, declared
  <1>2. ASSUME Holds(End, Cardinality(Variables)) PROVE Holds(End, Cardinality(Variables))'
    <2>1. PICK l : l = End
      OBVIOUS
    <2>2. PICK j : j = Cardinality(Variables)
      OBVIOUS
    <2>3. Holds(l, j)'
      <3>1. Holds(l, j)
        BY <1>2, <2>1, <2>2
      <3>. QED  BY <1>1, <3>1, HoldsKept
    <2>4. End' = l /\ Cardinality(Variables)' = j
      BY <1>1, <2>1, <2>2 DEF End
    <2>. QED  BY <2>3, <2>4 DEF Holds, Before
  <1>3. /\ bit_type = "bit16" /\ (Variables # {} => origin = text[3].value)
        /\ phase # "undefined" => ~corrupted
        /\ phase \in {"emit", "stopped"} => Holds(End, Cardinality(Variables))
        /\ phase = "undefined" =>
              Cardinality(Variables) >= Byte \/ At(Max(Variables)) = "sub"
    BY DEF Progress
  <1>4. (At(Max(Variables)) = "sub")' <=> At(Max(Variables)) = "sub"
    BY <1>1 DEF At, End
  <1>. QED  BY <1>1, <1>2, <1>3, <1>4 DEF Progress
-----------------------------------------------------------------------------
(***************************************************************************)
(* Every step.                                                             *)
(***************************************************************************)
LEMMA StepTables ==
    ASSUME Good, Fits, CountInv, SpinInv, Next, text' = text,
           phase = "open" => TableInit /\ variable_id = 0,
           phase # "open" => Progress
    PROVE  Progress' /\ phase' # "open"
  <1>1. InText /\ index \in Nat
    BY DEF SpinInv, CursorInTable
  <1>2. CASE OpenFile
    <2>1. phase = "open"
      BY <1>2 DEF OpenFile
    <2>. QED  BY <1>2, <2>1, OpenTables DEF OpenFile, Stop, Spin, Goto
  <1>3. CASE DeclareVariable \/ DeclareSubset
    <2>1. phase = "declare" /\ phase' # "open"
      BY <1>3 DEF DeclareVariable, DeclareSubset, Declaring, Stop, Spin, Goto
    <2>. QED  BY <1>1, <1>3, <2>1, DeclareTables
  <1>4. CASE DeclarationsEnd
    <2>1. phase = "declare" /\ phase' # "open"
      BY <1>4 DEF DeclarationsEnd, Goto
    <2>. QED  BY <1>1, <1>4, <2>1, DeclaredTables
  <1>5. CASE StartPreprocessor
    <2>1. phase = "scan" /\ phase' # "open"
      BY <1>5 DEF StartPreprocessor, Goto
    <2>. QED  BY <1>5, <2>1, ScanTables
  <1>6. CASE AssignMemAddress
    <2>1. phase = "assign" /\ phase' # "open"
      BY <1>6 DEF AssignMemAddress, Assigning, EndAssigning, Goto
    <2>. QED  BY <1>1, <1>6, <2>1, PlacedTables
  <1>7. CASE AssignSpins
    <2>1. /\ phase = "assign" /\ phase' = "spinning" /\ UNCHANGED <<text, origin, tableVars>>
          /\ bit_type' = IF bit_type = "NoneSet" /\ Line(position) > 1 THEN "bit32" ELSE bit_type
      BY <1>7 DEF AssignSpins, Assigning, Spin, DefaultBitType
    <2>2. /\ bit_type = "bit16" /\ (Variables # {} => origin = text[3].value) /\ ~corrupted
      BY <2>1 DEF Progress
    <2>3. Variables' = Variables
      BY <2>1 DEF Variables, At, End
    <2>. QED  BY <2>1, <2>2, <2>3 DEF Progress, tableVars
  <1>8. CASE PassLine
    <2>1. phase = "assign" /\ phase' # "open"
      BY <1>8 DEF PassLine, Assigning, EndAssigning, Goto
    <2>. QED  BY <1>1, <1>8, <2>1, PassTables
  <1>9. CASE Preprocess
    <2>1. phase = "assign" /\ phase' # "open"
      BY <1>9 DEF Preprocess, Assigning, EndAssigning, Goto, Stop, Refuse, Move, Spin
    <2>. QED  BY <1>1, <1>9, <2>1, PreprocessTables
  <1>10. CASE AssigningEnds
    <2>1. phase = "assign" /\ phase' # "open"
      BY <1>10 DEF AssigningEnds, Assigning, EndAssigning, Goto
    <2>. QED  BY <1>10, <2>1, EndsTables
  <1>11. CASE Emit \/ EmittingEnds
    <2>1. /\ phase = "emit" /\ phase' \in {"emit", "stopped", "spinning"}
          /\ UNCHANGED <<text, origin, tableVars, bit_type>>
      BY <1>11 DEF Emit, EmittingEnds, Emitting, Goto, Stop, Refuse, Move, Spin
    <2>. QED  BY <2>1, ReadTables
  <1>12. CASE Ended
    <2>1. /\ phase \in {"stopped", "spinning", "undefined"} /\ phase' = phase
          /\ UNCHANGED <<text, origin, tableVars, bit_type>>
      BY <1>12 DEF Ended, vars, passVars
    <2>. QED  BY <2>1, ReadTables
  <1>. QED  BY <1>2, <1>3, <1>4, <1>5, <1>6, <1>7, <1>8, <1>9, <1>10, <1>11, <1>12 DEF Next, Step

\* Nothing happens, and nothing is lost.
LEMMA ProgressStutters ==
    ASSUME Progress, UNCHANGED vars
    PROVE  Progress'
  <1>1. /\ UNCHANGED <<text, origin, metadata, bit16_length, corrupted, phase, position>>
        /\ UNCHANGED <<bit_type, variable_id, subset_variables_count, placement>>
    BY DEF vars, passVars, tableVars, declared
  <1>2. /\ Variables' = Variables /\ Mains' = Mains /\ (\A q : At(q)' = At(q)) /\ End' = End
        /\ \A p : Before(p)' = Before(p) /\ EntryOf(p)' = EntryOf(p)
                  /\ VarsUpTo(p)' = VarsUpTo(p) /\ MovsBefore(p)' = MovsBefore(p)
                  /\ DeclarationBefore(p)' = DeclarationBefore(p)
                  /\ Place(p)' = Place(p) /\ Nth(p)' = Nth(p)
        /\ \A p, j : Entry(p, j)' = Entry(p, j)
        /\ \A i : Family(i)' = Family(i)
    BY <1>1, SameTables DEF At, End
  <1>3. \A c, j : Holds(c, j)' <=> Holds(c, j)
    BY <1>1, <1>2 DEF Holds, Rank
  <1>4. \A c : (SubsetsCounted(c)' <=> SubsetsCounted(c)) /\ (InStep(c)' <=> InStep(c))
    BY <1>1, <1>2 DEF SubsetsCounted, InStep, Rank, placement
  <1>5. (Unplaced' <=> Unplaced) /\ (Stands' <=> Stands)
    BY <1>1, <1>2 DEF Unplaced, Stands, placement, At, End
  <1>6. (Nth(position - 1) < Byte)' <=> Nth(position - 1) < Byte
    BY <1>1, <1>2 DEF Nth, Rank
  <1>. QED  BY <1>1, <1>2, <1>3, <1>4, <1>5, <1>6 DEF Progress

\* The invariant holds of the first state and over every step.
LEMMA InitTables == Init => TableInv
  <1>. SUFFICES ASSUME Init PROVE TableInv
    OBVIOUS
  <1>1. SpinInv
    BY InitInText DEF Init, TableInit, SpinInv, CursorInTable, SpinsOnlyWhen
  <1>. QED  BY <1>1, InitCount DEF Init, TableInv

LEMMA NextTables == TableInv /\ [Next]_vars => TableInv'
  <1>. SUFFICES ASSUME TableInv, [Next]_vars PROVE TableInv'
    OBVIOUS
  <1>1. CountInv' /\ SpinInv' /\ CountInv /\ SpinInv /\ TextOK
    BY NextCount, NextSpin, TextIsOK DEF TableInv, SpinInv, InText
  <1>2. text' = text
    BY <1>1, StepInText DEF SpinInv, vars
  <1>3. CASE UNCHANGED vars
    <2>1. /\ UNCHANGED <<phase, bit_type, variable_id, position, origin>>
          /\ (TableInit' <=> TableInit)
      BY <1>3 DEF vars, passVars, tableVars, declared, placement, TableInit
    <2>2. Good' = Good /\ Fits' = Fits
      BY <1>2, <2>1, SameTables
    <2>3. Progress => Progress'
      BY <1>3, ProgressStutters
    <2>. QED  BY <1>1, <2>1, <2>2, <2>3 DEF TableInv
  <1>4. CASE Next /\ ~(UNCHANGED vars)
    <2>1. phase' # "open"
      BY <1>4 DEF Next, Step, OpenFile, DeclareVariable, DeclareSubset, Declaring,
             DeclarationsEnd, StartPreprocessor, AssignMemAddress, AssignSpins, PassLine,
             Preprocess, AssigningEnds, Assigning, EndAssigning, Emit, EmittingEnds, Emitting,
             Ended, Goto, Stop, Refuse, Move, Spin
    <2>2. ASSUME Good', Fits', phase' # "open" PROVE Progress'
      <3>1. Good /\ (phase # "open" => origin' = origin)
        <4>1. Good' = Good
          BY <1>2 DEF Good, TextOK, Ordinary, LastItem, EndsInBlankLine, At, End, Variables
        <4>2. phase # "open" => origin' = origin
          BY <1>4 DEF Next, Step, OpenFile, DeclareVariable, DeclareSubset, Declaring,
             DeclarationsEnd, StartPreprocessor, AssignMemAddress, AssignSpins, PassLine,
             Preprocess, AssigningEnds, Assigning, EndAssigning, Emit, EmittingEnds, Emitting,
             Ended, Goto, Stop, Refuse, Move, Spin, vars, passVars, KeepPass
        <4>. QED  BY <2>2, <4>1, <4>2
      <3>2. CASE phase = "open"
        <4>1. OpenFile \/ Ended
          BY <1>4, <3>2 DEF Next, Step, OpenFile, DeclareVariable, DeclareSubset, Declaring,
             DeclarationsEnd, StartPreprocessor, AssignMemAddress, AssignSpins, PassLine,
             Preprocess, AssigningEnds, Assigning, Emit, EmittingEnds, Emitting
        <4>2. OpenFile
          BY <3>2, <4>1 DEF Ended
        <4>3. TableInit /\ variable_id = 0
          BY <3>2 DEF TableInv
        <4>. QED  BY <3>1, <3>2, <4>2, <4>3, OpenTables
      <3>3. CASE phase # "open"
        <4>1. Fits
          <5>1. origin' = origin
            BY <3>1, <3>3
          <5>. QED  BY <1>2, <2>2, <5>1, SameTables
        <4>2. Progress
          BY <3>1, <3>3, <4>1 DEF TableInv
        <4>. QED  BY <1>1, <1>2, <1>4, <3>1, <3>3, <4>1, <4>2, StepTables
      <3>. QED  BY <3>2, <3>3
    <2>. QED  BY <1>1, <2>1, <2>2 DEF TableInv
  <1>. QED  BY <1>3, <1>4

-----------------------------------------------------------------------------
\* What the invariant says of a run that has left pass 1.
LEMMA TablesStand ==
    ASSUME TableInv, Ordinary, Fits, phase \in {"emit", "stopped"}
    PROVE  /\ Good
           /\ DOMAIN metadata = {EntryOf(p) : p \in Variables}
           /\ Cardinality(DOMAIN metadata) = Cardinality(Variables)
           /\ \A p \in Variables :
                 metadata[EntryOf(p)] =
                     [name |-> text[p].name, size |-> text[p].size,
                      address |-> IF Nth(p) <= Byte THEN Place(p) ELSE Nth(p) - 1]
  <1>1. Good
    BY TextIsOK DEF TableInv, SpinInv, InText, Good
  <1>2. Holds(End, Cardinality(Variables))
    BY <1>1 DEF TableInv, Progress
  <1>3. /\ \A q \in Variables : q \in Nat /\ q < End /\ q <= Len(text)
        /\ Len(text) \in Nat /\ End - 1 = Len(text)
    BY <1>1, GoodItems, Kinds16
  <1>4. Before(End) = Variables /\ Rank(Variables, End - 1) = Cardinality(Variables)
    <2>1. {q \in Variables : q <= Len(text)} = Variables
      BY <1>3
    <2>. QED  BY <1>3, <2>1 DEF Before, Rank
  <1>5. /\ DOMAIN metadata = {EntryOf(p) : p \in Variables}
        /\ Cardinality(DOMAIN metadata) = Cardinality(Variables)
        /\ \A p \in Variables : metadata[EntryOf(p)] = Entry(p, Cardinality(Variables))
    BY <1>2, <1>4 DEF Holds
  <1>6. \A p \in Variables : Nth(p) <= Cardinality(Variables)
    BY <1>1, EntryFacts
  <1>. QED  BY <1>1, <1>5, <1>6 DEF Entry, Address

\* For a well-formed file of any length, with addresses that fit a usint16, the
\* table that parser.hpp and pass 1 leave behind holds every declaration, in
\* order, at the place its distance from the origin gives it.
THEOREM TablesRight == Spec => []TablesMatchText
  <1>1. TableInv => TablesMatchText
    <2>. SUFFICES ASSUME TableInv, WellFormed, Fits, phase \in {"emit", "stopped"}
                  PROVE  /\ DOMAIN metadata = {EntryOf(p) : p \in Variables}
                         /\ Cardinality(DOMAIN metadata) = Cardinality(Variables)
                         /\ \A p \in Variables :
                               metadata[EntryOf(p)] = [name |-> text[p].name, size |-> text[p].size,
                                                       address |-> Place(p)]
      BY DEF TablesMatchText
    <2>1. /\ Good /\ DOMAIN metadata = {EntryOf(p) : p \in Variables}
          /\ Cardinality(DOMAIN metadata) = Cardinality(Variables)
          /\ \A p \in Variables :
                metadata[EntryOf(p)] =
                    [name |-> text[p].name, size |-> text[p].size,
                     address |-> IF Nth(p) <= Byte THEN Place(p) ELSE Nth(p) - 1]
      BY TablesStand DEF WellFormed
    <2>2. \A p \in Variables : Nth(p) <= Byte
      <3>1. Cardinality(Variables) < Byte /\ Byte \in Nat
        BY WidthAssumption DEF WellFormed
      <3>2. \A p \in Variables : /\ Nth(p) <= Cardinality(Variables) /\ Nth(p) \in Nat
                                 /\ Cardinality(Variables) \in Nat
        BY <2>1, EntryFacts
      <3>. QED  BY <3>1, <3>2
    <2>. QED  BY <2>1, <2>2
  <1>. QED  BY <1>1, InitTables, NextTables, PTL DEF Spec

\* However many variables a file declares, its first Byte declarations are placed
\* as ever, and each later one, which the usint8 variable_id never presents, keeps
\* its ordinal for an address.
THEOREM LaterUnplaced == Spec => []LaterKeepOrdinals
  <1>1. TableInv => LaterKeepOrdinals
    <2>. SUFFICES ASSUME TableInv, Ordinary, Fits, phase \in {"emit", "stopped"},
                         NEW p \in Variables
                  PROVE  metadata[EntryOf(p)].address =
                             IF Rank(Variables, p) <= Byte THEN Place(p) ELSE Rank(Variables, p) - 1
      BY DEF LaterKeepOrdinals
    <2>1. metadata[EntryOf(p)] =
              [name |-> text[p].name, size |-> text[p].size,
               address |-> IF Nth(p) <= Byte THEN Place(p) ELSE Nth(p) - 1]
      BY TablesStand
    <2>. QED  BY <2>1 DEF Nth
  <1>. QED  BY <1>1, InitTables, NextTables, PTL DEF Spec

\* With a well-formed file the table is read past its end only where a subset
\* variable is placed behind the last main variable.
THEOREM ReadsPastEndOnlyThere == Spec => []OnlyTrailingSubsetsReadPastEnd
  <1>1. TableInv => OnlyTrailingSubsetsReadPastEnd
    <2>. SUFFICES ASSUME TableInv, WellFormed, Fits, phase = "undefined"
                  PROVE  At(Max(Variables)) = "sub"
      BY DEF OnlyTrailingSubsetsReadPastEnd
    <2>1. Good
      BY TextIsOK DEF TableInv, SpinInv, InText, Good, WellFormed
    <2>2. Cardinality(Variables) >= Byte \/ At(Max(Variables)) = "sub"
      BY <2>1 DEF TableInv, Progress
    <2>3. Cardinality(Variables) < Byte /\ Byte \in Nat
      BY WidthAssumption DEF WellFormed
    <2>4. Cardinality(Variables) \in Nat
      <3>1. Len(text) \in Nat /\ Variables \in SUBSET (1 .. Len(text))
        BY <2>1, GoodItems, Kinds16
      <3>. QED  BY <3>1, RankFacts
    <2>. QED  BY <2>2, <2>3, <2>4
  <1>. QED  BY <1>1, InitTables, NextTables, PTL DEF Spec
-----------------------------------------------------------------------------
(***************************************************************************)
(* What a load reports.                                                    *)
(***************************************************************************)
\* Of some declarations, the first in the table is the first in the text.
LEMMA FirstIs ==
    ASSUME Good, NEW T \in SUBSET Variables, NEW p \in T, \A q \in T : p <= q,
           NEW S, S = {EntryOf(q) : q \in T}
    PROVE  FirstInOrder(S) = EntryOf(p)
  <1>. DEFINE Order(k, e) == k[1] < e[1] \/ (k[1] = e[1] /\ k[2] <= e[2])
  <1>1. \A q \in Variables :
            /\ EntryOf(q) = <<VarsUpTo(q) - 1, Rank(Family(VarsUpTo(q)), q) - 1>>
            /\ VarsUpTo(q) \in Nat /\ Rank(Family(VarsUpTo(q)), q) \in Nat /\ q \in Nat
    BY EntryFacts, MainBefore, Kinds16
  <1>2. \A q \in Variables : EntryOf(q)[1] \in Int /\ EntryOf(q)[2] \in Int
    BY <1>1
  <1>3. ASSUME NEW a \in Variables, NEW b \in Variables, a < b
        PROVE  Order(EntryOf(a), EntryOf(b)) /\ ~Order(EntryOf(b), EntryOf(a))
    <2>1. /\ VarsUpTo(a) <= VarsUpTo(b)
          /\ VarsUpTo(a) = VarsUpTo(b) =>
                Rank(Family(VarsUpTo(a)), a) < Rank(Family(VarsUpTo(a)), b)
      BY <1>3, EntriesAscend
    <2>2. /\ EntryOf(a)[1] = VarsUpTo(a) - 1 /\ EntryOf(a)[2] = Rank(Family(VarsUpTo(a)), a) - 1
          /\ EntryOf(b)[1] = VarsUpTo(b) - 1 /\ EntryOf(b)[2] = Rank(Family(VarsUpTo(b)), b) - 1
          /\ VarsUpTo(a) \in Nat /\ VarsUpTo(b) \in Nat
          /\ Rank(Family(VarsUpTo(a)), a) \in Nat /\ Rank(Family(VarsUpTo(b)), b) \in Nat
      BY <1>1
    <2>3. CASE VarsUpTo(a) = VarsUpTo(b)
      <3>1. Rank(Family(VarsUpTo(a)), a) < Rank(Family(VarsUpTo(b)), b)
        BY <2>1, <2>3
      <3>. QED  BY <2>2, <2>3, <3>1
    <2>4. CASE VarsUpTo(a) # VarsUpTo(b)
      BY <2>1, <2>2, <2>4
    <2>. QED  BY <2>3, <2>4
  <1>4. \A e \in S : Order(EntryOf(p), e)
    <2>. SUFFICES ASSUME NEW q \in T PROVE Order(EntryOf(p), EntryOf(q))
      OBVIOUS
    <2>1. p = q \/ p < q
      BY <1>1
    <2>2. CASE p = q
      BY <1>2, <2>2
    <2>. QED  BY <1>3, <2>1, <2>2
  <1>5. ASSUME NEW k \in S, \A e \in S : Order(k, e) PROVE k = EntryOf(p)
    <2>1. PICK q \in T : k = EntryOf(q)
      OBVIOUS
    <2>2. Order(EntryOf(q), EntryOf(p))
      BY <1>5, <2>1
    <2>3. ~(p < q)
      BY <1>3, <2>2
    <2>. QED  BY <1>1, <2>1, <2>3
  <1>6. EntryOf(p) \in S
    OBVIOUS
  <1>. HIDE DEF Order
  <1>7. FirstInOrder(S) = CHOOSE k \in S : \A e \in S : Order(k, e)
    BY DEF FirstInOrder, Order
  <1>. QED  BY <1>4, <1>5, <1>6, <1>7

\* The main variable a declaration belongs to.
LEMMA OwnerIs ==
    ASSUME Good, NEW p \in Variables
    PROVE  LET o == Max({q \in 1 .. p : At(q) = "var"})
           IN  o \in Mains /\ o \in Variables /\ EntryOf(o) = Main(EntryOf(p)[1])
  <1>. DEFINE S == {q \in 1 .. p : At(q) = "var"}
              o == Max(S)
  <1>1. /\ Len(text) \in Nat /\ Mains \in SUBSET (1 .. Len(text)) /\ Mains \subseteq Variables
        /\ p \in Nat /\ p \in 0 .. End /\ p <= Len(text)
        /\ \A q \in Variables : VarsUpTo(q) = Rank(Mains, q)
    <2>1. \A q \in Variables : q \in 0 .. End /\ q <= Len(text)
      BY Kinds16, MainBefore, GoodItems
    <2>2. \A q \in Variables : VarsUpTo(q) = Rank(Mains, q)
      BY <2>1, CountsAreRanks
    <2>. QED  BY <2>1, <2>2, GoodItems, Kinds16
  <1>2. S \in SUBSET Nat /\ \A q \in S : q <= p
    BY <1>1
  <1>3. S # {}
    <2>. SUFFICES ASSUME S = {} PROVE FALSE
      OBVIOUS
    <2>1. VarsUpTo(p) = 0
      BY FS_EmptySet DEF VarsUpTo
    <2>2. VarsUpTo(p) \in Nat /\ VarsUpTo(p) >= 1
      BY MainBefore
    <2>. QED  BY <2>1, <2>2
  <1>4. o \in S /\ \A q \in S : q <= o
    <2>. HIDE DEF S
    <2>. QED  BY <1>1, <1>2, <1>3, MaxOf
  <1>. HIDE DEF o
  <1>5. o \in Mains /\ o \in Nat /\ o <= p
    BY <1>1, <1>4 DEF Mains
  <1>6. \A q \in Mains : ~(o < q /\ q <= p)
    <2>. SUFFICES ASSUME NEW q \in Mains, o < q, q <= p PROVE FALSE
      OBVIOUS
    <2>1. q \in S
      BY <1>1 DEF Mains
    <2>. QED  BY <1>1, <1>4, <1>5, <2>1
  <1>7. VarsUpTo(o) = VarsUpTo(p)
    BY <1>1, <1>5, <1>6, NoneBetween
  <1>8. EntryOf(o) = <<VarsUpTo(o) - 1, 0>>
    <2>1. /\ EntryOf(o) = <<VarsUpTo(o) - 1, Rank(Family(VarsUpTo(o)), o) - 1>>
          /\ Rank(Family(VarsUpTo(o)), o) = 1
      BY <1>1, <1>5, EntryFacts
    <2>. QED  BY <2>1
  <1>9. EntryOf(p)[1] = VarsUpTo(p) - 1
    BY EntryFacts
  <1>. QED  BY <1>1, <1>5, <1>7, <1>8, <1>9 DEF o, Main

\* The two lookups of a load, over the table that pass 1 leaves behind.
LEMMA ReportIs ==
    ASSUME TableInv, WellFormed, Fits, phase = "emit", NEW name, Named(name) # {}
    PROVE  LET p == Min({q \in Variables : text[q].name = name})
               owner == Max({q \in 1 .. p : At(q) = "var"})
           IN  Report(name) = [address |-> Place(owner), size |-> text[owner].size]
  <1>. DEFINE T == {q \in Variables : text[q].name = name}
              p == Min(T)
              owner == Max({q \in 1 .. p : At(q) = "var"})
  <1>1. /\ Good /\ DOMAIN metadata = {EntryOf(q) : q \in Variables}
        /\ \A q \in Variables :
              metadata[EntryOf(q)] =
                  [name |-> text[q].name, size |-> text[q].size,
                   address |-> IF Nth(q) <= Byte THEN Place(q) ELSE Nth(q) - 1]
    BY TablesStand DEF WellFormed
  <1>2. \A q \in Variables : Nth(q) <= Byte
    <2>1. Cardinality(Variables) < Byte /\ Byte \in Nat
      BY WidthAssumption DEF WellFormed
    <2>2. \A q \in Variables : /\ Nth(q) <= Cardinality(Variables) /\ Nth(q) \in Nat
                               /\ Cardinality(Variables) \in Nat
      BY <1>1, EntryFacts
    <2>. QED  BY <2>1, <2>2
  <1>3. \A q \in Variables : /\ metadata[EntryOf(q)].name = text[q].name
                             /\ metadata[EntryOf(q)].size = text[q].size
                             /\ metadata[EntryOf(q)].address = Place(q)
    <2>. SUFFICES ASSUME NEW q \in Variables
                  PROVE  /\ metadata[EntryOf(q)].name = text[q].name
                         /\ metadata[EntryOf(q)].size = text[q].size
                         /\ metadata[EntryOf(q)].address = Place(q)
      BY Zenon
    <2>1. metadata[EntryOf(q)] =
              [name |-> text[q].name, size |-> text[q].size,
               address |-> IF Nth(q) <= Byte THEN Place(q) ELSE Nth(q) - 1]
      BY <1>1
    <2>2. Nth(q) <= Byte
      BY <1>2
    <2>. QED  BY <2>1, <2>2
  <1>4. Named(name) = {EntryOf(q) : q \in T}
    BY <1>1, <1>3 DEF Named
  <1>5. T \in SUBSET Variables /\ T # {} /\ T \in SUBSET Nat
    BY <1>1, <1>4, Kinds16
  <1>6. p \in T /\ \A q \in T : p <= q
    <2>. HIDE DEF T
    <2>. QED  BY <1>5, MinOf
  <1>7. p \in Variables
    BY <1>5, <1>6
  <1>. HIDE DEF p
  <1>8. FirstInOrder(Named(name)) = EntryOf(p)
    <2>. HIDE DEF T
    <2>. QED  BY <1>1, <1>4, <1>5, <1>6, FirstIs
  <1>9. owner \in Mains /\ owner \in Variables /\ EntryOf(owner) = Main(EntryOf(p)[1])
    BY <1>1, <1>7, OwnerIs
  <1>. HIDE DEF owner, T
  <1>10. AddressByName(name) = Place(owner)
    <2>1. AddressByName(name) = metadata[EntryOf(owner)].address
      BY <1>8, <1>9, Zenon DEF AddressByName
    <2>. QED  BY <1>3, <1>9, <2>1
  <1>11. SizeByAddress(Place(owner)) = text[owner].size
    <2>. DEFINE A == Addressed(Place(owner))
    <2>1. origin \in Nat
      <3>1. Variables # {} => origin = text[3].value
        BY <1>1 DEF TableInv, Progress
      <3>. QED  BY <1>1, <1>9, <3>1, GoodOrigin
    <2>2. \A q \in Variables : Place(q) = Place(owner) => q = owner
      <3>. SUFFICES ASSUME NEW q \in Variables, Place(q) = Place(owner), q # owner PROVE FALSE
        OBVIOUS
      <3>1. q \in Nat /\ owner \in Nat
        BY <1>1, <1>9, Kinds16
      <3>2. Place(q) \in Nat /\ Place(owner) \in Nat
        BY <1>1, <1>9, <2>1, PlacesAscend
      <3>3. q < owner \/ owner < q
        BY <3>1
      <3>4. Place(q) < Place(owner) \/ Place(owner) < Place(q)
        BY <1>1, <1>9, <2>1, <3>3, PlacesAscend
      <3>. QED  BY <3>2, <3>4
    <2>3. A = {EntryOf(q) : q \in {owner}}
      BY <1>1, <1>3, <1>9, <2>2 DEF Addressed
    <2>4. {owner} \in SUBSET Variables /\ \A q \in {owner} : owner <= q
      BY <1>1, <1>9, Kinds16
    <2>5. FirstInOrder(A) = EntryOf(owner)
      <3>. HIDE DEF A
      <3>1. owner \in {owner}
        OBVIOUS
      <3>. QED  BY <1>1, <2>3, <2>4, <3>1, FirstIs
    <2>6. A # {}
      BY <2>3
    <2>7. SizeByAddress(Place(owner)) = metadata[EntryOf(owner)].size
      BY <2>5, <2>6 DEF SizeByAddress
    <2>. QED  BY <1>3, <1>9, <2>7
  <1>12. Report(name) = [address |-> Place(owner), size |-> text[owner].size]
    BY <1>10, <1>11 DEF Report
  <1>. QED  BY <1>12 DEF owner, p, T

\* Pass 2 comes to the first load with the table pass 1 left behind.
LoadInv ==
    /\ TableInv
    /\ printed # <<>> => phase = "stopped"
    /\ Good /\ phase = "emit" => \A q \in Loads : position <= q
    /\ LoadReportsItsVariable

LEMMA SameLoads ==
    ASSUME text' = text
    PROVE  /\ Good' = Good /\ Loads' = Loads /\ WellFormed' = WellFormed
           /\ Variables' = Variables /\ \A q : At(q)' = At(q)
  <1>1. Variables' = Variables /\ Loads' = Loads /\ \A q : At(q)' = At(q)
    BY DEF Variables, Loads, At, End
  <1>2. Ordinary' = Ordinary
    BY DEF Ordinary, LastItem, EndsInBlankLine, At, End, Variables
  <1>3. Good' = Good
    BY <1>2 DEF Good, TextOK
  <1>. QED  BY <1>1, <1>2, <1>3 DEF WellFormed

\* Pass 2 passes over a load only to end there.
LEMMA LoadsAhead ==
    ASSUME LoadInv, Good, Next, text' = text, phase' = "emit"
    PROVE  \A q \in Loads : position' <= q
  <1>1. /\ InText /\ TextOK /\ Len(text) \in Nat /\ End = Len(text) + 1 /\ Start = 1
        /\ position \in 1 .. End /\ position \in Nat
        /\ \A q \in Loads : q \in 1 .. Len(text) /\ q \in Nat /\ At(q) = "load"
    BY GoodItems DEF LoadInv, TableInv, SpinInv, InText, Good, Loads
  <1>2. CASE phase = "emit"
    <2>1. Emit
      BY <1>2 DEF Next, Step, OpenFile, DeclareVariable, DeclareSubset, Declaring, DeclarationsEnd,
             StartPreprocessor, AssignMemAddress, AssignSpins, PassLine, Preprocess,
             AssigningEnds, Assigning, EmittingEnds, Emitting, Ended, Stop
    <2>. DEFINE f == Fetch(position)
    <2>2. /\ f.at \in position .. End /\ Clear(position, f.at)
          /\ f.token = "code" => f.at \in 1 .. Len(text) /\ At(f.at) \in Code
          /\ f.token = "directive" => f.at \in 1 .. Len(text) /\ At(f.at) \notin Code
      BY <1>1, FetchFacts
    <2>3. \/ f.token = "code" /\ Assembles(f.at) /\ position' = f.at + 1
          \/ f.token = "code" /\ Nothing(f.at)
          \/ f.token = "directive" /\ position' = f.at + 1
          \/ f.token = "none" /\ position' = f.at
      BY <1>2, <2>1 DEF Emit, Goto, Stop, Refuse, Move, Spin
    <2>. HIDE DEF f
    <2>4. f.token = "code" => ~Nothing(f.at)
      <3>. SUFFICES ASSUME f.token = "code" PROVE At(f.at) # "copy"
        BY DEF Nothing
      <3>1. At(f.at) \in {"use16", "org", "nl", "mov", "load", "var", "sub", "cmt"}
        BY <2>2, GoodItems
      <3>. QED  BY <3>1
    <2>5. \A q \in Loads : f.at <= q
      <3>. SUFFICES ASSUME NEW q \in Loads, q < f.at PROVE FALSE
        BY <1>1, <2>2
      <3>1. q \in position .. f.at - 1
        BY <1>1, <1>2, <2>2 DEF LoadInv
      <3>. QED  BY <1>1, <2>2, <3>1 DEF Clear, Code
    <2>6. ASSUME position' = f.at + 1, f.at \notin Loads PROVE \A q \in Loads : position' <= q
      <3>1. \A q \in Loads : q # f.at /\ q \in Nat /\ f.at <= q
        BY <1>1, <2>5, <2>6
      <3>2. f.at \in Nat
        BY <1>1, <2>2
      <3>. QED  BY <2>6, <3>1, <3>2
    <2>7. CASE f.token = "code" /\ Assembles(f.at) /\ position' = f.at + 1
      <3>1. At(f.at) # "load"
        BY <2>7 DEF Assembles
      <3>. QED  BY <1>1, <2>6, <2>7, <3>1
    <2>8. CASE f.token = "directive" /\ position' = f.at + 1
      <3>1. At(f.at) # "load"
        BY <2>2, <2>8 DEF Code
      <3>. QED  BY <1>1, <2>6, <2>8, <3>1
    <2>. QED  BY <2>3, <2>4, <2>5, <2>7, <2>8
  <1>3. CASE phase # "emit"
    <2>1. position' = Start
      BY <1>3 DEF Next, Step, OpenFile, DeclareVariable, DeclareSubset, Declaring, DeclarationsEnd,
             StartPreprocessor, AssignMemAddress, AssignSpins, PassLine, Preprocess,
             AssigningEnds, Assigning, EndAssigning, Emit, EmittingEnds, Emitting, Ended,
             Goto, Stop, Refuse, Move, Spin, vars
    <2>. QED  BY <1>1, <2>1
  <1>. QED  BY <1>2, <1>3

\* What is said of a variable is said of the first load.
LEMMA LoadStep ==
    ASSUME LoadInv, WellFormed, Fits, Next, printed' # printed
    PROVE  LET p == Min({q \in Variables : text[q].name = text[Min(Loads)].name})
               owner == Max({q \in 1 .. p : At(q) = "var"})
           IN  printed' = [address |-> Place(owner), size |-> text[owner].size]
  <1>. DEFINE f == Fetch(position)
  <1>1. /\ phase = "emit" /\ f.token = "code" /\ At(f.at) = "load" /\ Known(text[f.at].name)
        /\ printed' = Report(text[f.at].name)
    BY DEF Next, Step, OpenFile, DeclareVariable, DeclareSubset, Declaring, KeepPass, DeclarationsEnd,
             StartPreprocessor, AssignMemAddress, AssignSpins, PassLine, Preprocess,
             AssigningEnds, Assigning, Emit, EmittingEnds, Emitting, Ended, vars, passVars
  <1>2. TableInv /\ Good
    BY TextIsOK DEF LoadInv, TableInv, SpinInv, InText, WellFormed, Good
  <1>3. /\ TextOK /\ position \in 1 .. End /\ Len(text) \in Nat /\ position \in Nat
    BY <1>2, GoodItems DEF TableInv, SpinInv, InText, Good
  <1>4. /\ f.at \in position .. End /\ Clear(position, f.at) /\ f.at \in 1 .. Len(text)
    BY <1>1, <1>3, FetchFacts
  <1>. HIDE DEF f
  <1>5. Min(Loads) = f.at
    <2>1. Loads \in SUBSET Nat /\ f.at \in Loads
      BY <1>1, <1>4 DEF Loads
    <2>2. Min(Loads) \in Loads /\ \A q \in Loads : Min(Loads) <= q
      BY <2>1, MinOf
    <2>3. position <= Min(Loads) /\ Min(Loads) <= f.at /\ Min(Loads) \in Nat
      BY <1>1, <1>2, <2>1, <2>2 DEF LoadInv
    <2>4. At(Min(Loads)) \in Code
      BY <2>2 DEF Loads, Code
    <2>5. ~(Min(Loads) \in position .. f.at - 1)
      BY <1>4, <2>4 DEF Clear
    <2>. QED  BY <1>3, <1>4, <2>3, <2>5
  <1>6. PICK name : name = text[f.at].name
    OBVIOUS
  <1>7. Named(name) # {} /\ printed' = Report(name) /\ text[Min(Loads)].name = name
    BY <1>1, <1>5, <1>6 DEF Known
  <1>. QED  BY <1>1, <1>2, <1>7, ReportIs

LEMMA NextLoad == LoadInv /\ [Next]_vars => LoadInv'
  <1>. SUFFICES ASSUME LoadInv, [Next]_vars PROVE LoadInv'
    OBVIOUS
  <1>1. TableInv' /\ TableInv /\ SpinInv /\ TextOK
    BY NextTables, TextIsOK DEF LoadInv, TableInv, SpinInv, InText
  <1>2. text' = text
    BY <1>1, StepInText DEF SpinInv, vars
  <1>. DEFINE Said(what) ==
                LET p == Min({q \in Variables : text[q].name = text[Min(Loads)].name})
                    owner == Max({q \in 1 .. p : At(q) = "var"})
                IN  what = [address |-> Place(owner), size |-> text[owner].size]
  <1>3. CASE UNCHANGED vars
    <2>1. UNCHANGED <<text, origin, phase, position, printed>>
      BY <1>3 DEF vars, passVars
    <2>2. LoadReportsItsVariable'
      <3>1. \A q : Place(q)' = Place(q)
        BY <2>1, SameTables
      <3>2. Fits' = Fits /\ WellFormed' = WellFormed /\ Variables' = Variables /\ Loads' = Loads
            /\ \A q : At(q)' = At(q)
        BY <2>1, SameTables, SameLoads
      <3>. QED  BY <2>1, <3>1, <3>2 DEF LoadInv, LoadReportsItsVariable
    <2>. QED  BY <1>1, <2>1, <2>2, SameLoads DEF LoadInv
  <1>4. CASE Next /\ ~(UNCHANGED vars)
    <2>1. printed = <<>> /\ (printed' # printed => phase' = "stopped" /\ origin' = origin)
      <3>1. phase # "stopped"
        BY <1>4 DEF Next, Step, OpenFile, DeclareVariable, DeclareSubset, Declaring, DeclarationsEnd,
             StartPreprocessor, AssignMemAddress, AssignSpins, PassLine, Preprocess,
             AssigningEnds, Assigning, Emit, EmittingEnds, Emitting, Ended
      <3>2. printed' # printed => phase' = "stopped" /\ origin' = origin
        BY <1>4 DEF Next, Step, OpenFile, DeclareVariable, DeclareSubset, Declaring, KeepPass,
             DeclarationsEnd, StartPreprocessor, AssignMemAddress, AssignSpins, PassLine,
             Preprocess, AssigningEnds, Assigning, Emit, EmittingEnds, Emitting, Ended, Stop,
             vars, passVars
      <3>. QED  BY <3>1, <3>2 DEF LoadInv
    <2>2. (printed # <<>> => phase = "stopped")'
      BY <2>1
    <2>3. (Good /\ phase = "emit" => \A q \in Loads : position <= q)'
      <3>. SUFFICES ASSUME Good', phase' = "emit" PROVE \A q \in Loads' : position' <= q
        OBVIOUS
      <3>. QED  BY <1>2, <1>4, LoadsAhead, SameLoads
    <2>4. LoadReportsItsVariable'
      <3>. SUFFICES ASSUME WellFormed', Fits', printed' # <<>> PROVE LoadReportsItsVariable'
        BY DEF LoadReportsItsVariable
      <3>1. printed' # printed /\ origin' = origin
        BY <2>1
      <3>2. Fits /\ WellFormed
        BY <1>2, <3>1, SameTables, SameLoads
      <3>3. Said(printed')
        BY <1>4, <3>1, <3>2, LoadStep
      <3>4. \A q : Place(q)' = Place(q) /\ At(q)' = At(q)
        BY <1>2, <3>1, SameTables, SameLoads
      <3>5. Variables' = Variables /\ Loads' = Loads
        BY <1>2, SameLoads
      <3>. QED  BY <1>2, <3>3, <3>4, <3>5 DEF LoadReportsItsVariable
    <2>. QED  BY <1>1, <2>2, <2>3, <2>4 DEF LoadInv
  <1>. QED  BY <1>3, <1>4

\* In a well-formed file of any length, what a load reports is the place and the
\* size the text gives the first variable of that name, or the main variable that
\* owns it: looked up by name and then by address, neither lookup meets another.
THEOREM LoadsReportRight == Spec => []LoadReportsItsVariable
  <1>1. Init => LoadInv
    BY InitTables DEF Init, LoadInv, LoadReportsItsVariable
  <1>2. LoadInv => LoadReportsItsVariable
    BY DEF LoadInv
  <1>. QED  BY <1>1, <1>2, NextLoad, PTL DEF Spec
=============================================================================
