---------------------------- MODULE LexerProofs ----------------------------
(***************************************************************************)
(* Proofs about the cursor of the lexer, for files of any length and any   *)
(* sequence of calls of try_get_token.                                     *)
(***************************************************************************)
EXTENDS Lexer, OrderLemmas, FiniteSetTheorems

Sized == Size \in Nat /\ Size >= 2

\* Where a call that began at p may end: at or before the place it has advanced
\* to, with no newline in between; once it has met the end of the file anywhere
\* behind or one place before p; or at the top.
Lands(r, p) ==
    /\ r.at \in 0 .. End /\ r.to \in p .. End
    /\ \/ r.token = "top" /\ r.at = Top.at /\ r.to = End
       \/ r.token # "top" /\ r.to = End /\ r.at + 1 >= p
       \/ /\ r.token # "top" /\ r.at \in p .. r.to /\ r.to \in p .. Last
          /\ \A j \in r.at .. r.to - 1 : Byte(j) # Newline
-----------------------------------------------------------------------------
LEMMA LastIs == Sized => /\ Last \in Nat /\ Last >= Size /\ Last <= Size + 1
                         /\ End = Last + 1 /\ End \in Nat /\ End >= 3
  BY DEF Sized, Last, End

LEMMA TopIs ==
    ASSUME Sized
    PROVE  /\ Top.at \in 1 .. Last /\ Top.line \in Nat
           /\ NewlinesBefore(Top.at) \in Nat
           /\ Top.line = 1 + NewlinesBefore(Top.at) + (IF text[1] = Newline THEN 1 ELSE 0)
  <1>1. Last \in Nat /\ Last >= 2
    BY LastIs DEF Sized
  <1>2. CASE text[1] = Newline
    <2>1. Top.at = 2 /\ Top.line = 3
      BY <1>2 DEF Top
    <2>2. {j \in 1 .. 2 - 1 : text[j] = Newline} = {1}
      BY <1>2
    <2>3. NewlinesBefore(2) = 1
      BY <2>2, FS_Singleton DEF NewlinesBefore
    <2>. QED  BY <1>1, <1>2, <2>1, <2>3
  <1>3. CASE text[1] # Newline
    <2>1. Top.at = 1 /\ Top.line = 1
      BY <1>3 DEF Top
    <2>2. {j \in 1 .. 1 - 1 : text[j] = Newline} = {}
      OBVIOUS
    <2>3. NewlinesBefore(1) = 0
      BY <2>2, FS_EmptySet DEF NewlinesBefore
    <2>. QED  BY <1>1, <1>3, <2>1, <2>3
  <1>. QED  BY <1>2, <1>3

LEMMA SkipIs ==
    ASSUME Sized, NEW p \in 1 .. End, NEW chars
    PROVE  /\ SkipFrom(p, chars) \in p .. End
           /\ \A q \in p .. SkipFrom(p, chars) - 1 : Byte(q) \in chars
           /\ SkipFrom(p, chars) # End => Byte(SkipFrom(p, chars)) \notin chars
  <1>. DEFINE S == {End} \cup {q \in p .. Last : Byte(q) \notin chars}
              m == Min(S)
  <1>1. /\ Last \in Nat /\ End = Last + 1 /\ p \in Nat /\ p >= 1 /\ p <= End
    BY LastIs
  <1>2. S \in SUBSET Nat /\ S # {}
    BY <1>1
  <1>3. m \in S /\ \A y \in S : m <= y
    <2>. HIDE DEF S
    <2>. QED  BY <1>2, MinOf
  <1>4. m \in p .. End
    BY <1>1, <1>3
  <1>5. ASSUME NEW q \in p .. m - 1 PROVE Byte(q) \in chars
    <2>1. q \in p .. Last /\ ~(m <= q)
      BY <1>1, <1>4
    <2>. QED  BY <1>3, <2>1
  <1>6. m # End => Byte(m) \notin chars
    BY <1>3
  <1>7. SkipFrom(p, chars) = m
    BY DEF SkipFrom
  <1>. HIDE DEF m
  <1>. QED  BY <1>4, <1>5, <1>6, <1>7

\* Skipping passes a character that is among those to be skipped.
LEMMA SkipPasses ==
    ASSUME Sized, NEW p \in 1 .. Last, NEW chars, Byte(p) \in chars
    PROVE  SkipFrom(p, chars) \in p + 1 .. End
  <1>1. p \in 1 .. End /\ Last \in Nat /\ End = Last + 1
    BY LastIs
  <1>2. SkipFrom(p, chars) \in p .. End /\ (SkipFrom(p, chars) # End => Byte(SkipFrom(p, chars)) \notin chars)
    BY <1>1, SkipIs
  <1>. QED  BY <1>1, <1>2

\* Skipping stays where a character is not to be skipped.
LEMMA SkipStays ==
    ASSUME Sized, NEW p \in 1 .. End, NEW chars, p = End \/ Byte(p) \notin chars
    PROVE  SkipFrom(p, chars) = p
  <1>1. /\ SkipFrom(p, chars) \in p .. End
        /\ \A q \in p .. SkipFrom(p, chars) - 1 : Byte(q) \in chars
    BY SkipIs
  <1>2. End \in Nat
    BY LastIs
  <1>3. ASSUME SkipFrom(p, chars) # p PROVE FALSE
    <2>1. p \in p .. SkipFrom(p, chars) - 1 /\ p # End
      BY <1>1, <1>2, <1>3
    <2>. QED  BY <1>1, <2>1
  <1>. QED  BY <1>3

LEMMA KeywordEndIs ==
    ASSUME Sized, NEW p \in 1 .. End, NEW special \in BOOLEAN
    PROVE  /\ KeywordEnd(p, special) \in p .. End
           /\ \A q \in p .. KeywordEnd(p, special) - 1 : Byte(q) \in Letters \cup Specials
           /\ p <= Last /\ Byte(p) \in Letters => KeywordEnd(p, special) >= p + 1
  <1>1. /\ SkipFrom(p, WordChars(special)) \in p .. End
        /\ \A q \in p .. SkipFrom(p, WordChars(special)) - 1 : Byte(q) \in Letters \cup Specials
    BY SkipIs DEF WordChars
  <1>2. Last \in Nat /\ End = Last + 1 /\ p \in p .. End
    BY LastIs
  <1>3. CASE p <= Last /\ Byte(p) \in Letters
    <2>1. p \in 1 .. Last /\ Byte(p) \in WordChars(special)
      BY <1>2, <1>3 DEF WordChars
    <2>2. SkipFrom(p, WordChars(special)) \in p + 1 .. End
      BY <2>1, SkipPasses
    <2>3. KeywordEnd(p, special) = SkipFrom(p, WordChars(special))
      BY <1>3 DEF KeywordEnd
    <2>. QED  BY <1>1, <1>2, <2>2, <2>3
  <1>4. CASE ~(p <= Last /\ Byte(p) \in Letters)
    <2>1. KeywordEnd(p, special) = p
      BY <1>4 DEF KeywordEnd
    <2>. QED  BY <1>2, <1>4, <2>1
  <1>. QED  BY <1>3, <1>4

\* A word is gone back over to where it begins, or to one place before that if
\* it ends with the file.
LEMMA BackIs ==
    ASSUME Sized, NEW p \in 1 .. End, NEW end \in p .. End
    PROVE  Back(end, end - p) = IF end = End THEN p - 1 ELSE p
  <1>1. Last \in Nat /\ End = Last + 1 /\ end \in Nat /\ p \in Nat
    BY LastIs
  <1>2. Min({end, Last}) = IF end = End THEN Last ELSE end
    BY <1>1, MinMaxOfTwo
  <1>. QED  BY <1>1, <1>2 DEF Back

LEMMA WordIsNoNewline == Newline \notin Letters \cup Specials
  BY DEF Newline, Letters, Specials, Digits

LEMMA LookUpWordIs ==
    ASSUME Sized, NEW p \in 1 .. End, NEW kind \in DOMAIN Tokens
    PROVE  /\ Lands(LookUpWord(p, kind), p)
           /\ LookUpWord(p, kind).token \in {kind, "none"}
           /\ LookUpWord(p, kind).token = "none" =>
                 LookUpWord(p, kind).at = IF LookUpWord(p, kind).to = End THEN p - 1 ELSE p
  <1>. DEFINE special == (kind = "general")
              end == KeywordEnd(p, special)
              w == LookUpWord(p, kind)
  <1>1. end \in p .. End /\ \A q \in p .. end - 1 : Byte(q) # Newline
    BY KeywordEndIs, WordIsNoNewline
  <1>2. Last \in Nat /\ End = Last + 1
    BY LastIs
  <1>. HIDE DEF end
  <1>3. CASE w = EndsAt(end, kind)
    <2>1. w.at = end /\ w.to = end /\ w.token = kind
      BY <1>3 DEF EndsAt, Result
    <2>2. kind \notin {"none", "top"}
      BY TokensAssumption
    <2>. QED  BY <1>1, <1>2, <2>1, <2>2 DEF Lands
  <1>4. CASE w = Result(Back(end, end - p), end, "none")
    <2>1. w.at = Back(end, end - p) /\ w.to = end /\ w.token = "none"
      BY <1>4 DEF Result
    <2>2. w.at = IF end = End THEN p - 1 ELSE p
      BY <1>1, <2>1, BackIs
    <2>. QED  BY <1>1, <1>2, <2>1, <2>2 DEF Lands
  <1>. QED  BY <1>3, <1>4 DEF LookUpWord, end

LEMMA NumberCharsAre == Newline \notin Digits \cup HexLetters
  BY DEF Newline, Digits, HexLetters

\* A lookup of a number that begins at a digit ends behind it.
LEMMA LookUpNumberIs ==
    ASSUME Sized, NEW p \in 1 .. Last, Byte(p) \in Digits \cup HexLetters
    PROVE  /\ LookUpNumber(p).at \in p + 1 .. End /\ LookUpNumber(p).to = LookUpNumber(p).at
           /\ LookUpNumber(p).token \notin {"none", "top"}
  <1>. DEFINE chars == Digits \cup HexLetters
              digits == SkipFrom(p, chars)
              h == digits < End /\ Byte(digits) = "h"
              n == LookUpNumber(p)
  <1>1. Last \in Nat /\ End = Last + 1 /\ Size \in Nat /\ Last >= Size /\ p \in 1 .. End
    BY LastIs DEF Sized
  <1>2. digits \in p + 1 .. End
    BY SkipPasses
  <1>3. p + 1 <= Size => SkipFrom(p + 2, chars) \in p + 2 .. End
    <2>. SUFFICES ASSUME p + 1 <= Size PROVE SkipFrom(p + 2, chars) \in p + 2 .. End
      OBVIOUS
    <2>. DEFINE q == p + 2
    <2>1. q \in 1 .. End
      BY <1>1
    <2>. HIDE DEF q
    <2>2. SkipFrom(q, chars) \in q .. End
      BY <2>1, SkipIs
    <2>. QED  BY <2>2 DEF q
  <1>. HIDE DEF digits
  <1>4. CASE seek_and_return(p, 1) = "x"
    <2>. DEFINE e == IF p + 1 > Size THEN End ELSE SkipFrom(p + 2, chars)
    <2>1. e \in p + 1 .. End
      BY <1>1, <1>3
    <2>2. n = EndsAt(e, "hex")
      BY <1>4 DEF LookUpNumber
    <2>. HIDE DEF e
    <2>. QED  BY <2>1, <2>2 DEF EndsAt, Result
  <1>5. CASE seek_and_return(p, 1) # "x"
    <2>. DEFINE e == IF h THEN digits + 1 ELSE digits
                t == IF Byte(p) \in Digits THEN "dec" ELSE IF h THEN "hex" ELSE "no indicator"
    <2>1. e \in p + 1 .. End
      BY <1>1, <1>2
    <2>2. n = EndsAt(e, t)
      BY <1>5 DEF LookUpNumber, digits
    <2>3. t \notin {"none", "top"}
      OBVIOUS
    <2>. HIDE DEF e, t
    <2>. QED  BY <2>1, <2>2, <2>3 DEF EndsAt, Result
  <1>. QED  BY <1>4, <1>5

\* A data type that is not there leaves the cursor where it is.
LEMMA DataTypeAtIs ==
    ASSUME Sized, NEW p \in 1 .. End
    PROVE  /\ Lands(DataTypeAt(p), p)
           /\ DataTypeAt(p).token = "none" /\ DataTypeAt(p).to # End => DataTypeAt(p).at = p
  <1>. DEFINE w == LookUpWord(p, "datatype")
              r == DataTypeAt(p)
  <1>1. Last \in Nat /\ End = Last + 1 /\ End \in Nat /\ p \in Nat /\ p >= 1 /\ p <= End
    BY LastIs
  <1>2. /\ Lands(w, p)
        /\ w.token = "none" => w.at = IF w.to = End THEN p - 1 ELSE p
    BY LookUpWordIs, TokensAssumption
  <1>3. CASE w.token = "none" /\ w.at >= 1 /\ Byte(w.at) \in Digits \cup HexLetters
    <2>. DEFINE n == LookUpNumber(w.at)
    <2>1. r = n
      <3>. HIDE DEF w
      <3>. QED  BY <1>3 DEF DataTypeAt, w
    <2>2. w.at \in 1 .. Last /\ w.at + 1 >= p
      <3>. DEFINE a == w.at
                  e == w.to
      <3>1. a \in {p, p - 1} /\ a >= 1 /\ (a = p => e # End)
        BY <1>1, <1>2, <1>3
      <3>2. e # End => p <= Last
        BY <1>1, <1>2, <1>3 DEF Lands
      <3>. HIDE DEF a, e
      <3>3. a \in 1 .. Last /\ a + 1 >= p
        BY <1>1, <3>1, <3>2
      <3>. QED  BY <3>3 DEF a
    <2>3. n.at \in w.at + 1 .. End /\ n.to = n.at /\ n.token \notin {"none", "top"}
      <3>. DEFINE q == w.at
      <3>1. q \in 1 .. Last /\ Byte(q) \in Digits \cup HexLetters
        BY <1>3, <2>2
      <3>. HIDE DEF q
      <3>2. /\ LookUpNumber(q).at \in q + 1 .. End /\ LookUpNumber(q).to = LookUpNumber(q).at
            /\ LookUpNumber(q).token \notin {"none", "top"}
        BY <3>1, LookUpNumberIs
      <3>. QED  BY <3>2 DEF q
    <2>. HIDE DEF n
    <2>4. n.at \in p .. End
      BY <1>1, <2>2, <2>3
    <2>. QED  BY <1>1, <2>1, <2>3, <2>4 DEF Lands
  <1>4. CASE ~(w.token = "none" /\ w.at >= 1 /\ Byte(w.at) \in Digits \cup HexLetters)
    <2>1. r = w
      <3>. HIDE DEF w
      <3>. QED  BY <1>4 DEF DataTypeAt, w
    <2>. QED  BY <1>2, <2>1
  <1>. QED  BY <1>3, <1>4

\* In front of a bracket no data type is found and nothing passed.
LEMMA NoDataTypeAtBracket ==
    ASSUME Sized, NEW p \in 1 .. Last, Byte(p) = "["
    PROVE  DataTypeAt(p).at = p
  <1>. DEFINE w == LookUpWord(p, "datatype")
              end == KeywordEnd(p, "datatype" = "general")
  <1>1. Last \in Nat /\ End = Last + 1 /\ p \in 1 .. End /\ p # End /\ p \in p .. End
    BY LastIs
  <1>2. Byte(p) \notin Letters /\ Byte(p) \notin Digits \cup HexLetters
    BY DEF Letters, Digits, HexLetters
  <1>3. end = p
    BY <1>2 DEF KeywordEnd
  <1>. HIDE DEF end
  <1>4. Back(end, end - p) = p
    BY <1>1, <1>3, BackIs
  <1>5. w = EndsAt(end, "datatype") \/ w = Result(Back(end, end - p), end, "none")
    BY DEF LookUpWord, end
  <1>6. w.at = p
    BY <1>3, <1>4, <1>5 DEF EndsAt, Result
  <1>. HIDE DEF w
  <1>7. DataTypeAt(p) = w
    BY <1>2, <1>6 DEF DataTypeAt, w
  <1>. QED  BY <1>6, <1>7
-----------------------------------------------------------------------------
(***************************************************************************)
(* The two loops over lines.                                               *)
(***************************************************************************)
AtComment(q) == q < End /\ Byte(q) = ";"

LEMMA LinesOpenSo ==
    /\ \A q : AtComment(q) => q < End /\ Byte(q) \in RestOfLine
    /\ \A q : AtDeclaration(q) => q < End /\ Byte(q) \in RestOfLine /\ Byte(q) \notin Blanks
  <1>1. ";" \in RestOfLine /\ {"!", "."} \subseteq RestOfLine
    BY Zenon DEF RestOfLine
  <1>2. \A x \in {"!", "."} : x \notin Blanks
    BY DEF Blanks, Newline
  <1>. QED  BY <1>1, <1>2, Zenon DEF AtComment, AtDeclaration

\* Behind a comment line, and behind a declaration line.
CommentBehind(q) == SkipFrom(SkipFrom(q, RestOfLine), {Newline})
DeclarationBehind(q) == SkipFrom(LineBehind(q), {Newline, " "})

LEMMA BehindIs ==
    ASSUME Sized, NEW q \in 1 .. Last, Byte(q) \in RestOfLine
    PROVE  /\ CommentBehind(q) \in q + 1 .. End
           /\ LineBehind(q) \in q + 1 .. End
           /\ DeclarationBehind(q) \in q + 1 .. End
           /\ DeclarationBehind(q) # End => Byte(DeclarationBehind(q)) \notin Blanks
  <1>. DEFINE s == SkipFrom(q, RestOfLine)
  <1>1. Last \in Nat /\ End = Last + 1 /\ End \in Nat /\ q \in Nat /\ q >= 1
    BY LastIs
  <1>2. s \in q + 1 .. End
    BY SkipPasses
  <1>. HIDE DEF s
  <1>3. s \in 1 .. End
    BY <1>1, <1>2
  <1>4. SkipFrom(s, {Newline}) \in s .. End
    BY <1>3, SkipIs
  <1>5. CommentBehind(q) \in q + 1 .. End
    BY <1>1, <1>2, <1>4 DEF CommentBehind, s
  <1>. DEFINE t == Min({s, Last}) + 1
  <1>6. t \in q + 1 .. End
    <2>1. Min({s, Last}) = IF s <= Last THEN s ELSE Last
      BY <1>1, <1>3, MinMaxOfTwo
    <2>. QED  BY <1>1, <1>2, <2>1
  <1>7. LineBehind(q) = SkipFrom(t, {" "})
    BY DEF LineBehind, s
  <1>. HIDE DEF t
  <1>8. t \in 1 .. End
    BY <1>1, <1>6
  <1>. DEFINE u == SkipFrom(t, {" "})
  <1>9. u \in t .. End
    BY <1>8, SkipIs
  <1>. HIDE DEF u
  <1>10. LineBehind(q) = u /\ u \in 1 .. End /\ u \in q + 1 .. End
    <2>1. LineBehind(q) = u
      BY <1>7 DEF u
    <2>2. u \in q + 1 .. End
      BY <1>1, <1>6, <1>9
    <2>. QED  BY <1>1, <2>1, <2>2
  <1>11. /\ SkipFrom(u, Blanks) \in u .. End
         /\ SkipFrom(u, Blanks) # End => Byte(SkipFrom(u, Blanks)) \notin Blanks
    BY <1>10, SkipIs
  <1>12. DeclarationBehind(q) = SkipFrom(u, Blanks)
    <2>1. Blanks = {Newline, " "}
      BY DEF Blanks
    <2>. QED  BY <1>10, <2>1 DEF DeclarationBehind
  <1>. QED  BY <1>1, <1>5, <1>10, <1>11, <1>12

LEMMA CommentsEndIs ==
    ASSUME Sized, NEW p \in 1 .. End
    PROVE  CommentsEnd(p) \in p .. End
  <1>. DEFINE D == 1 .. End
              done == {q \in D : ~AtComment(q)}
              val == [q \in D |-> q]
              next == [q \in D |-> CommentBehind(q)]
              K == [q \in D |-> q .. End]
              W == CHOOSE f : f = [q \in 1 .. End |->
                      IF q < End /\ Byte(q) = ";" THEN f[SkipFrom(SkipFrom(q, RestOfLine), {Newline})] ELSE q]
  <1>1. Last \in Nat /\ End = Last + 1 /\ End \in Nat /\ 1 \in Nat
    BY LastIs
  <1>2. \A q \in D \ done : CommentBehind(q) \in q + 1 .. End
    <2>. TAKE q \in D \ done
    <2>1. AtComment(q) /\ q \in D
      OBVIOUS
    <2>2. q < End /\ Byte(q) \in RestOfLine
      BY <2>1, LinesOpenSo
    <2>3. q \in 1 .. Last
      BY <1>1, <2>1, <2>2
    <2>. QED  BY <2>2, <2>3, BehindIs
  <1>3. \A q \in D \ done : next[q] \in q + 1 .. End
    BY <1>2
  <1>4. PICK w : Finds(w, 1 .. End, done, val, next)
    <2>. HIDE DEF done, val, next
    <2>. QED  BY <1>1, <1>3, SearchUp
  <1>5. \A q \in D : w[q] = IF AtComment(q) THEN w[CommentBehind(q)] ELSE q
    <2>. TAKE q \in D
    <2>1. w[q] = IF q \in done THEN val[q] ELSE w[next[q]]
      BY <1>4 DEF Finds
    <2>. QED  BY <2>1
  <1>6. w = [q \in 1 .. End |->
                IF q < End /\ Byte(q) = ";" THEN w[SkipFrom(SkipFrom(q, RestOfLine), {Newline})] ELSE q]
    <2>1. w = [q \in D |-> w[q]]
      BY <1>4, Zenon DEF Finds
    <2>2. w = [q \in D |-> IF AtComment(q) THEN w[CommentBehind(q)] ELSE q]
      BY <1>5, <2>1
    <2>. QED  BY <2>2, Zenon DEF AtComment, CommentBehind
  <1>7. W = [q \in 1 .. End |->
                IF q < End /\ Byte(q) = ";" THEN W[SkipFrom(SkipFrom(q, RestOfLine), {Newline})] ELSE q]
    BY <1>6, Zenon
  <1>8. CommentsEnd(p) = W[p]
    BY Zenon DEF CommentsEnd
  <1>. HIDE DEF W
  <1>9. \A q \in D : W[q] = IF AtComment(q) THEN W[CommentBehind(q)] ELSE q
    <2>1. W = [q \in D |-> IF AtComment(q) THEN W[CommentBehind(q)] ELSE q]
      BY <1>7, Zenon DEF AtComment, CommentBehind
    <2>. QED  BY <2>1
  <1>10. Finds(W, 1 .. End, done, val, next)
    <2>1. W = [q \in D |-> W[q]]
      BY <1>7, Zenon
    <2>2. \A q \in D : W[q] = IF q \in done THEN val[q] ELSE W[next[q]]
      BY <1>9
    <2>. HIDE DEF done, val, next
    <2>. QED  BY <2>1, <2>2 DEF Finds
  <1>13. \A q \in D : q \in done => val[q] \in K[q]
    BY <1>1
  <1>11. \A q \in D \ done : K[next[q]] \subseteq K[q]
    <2>. TAKE q \in D \ done
    <2>1. next[q] \in q + 1 .. End /\ q \in D
      BY <1>3
    <2>2. next[q] \in D
      BY <1>1, <2>1
    <2>3. K[next[q]] = next[q] .. End /\ K[q] = q .. End
      BY <2>1, <2>2
    <2>. HIDE DEF K, next
    <2>. QED  BY <1>1, <2>1, <2>3
  <1>12. \A q \in 1 .. End : W[q] \in K[q]
    <2>. HIDE DEF done, val, next, K
    <2>. QED  BY <1>1, <1>3, <1>10, <1>11, <1>13, SearchUpGives
  <1>. QED  BY <1>8, <1>12
\* What svd leaves: no declaration, and no blank if it has moved.
Opens(r, q) ==
    /\ r.at \in q .. End /\ r.token \in {"none", "eof"}
    /\ r.token = "eof" => r.at = End
    /\ r.token = "none" => ~AtDeclaration(r.at)
    /\ r.at # q /\ r.at # End => Byte(r.at) \notin Blanks

LEMMA DeclarationsIs ==
    ASSUME Sized, NEW p \in 1 .. End
    PROVE  Opens(Declarations(p), p)
  <1>. DEFINE D == 1 .. End
              stops(q) == ~AtDeclaration(q) \/ LineBehind(q) = End
              done == {q \in D : stops(q)}
              val == [q \in D |-> IF ~AtDeclaration(q) THEN EndsAt(q, "none") ELSE EndsAt(End, "eof")]
              next == [q \in D |-> DeclarationBehind(q)]
              All == {EndsAt(e, t) : e \in D, t \in {"none", "eof"}}
              K == [q \in D |-> {r \in All : Opens(r, q)}]
              W == CHOOSE f : f = [q \in 1 .. End |->
                      CASE ~AtDeclaration(q) -> EndsAt(q, "none")
                        [] AtDeclaration(q) /\ LineBehind(q) = End -> EndsAt(End, "eof")
                        [] OTHER -> f[SkipFrom(LineBehind(q), {Newline, " "})]]
              round(f, q) == IF q \in done THEN val[q] ELSE f[next[q]]
  <1>1. Last \in Nat /\ End = Last + 1 /\ End \in Nat /\ 1 \in Nat
    BY LastIs
  <1>2. ASSUME NEW q \in D, AtDeclaration(q)
        PROVE  /\ DeclarationBehind(q) \in q + 1 .. End /\ DeclarationBehind(q) \in D
               /\ DeclarationBehind(q) # End => Byte(DeclarationBehind(q)) \notin Blanks
    <2>1. q < End /\ Byte(q) \in RestOfLine
      BY <1>2, LinesOpenSo
    <2>2. q \in 1 .. Last
      BY <1>1, <2>1
    <2>3. /\ DeclarationBehind(q) \in q + 1 .. End
          /\ DeclarationBehind(q) # End => Byte(DeclarationBehind(q)) \notin Blanks
      BY <2>1, <2>2, BehindIs
    <2>. QED  BY <1>1, <2>3
  <1>3. \A q \in D \ done : AtDeclaration(q) /\ next[q] = DeclarationBehind(q) /\ next[q] \in q + 1 .. End
    BY <1>2
  <1>4. PICK w : Finds(w, 1 .. End, done, val, next)
    <2>1. \A q \in (1 .. End) \ done : next[q] \in q + 1 .. End
      BY <1>3
    <2>. HIDE DEF done, val, next
    <2>. QED  BY <1>1, <2>1, SearchUp
  <1>5. ASSUME NEW f, NEW q \in D
        PROVE  round(f, q) = CASE ~AtDeclaration(q) -> EndsAt(q, "none")
                               [] AtDeclaration(q) /\ LineBehind(q) = End -> EndsAt(End, "eof")
                               [] OTHER -> f[SkipFrom(LineBehind(q), {Newline, " "})]
    <2>1. CASE ~AtDeclaration(q)
      BY <2>1
    <2>2. CASE AtDeclaration(q) /\ LineBehind(q) = End
      BY <2>2
    <2>3. CASE AtDeclaration(q) /\ LineBehind(q) # End
      <3>1. q \notin done /\ next[q] = DeclarationBehind(q)
        BY <2>3
      <3>2. round(f, q) = f[DeclarationBehind(q)]
        BY <3>1
      <3>. HIDE DEF round
      <3>. QED  BY <2>3, <3>2 DEF DeclarationBehind
    <2>. QED  BY <2>1, <2>2, <2>3
  <1>. HIDE DEF round
  <1>6. w = [q \in 1 .. End |->
                CASE ~AtDeclaration(q) -> EndsAt(q, "none")
                  [] AtDeclaration(q) /\ LineBehind(q) = End -> EndsAt(End, "eof")
                  [] OTHER -> w[SkipFrom(LineBehind(q), {Newline, " "})]]
    <2>1. w = [q \in D |-> w[q]]
      BY <1>4, Zenon DEF Finds
    <2>2. \A q \in D : w[q] = round(w, q)
      BY <1>4, Zenon DEF Finds, round
    <2>3. w = [q \in D |-> round(w, q)]
      BY <2>1, <2>2
    <2>. QED  BY <1>5, <2>3
  <1>7. W = [q \in 1 .. End |->
                CASE ~AtDeclaration(q) -> EndsAt(q, "none")
                  [] AtDeclaration(q) /\ LineBehind(q) = End -> EndsAt(End, "eof")
                  [] OTHER -> W[SkipFrom(LineBehind(q), {Newline, " "})]]
    BY <1>6, Zenon
  <1>8. Declarations(p) = W[p]
    BY Zenon DEF Declarations
  <1>. HIDE DEF W
  <1>9. Finds(W, 1 .. End, done, val, next)
    <2>1. W = [q \in D |-> round(W, q)]
      BY <1>5, <1>7
    <2>2. W = [q \in D |-> W[q]] /\ \A q \in D : W[q] = round(W, q)
      BY <2>1
    <2>. HIDE DEF done, val, next
    <2>. QED  BY <2>2, Zenon DEF Finds, round
  <1>10. \A q \in D : q \in done => val[q] \in K[q]
    <2>. TAKE q \in D
    <2>. SUFFICES ASSUME q \in done PROVE val[q] \in K[q]
      OBVIOUS
    <2>1. CASE ~AtDeclaration(q)
      <3>1. val[q] = EndsAt(q, "none") /\ EndsAt(q, "none") \in All
        BY <2>1
      <3>2. Opens(EndsAt(q, "none"), q)
        BY <1>1, <2>1 DEF Opens, EndsAt, Result
      <3>. QED  BY <3>1, <3>2
    <2>2. CASE AtDeclaration(q)
      <3>1. val[q] = EndsAt(End, "eof") /\ EndsAt(End, "eof") \in All
        BY <1>1, <2>2
      <3>2. Opens(EndsAt(End, "eof"), q)
        BY <1>1 DEF Opens, EndsAt, Result
      <3>. QED  BY <3>1, <3>2
    <2>. QED  BY <2>1, <2>2
  <1>11. ASSUME NEW q \in D, q \notin done PROVE K[next[q]] \subseteq K[q]
    <2>1. /\ next[q] \in q + 1 .. End /\ next[q] \in D /\ q \in D
          /\ next[q] # End => Byte(next[q]) \notin Blanks
      <3>1. q \in D /\ AtDeclaration(q) /\ next[q] = DeclarationBehind(q)
        BY <1>3, <1>11
      <3>. HIDE DEF next, done
      <3>. QED  BY <1>2, <3>1
    <2>2. K[next[q]] = {r \in All : Opens(r, next[q])} /\ K[q] = {r \in All : Opens(r, q)}
      BY <2>1
    <2>. DEFINE n == next[q]
    <2>. HIDE DEF n, All
    <2>3. ASSUME NEW r, Opens(r, n) PROVE Opens(r, q)
      <3>1. n \in q + 1 .. End /\ (n # End => Byte(n) \notin Blanks)
        BY <2>1 DEF n
      <3>. HIDE DEF K
      <3>. QED  BY <1>1, <2>3, <3>1 DEF Opens
    <2>. HIDE DEF K
    <2>. QED  BY <2>2, <2>3 DEF n
  <1>12. \A q \in 1 .. End : W[q] \in K[q]
    <2>1. \A q \in (1 .. End) \ done : next[q] \in q + 1 .. End
      BY <1>3
    <2>. HIDE DEF done, val, next, K
    <2>2. \A q \in (1 .. End) \ done : K[next[q]] \subseteq K[q]
      BY <1>11
    <2>. QED  BY <1>1, <2>1, <2>2, <1>9, <1>10, SearchUpGives
  <1>. QED  BY <1>8, <1>12
-----------------------------------------------------------------------------
(***************************************************************************)
(* Where a call ends.                                                      *)
(***************************************************************************)
LEMMA LandsFurther ==
    ASSUME Sized, NEW p \in 1 .. End, NEW d \in p .. End, NEW r, Lands(r, d)
    PROVE  Lands(r, p)
  <1>1. Last \in Nat /\ End = Last + 1 /\ p \in Nat /\ d \in Nat /\ p <= d
    BY LastIs
  <1>. QED  BY <1>1 DEF Lands

LEMMA LandsAt ==
    ASSUME Sized, NEW p \in 1 .. End, NEW q \in p .. End, NEW t, t # "top"
    PROVE  Lands(EndsAt(q, t), p) /\ EndsAt(q, t).at = q /\ EndsAt(q, t).to = q /\ EndsAt(q, t).token = t
  <1>1. Last \in Nat /\ End = Last + 1 /\ p \in Nat
    BY LastIs
  <1>. QED  BY <1>1 DEF Lands, EndsAt, Result

\* A declaration ends behind its name, and is one or an error.
LEMMA DeclaredAtIs ==
    ASSUME Sized, NEW p \in 1 .. End
    PROVE  Lands(DeclaredAt(p), p) /\ DeclaredAt(p).token \in {"invalid newline", "variable"}
  <1>. DEFINE q == Min({p + 1, End})
              end == KeywordEnd(q, TRUE)
              t == IF end = End \/ Byte(end) = Newline THEN "invalid newline" ELSE "variable"
  <1>1. Last \in Nat /\ End = Last + 1 /\ End \in Nat /\ p \in Nat /\ p >= 1 /\ p <= End
    BY LastIs
  <1>2. q \in p .. End /\ q \in 1 .. End
    BY <1>1, MinMaxOfTwo
  <1>. HIDE DEF q
  <1>3. end \in q .. End
    BY <1>2, KeywordEndIs
  <1>. HIDE DEF end
  <1>4. end \in p .. End /\ t \in {"invalid newline", "variable"} /\ t # "top"
    BY <1>1, <1>2, <1>3
  <1>5. DeclaredAt(p) = EndsAt(end, t)
    BY DEF DeclaredAt, end, q
  <1>. HIDE DEF t
  <1>6. Lands(EndsAt(end, t), p) /\ EndsAt(end, t).token = t
    BY <1>4, LandsAt
  <1>. QED  BY <1>4, <1>5, <1>6

\* A round of the search: where it stops on its line, and behind comments; and
\* whether it has come to a main variable there.
StopsAt(q) == SkipFrom(q, RestOfLine \ {"!", ";"})
ComesTo(q) == CommentsEnd(StopsAt(q))
MeetsMain(q) == /\ ComesTo(q) # StopsAt(q)
                /\ "!" \in {Byte(ComesTo(q)), seek_and_return(Min({ComesTo(q), Last}), 1)}

LEMMA ComesToIs ==
    ASSUME Sized, NEW q \in 1 .. End
    PROVE  ComesTo(q) \in q .. End /\ ComesTo(q) \in 1 .. End
  <1>1. StopsAt(q) \in q .. End
    BY SkipIs DEF StopsAt
  <1>2. StopsAt(q) \in 1 .. End /\ End \in Nat
    BY <1>1, LastIs
  <1>. DEFINE stop == StopsAt(q)
  <1>. HIDE DEF stop
  <1>3. CommentsEnd(stop) \in stop .. End
    BY <1>2, CommentsEndIs DEF stop
  <1>4. ComesTo(q) \in stop .. End /\ stop \in q .. End
    BY <1>1, <1>3 DEF ComesTo, stop
  <1>. QED  BY <1>2, <1>4

LEMMA SearchForIs ==
    ASSUME Sized, NEW p \in 1 .. End
    PROVE  Lands(SearchFor(p), p) /\ SearchFor(p).token # "none"
  <1>. DEFINE D == 1 .. End
              top == Result(Top.at, End, "top")
              done == {q \in D : MeetsMain(q) \/ ComesTo(q) = End \/ AtDeclaration(ComesTo(q) + 1)}
              val == [q \in D |-> IF MeetsMain(q) THEN DeclaredAt(ComesTo(q))
                                  ELSE IF ComesTo(q) = End THEN top ELSE DeclaredAt(ComesTo(q) + 1)]
              next == [q \in D |-> ComesTo(q) + 1]
              All == [at : 0 .. End, to : D, token : {"top", "invalid newline", "variable"}]
              K == [q \in D |-> {r \in All : Lands(r, q)}]
              body(f, q) == IF MeetsMain(q) THEN DeclaredAt(ComesTo(q))
                            ELSE IF ComesTo(q) = End THEN top
                            ELSE IF AtDeclaration(ComesTo(q) + 1) THEN DeclaredAt(ComesTo(q) + 1)
                            ELSE f[ComesTo(q) + 1]
              W == CHOOSE f : f = [q \in 1 .. End |-> body(f, q)]
  <1>1. Last \in Nat /\ End = Last + 1 /\ End \in Nat /\ 1 \in Nat
    BY LastIs
  <1>2. ASSUME NEW q \in D, ComesTo(q) # End PROVE ComesTo(q) + 1 \in q + 1 .. End /\ ComesTo(q) + 1 \in D
    BY <1>1, <1>2, ComesToIs
  <1>3. \A q \in (1 .. End) \ done : next[q] \in q + 1 .. End
    BY <1>2
  <1>4. PICK w : Finds(w, 1 .. End, done, val, next)
    <2>. HIDE DEF done, val, next
    <2>. QED  BY <1>1, <1>3, SearchUp
  <1>5. ASSUME NEW f, NEW q \in D
        PROVE  body(f, q) = IF q \in done THEN val[q] ELSE f[next[q]]
    <2>1. CASE MeetsMain(q)
      BY <2>1
    <2>2. CASE ~MeetsMain(q) /\ ComesTo(q) = End
      BY <2>2
    <2>3. CASE ~MeetsMain(q) /\ ComesTo(q) # End /\ AtDeclaration(ComesTo(q) + 1)
      BY <2>3
    <2>4. CASE ~MeetsMain(q) /\ ComesTo(q) # End /\ ~AtDeclaration(ComesTo(q) + 1)
      BY <2>4
    <2>. QED  BY <2>1, <2>2, <2>3, <2>4
  <1>6. SearchFor(p) = W[p]
    BY Zenon DEF SearchFor, StopsAt, ComesTo, MeetsMain
  <1>. HIDE DEF body
  <1>7. w = [q \in 1 .. End |-> body(w, q)]
    <2>1. w = [q \in D |-> w[q]]
      BY <1>4, Zenon DEF Finds
    <2>2. \A q \in D : w[q] = body(w, q)
      <3>. HIDE DEF done, val, next
      <3>. QED  BY <1>4, <1>5 DEF Finds
    <2>. QED  BY <2>1, <2>2
  <1>8. W = [q \in 1 .. End |-> body(W, q)]
    BY <1>7, Zenon
  <1>. HIDE DEF W
  <1>9. Finds(W, 1 .. End, done, val, next)
    <2>1. W = [q \in D |-> W[q]] /\ \A q \in D : W[q] = body(W, q)
      BY <1>8
    <2>. HIDE DEF done, val, next
    <2>. QED  BY <1>5, <2>1 DEF Finds
  <1>10. ASSUME NEW q \in D, NEW d \in q .. End, d \in D PROVE DeclaredAt(d) \in K[q]
    <2>0. d \in 1 .. End /\ q \in 1 .. End
      BY <1>10
    <2>1. Lands(DeclaredAt(d), d) /\ DeclaredAt(d).token \in {"invalid newline", "variable"}
      BY <2>0, DeclaredAtIs
    <2>2. Lands(DeclaredAt(d), q)
      BY <1>10, <2>0, <2>1, LandsFurther
    <2>3. DeclaredAt(d).at \in 0 .. End /\ DeclaredAt(d).to \in D
      BY <1>1, <2>0, <2>2 DEF Lands
    <2>4. DeclaredAt(d) = [at |-> DeclaredAt(d).at, to |-> DeclaredAt(d).to, token |-> DeclaredAt(d).token]
      BY DEF DeclaredAt, EndsAt, Result
    <2>5. DeclaredAt(d) \in All
      BY <2>1, <2>3, <2>4
    <2>. HIDE DEF All
    <2>. QED  BY <2>2, <2>5
  <1>11. ASSUME NEW q \in D PROVE top \in K[q]
    <2>1. Top.at \in 0 .. End /\ End \in D /\ End \in q .. End
      BY <1>1, TopIs
    <2>2. top \in All
      BY <2>1 DEF Result
    <2>3. Lands(top, q)
      BY <1>1, <2>1 DEF Lands, Result
    <2>. HIDE DEF All, top
    <2>. QED  BY <2>2, <2>3, Zenon
  <1>12. \A q \in D : q \in done => val[q] \in K[q]
    <2>. SUFFICES ASSUME NEW q \in D, q \in done PROVE val[q] \in K[q]
      BY Zenon
    <2>. HIDE DEF K, top
    <2>1. CASE MeetsMain(q)
      <3>1. ComesTo(q) \in q .. End /\ ComesTo(q) \in D /\ val[q] = DeclaredAt(ComesTo(q))
        BY <2>1, ComesToIs
      <3>. QED  BY <1>10, <3>1
    <2>2. CASE ~MeetsMain(q) /\ ComesTo(q) = End
      BY <1>11, <2>2
    <2>3. CASE ~MeetsMain(q) /\ ComesTo(q) # End
      <3>1. ComesTo(q) + 1 \in q .. End /\ ComesTo(q) + 1 \in D /\ val[q] = DeclaredAt(ComesTo(q) + 1)
        BY <1>1, <1>2, <2>3
      <3>. QED  BY <1>10, <3>1
    <2>. QED  BY <2>1, <2>2, <2>3
  <1>13. ASSUME NEW q \in (1 .. End) \ done PROVE K[next[q]] \subseteq K[q]
    <2>1. next[q] \in q .. End /\ next[q] \in D /\ q \in D
      <3>1. next[q] \in q + 1 .. End /\ q \in 1 .. End
        BY <1>3
      <3>. HIDE DEF next
      <3>. QED  BY <1>1, <3>1
    <2>2. K[next[q]] = {r \in All : Lands(r, next[q])} /\ K[q] = {r \in All : Lands(r, q)}
      BY <2>1
    <2>. HIDE DEF next, K, All
    <2>3. \A r : Lands(r, next[q]) => Lands(r, q)
      BY <2>1, LandsFurther
    <2>. QED  BY <2>2, <2>3
  <1>14. \A q \in 1 .. End : W[q] \in K[q]
    <2>. HIDE DEF done, val, next, K
    <2>. QED  BY <1>1, <1>3, <1>9, <1>12, <1>13, SearchUpGives
  <1>15. W[p] \in All /\ Lands(W[p], p)
    <2>1. K[p] = {r \in All : Lands(r, p)}
      OBVIOUS
    <2>. HIDE DEF K, All
    <2>. QED  BY <1>14, <2>1
  <1>16. W[p].token # "none"
    <2>. DEFINE r == W[p]
    <2>1. r \in All
      BY <1>15
    <2>. HIDE DEF r
    <2>2. r.token \in {"top", "invalid newline", "variable"}
      BY <2>1
    <2>. QED  BY <2>2 DEF r
  <1>. QED  BY <1>6, <1>15, <1>16

\* A call that does not find what it looks for stays where it is; a search never
\* ends so, and with a data type a bracket may have been left behind.
LEMMA ItemAtIs ==
    ASSUME Sized, NEW p \in 1 .. End, NEW kind \in Kinds
    PROVE  /\ Lands(ItemAt(p, kind), p)
           /\ ItemAt(p, kind).token = "none" /\ ItemAt(p, kind).to # End =>
                 \/ ItemAt(p, kind).at = p /\ kind \notin Declarers
                 \/ kind = "operand" /\ ItemAt(p, kind).at = p + 1 /\ p < End /\ Byte(p) = "["
  <1>. DEFINE r == ItemAt(p, kind)
  <1>1. Last \in Nat /\ End = Last + 1 /\ End \in Nat /\ p \in Nat /\ p >= 1 /\ p <= End
    BY LastIs
  <1>2. kind \in {"instruction", "datatype", "register", "general", "grammar", "variable", "name", "operand"}
    BY TokensAssumption DEF Kinds, Declarers
  <1>3. CASE p = End /\ kind \in {"general", "register"}
    <2>1. r = EndsAt(End, "eof")
      BY <1>3, Zenon DEF ItemAt
    <2>2. End \in p .. End
      BY <1>1
    <2>. QED  BY <2>1, <2>2, LandsAt
  <1>4. CASE kind = "grammar"
    <2>1. CASE p < End /\ Byte(p) = ","
      <3>1. r = EndsAt(p + 1, "grammar")
        BY <1>4, <2>1 DEF ItemAt
      <3>2. p < End
        BY <2>1, Zenon
      <3>3. p + 1 \in p .. End
        BY <1>1, <3>2
      <3>. QED  BY <3>1, <3>3, LandsAt
    <2>2. CASE ~(p < End /\ Byte(p) = ",")
      <3>1. r = EndsAt(p, "invalid token")
        BY <1>4, <2>2 DEF ItemAt
      <3>2. p \in p .. End
        BY <1>1
      <3>. DEFINE t == "invalid token"
      <3>4. t # "top"
        OBVIOUS
      <3>. HIDE DEF t
      <3>5. Lands(EndsAt(p, t), p) /\ EndsAt(p, t).at = p
        BY <3>2, <3>4, LandsAt
      <3>3. Lands(r, p) /\ r.at = p
        BY <3>1, <3>5 DEF t
      <3>. QED  BY <1>4, <3>3 DEF Declarers
    <2>. QED  BY <2>1, <2>2
  <1>5. CASE kind = "variable"
    <2>1. r = IF AtDeclaration(p) THEN DeclaredAt(p) ELSE SearchFor(p)
      BY <1>5 DEF ItemAt
    <2>2. Lands(r, p) /\ r.token # "none"
      BY <2>1, DeclaredAtIs, SearchForIs
    <2>. QED  BY <2>2
  <1>6. CASE kind = "name"
    <2>. DEFINE q == IF p < End /\ Byte(p) \notin Letters THEN p + 1 ELSE p
                end == KeywordEnd(q, TRUE)
    <2>1. r = EndsAt(end, "name")
      BY <1>6 DEF ItemAt
    <2>2. q \in p .. End /\ q \in 1 .. End
      BY <1>1
    <2>. HIDE DEF q
    <2>3. end \in q .. End
      BY <2>2, KeywordEndIs
    <2>. HIDE DEF end
    <2>4. end \in p .. End
      BY <1>1, <2>2, <2>3
    <2>. QED  BY <2>1, <2>4, LandsAt
  <1>7. CASE kind = "datatype"
    <2>1. r = DataTypeAt(p)
      BY <1>7 DEF ItemAt
    <2>. QED  BY <1>7, <2>1, DataTypeAtIs DEF Declarers
  <1>8. CASE kind = "operand"
    <2>1. CASE p < End /\ Byte(p) = "["
      <3>1. r = DataTypeAt(p + 1)
        BY <1>8, <2>1 DEF ItemAt
      <3>2. p < End
        BY <2>1, Zenon
      <3>. DEFINE q == p + 1
      <3>3. q \in p .. End /\ q \in 1 .. End
        BY <1>1, <3>2
      <3>. HIDE DEF q
      <3>4. Lands(DataTypeAt(q), p)
        BY <3>3, DataTypeAtIs, LandsFurther
      <3>5. DataTypeAt(q).token = "none" /\ DataTypeAt(q).to # End => DataTypeAt(q).at = q
        BY <3>3, DataTypeAtIs
      <3>6. r = DataTypeAt(q) /\ q = p + 1
        BY <3>1 DEF q
      <3>. QED  BY <1>8, <2>1, <3>4, <3>5, <3>6
    <2>2. CASE ~(p < End /\ Byte(p) = "[")
      <3>1. r = DataTypeAt(p)
        BY <1>8, <2>2 DEF ItemAt
      <3>. QED  BY <1>8, <3>1, DataTypeAtIs DEF Declarers
    <2>. QED  BY <2>1, <2>2
  <1>9. CASE kind \in {"instruction", "register", "general"} /\ ~(p = End /\ kind \in {"general", "register"})
    <2>1. r = LookUpWord(p, kind) /\ kind \in DOMAIN Tokens
      BY <1>9, TokensAssumption DEF ItemAt
    <2>2. /\ Lands(LookUpWord(p, kind), p)
          /\ LookUpWord(p, kind).token = "none" =>
                LookUpWord(p, kind).at = IF LookUpWord(p, kind).to = End THEN p - 1 ELSE p
      BY <2>1, LookUpWordIs
    <2>. QED  BY <1>9, <2>1, <2>2 DEF Declarers
  <1>. QED  BY <1>2, <1>3, <1>4, <1>5, <1>6, <1>7, <1>8, <1>9

\* What TokenAt comes to, by where it begins.
LEMMA TokenAtCases ==
    ASSUME NEW p, NEW kind, NEW override
    PROVE  /\ AtComment(p) =>
                TokenAt(p, kind, override) =
                    EndsAt(CommentsEnd(p), IF CommentsEnd(p) = End THEN "eof" ELSE "none")
           /\ AtDeclaration(p) /\ ~override /\ kind \notin Declarers =>
                TokenAt(p, kind, override) =
                    IF Declarations(p).token = "eof" THEN EndsAt(End, "eof")
                    ELSE ItemAt(Declarations(p).at, kind)
           /\ ~AtComment(p) /\ ~(AtDeclaration(p) /\ ~override /\ kind \notin Declarers) =>
                TokenAt(p, kind, override) = ItemAt(p, kind)
  <1>1. ";" \notin {"!", "."}
    OBVIOUS
  <1>2. AtDeclaration(p) => ~AtComment(p)
    BY <1>1, Zenon DEF AtDeclaration, AtComment
  <1>3. TokenAt(p, kind, override) =
          CASE AtComment(p) -> EndsAt(CommentsEnd(p), IF CommentsEnd(p) = End THEN "eof" ELSE "none")
            [] AtDeclaration(p) /\ ~override /\ kind \notin Declarers ->
                  IF Declarations(p).token = "eof" THEN EndsAt(End, "eof") ELSE ItemAt(Declarations(p).at, kind)
            [] OTHER -> ItemAt(p, kind)
    BY Zenon DEF TokenAt, AtComment
  <1>. QED  BY <1>2, <1>3

LEMMA TokenAtIs ==
    ASSUME Sized, NEW p \in 1 .. End, NEW kind \in Kinds, NEW override \in BOOLEAN
    PROVE  Lands(TokenAt(p, kind, override), p)
  <1>1. Last \in Nat /\ End = Last + 1 /\ End \in Nat /\ p \in Nat /\ p >= 1 /\ p <= End
    BY LastIs
  <1>2. CASE AtComment(p)
    BY <1>2, CommentsEndIs, LandsAt, TokenAtCases
  <1>3. CASE AtDeclaration(p) /\ ~override /\ kind \notin Declarers
    <2>. DEFINE d == Declarations(p).at
    <2>1. d \in p .. End
      BY DeclarationsIs DEF Opens
    <2>2. CASE Declarations(p).token = "eof"
      <3>1. End \in p .. End
        BY <1>1
      <3>. QED  BY <1>3, <2>2, <3>1, LandsAt, TokenAtCases
    <2>3. CASE Declarations(p).token # "eof"
      <3>1. d \in 1 .. End
        BY <1>1, <2>1
      <3>. HIDE DEF d
      <3>2. Lands(ItemAt(d, kind), p)
        BY <2>1, <3>1, ItemAtIs, LandsFurther
      <3>3. TokenAt(p, kind, override) = ItemAt(d, kind)
        BY <1>3, <2>3, TokenAtCases DEF d
      <3>. QED  BY <3>2, <3>3
    <2>. QED  BY <2>2, <2>3
  <1>4. CASE ~AtComment(p) /\ ~(AtDeclaration(p) /\ ~override /\ kind \notin Declarers)
    BY <1>4, ItemAtIs, TokenAtCases
  <1>. QED  BY <1>2, <1>3, <1>4

LEMMA TokenIs ==
    ASSUME Sized, NEW p \in 1 .. End, NEW kind \in Kinds, NEW override \in BOOLEAN
    PROVE  Lands(Token(p, kind, override), p)
  <1>1. p \in p .. End
    BY LastIs
  <1>2. CASE p = End \/ (p < End /\ Byte(p) \in Digits)
    BY <1>1, <1>2, LandsAt DEF Token
  <1>3. CASE ~(p = End \/ (p < End /\ Byte(p) \in Digits))
    <2>. DEFINE s == SkipFrom(p, Blanks)
    <2>1. s \in p .. End
      BY SkipIs
    <2>2. s \in 1 .. End
      BY <2>1, LastIs
    <2>3. Token(p, kind, override) = TokenAt(s, kind, override)
      BY <1>3 DEF Token
    <2>. HIDE DEF s
    <2>. QED  BY <2>1, <2>2, <2>3, TokenAtIs, LandsFurther
  <1>. QED  BY <1>2, <1>3
-----------------------------------------------------------------------------
(***************************************************************************)
(* Lines.                                                                  *)
(***************************************************************************)

\* The lines counted on the way are the newlines passed.
LEMMA LinesLeftIs ==
    ASSUME Sized, NEW from \in 1 .. Last, NEW to \in from .. Last, NEW i \in from .. to,
           \A j \in i .. to - 1 : Byte(j) # Newline
    PROVE  /\ LinesLeft(from, to) \in Nat /\ NewlinesBefore(from) \in Nat
           /\ NewlinesBefore(i) = NewlinesBefore(from) + LinesLeft(from, to)
  <1>. DEFINE A == {j \in 1 .. from - 1 : text[j] = Newline}
              B == Newlines(from, to - 1)
              C == {j \in 1 .. i - 1 : text[j] = Newline}
  <1>1. Last \in Nat /\ Size \in Nat /\ Last <= Size + 1 /\ from \in Nat /\ to \in Nat /\ i \in Nat
        /\ from >= 1 /\ to <= Last /\ i <= to /\ from <= i
    BY LastIs DEF Sized
  <1>2. Min({to, Last}) = to
    BY <1>1, MinMaxOfTwo
  <1>3. \A j \in 1 .. to - 1 : Byte(j) = text[j]
    BY <1>1 DEF Byte
  <1>4. IsFiniteSet(A) /\ IsFiniteSet(B) /\ Cardinality(A) \in Nat /\ Cardinality(B) \in Nat
    <2>1. IsFiniteSet(1 .. from - 1) /\ IsFiniteSet(from .. to - 1)
      BY <1>1, FS_Interval
    <2>2. A \in SUBSET (1 .. from - 1) /\ B \in SUBSET (from .. to - 1)
      BY DEF Newlines
    <2>. HIDE DEF A, B
    <2>. QED  BY <2>1, <2>2, FS_Subset, FS_CardinalityType
  <1>5. C = A \cup B
    <2>1. ASSUME NEW j \in C PROVE j \in A \cup B
      <3>1. j \in 1 .. to - 1 /\ Byte(j) = Newline /\ text[j] = Newline
        BY <1>1, <1>3
      <3>. QED  BY <1>1, <3>1 DEF Newlines
    <2>2. ASSUME NEW j \in A PROVE j \in C
      BY <1>1
    <2>3. ASSUME NEW j \in B PROVE j \in C
      <3>1. j \in from .. to - 1 /\ Byte(j) = Newline
        BY DEF Newlines
      <3>2. j \in 1 .. to - 1 /\ ~(j \in i .. to - 1)
        BY <1>1, <3>1
      <3>. QED  BY <1>1, <1>3, <3>1, <3>2
    <2>. QED  BY <2>1, <2>2, <2>3
  <1>6. A \cap B = {}
    BY <1>1 DEF Newlines
  <1>7. NewlinesBefore(from) = Cardinality(A) /\ NewlinesBefore(i) = Cardinality(C)
        /\ LinesLeft(from, to) = Cardinality(B)
    BY <1>2 DEF NewlinesBefore, LinesLeft
  <1>. HIDE DEF A, B, C
  <1>8. Cardinality(A \cup B) = Cardinality(A) + Cardinality(B)
    BY <1>4, <1>6, FS_Union, FS_EmptySet
  <1>. QED  BY <1>4, <1>5, <1>7, <1>8
-----------------------------------------------------------------------------
(***************************************************************************)
(* The line an error would name.                                           *)
(***************************************************************************)
CursorInv ==
    /\ Sized /\ line \in Nat
    /\ phase \in {"check", "idle"} => index \in 1 .. Last
    /\ LineIsRight

\* How a call leaves the cursor that began at p, the lines before p counted.
LEMMA LeaveIs ==
    ASSUME Sized, NEW p \in 1 .. End, NEW lines \in Nat, NEW r, Lands(r, p),
           Leave(p, lines, r), UNCHANGED <<text, behind>>
    PROVE  /\ line' \in Nat /\ index' \in Nat
           /\ phase' = "idle" => index' \in 1 .. Last
           /\ phase' = "idle" /\ ~ended' /\ r.token # "top" =>
                 /\ p \in 1 .. Last /\ ~ended
                 /\ line' - lines = NewlinesBefore(index') - NewlinesBefore(p)
                 /\ NewlinesBefore(index') \in Nat /\ NewlinesBefore(p) \in Nat
           /\ r.token = "top" => index' = Top.at /\ line' = Top.line /\ found' = "top"
           /\ r.token # "top" => \/ index' >= p \/ (index' = Last /\ p = End)
                                 \/ (ended' /\ index' = p - 1)
  <1>. DEFINE to == Max({r.to, r.at})
  <1>1. Last \in Nat /\ End = Last + 1 /\ End \in Nat /\ p \in Nat /\ p >= 1 /\ p <= End
    BY LastIs
  <1>2. r.at \in 0 .. End /\ r.to \in p .. End
    BY DEF Lands
  <1>3. to = IF r.to <= r.at THEN r.at ELSE r.to
    BY <1>1, <1>2, MinMaxOfTwo
  <1>4. to \in p .. End /\ (r.to = End => to = End)
    BY <1>1, <1>2, <1>3
  <1>5. r.token # "top" => line' = lines + LinesLeft(p, to) /\ ended' = (ended \/ to = End)
    BY DEF Leave
  <1>50. r.token = "top" => r.at = Top.at /\ line' = Top.line /\ found' = "top" /\ Top.at \in 1 .. Last /\ Top.line \in Nat
    BY <1>1, TopIs DEF Leave, Lands
  <1>6. LinesLeft(p, to) \in Nat
    <2>1. Min({to, Last}) \in Nat
      BY <1>1, <1>4, MinMaxOfTwo
    <2>. DEFINE m == Min({to, Last}) - 1
    <2>2. m \in Int
      BY <2>1
    <2>. HIDE DEF m
    <2>3. IsFiniteSet(p .. m)
      BY <1>1, <2>2, FS_Interval
    <2>4. Newlines(p, m) \in SUBSET (p .. m)
      BY DEF Newlines
    <2>5. Cardinality(Newlines(p, m)) \in Nat
      BY <2>3, <2>4, FS_Subset, FS_CardinalityType
    <2>. QED  BY <2>5 DEF LinesLeft, m
  <1>. HIDE DEF to
  <1>7. line' \in Nat
    BY <1>5, <1>50, <1>6
  <1>70. index' = IF r.at < 1 THEN 0 ELSE Min({r.at, Last})
    BY DEF Leave
  <1>73. index' \in Nat
    BY <1>1, <1>2, <1>70, MinMaxOfTwo
  <1>71. r.token = "top" => index' = Top.at
    BY <1>1, <1>50, <1>70, MinMaxOfTwo
  <1>72. ASSUME r.token # "top"
         PROVE  \/ index' >= p \/ (index' = Last /\ p = End)
                \/ (ended' /\ index' = p - 1)
    <2>1. r.at + 1 >= p /\ (r.to = End \/ (r.to # End /\ r.at \in p .. Last))
      BY <1>1, <1>2, <1>72 DEF Lands
    <2>2. index' = IF r.at < 1 THEN 0 ELSE IF r.at <= Last THEN r.at ELSE Last
      BY <1>1, <1>2, <1>70, MinMaxOfTwo
    <2>3. r.to = End => ended'
      BY <1>4, <1>5, <1>72
    <2>. QED  BY <1>1, <1>2, <2>1, <2>2, <2>3
  <1>8. ASSUME phase' = "idle" PROVE r.at >= 1 /\ index' = Min({r.at, Last})
    <2>1. ~(r.at < 1) /\ index' = IF r.at < 1 THEN 0 ELSE Min({r.at, Last})
      BY <1>8 DEF Leave
    <2>2. r.at \in Nat
      BY <1>1, <1>2
    <2>. QED  BY <2>1, <2>2
  <1>9. phase' = "idle" => index' \in 1 .. Last
    BY <1>1, <1>2, <1>8, MinMaxOfTwo, LastIs
  <1>10. ASSUME phase' = "idle", ~ended', r.token # "top"
         PROVE  /\ p \in 1 .. Last /\ ~ended
                /\ line' - lines = NewlinesBefore(index') - NewlinesBefore(p)
                /\ NewlinesBefore(index') \in Nat /\ NewlinesBefore(p) \in Nat
    <2>1. ~ended /\ to # End /\ r.to # End
      BY <1>4, <1>5, <1>10
    <2>2. /\ r.at \in p .. r.to /\ r.to \in p .. Last
          /\ \A j \in r.at .. r.to - 1 : Byte(j) # Newline
      BY <2>1 DEF Lands
    <2>3. to = r.to /\ p \in 1 .. Last
      BY <1>1, <1>3, <2>2
    <2>4. index' = r.at
      BY <1>1, <1>8, <1>10, <2>2, MinMaxOfTwo
    <2>. DEFINE i == r.at
                t == r.to
    <2>5. i \in p .. t /\ t \in p .. Last /\ \A j \in i .. t - 1 : Byte(j) # Newline
      BY <2>2
    <2>. HIDE DEF i, t
    <2>6. /\ LinesLeft(p, t) \in Nat /\ NewlinesBefore(p) \in Nat
          /\ NewlinesBefore(i) = NewlinesBefore(p) + LinesLeft(p, t)
      BY <2>3, <2>5, LinesLeftIs
    <2>7. line' = lines + LinesLeft(p, t) /\ index' = i
      BY <1>5, <1>10, <2>3, <2>4 DEF i, t
    <2>. QED  BY <2>1, <2>3, <2>6, <2>7
  <1>. HIDE DEF to
  <1>. QED  BY <1>7, <1>73, <1>9, <1>10, <1>50, <1>71, <1>72, Zenon

LEMMA AdvanceLines ==
    ASSUME Sized, line \in Nat, NEW from \in 1 .. End, NEW to \in 1 .. End
    PROVE  line + LinesLeft(from, to) \in Nat
  <1>. DEFINE m == Min({to, Last}) - 1
  <1>1. Last \in Nat /\ from \in Int /\ to \in Nat
    BY LastIs
  <1>2. m \in Int
    BY <1>1, MinMaxOfTwo
  <1>. HIDE DEF m
  <1>3. IsFiniteSet(from .. m) /\ Newlines(from, m) \in SUBSET (from .. m)
    BY <1>1, <1>2, FS_Interval DEF Newlines
  <1>4. Cardinality(Newlines(from, m)) \in Nat
    BY <1>3, FS_Subset, FS_CardinalityType
  <1>. QED  BY <1>4 DEF LinesLeft, m

LEMMA InitSized == Init => Sized
  <1>. SUFFICES ASSUME Init PROVE Sized
    OBVIOUS
  <1>1. PICK n \in 2 .. MaxSize : text \in [1 .. n -> Alphabet]
    BY DEF Init
  <1>2. n \in Nat /\ n >= 2
    OBVIOUS
  <1>3. Len(text) = n
    BY <1>1, <1>2
  <1>. QED  BY <1>2, <1>3 DEF Sized, Size

LEMMA CursorInit == Init => CursorInv
  <1>. SUFFICES ASSUME Init PROVE CursorInv
    OBVIOUS
  <1>1. phase = "new" /\ line = 1
    BY DEF Init
  <1>. QED  BY <1>1, InitSized DEF CursorInv, LineIsRight

LEMMA TextKept == [Next]_vars => UNCHANGED <<text, behind>>
  BY DEF Next, Check, BeginCheck, CheckRound, LookAtWord, EndCheck, TryGetToken, vars

LEMMA CursorKept == CursorInv /\ [Next]_vars => CursorInv'
  <1>. SUFFICES ASSUME CursorInv, [Next]_vars PROVE CursorInv'
    OBVIOUS
  <1>1. UNCHANGED <<text, behind>> /\ Sized /\ line \in Nat
    BY TextKept DEF CursorInv
  <1>2. Sized' /\ Last' = Last
    BY <1>1 DEF Sized, Size, Last
  <1>3. \A i : NewlinesBefore(i)' = NewlinesBefore(i)
    BY <1>1 DEF NewlinesBefore
  <1>4. CASE phase' # "idle" /\ line' \in Nat /\ (phase' = "check" => index' \in 1 .. Last)
    BY <1>2, <1>4 DEF CursorInv, LineIsRight
  <1>0. Last \in Nat /\ Size \in Nat /\ Size <= Last /\ End = Last + 1 /\ Last >= 2
    BY <1>1, LastIs DEF Sized
  <1>5. CASE BeginCheck
    <2>. DEFINE s == SkipFrom(1, Blanks)
    <2>1. 1 \in 1 .. End /\ s \in 1 .. End
      BY <1>0, <1>1, SkipIs
    <2>. HIDE DEF s
    <2>2. \/ phase' = "error" /\ line' = line
          \/ phase' = "check" /\ line' = line + LinesLeft(1, s) /\ index' = Min({s, Last})
      BY <1>5 DEF BeginCheck, Advance, s
    <2>3. line + LinesLeft(1, s) \in Nat
      BY <1>1, <2>1, AdvanceLines
    <2>4. Min({s, Last}) \in 1 .. Last
      BY <1>0, <2>1, MinMaxOfTwo
    <2>. QED  BY <1>1, <1>4, <2>2, <2>3, <2>4
  <1>6. CASE CheckRound
    <2>. DEFINE to == index + 1
    <2>1. /\ phase = "check" /\ phase' = "check"
          /\ line' = line + LinesLeft(index, to) /\ index' = Min({to, Last})
      BY <1>6 DEF CheckRound, Advance, MoreToCheck
    <2>2. index \in 1 .. Last
      BY <2>1 DEF CursorInv
    <2>3. index \in 1 .. End /\ to \in 1 .. End
      BY <1>0, <2>2
    <2>. HIDE DEF to
    <2>4. line' \in Nat
      BY <1>1, <2>1, <2>3, AdvanceLines
    <2>5. index' \in 1 .. Last
      BY <1>0, <2>1, <2>3, MinMaxOfTwo
    <2>. QED  BY <1>4, <2>1, <2>4, <2>5
  <1>7. CASE LookAtWord
    <2>. DEFINE end == KeywordEnd(index, TRUE)
                back == Back(end, end - index)
    <2>1. phase = "check" /\ index < Size
      BY <1>7 DEF LookAtWord, MoreToCheck
    <2>2. index \in 1 .. Last /\ index \in 1 .. End
      <3>1. index \in 1 .. Last
        BY <2>1 DEF CursorInv
      <3>. QED  BY <1>0, <3>1
    <2>3. end \in index .. End
      BY <1>1, <2>2, KeywordEndIs
    <2>4. \/ phase' \in {"unknown", "wild"} /\ line' = line
          \/ /\ back >= 1 /\ phase' = phase
             /\ index' = back + 1 /\ line' = line + LinesLeft(back, back + 1)
      BY <1>7 DEF LookAtWord
    <2>. HIDE DEF end
    <2>5. back \in {index - 1, index}
      BY <1>1, <2>2, <2>3, BackIs
    <2>. HIDE DEF back
    <2>6. CASE phase' \in {"unknown", "wild"} /\ line' = line
      BY <1>1, <1>4, <2>6
    <2>7. CASE /\ back >= 1 /\ phase' = phase
               /\ index' = back + 1 /\ line' = line + LinesLeft(back, back + 1)
      <3>. DEFINE to == back + 1
      <3>1. back \in 1 .. End /\ to \in 1 .. End /\ to \in 1 .. Last
        BY <1>0, <2>1, <2>2, <2>5, <2>7
      <3>. HIDE DEF to
      <3>2. line + LinesLeft(back, to) \in Nat
        BY <1>1, <3>1, AdvanceLines
      <3>3. line' \in Nat /\ index' \in 1 .. Last
        BY <2>7, <3>1, <3>2 DEF to
      <3>. QED  BY <1>4, <2>1, <2>7, <3>3
    <2>. QED  BY <2>4, <2>6, <2>7
  <1>8. CASE \E kind \in Kinds, override \in BOOLEAN : EndCheck(kind, override)
    <2>1. PICK kind \in Kinds, override \in BOOLEAN : EndCheck(kind, override)
      BY <1>8
    <2>. DEFINE p == Top.at
                r == TokenAt(p, kind, override)
    <2>2. Leave(p, Top.line, r)
      BY <2>1 DEF EndCheck
    <2>3. /\ p \in 1 .. Last /\ Top.line \in Nat /\ NewlinesBefore(p) \in Nat
          /\ Top.line = 1 + NewlinesBefore(p) + (IF text[1] = Newline THEN 1 ELSE 0)
      BY <1>1, TopIs
    <2>4. p \in 1 .. End
      BY <1>0, <2>3
    <2>. HIDE DEF p
    <2>5. Lands(r, p)
      BY <1>1, <2>4, TokenAtIs
    <2>. HIDE DEF r
    <2>6. /\ line' \in Nat
          /\ phase' = "idle" => index' \in 1 .. Last
          /\ phase' = "idle" /\ ~ended' /\ r.token # "top" =>
                /\ line' - Top.line = NewlinesBefore(index') - NewlinesBefore(p)
                /\ NewlinesBefore(index') \in Nat
          /\ r.token = "top" => index' = p /\ line' = Top.line
      BY <1>1, <2>2, <2>3, <2>4, <2>5, LeaveIs DEF p
    <2>7. phase' # "check"
      BY <2>2 DEF Leave
    <2>. HIDE DEF CursorInv
    <2>8. phase' = "idle" /\ ~ended' =>
             line' = 1 + NewlinesBefore(index') + (IF text[1] = Newline THEN 1 ELSE 0)
      BY <2>3, <2>6
    <2>9. LineIsRight'
      BY <1>1, <1>3, <2>8 DEF LineIsRight
    <2>. QED  BY <1>2, <2>6, <2>7, <2>9 DEF CursorInv
  <1>9. CASE \E kind \in Kinds, override \in BOOLEAN : TryGetToken(kind, override)
    <2>1. PICK kind \in Kinds, override \in BOOLEAN : TryGetToken(kind, override)
      BY <1>9
    <2>. DEFINE p == Position
                r == Token(p, kind, override)
    <2>2. Leave(p, line, r) /\ phase = "idle"
      BY <2>1 DEF TryGetToken
    <2>3. index \in 1 .. Last /\ LineIsRight
      BY <2>2 DEF CursorInv
    <2>4. p \in 1 .. End /\ (p # End => p = index)
      BY <1>0, <2>3 DEF Position
    <2>. HIDE DEF p
    <2>5. Lands(r, p)
      BY <1>1, <2>4, TokenIs
    <2>. HIDE DEF r
    <2>6. /\ line' \in Nat
          /\ phase' = "idle" => index' \in 1 .. Last
          /\ phase' = "idle" /\ ~ended' /\ r.token # "top" =>
                /\ p \in 1 .. Last /\ ~ended
                /\ line' - line = NewlinesBefore(index') - NewlinesBefore(p)
                /\ NewlinesBefore(index') \in Nat /\ NewlinesBefore(p) \in Nat
          /\ r.token = "top" => index' = Top.at /\ line' = Top.line
      BY <1>1, <2>2, <2>4, <2>5, LeaveIs
    <2>7. phase' # "check"
      BY <2>2 DEF Leave
    <2>80. r.token = "top" => line' = 1 + NewlinesBefore(index') + (IF text[1] = Newline THEN 1 ELSE 0)
      BY <1>1, <2>6, TopIs
    <2>8. ASSUME phase' = "idle", ~ended', r.token # "top"
          PROVE  line' = 1 + NewlinesBefore(index') + (IF text[1] = Newline THEN 1 ELSE 0)
      <3>1. p = index /\ ~ended
        BY <1>0, <2>4, <2>6, <2>8
      <3>2. line = 1 + NewlinesBefore(p) + (IF text[1] = Newline THEN 1 ELSE 0)
        BY <2>2, <2>3, <3>1 DEF LineIsRight
      <3>. HIDE DEF CursorInv
      <3>. QED  BY <1>1, <2>6, <2>8, <3>2
    <2>. HIDE DEF CursorInv
    <2>9. LineIsRight'
      BY <1>1, <1>3, <2>8, <2>80 DEF LineIsRight
    <2>. QED  BY <1>2, <2>6, <2>7, <2>9 DEF CursorInv
  <1>10. CASE UNCHANGED vars
    BY <1>1, <1>2, <1>3, <1>10 DEF CursorInv, LineIsRight, vars
  <1>. QED  BY <1>5, <1>6, <1>7, <1>8, <1>9, <1>10 DEF Next, Check

\* As long as the end of the file has not been met, the line of the lexer is that
\* of the character it stands at, counted by lexer_advance forwards only: going
\* back over a word and looking a token up again at the top of the file leave
\* it right, but for the newline that reset_lexer_data counts twice.
THEOREM LinesCountRight == Spec => []LineIsRight
  <1>1. Init => CursorInv
    BY CursorInit
  <1>2. CursorInv /\ [Next]_vars => CursorInv'
    BY CursorKept
  <1>3. CursorInv => LineIsRight
    BY DEF CursorInv
  <1>. QED  BY <1>1, <1>2, <1>3, PTL DEF Spec
-----------------------------------------------------------------------------
(***************************************************************************)
(* Going back.                                                             *)
(***************************************************************************)

\* No call of try_get_token, of whatever kind and wherever the cursor stands in
\* whatever file, leaves the cursor in front of where it began, but for a search
\* that has set it to the top and for the one character by which a word is gone
\* back over too far once the end of the file has been met: the blanks, comments
\* and declarations a call skips, and the words, are never read a second time.
THEOREM NoGroundIsLost == Spec => NoCallSlipsBack
  <1>1. Init => CursorInv
    BY CursorInit
  <1>2. CursorInv /\ [Next]_vars => CursorInv'
    BY CursorKept
  <1>3. CursorInv /\ [Next]_vars =>
          [phase = "idle" =>
              \/ index' >= index
              \/ ended' /\ index' = index - 1
              \/ found' = "top" /\ index' = Top.at /\ line' = Top.line]_vars
    <2>. SUFFICES ASSUME CursorInv, Next, phase = "idle"
                  PROVE  \/ index' >= index
                         \/ ended' /\ index' = index - 1
                         \/ found' = "top" /\ index' = Top.at /\ line' = Top.line
      OBVIOUS
    <2>1. PICK kind \in Kinds, override \in BOOLEAN : TryGetToken(kind, override)
      BY DEF Next, Check, BeginCheck, CheckRound, LookAtWord, MoreToCheck, EndCheck
    <2>. DEFINE p == Position
                r == Token(p, kind, override)
    <2>2. /\ Sized /\ line \in Nat /\ index \in 1 .. Last
          /\ Last \in Nat /\ End = Last + 1
      BY LastIs DEF CursorInv
    <2>3. Leave(p, line, r) /\ UNCHANGED <<text, behind>>
      BY <2>1 DEF TryGetToken
    <2>4. p \in 1 .. End /\ (p # End => p = index)
      BY <2>2 DEF Position
    <2>. HIDE DEF p
    <2>5. Lands(r, p)
      BY <2>2, <2>4, TokenIs
    <2>. HIDE DEF r
    <2>6. /\ r.token = "top" => index' = Top.at /\ line' = Top.line /\ found' = "top"
          /\ r.token # "top" => \/ index' >= p \/ (index' = Last /\ p = End)
                                \/ (ended' /\ index' = p - 1)
      BY <2>2, <2>3, <2>4, <2>5, LeaveIs
    <2>7. index' \in Nat
      BY <2>2, <2>3, <2>4, <2>5, LeaveIs
    <2>. HIDE DEF CursorInv
    <2>8. index' >= p \/ (index' = Last /\ p = End) => index' >= index
      BY <2>2, <2>4, <2>7
    <2>9. index' = p - 1 => index' = index - 1 \/ index' >= index
      BY <2>2, <2>4, <2>7
    <2>. QED  BY <2>6, <2>8, <2>9, Zenon
  <1>. QED  BY <1>1, <1>2, <1>3, PTL DEF Spec, NoCallSlipsBack
-----------------------------------------------------------------------------
(***************************************************************************)
(* A token that is not there.                                              *)
(***************************************************************************)

\* What Token comes to where it looks for anything.
LEMMA TokenLooks ==
    ASSUME Sized, NEW p \in 1 .. End, NEW kind, NEW override
    PROVE  /\ p = End => Token(p, kind, override).token = "eof"
           /\ p # End /\ p < End /\ Byte(p) \in Digits => Token(p, kind, override).token = "invalid digit"
           /\ p # End /\ Byte(p) \notin Digits =>
                 Token(p, kind, override) = TokenAt(SkipFrom(p, Blanks), kind, override)
  <1>0. End \in Nat /\ p \in Nat
    BY LastIs
  <1>1. p = End => Token(p, kind, override) = EndsAt(p, "eof")
    <2>. SUFFICES ASSUME p = End PROVE Token(p, kind, override) = EndsAt(p, "eof")
      OBVIOUS
    <2>1. ~(p < End)
      BY <1>0
    <2>. HIDE DEF EndsAt
    <2>. QED  BY <2>1, Zenon DEF Token
  <1>2. p # End /\ p < End /\ Byte(p) \in Digits => Token(p, kind, override) = EndsAt(p, "invalid digit")
    BY DEF Token
  <1>3. p # End /\ Byte(p) \notin Digits =>
           Token(p, kind, override) = TokenAt(SkipFrom(p, Blanks), kind, override)
    BY DEF Token
  <1>4. \A t : EndsAt(p, t).token = t
    BY DEF EndsAt, Result
  <1>. QED  BY <1>1, <1>2, <1>3, <1>4

\* Where a call looks for its token there stands one place, the same for every
\* kind of token, and no call that begins there moves before it looks.
LEMMA LooksAtOnePlace ==
    ASSUME Sized, NEW s \in 1 .. End, s = End \/ Byte(s) \notin Blanks, ~AtComment(s),
           ~(AtDeclaration(s) /\ Declarations(s).token = "eof")
    PROVE  \E d \in s .. End :
             /\ ~AtDeclaration(d)
             /\ d = End \/ Byte(d) \notin Blanks
             /\ \A kind : kind \notin Declarers \/ ~AtDeclaration(s) =>
                   TokenAt(s, kind, FALSE) = ItemAt(d, kind)
  <1>1. s \in Nat /\ End \in Nat
    BY LastIs
  <1>2. CASE AtDeclaration(s)
    <2>. DEFINE d == Declarations(s).at
    <2>1. Opens(Declarations(s), s) /\ Declarations(s).token # "eof"
      BY <1>2, DeclarationsIs
    <2>2. /\ d \in s .. End /\ ~AtDeclaration(d)
          /\ d # s /\ d # End => Byte(d) \notin Blanks
      BY <2>1 DEF Opens
    <2>3. \A kind : kind \notin Declarers => TokenAt(s, kind, FALSE) = ItemAt(d, kind)
      BY <1>2, <2>1, TokenAtCases
    <2>. HIDE DEF d
    <2>4. d # s
      BY <1>2, <2>2
    <2>. QED  BY <1>2, <2>2, <2>3, <2>4
  <1>3. CASE ~AtDeclaration(s)
    <2>1. s \in s .. End
      BY <1>1
    <2>2. \A kind : TokenAt(s, kind, FALSE) = ItemAt(s, kind)
      BY <1>3, TokenAtCases
    <2>. QED  BY <1>3, <2>1, <2>2
  <1>. QED  BY <1>2, <1>3

\* A call from p that finds no token of a kind and none of the exceptions.
Comes(p) == Byte(p) = ";"
Fruitless(p, kind) ==
    LET first == Token(p, kind, FALSE)
    IN  /\ first.token = "none" /\ first.to # End
        /\ Byte(first.at) \notin Digits /\ ~Comes(first.at) /\ ~Comes(SkipFrom(p, Blanks))
        /\ kind = "operand" => first.at = Token(p, "datatype", FALSE).at

LEMMA FruitlessStays ==
    ASSUME Sized, NEW p \in 1 .. End, NEW k1 \in Kinds, NEW k2 \in Kinds, Fruitless(p, k1),
           ~(AtDeclaration(SkipFrom(p, Blanks)) /\ k2 \in Declarers)
    PROVE  Token(Token(p, k1, FALSE).at, k2, FALSE) = Token(p, k2, FALSE)
  <1>. DEFINE first == Token(p, k1, FALSE)
              data == Token(p, "datatype", FALSE)
              s == SkipFrom(p, Blanks)
  <1>0. /\ first.token = "none" /\ first.to # End
        /\ Byte(first.at) \notin Digits /\ ~Comes(first.at) /\ ~Comes(s)
        /\ k1 = "operand" => first.at = data.at
    BY DEF Fruitless
  <1>00. first = Token(p, k1, FALSE) /\ data = Token(p, "datatype", FALSE)
    OBVIOUS
  <1>. HIDE DEF first, data
  <1>1. /\ Last \in Nat /\ End = Last + 1 /\ End \in Nat
        /\ s \in p .. End /\ (s # End => Byte(s) \notin Blanks)
    BY LastIs, SkipIs
  <1>2. p # End /\ Byte(p) \notin Digits
    <2>1. p # End
      BY <1>0, <1>00, TokenLooks
    <2>2. p < End
      BY <1>1, <2>1
    <2>. QED  BY <1>0, <1>00, <2>1, <2>2, TokenLooks
  <1>3. \A kind : Token(p, kind, FALSE) = TokenAt(s, kind, FALSE)
    BY <1>2, TokenLooks
  <1>30. ~(AtDeclaration(s) /\ k2 \in Declarers)
    OBVIOUS
  <1>. HIDE DEF s
  <1>4. s \in 1 .. End /\ ~AtComment(s)
    <2>1. s \in 1 .. End
      BY <1>1
    <2>. QED  BY <1>0, <2>1, Zenon DEF AtComment, Comes
  <1>40. k1 \notin Declarers
    <2>. SUFFICES ASSUME k1 \in Declarers PROVE FALSE
      OBVIOUS
    <2>1. TokenAt(s, k1, FALSE) = ItemAt(s, k1)
      BY <1>4, TokenAtCases
    <2>2. first = ItemAt(s, k1)
      BY <1>00, <1>3, <2>1
    <2>3. k1 \notin Declarers \/ (k1 = "operand")
      BY <1>0, <1>4, <2>2, ItemAtIs
    <2>. QED  BY <2>3 DEF Declarers
  <1>5. ~(AtDeclaration(s) /\ Declarations(s).token = "eof")
    <2>1. SUFFICES ASSUME AtDeclaration(s), Declarations(s).token = "eof" PROVE FALSE
      OBVIOUS
    <2>2. TokenAt(s, k1, FALSE) = EndsAt(End, "eof")
      BY <1>40, <2>1, TokenAtCases
    <2>3. EndsAt(End, "eof").token = "eof"
      BY DEF EndsAt, Result
    <2>. QED  BY <1>0, <1>00, <1>3, <2>2, <2>3
  <1>6. PICK d \in s .. End : /\ ~AtDeclaration(d)
                              /\ d = End \/ Byte(d) \notin Blanks
                              /\ \A kind : kind \notin Declarers \/ ~AtDeclaration(s) =>
                                    TokenAt(s, kind, FALSE) = ItemAt(d, kind)
    BY <1>1, <1>4, <1>5, LooksAtOnePlace
  <1>7. d \in 1 .. End /\ first = ItemAt(d, k1) /\ data = ItemAt(d, "datatype")
    <2>1. d \in 1 .. End
      BY <1>1, <1>4
    <2>2. "datatype" \notin Declarers
      BY DEF Declarers
    <2>3. first = ItemAt(d, k1) /\ data = ItemAt(d, "datatype")
      BY <1>00, <1>3, <1>6, <1>40, <2>2
    <2>. QED  BY <2>1, <2>3
  <1>70. \/ first.at = d
         \/ k1 = "operand" /\ first.at = d + 1 /\ d < End /\ Byte(d) = "["
    BY <1>0, <1>7, ItemAtIs
  <1>71. first.at = d
    <2>. SUFFICES ASSUME k1 = "operand", first.at = d + 1, d < End, Byte(d) = "[" PROVE FALSE
      BY <1>70
    <2>1. d \in 1 .. Last
      BY <1>1, <1>7
    <2>2. ItemAt(d, "datatype") = DataTypeAt(d)
      BY DEF ItemAt
    <2>3. data.at = d
      BY <1>7, <2>1, <2>2, NoDataTypeAtBracket
    <2>. QED  BY <1>0, <2>1, <2>3
  <1>8. first.at = d /\ first.to \in d .. End
    BY <1>7, <1>71, ItemAtIs DEF Lands
  <1>9. d # End
    BY <1>0, <1>1, <1>7, <1>8
  <1>10. Byte(d) \notin Digits /\ ~Comes(d)
    BY <1>0, <1>8
  <1>11. SkipFrom(d, Blanks) = d
    BY <1>6, <1>7, SkipStays
  <1>12. Token(d, k2, FALSE) = TokenAt(d, k2, FALSE)
    BY <1>7, <1>9, <1>10, <1>11, TokenLooks
  <1>13. ~AtComment(d)
    BY <1>10, Zenon DEF AtComment, Comes
  <1>14. TokenAt(d, k2, FALSE) = ItemAt(d, k2)
    BY <1>6, <1>13, TokenAtCases
  <1>15. Token(d, k2, FALSE) = Token(p, k2, FALSE)
    BY <1>3, <1>6, <1>12, <1>14, <1>30
  <1>. QED  BY <1>00, <1>8, <1>15

\* Where the cursor is at rest, a call that has found nothing leaves every later
\* call what it would have found: the lookups of try_get_token go back over the
\* word they have read, and the blanks and declarations in front of it, which
\* they leave behind, no other lookup looks at.  The exceptions are those in
\* which the cursor has moved over what the later call may look for: a search
\* that ended at the top, the end of the file, a comment, a bracket skipped in
\* front of a data type, declarations if one is asked for, and a number.
THEOREM FruitlessHarmsNothing == Spec => []FruitlessIsHarmless
  <1>1. Init => CursorInv
    BY CursorInit
  <1>2. CursorInv /\ [Next]_vars => CursorInv'
    BY CursorKept
  <1>3. CursorInv => FruitlessIsHarmless
    <2>. DEFINE p == Position
                next == SkipFrom(p, Blanks)
                first(k1) == Token(p, k1, FALSE)
                bracket(k1) == k1 = "operand" /\ first(k1).at # Token(p, "datatype", FALSE).at
                second(k1, k2) == Token(first(k1).at, k2, FALSE)
                alone(k2) == Token(p, k2, FALSE)
    <2>. SUFFICES ASSUME CursorInv, phase = "idle", NEW k1 \in Kinds \ {"grammar"}
                  PROVE  \/ first(k1).token # "none" \/ first(k1).to = End
                         \/ Byte(next) = ";" \/ bracket(k1)
                         \/ Byte(first(k1).at) \in Digits \cup {";"}
                         \/ \A k2 \in Kinds \ {"grammar"} :
                               \/ AtDeclaration(next) /\ k2 \in Declarers
                               \/ /\ second(k1, k2).token = alone(k2).token
                                  /\ second(k1, k2).at = alone(k2).at
      BY Zenon DEF FruitlessIsHarmless
    <2>1. Sized /\ index \in 1 .. Last /\ Last \in Nat /\ End = Last + 1
      BY LastIs DEF CursorInv
    <2>2. p \in 1 .. End
      BY <2>1 DEF Position
    <2>. HIDE DEF p
    <2>3. ASSUME NEW k2 \in Kinds, Fruitless(p, k1), ~(AtDeclaration(next) /\ k2 \in Declarers)
          PROVE  second(k1, k2) = alone(k2)
      BY <2>1, <2>2, <2>3, FruitlessStays
    <2>. HIDE DEF CursorInv
    <2>. QED  BY <2>3, Zenon DEF Fruitless, Comes
  <1>. QED  BY <1>1, <1>2, <1>3, PTL DEF Spec
-----------------------------------------------------------------------------
(***************************************************************************)
(* The words the check looks at.                                           *)
(***************************************************************************)

\* Columns are counted in a byte.
LEMMA ColumnStays == ASSUME NEW x \in Nat, x < Columns PROVE x % Columns = x
  BY ColumnsAssumption

NoBreak(s, i) == \A j \in s .. i - 1 : Byte(j) # Newline

\* A column is counted from where it was, or from behind the last newline passed.
LEMMA ColumnIs ==
    ASSUME Sized, NEW from \in 1 .. Last, NEW to \in from .. End, NEW column
    PROVE  LET m == Min({to, Last})
           IN  /\ m \in from .. Last
               /\ NoBreak(from, m) => ColumnAt(column, from, to) = (column + m - from) % Columns
               /\ ~NoBreak(from, m) =>
                     \E s \in from + 1 .. m : /\ LineStart(s) /\ NoBreak(s, m)
                                              /\ ColumnAt(column, from, to) = (m - s) % Columns
  <1>. DEFINE m == Min({to, Last})
              left == Newlines(from, m - 1)
  <1>1. Last \in Nat /\ End = Last + 1 /\ from \in Nat /\ to \in Nat /\ Size \in Nat /\ Last <= Size + 1
    BY LastIs DEF Sized
  <1>2. m \in from .. Last
    BY <1>1, MinMaxOfTwo
  <1>3. ColumnAt(column, from, to) = (IF left = {} THEN column + m - from ELSE m - 1 - Max(left)) % Columns
    BY DEF ColumnAt
  <1>. HIDE DEF m
  <1>4. left = {j \in from .. m - 1 : Byte(j) = Newline}
    BY DEF Newlines
  <1>. HIDE DEF left
  <1>5. CASE NoBreak(from, m)
    <2>1. left = {}
      BY <1>4, <1>5 DEF NoBreak
    <2>. QED  BY <1>2, <1>3, <1>5, <2>1 DEF m
  <1>6. CASE ~NoBreak(from, m)
    <2>1. left # {}
      BY <1>4, <1>6 DEF NoBreak
    <2>2. left \in SUBSET Nat /\ \A y \in left : y <= Last
      BY <1>1, <1>2, <1>4
    <2>4. Max(left) \in left /\ \A y \in left : y <= Max(left)
      BY <1>1, <2>1, <2>2, MaxOf
    <2>. DEFINE x == Max(left)
                s == x + 1
    <2>5. x \in from .. m - 1 /\ Byte(x) = Newline
      BY <1>4, <2>4
    <2>50. \A y \in left : y <= x
      BY <2>4
    <2>51. ColumnAt(column, from, to) = (m - 1 - x) % Columns
      BY <1>3, <2>1
    <2>. HIDE DEF x
    <2>52. m - 1 - x = m - s /\ s \in from + 1 .. m /\ s - 1 = x
      BY <1>1, <1>2, <2>5
    <2>6. ASSUME NEW j \in s .. m - 1 PROVE Byte(j) # Newline
      <3>1. j \in from .. m - 1 /\ ~(j <= x)
        BY <1>1, <1>2, <2>5
      <3>. QED  BY <1>4, <2>50, <3>1
    <2>7. ColumnAt(column, from, to) = (m - s) % Columns
      BY <2>51, <2>52
    <2>8. s \in from + 1 .. m
      BY <2>52
    <2>9. LineStart(s)
      <3>1. x <= Size /\ s > 1
        BY <1>1, <1>2, <2>5
      <3>. QED  BY <2>5, <2>52, <3>1 DEF LineStart, Byte
    <2>10. NoBreak(s, m)
      BY <2>6 DEF NoBreak
    <2>. HIDE DEF s
    <2>. QED  BY <1>2, <1>6, <2>7, <2>8, <2>9, <2>10 DEF m
  <1>. QED  BY <1>5, <1>6

\* Where the check stands, at a column c of a line of which s is the first
\* character or one that stands in for it: c is as many characters ahead as the
\* first word of the line was long, because that word was counted twice.
StandsFrom(s, i, c) ==
    /\ NoBreak(s, i)
    /\ \/ 2 * (i - s) >= Columns
       \/ \E e \in Nat : /\ 2 * e <= Columns /\ c = i - s + e /\ c < Columns
                         /\ \/ e = 0 /\ LineStart(s)
                            \/ e > 0 /\ (s < i \/ s = 1)
StandsAt(i, c) == \E s \in 1 .. i : StandsFrom(s, i, c)

LEMMA StandsForward ==
    ASSUME Sized, NEW i \in 1 .. Last, i < Size, NEW c, StandsAt(i, c)
    PROVE  StandsAt(i + 1, ColumnAt(c, i, i + 1))
  <1>. DEFINE to == i + 1
              d == ColumnAt(c, i, to)
  <1>1. /\ Last \in Nat /\ Size \in Nat /\ Size <= Last /\ End = Last + 1 /\ i \in Nat /\ i >= 1
        /\ Columns \in Nat /\ Columns >= 2
    BY LastIs, ColumnsAssumption DEF Sized
  <1>2. to \in i .. End /\ Min({to, Last}) = to /\ to \in Nat /\ to = i + 1
    BY <1>1, MinMaxOfTwo
  <1>3. /\ NoBreak(i, to) => d = (c + to - i) % Columns
        /\ ~NoBreak(i, to) => \E s \in i + 1 .. to : LineStart(s) /\ NoBreak(s, to) /\ d = (to - s) % Columns
    <2>. HIDE DEF to
    <2>. QED  BY <1>2, ColumnIs
  <1>. HIDE DEF to, d
  <1>4. CASE NoBreak(i, to)
    <2>1. PICK s \in 1 .. i : StandsFrom(s, i, c)
      BY DEF StandsAt
    <2>2. NoBreak(s, to)
      <3>1. \A j \in s .. to - 1 : j \in s .. i - 1 \/ j \in i .. to - 1
        BY <1>1, <1>2
      <3>. QED  BY <1>4, <2>1, <3>1 DEF StandsFrom, NoBreak
    <2>3. s \in 1 .. to /\ s \in Nat
      BY <1>1, <1>2
    <2>4. CASE 2 * (i - s) >= Columns
      <3>1. 2 * (to - s) >= Columns
        BY <1>1, <1>2, <2>3, <2>4
      <3>2. StandsFrom(s, to, d)
        BY <2>2, <3>1 DEF StandsFrom
      <3>. QED  BY <2>3, <3>2 DEF StandsAt, to, d
    <2>5. CASE ~(2 * (i - s) >= Columns)
      <3>1. PICK e \in Nat : /\ 2 * e <= Columns /\ c = i - s + e /\ c < Columns
                             /\ (e = 0 /\ LineStart(s)) \/ (e > 0 /\ (s < i \/ s = 1))
        BY <2>1, <2>5 DEF StandsFrom
      <3>2. c \in Nat /\ d = (c + 1) % Columns
        <4>1. c \in Nat /\ c + to - i = c + 1
          BY <1>1, <1>2, <2>3, <3>1
        <4>. QED  BY <1>3, <1>4, <4>1
      <3>3. CASE c + 1 < Columns
        <4>1. d = c + 1
          BY <3>2, <3>3, ColumnStays
        <4>2. d = to - s + e /\ d < Columns
          BY <1>1, <1>2, <2>3, <3>1, <3>3, <4>1
        <4>3. (e = 0 /\ LineStart(s)) \/ (e > 0 /\ (s < to \/ s = 1))
          BY <1>1, <1>2, <2>3, <3>1
        <4>4. StandsFrom(s, to, d)
          BY <2>2, <3>1, <4>2, <4>3 DEF StandsFrom
        <4>. QED  BY <2>3, <4>4 DEF StandsAt, to, d
      <3>4. CASE ~(c + 1 < Columns)
        <4>1. 2 * (to - s) >= Columns
          BY <1>1, <1>2, <2>3, <3>1, <3>2, <3>4
        <4>2. StandsFrom(s, to, d)
          BY <2>2, <4>1 DEF StandsFrom
        <4>. QED  BY <2>3, <4>2 DEF StandsAt, to, d
      <3>. QED  BY <3>3, <3>4
    <2>. QED  BY <2>4, <2>5
  <1>5. CASE ~NoBreak(i, to)
    <2>1. PICK s \in i + 1 .. to : LineStart(s) /\ NoBreak(s, to) /\ d = (to - s) % Columns
      BY <1>3, <1>5
    <2>2. s = to /\ to - s = 0
      BY <1>1, <1>2
    <2>3. d = 0
      BY <1>1, <2>1, <2>2, ColumnStays
    <2>4. StandsFrom(s, to, d)
      BY <1>1, <2>1, <2>2, <2>3 DEF StandsFrom
    <2>. QED  BY <1>1, <1>2, <2>2, <2>4 DEF StandsAt, to, d
  <1>. QED  BY <1>4, <1>5

\* The first call counts its first character as one that has been passed.
LEMMA StandsFirst ==
    ASSUME Sized, NEW t \in 1 .. End
    PROVE  StandsAt(Min({t, Last}), ColumnAt(1 % Columns, 1, t))
  <1>. DEFINE m == Min({t, Last})
              one == 1 % Columns
              d == ColumnAt(one, 1, t)
  <1>1. /\ Last \in Nat /\ Last >= 2 /\ End = Last + 1
        /\ Columns \in Nat /\ Columns >= 2 /\ one = 1
    BY LastIs, ColumnsAssumption, ColumnStays DEF Sized
  <1>2. 1 \in 1 .. Last
    BY <1>1
  <1>. HIDE DEF one
  <1>3. /\ m \in 1 .. Last
        /\ NoBreak(1, m) => d = (one + m - 1) % Columns
        /\ ~NoBreak(1, m) => \E s \in 1 + 1 .. m : LineStart(s) /\ NoBreak(s, m) /\ d = (m - s) % Columns
    BY <1>2, ColumnIs
  <1>. HIDE DEF m, d
  <1>4. CASE NoBreak(1, m)
    <2>1. d = m % Columns /\ 1 \in 1 .. m
      <3>1. one + m - 1 = m
        BY <1>1, <1>3
      <3>. QED  BY <1>3, <1>4, <3>1
    <2>2. CASE m < Columns
      <3>1. d = m - 1 + 1 /\ d < Columns
        BY <1>3, <2>1, <2>2, ColumnStays
      <3>2. 1 \in Nat /\ 2 * 1 <= Columns
        BY <1>1
      <3>3. StandsFrom(1, m, d)
        BY <1>4, <3>1, <3>2 DEF StandsFrom
      <3>. QED  BY <2>1, <3>3 DEF StandsAt, m, d, one
    <2>3. CASE ~(m < Columns)
      <3>1. 2 * (m - 1) >= Columns
        BY <1>1, <1>3, <2>3
      <3>2. StandsFrom(1, m, d)
        BY <1>4, <3>1 DEF StandsFrom
      <3>. QED  BY <2>1, <3>2 DEF StandsAt, m, d, one
    <2>. QED  BY <2>2, <2>3
  <1>5. CASE ~NoBreak(1, m)
    <2>1. PICK s \in 1 + 1 .. m : LineStart(s) /\ NoBreak(s, m) /\ d = (m - s) % Columns
      BY <1>3, <1>5
    <2>2. s \in 1 .. m /\ m - s \in Nat
      BY <1>3
    <2>3. CASE m - s < Columns
      <3>1. d = m - s + 0 /\ d < Columns
        BY <2>1, <2>2, <2>3, ColumnStays
      <3>2. 0 \in Nat /\ 2 * 0 <= Columns
        BY <1>1
      <3>3. StandsFrom(s, m, d)
        BY <2>1, <3>1, <3>2 DEF StandsFrom
      <3>. QED  BY <2>2, <3>3 DEF StandsAt, m, d, one
    <2>4. CASE ~(m - s < Columns)
      <3>1. 2 * (m - s) >= Columns
        BY <1>1, <2>2, <2>4
      <3>2. StandsFrom(s, m, d)
        BY <2>1, <3>1 DEF StandsFrom
      <3>. QED  BY <2>2, <3>2 DEF StandsAt, m, d, one
    <2>. QED  BY <2>3, <2>4
  <1>. QED  BY <1>4, <1>5

\* A character in column 0 opens its line, unless the line is long.
LEMMA ColumnZero ==
    ASSUME Sized, NEW i \in 1 .. Last, StandsAt(i, 0)
    PROVE  LineStart(i) \/ \E s \in 1 .. i - 1 : NoBreak(s, i) /\ 2 * (i - s) >= Columns
  <1>1. i \in Nat /\ i >= 1 /\ Columns \in Nat /\ Columns >= 2
    BY ColumnsAssumption
  <1>2. PICK s \in 1 .. i : StandsFrom(s, i, 0)
    BY DEF StandsAt
  <1>3. CASE 2 * (i - s) >= Columns
    <2>1. s \in 1 .. i - 1
      BY <1>1, <1>3
    <2>. QED  BY <1>2, <1>3, <2>1 DEF StandsFrom
  <1>4. CASE ~(2 * (i - s) >= Columns)
    <2>1. PICK e \in Nat : 0 = i - s + e /\ ((e = 0 /\ LineStart(s)) \/ (e > 0 /\ (s < i \/ s = 1)))
      BY <1>2, <1>4 DEF StandsFrom
    <2>2. e = 0 /\ i = s
      BY <1>1, <2>1
    <2>. QED  BY <2>1, <2>2
  <1>. QED  BY <1>3, <1>4

\* And a character that opens its line stands in column 0.
LEMMA OpensInColumnZero ==
    ASSUME Sized, NEW i \in 1 .. Last, NEW c, StandsAt(i, c), LineStart(i)
    PROVE  c = 0
  <1>1. /\ i \in Nat /\ i >= 1 /\ Columns \in Nat /\ Columns >= 2
        /\ Last \in Nat /\ Last <= Size + 1 /\ Size \in Nat
    BY LastIs, ColumnsAssumption DEF Sized
  <1>2. PICK s \in 1 .. i : StandsFrom(s, i, c)
    BY DEF StandsAt
  <1>3. i > 1 /\ Byte(i - 1) = Newline
    <2>1. i > 1 /\ i - 1 <= Size /\ text[i - 1] = Newline
      BY <1>1 DEF LineStart
    <2>. QED  BY <2>1 DEF Byte
  <1>4. s = i
    <2>1. ASSUME s # i PROVE FALSE
      <3>1. i - 1 \in s .. i - 1
        BY <1>1, <2>1
      <3>. QED  BY <1>2, <1>3, <3>1 DEF StandsFrom, NoBreak
    <2>. QED  BY <2>1
  <1>5. PICK e \in Nat : c = i - s + e /\ ((e = 0 /\ LineStart(s)) \/ (e > 0 /\ (s < i \/ s = 1)))
    BY <1>1, <1>2, <1>4 DEF StandsFrom
  <1>. QED  BY <1>1, <1>3, <1>4, <1>5

\* The words of the language are short for a byte of columns.
LEMMA KnownIsShort ==
    ASSUME NEW from \in Nat, NEW end \in Nat, from <= end, Known(Word(from, end))
    PROVE  2 * (end - from) <= Columns
  <1>1. PICK kind \in DOMAIN Tokens : Word(from, end) \in Tokens[kind]
    BY DEF Known
  <1>2. 2 * Len(Word(from, end)) <= Columns
    BY <1>1, WordsAssumption
  <1>3. Len(Word(from, end)) = end - from
    <2>. DEFINE n == end - from
    <2>1. n \in Nat
      OBVIOUS
    <2>2. Word(from, end) = [i \in 1 .. n |-> Byte(from + i - 1)]
      BY DEF Word
    <2>. HIDE DEF n
    <2>3. Len([i \in 1 .. n |-> Byte(from + i - 1)]) = n
      BY <2>1
    <2>. QED  BY <2>2, <2>3 DEF n
  <1>. QED  BY <1>2, <1>3

\* A word that has been looked at and gone back over.
LEMMA StandsAgain ==
    ASSUME Sized, NEW i \in 1 .. Last, i < Size, StandsAt(i, 0), Byte(i) \in Letters,
           NEW end \in i + 1 .. End, \A j \in i .. end - 1 : Byte(j) # Newline,
           2 * (end - i) <= Columns, NEW back \in 1 .. Last, back = IF end = End THEN i - 1 ELSE i
    PROVE  StandsAt(back + 1, ColumnAt(ColumnAt(0, i, end), back, back + 1))
  <1>. DEFINE c == ColumnAt(0, i, end)
              to == back + 1
              d == ColumnAt(c, back, to)
  <1>1. /\ Last \in Nat /\ Size \in Nat /\ Size <= Last /\ Last <= Size + 1 /\ End = Last + 1
        /\ i \in Nat /\ i >= 1 /\ Columns \in Nat /\ Columns >= 2 /\ back \in Nat /\ back >= 1
        /\ end \in Nat /\ end >= i + 1 /\ end <= End /\ 1 \in Nat
    BY LastIs, ColumnsAssumption DEF Sized
  <1>2. to \in back .. End /\ Min({to, Last}) = to /\ to \in {i, i + 1} /\ to = back + 1 /\ to \in Nat
    BY <1>1, MinMaxOfTwo
  <1>3. /\ NoBreak(back, to) => d = (c + to - back) % Columns
        /\ ~NoBreak(back, to) => \E s \in back + 1 .. to : LineStart(s) /\ NoBreak(s, to) /\ d = (to - s) % Columns
    <2>. HIDE DEF to, c
    <2>1. Min({to, Last}) = to /\ to \in back .. End
      BY <1>2
    <2>2. LET m == Min({to, Last})
          IN  /\ NoBreak(back, m) => ColumnAt(c, back, to) = (c + m - back) % Columns
              /\ ~NoBreak(back, m) =>
                    \E s \in back + 1 .. m : /\ LineStart(s) /\ NoBreak(s, m)
                                            /\ ColumnAt(c, back, to) = (m - s) % Columns
      BY <2>1, ColumnIs
    <2>. QED  BY <2>1, <2>2
  <1>4. Byte(i) # Newline
    BY WordIsNoNewline
  <1>5. end <= Last => c = end - i
    <2>1. (Min({end, Last}) = end /\ end \in i .. End) \/ ~(end <= Last)
      BY <1>1, MinMaxOfTwo
    <2>2. NoBreak(i, end)
      BY DEF NoBreak
    <2>3. end <= Last => c = (0 + end - i) % Columns
      BY <2>1, <2>2, ColumnIs
    <2>4. 0 + end - i = end - i /\ end - i \in Nat /\ end - i < Columns
      BY <1>1
    <2>. QED  BY <2>3, <2>4, ColumnStays
  <1>. HIDE DEF to, c, d
  <1>6. PICK s \in 1 .. i : StandsFrom(s, i, 0)
    BY DEF StandsAt
  <1>7. CASE 2 * (i - s) >= Columns
    <2>1. s < i /\ s \in 1 .. to /\ 2 * (to - s) >= Columns
      BY <1>1, <1>2, <1>7
    <2>2. NoBreak(s, to)
      <3>1. \A j \in s .. to - 1 : j \in s .. i - 1 \/ j = i
        BY <1>1, <1>2
      <3>. QED  BY <1>4, <1>6, <3>1 DEF StandsFrom, NoBreak
    <2>3. StandsFrom(s, to, d)
      BY <2>1, <2>2 DEF StandsFrom
    <2>. QED  BY <2>1, <2>3 DEF StandsAt, to, c, d
  <1>8. CASE ~(2 * (i - s) >= Columns)
    <2>1. PICK e \in Nat : 0 = i - s + e /\ ((e = 0 /\ LineStart(s)) \/ (e > 0 /\ (s < i \/ s = 1)))
      BY <1>6, <1>8 DEF StandsFrom
    <2>2. e = 0 /\ i = s /\ LineStart(i)
      BY <1>1, <2>1
    <2>3. CASE end = End
      <3>1. back = i - 1 /\ to = i
        BY <1>2, <2>3
      <3>2. Byte(back) = Newline
        <4>1. back <= Size /\ text[back] = Newline
          BY <1>1, <2>2, <3>1 DEF LineStart
        <4>. QED  BY <4>1 DEF Byte
      <3>3. ~NoBreak(back, to)
        <4>1. back \in back .. to - 1
          BY <1>1, <1>2
        <4>. QED  BY <3>2, <4>1 DEF NoBreak
      <3>4. PICK r \in back + 1 .. to : d = (to - r) % Columns
        BY <1>3, <3>3
      <3>5. to - r = 0
        BY <1>1, <1>2, <3>4
      <3>6. d = 0
        BY <1>1, <3>4, <3>5, ColumnStays
      <3>. QED  BY <3>1, <3>6 DEF to, c, d
    <2>4. CASE end # End
      <3>1. back = i /\ to = i + 1 /\ end <= Last
        BY <1>1, <1>2, <2>4
      <3>. DEFINE n == end - i
      <3>2. n \in Nat /\ n >= 1 /\ 2 * n <= Columns /\ c = n
        BY <1>1, <1>5, <3>1
      <3>. HIDE DEF n
      <3>3. NoBreak(i, to)
        BY <1>1, <1>4, <3>1 DEF NoBreak
      <3>4. d = (n + 1) % Columns
        <4>1. c + to - back = n + 1
          BY <1>1, <3>1, <3>2
        <4>. QED  BY <1>3, <3>1, <3>3, <4>1
      <3>5. i \in 1 .. to
        BY <1>1, <3>1
      <3>6. CASE n + 1 < Columns
        <4>1. d = n + 1
          BY <3>2, <3>4, <3>6, ColumnStays
        <4>2. d = to - i + n /\ d < Columns /\ n > 0 /\ i < to
          BY <1>1, <3>1, <3>2, <3>6, <4>1
        <4>3. StandsFrom(i, to, d)
          BY <3>2, <3>3, <4>2 DEF StandsFrom
        <4>. QED  BY <3>5, <4>3 DEF StandsAt, to, c, d
      <3>7. CASE ~(n + 1 < Columns)
        <4>1. 2 * (to - i) >= Columns
          BY <1>1, <3>1, <3>2, <3>7
        <4>2. StandsFrom(i, to, d)
          BY <3>3, <4>1 DEF StandsFrom
        <4>. QED  BY <3>5, <4>2 DEF StandsAt, to, c, d
      <3>. QED  BY <3>6, <3>7
    <2>. QED  BY <2>3, <2>4
  <1>. QED  BY <1>7, <1>8
\* The words that open a line and begin before a place have been looked at.
LookedBelow(n) == \A i \in 2 .. Size - 1 : i < n /\ LineStart(i) /\ text[i] \in Letters => i \in looked

\* Every word that has been looked at opens its line or stands far out in it.
LookedWell ==
    \A i \in looked : LineStart(i) \/ \E s \in 1 .. i - 1 :
        (\A j \in s .. i - 1 : text[j] # Newline) /\ 2 * (i - s) >= Columns

\* Where the check stands in the file and in its line.
CheckStands ==
    /\ index \in 1 .. Last
    /\ current_char = Byte(index) \/ (current_char = Nul /\ index = Last)
    /\ StandsAt(index, line_index)
    /\ LookedBelow(index)

CheckInv ==
    /\ Sized /\ LookedWell
    /\ phase = "new" => index = 1 /\ line_index = 1 % Columns
    /\ phase = "check" => CheckStands
    /\ phase = "idle" => LookedBelow(Size)

LEMMA CheckInit == Init => CheckInv
  <1>. SUFFICES ASSUME Init PROVE CheckInv
    OBVIOUS
  <1>1. phase = "new" /\ index = 1 /\ line_index = 1 % Columns /\ looked = {}
    BY DEF Init
  <1>2. Sized
    BY InitSized
  <1>. QED  BY <1>1, <1>2 DEF CheckInv, LookedWell

LEMMA NoLetters == (\A x \in Blanks : x \notin Letters) /\ Nul \notin Letters
  BY DEF Blanks, Newline, Letters, Nul

\* What a step leaves of what is known of the file and of the words looked at.
LEMMA TextShows ==
    ASSUME UNCHANGED <<text, behind>>
    PROVE  /\ Size' = Size /\ Last' = Last /\ End' = End /\ Sized' = Sized
           /\ \A i : LineStart(i)' = LineStart(i)
           /\ LookedBelow(Size)' = \A i \in 2 .. Size - 1 :
                                      i < Size /\ LineStart(i) /\ text[i] \in Letters => i \in looked'
           /\ looked' = looked /\ LookedWell => LookedWell'
  <1>1. /\ Size' = Size /\ Last' = Last /\ End' = End /\ Sized' = Sized
        /\ \A i : LineStart(i)' = LineStart(i)
    BY DEF Size, Last, End, Sized, LineStart
  <1>2. LookedBelow(Size)' = \A i \in 2 .. Size - 1 :
                                i < Size /\ LineStart(i) /\ text[i] \in Letters => i \in looked'
    BY <1>1 DEF LookedBelow
  <1>3. looked' = looked /\ LookedWell => LookedWell'
    BY <1>1 DEF LookedWell
  <1>. QED  BY <1>1, <1>2, <1>3

\* The check has come to stand at i, in column c, all words before i looked at.
LEMMA ComesToStand ==
    ASSUME UNCHANGED <<text, behind>>, NEW i \in 1 .. Last, NEW c, StandsAt(i, c),
           index' = i, line_index' = c,
           current_char' = Byte(i) \/ (current_char' = Nul /\ i = Last),
           \A j \in 2 .. Size - 1 : j < i /\ LineStart(j) /\ text[j] \in Letters => j \in looked'
    PROVE  CheckStands'
  <1>1. /\ Size' = Size /\ Last' = Last
        /\ \A j : LineStart(j)' = LineStart(j)
    BY TextShows
  <1>2. index' \in 1 .. Last'
    BY <1>1
  <1>3. current_char' = Byte(index)' \/ (current_char' = Nul /\ index' = Last')
    BY <1>1 DEF Byte
  <1>4. StandsAt(index, line_index)'
    <2>1. \A j : Byte(j)' = Byte(j)
      BY <1>1 DEF Byte
    <2>2. \A s, j : NoBreak(s, j)' = NoBreak(s, j)
      BY <2>1 DEF NoBreak
    <2>. QED  BY <1>1, <2>2 DEF StandsAt, StandsFrom
  <1>5. LookedBelow(index)'
    BY <1>1 DEF LookedBelow
  <1>. QED  BY <1>2, <1>3, <1>4, <1>5 DEF CheckStands

\* A step of the check that looks at no word.
LEMMA AdvanceStands ==
    ASSUME Sized, UNCHANGED <<text, behind>>, NEW from \in 1 .. Last, NEW to \in from .. End,
           Advance(from, to), StandsAt(Min({to, Last}), ColumnAt(line_index, from, to)),
           \A j \in 2 .. Size - 1 : j < Min({to, Last}) /\ LineStart(j) /\ text[j] \in Letters => j \in looked'
    PROVE  CheckStands'
  <1>. DEFINE m == Min({to, Last})
              c == ColumnAt(line_index, from, to)
  <1>1. Last \in Nat /\ End = Last + 1 /\ from \in Nat /\ from >= 1
    BY LastIs
  <1>2. m = IF to <= Last THEN to ELSE Last
    BY <1>1, MinMaxOfTwo
  <1>3. m \in 1 .. Last
    BY <1>1, <1>2
  <1>4. index' = m /\ line_index' = c /\ current_char' = IF to = End THEN Nul ELSE Byte(to)
    BY DEF Advance
  <1>5. current_char' = Byte(m) \/ (current_char' = Nul /\ m = Last)
    BY <1>1, <1>2, <1>4
  <1>6. StandsAt(m, c)
    OBVIOUS
  <1>7. \A j \in 2 .. Size - 1 : j < m /\ LineStart(j) /\ text[j] \in Letters => j \in looked'
    OBVIOUS
  <1>. HIDE DEF m, c
  <1>. QED  BY <1>3, <1>4, <1>5, <1>6, <1>7, ComesToStand

LEMMA CheckKept == CheckInv /\ [Next]_vars => CheckInv'
  <1>. SUFFICES ASSUME CheckInv, [Next]_vars PROVE CheckInv'
    OBVIOUS
  <1>1. UNCHANGED <<text, behind>> /\ Sized /\ LookedWell
    BY TextKept DEF CheckInv
  <1>2. /\ Sized' /\ Size' = Size
        /\ looked' = looked => LookedWell'
    BY <1>1, TextShows
  <1>3. /\ Last \in Nat /\ Size \in Nat /\ Size <= Last /\ Last <= Size + 1 /\ End = Last + 1 /\ Last >= 2
        /\ Columns \in Nat /\ Columns >= 2
    BY <1>1, LastIs, ColumnsAssumption DEF Sized
  <1>4. phase' = "check" /\ CheckStands' /\ LookedWell' => CheckInv'
    BY <1>2 DEF CheckInv
  <1>5. CASE BeginCheck
    <2>1. phase = "new" /\ looked' = looked
      BY <1>5 DEF BeginCheck
    <2>2. CASE phase' = "error"
      BY <1>2, <2>1, <2>2 DEF CheckInv
    <2>3. CASE phase' # "error"
      <3>. DEFINE t == SkipFrom(1, Blanks)
                  m == Min({t, Last})
      <3>1. phase' = "check" /\ Advance(1, t)
        BY <1>5, <2>3 DEF BeginCheck
      <3>2. 1 \in 1 .. Last /\ 1 \in 1 .. End
        BY <1>3
      <3>3. t \in 1 .. End /\ \A q \in 1 .. t - 1 : Byte(q) \in Blanks
        BY <1>1, <3>2, SkipIs
      <3>. HIDE DEF t
      <3>4. m = IF t <= Last THEN t ELSE Last
        BY <1>3, <3>3, MinMaxOfTwo
      <3>5. line_index = 1 % Columns
        BY <2>1 DEF CheckInv
      <3>6. StandsAt(m, ColumnAt(line_index, 1, t))
        BY <1>1, <3>3, <3>5, StandsFirst
      <3>7. ASSUME NEW j \in 2 .. Size - 1, j < m, LineStart(j), text[j] \in Letters PROVE j \in looked'
        <4>1. j \in 1 .. t - 1 /\ Byte(j) = text[j]
          BY <1>3, <3>3, <3>4, <3>7 DEF Byte
        <4>2. text[j] \in Blanks
          BY <3>3, <4>1
        <4>. QED  BY <3>7, <4>2, NoLetters
      <3>8. CheckStands'
        BY <1>1, <3>1, <3>2, <3>3, <3>6, <3>7, AdvanceStands
      <3>. QED  BY <1>2, <1>4, <2>1, <3>1, <3>8
    <2>. QED  BY <2>2, <2>3
  <1>6. CASE CheckRound
    <2>. DEFINE to == index + 1
    <2>1. /\ phase = "check" /\ phase' = "check" /\ index < Size /\ looked' = looked
          /\ Advance(index, to)
          /\ ~(line_index = 0 /\ current_char \in Letters)
      BY <1>6 DEF CheckRound, MoreToCheck, LooksAtWord
    <2>2. CheckStands
      BY <2>1 DEF CheckInv
    <2>3. index \in 1 .. Last /\ StandsAt(index, line_index)
      BY <2>2 DEF CheckStands
    <2>4. to \in index .. End /\ Min({to, Last}) = to /\ to = index + 1
      BY <1>3, <2>1, <2>3, MinMaxOfTwo
    <2>5. StandsAt(to, ColumnAt(line_index, index, to))
      BY <1>1, <2>1, <2>3, StandsForward
    <2>6. current_char = Byte(index) /\ Byte(index) = text[index]
      BY <1>3, <2>1, <2>2 DEF CheckStands, Byte
    <2>7. ~(LineStart(index) /\ text[index] \in Letters)
      BY <1>1, <2>1, <2>3, <2>6, OpensInColumnZero
    <2>. HIDE DEF to
    <2>8. ASSUME NEW j \in 2 .. Size - 1, j < Min({to, Last}), LineStart(j), text[j] \in Letters
          PROVE  j \in looked'
      <3>1. j < index \/ j = index
        BY <2>3, <2>4, <2>8
      <3>2. j < index
        BY <2>7, <2>8, <3>1
      <3>. QED  BY <2>1, <2>2, <2>8, <3>2 DEF CheckStands, LookedBelow
    <2>9. StandsAt(Min({to, Last}), ColumnAt(line_index, index, to))
      BY <2>4, <2>5
    <2>10. CheckStands'
      BY <1>1, <2>1, <2>3, <2>4, <2>8, <2>9, AdvanceStands
    <2>. QED  BY <1>2, <1>4, <2>1, <2>10
  <1>7. CASE LookAtWord
    <2>. DEFINE end == KeywordEnd(index, TRUE)
                back == Back(end, end - index)
                to == back + 1
    <2>1. /\ phase = "check" /\ index < Size /\ looked' = looked \cup {index}
          /\ line_index = 0 /\ current_char \in Letters
      BY <1>7 DEF LookAtWord, MoreToCheck, LooksAtWord
    <2>2. CheckStands
      BY <2>1 DEF CheckInv
    <2>3. index \in 1 .. Last /\ StandsAt(index, 0)
      BY <2>1, <2>2 DEF CheckStands
    <2>4. Byte(index) \in Letters
      BY <1>3, <2>1, <2>2 DEF CheckStands
    <2>5. LookedWell'
      <3>1. LineStart(index) \/ \E s \in 1 .. index - 1 : NoBreak(s, index) /\ 2 * (index - s) >= Columns
        BY <1>1, <2>3, ColumnZero
      <3>2. \A s \in 1 .. index - 1 : NoBreak(s, index) => \A j \in s .. index - 1 : text[j] # Newline
        <4>. SUFFICES ASSUME NEW s \in 1 .. index - 1, NoBreak(s, index), NEW j \in s .. index - 1
                      PROVE  text[j] # Newline
          OBVIOUS
        <4>1. j <= Size
          BY <1>3, <2>1, <2>3
        <4>. QED  BY <4>1 DEF NoBreak, Byte
      <3>3. LineStart(index) \/ \E s \in 1 .. index - 1 :
               (\A j \in s .. index - 1 : text[j] # Newline) /\ 2 * (index - s) >= Columns
        BY <3>1, <3>2
      <3>. HIDE DEF CheckInv
      <3>4. \A i \in looked' : LineStart(i) \/ \E s \in 1 .. i - 1 :
               (\A j \in s .. i - 1 : text[j] # Newline) /\ 2 * (i - s) >= Columns
        BY <1>1, <2>1, <3>3 DEF LookedWell
      <3>. QED  BY <1>1, <3>4, TextShows DEF LookedWell
    <2>6. CASE phase' # "check"
      <3>1. phase' \in {"unknown", "wild"}
        BY <1>7, <2>1, <2>6 DEF LookAtWord
      <3>. QED  BY <1>2, <2>5, <3>1 DEF CheckInv
    <2>7. CASE phase' = "check"
      <3>1. /\ Known(Word(index, end)) /\ back >= 1 /\ index' = to /\ current_char' = Byte(to)
            /\ line_index' = ColumnAt(ColumnAt(line_index, index, end), back, to)
        BY <1>7, <2>7 DEF LookAtWord
      <3>2. index \in 1 .. End /\ index <= Last /\ index \in Nat
        BY <1>3, <2>3
      <3>3. /\ end \in index .. End /\ end >= index + 1
            /\ \A j \in index .. end - 1 : Byte(j) # Newline
        BY <1>1, <2>4, <3>2, KeywordEndIs, WordIsNoNewline
      <3>. HIDE DEF end
      <3>4. back = IF end = End THEN index - 1 ELSE index
        BY <1>1, <3>2, <3>3, BackIs
      <3>. HIDE DEF back
      <3>5. end \in index + 1 .. End /\ end \in Nat /\ index <= end /\ back \in 1 .. Last
        BY <1>3, <2>3, <3>1, <3>3, <3>4
      <3>6. 2 * (end - index) <= Columns
        BY <3>1, <3>2, <3>5, KnownIsShort
      <3>7. StandsAt(to, line_index')
        BY <1>1, <2>1, <2>3, <2>4, <3>1, <3>3, <3>4, <3>5, <3>6, StandsAgain
      <3>8. to \in 1 .. Last /\ to \in {index, index + 1}
        BY <1>3, <2>1, <2>3, <3>4, <3>5
      <3>. HIDE DEF to
      <3>9. ASSUME NEW j \in 2 .. Size - 1, j < to, LineStart(j), text[j] \in Letters PROVE j \in looked'
        <4>1. j < index \/ j = index
          BY <3>2, <3>8, <3>9
        <4>. QED  BY <2>1, <2>2, <3>9, <4>1 DEF CheckStands, LookedBelow
      <3>. DEFINE c == line_index'
      <3>10. StandsAt(to, c) /\ line_index' = c
        BY <3>7
      <3>. HIDE DEF c, CheckInv
      <3>11. CheckStands'
        BY <1>1, <3>1, <3>8, <3>9, <3>10, ComesToStand
      <3>. QED  BY <1>4, <2>5, <2>7, <3>11
    <2>. QED  BY <2>6, <2>7
  <1>8. CASE \E kind \in Kinds, override \in BOOLEAN : EndCheck(kind, override)
    <2>1. PICK kind \in Kinds, override \in BOOLEAN : EndCheck(kind, override)
      BY <1>8
    <2>2. /\ phase = "check" /\ ~(index < Size /\ line <= MaxLine) /\ line <= MaxLine /\ looked' = looked
          /\ phase' \in {"error", "wild", "idle"}
      BY <2>1 DEF EndCheck, MoreToCheck, Leave
    <2>3. index \in 1 .. Last /\ LookedBelow(index)
      BY <2>2 DEF CheckInv, CheckStands
    <2>4. LookedBelow(Size)'
      <3>1. \A j \in 2 .. Size - 1 : j < index
        BY <1>3, <2>2, <2>3
      <3>2. \A i \in 2 .. Size - 1 : i < Size /\ LineStart(i) /\ text[i] \in Letters => i \in looked'
        BY <2>2, <2>3, <3>1 DEF LookedBelow
      <3>. QED  BY <1>1, <3>2, TextShows
    <2>. QED  BY <1>2, <2>2, <2>4 DEF CheckInv
  <1>9. CASE \E kind \in Kinds, override \in BOOLEAN : TryGetToken(kind, override)
    <2>1. PICK kind \in Kinds, override \in BOOLEAN : TryGetToken(kind, override)
      BY <1>9
    <2>2. phase = "idle" /\ looked' = looked /\ phase' \in {"error", "wild", "idle"}
      BY <2>1 DEF TryGetToken, Leave
    <2>3. LookedBelow(Size)
      BY <2>2 DEF CheckInv
    <2>4. LookedBelow(Size)'
      BY <1>1, <2>2, <2>3, TextShows DEF LookedBelow
    <2>. QED  BY <1>2, <2>2, <2>4 DEF CheckInv
  <1>10. CASE UNCHANGED vars
    <2>1. UNCHANGED <<text, behind, index, current_char, line_index, phase, looked>>
      BY <1>10 DEF vars
    <2>2. CheckStands => CheckStands'
      <3>. SUFFICES ASSUME CheckStands PROVE CheckStands'
        OBVIOUS
      <3>1. index \in 1 .. Last /\ StandsAt(index, line_index)
        BY DEF CheckStands
      <3>2. current_char' = Byte(index) \/ (current_char' = Nul /\ index = Last)
        BY <2>1 DEF CheckStands
      <3>3. \A j \in 2 .. Size - 1 : j < index /\ LineStart(j) /\ text[j] \in Letters => j \in looked'
        BY <2>1 DEF CheckStands, LookedBelow
      <3>. QED  BY <2>1, <3>1, <3>2, <3>3, ComesToStand
    <2>3. LookedBelow(Size) => LookedBelow(Size)'
      BY <1>1, <2>1, TextShows DEF LookedBelow
    <2>. QED  BY <1>2, <2>1, <2>2, <2>3 DEF CheckInv
  <1>. QED  BY <1>5, <1>6, <1>7, <1>8, <1>9, <1>10 DEF Next, Check

\* The check that the first call makes looks at every word that opens a line
\* behind the first, up to the last character but one, and at nothing else unless
\* its line is as long as half the columns a byte can count: the columns, counted
\* once more for the word that opens the line, come to 0 nowhere else.
THEOREM CheckMissesNothing == Spec => []CheckLooksAtLines
  <1>1. Init => CheckInv
    BY CheckInit
  <1>2. CheckInv /\ [Next]_vars => CheckInv'
    BY CheckKept
  <1>3. CheckInv => CheckLooksAtLines
    <2>. SUFFICES ASSUME CheckInv PROVE CheckLooksAtLines
      OBVIOUS
    <2>1. Size \in Nat /\ LookedWell
      BY DEF CheckInv, Sized
    <2>2. phase = "idle" => \A i \in 2 .. Size - 1 : LineStart(i) /\ text[i] \in Letters => i \in looked
      BY <2>1 DEF CheckInv, LookedBelow
    <2>. QED  BY <2>1, <2>2 DEF CheckLooksAtLines, LookedWell
  <1>. QED  BY <1>1, <1>2, <1>3, PTL DEF Spec
=============================================================================
