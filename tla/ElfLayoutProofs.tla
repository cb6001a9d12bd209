-------------------------- MODULE ElfLayoutProofs --------------------------
(***************************************************************************)
(* Proofs about a save, for any number of sections and segments, in        *)
(* whatever order and nesting, and for any number of saves and loads.      *)
(***************************************************************************)
EXTENDS ElfLayoutProperties, OrderLemmas, FiniteSetTheorems, FunctionTheorems, SequenceTheorems

\* The place of the next section does not pass the largest position that an
\* Elf_Xword can hold.
Ends(i, at) == at + (IF NoBits(i) \/ Null(i) THEN 0 ELSE secs[i].size)
RoomInFile ==
    /\ pc = "sections" /\ cur.next <= Len(Seg.members) /\ ~Behind(Member) /\ Member \notin generated =>
           Ends(Member, pos + SectionAlign(Member)) < Word
    /\ pc = "loose" => \A i \in Loose : Ends(i, pos + Padding(pos, secs[i].align)) < Word

N == Number(secs)
Indices == 0 .. N - 1
Phases == {"built", "order", "segments", "sections", "loose", "saved", "failed"}

Typed ==
    /\ N \in Nat \ {0} /\ secs \in [Indices -> SectionHeaders] /\ Null(0)
    /\ segs \in Seq(SegmentHeaders(N))
    /\ pos \in Nat /\ shoff \in Nat /\ pc \in Phases /\ generated \subseteq Indices
    /\ queue \in Seq(DOMAIN segs) /\ ordered \in Seq(DOMAIN segs)
    /\ cur \in [seg : Nat, next : Nat \ {0}, start : Nat, filesz : Nat, memsz : Nat]
    /\ pc = "sections" => cur.seg \in DOMAIN segs
    /\ pc = "saved" => file.secs = secs /\ file.segs = segs /\ file.shoff = shoff

Laying == pc \in {"order", "segments", "sections", "loose", "saved"}
WithBits(i) == ~NoBits(i) /\ ~Null(i) /\ secs[i].size > 0

\* Whatever has been placed lies behind the headers and before the position, or
\* before the section table once that is placed.
Limit == IF pc = "saved" THEN shoff ELSE pos
Apart(i, j) ==
    \/ secs[i].offset + secs[i].size <= secs[j].offset
    \/ secs[j].offset + secs[j].size <= secs[i].offset
Placed ==
    Laying =>
        /\ HeadersEnd <= Limit
        /\ \A i \in generated : WithBits(i) =>
              /\ HeadersEnd <= secs[i].offset /\ secs[i].offset + secs[i].size <= Limit
              /\ \A j \in generated : WithBits(j) /\ i # j => Apart(i, j)

\* No segment is lost while the segments are ordered and laid out, so that no
\* section keeps an offset of another save.
Waiting == ToSet(queue) \cup (IF pc = "order" THEN ToSet(ordered) ELSE {})
Finished(s) == MemberSet(segs[s]) \subseteq generated
Accounted == \A s \in DOMAIN segs :
    s \in Waiting \/ Finished(s) \/ (pc = "sections" /\ s = cur.seg)
Complete ==
    /\ Laying => Accounted
    /\ pc \in {"loose", "saved"} => queue = <<>>
    /\ pc = "sections" =>
          \A k \in DOMAIN Seg.members : k < cur.next => Seg.members[k] \in generated
    /\ pc = "saved" => Indices \subseteq generated

LayInv == Typed /\ Placed /\ Complete
-----------------------------------------------------------------------------
LEMMA ModIs == \A a \in Int, b \in Nat \ {0} : a % b \in Nat /\ a % b < b
  OBVIOUS

LEMMA PaddingIs ==
    ASSUME NEW p \in Nat, NEW a \in Nat
    PROVE  Padding(p, a) \in Nat
  <1>1. CASE a > 1
    <2>1. p % a \in Nat /\ a - (p % a) \in Int /\ a \in Nat \ {0}
      BY <1>1, ModIs
    <2>. QED  BY <1>1, <2>1, ModIs DEF Padding
  <1>2. CASE ~(a > 1)
    BY <1>2 DEF Padding
  <1>. QED  BY <1>1, <1>2

\* load looks at one section after the other.
FoundBy(w, g, ss) ==
    /\ w[0] = <<>>
    /\ \A k \in 1 .. Number(ss) :
          w[k] = IF Holds(g, ss[k - 1]) THEN Append(w[k - 1], k - 1) ELSE w[k - 1]

LEMMA FoundSteps ==
    ASSUME NEW g, NEW ss, Number(ss) \in Nat
    PROVE  \E w : FoundBy(w, g, ss) /\ Found(g, ss) = w[Number(ss)]
  <1>. DEFINE n == Number(ss)
              T == Seq(0 .. n - 1)
              K == [i \in 0 .. n |-> T]
              step == [i \in 1 .. n |-> [x \in T |->
                          IF Holds(g, ss[i - 1]) THEN Append(x, i - 1) ELSE x]]
              W == CHOOSE among : among = [k \in 0 .. Number(ss) |->
                      IF k = 0 THEN <<>>
                      ELSE IF Holds(g, ss[k - 1]) THEN Append(among[k - 1], k - 1) ELSE among[k - 1]]
              start == <<>>
  <1>1. \A i \in 1 .. n : \A x \in K[i - 1] : step[i][x] \in K[i]
    <2>. SUFFICES ASSUME NEW i \in 1 .. n, NEW x \in T
                  PROVE  (IF Holds(g, ss[i - 1]) THEN Append(x, i - 1) ELSE x) \in T
      OBVIOUS
    <2>1. i - 1 \in 0 .. n - 1
      OBVIOUS
    <2>. QED  BY <2>1, AppendProperties
  <1>2. PICK w : /\ w = [i \in 0 .. n |-> w[i]] /\ w[0] = start
                 /\ \A i \in 1 .. n : w[i] = step[i][w[i - 1]]
                 /\ \A i \in 0 .. n : w[i] \in K[i]
    <2>1. start \in K[0] /\ n \in Nat
      OBVIOUS
    <2>. HIDE DEF K, step, n, T, W, start
    <2>2. \E w : Loops(w, n, K, start, step)
      BY <1>1, <2>1, LoopExists
    <2>. QED  BY <2>2 DEF Loops
  <1>3. \A k \in 1 .. n : w[k] = IF Holds(g, ss[k - 1]) THEN Append(w[k - 1], k - 1) ELSE w[k - 1]
    <2>. TAKE k \in 1 .. n
    <2>1. k \in 0 .. n /\ k - 1 \in 0 .. n
      OBVIOUS
    <2>2. w[k - 1] \in T
      BY <1>2, <2>1
    <2>. QED  BY <1>2, <2>2
  <1>4. w = [k \in 0 .. Number(ss) |->
                IF k = 0 THEN <<>>
                ELSE IF Holds(g, ss[k - 1]) THEN Append(w[k - 1], k - 1) ELSE w[k - 1]]
    <2>1. w = [i \in 0 .. n |-> w[i]]
      BY <1>2
    <2>2. \A k \in 0 .. n : k = 0 \/ k \in 1 .. n
      OBVIOUS
    <2>. QED  BY <1>2, <1>3, <2>1, <2>2
  <1>5. W = [k \in 0 .. Number(ss) |->
                IF k = 0 THEN <<>>
                ELSE IF Holds(g, ss[k - 1]) THEN Append(W[k - 1], k - 1) ELSE W[k - 1]]
    BY <1>4, Zenon
  <1>6. Found(g, ss) = W[Number(ss)]
    BY Zenon DEF Found
  <1>. HIDE DEF W
  <1>7. FoundBy(W, g, ss)
    <2>1. \A k \in 1 .. n : k \in 0 .. n /\ k # 0
      OBVIOUS
    <2>2. 0 \in 0 .. n
      OBVIOUS
    <2>. QED  BY <1>5, <2>1, <2>2 DEF FoundBy
  <1>. QED  BY <1>6, <1>7

\* load gives a segment numbers of sections.
LEMMA FoundIs ==
    ASSUME NEW g, NEW ss, Number(ss) \in Nat
    PROVE  Found(g, ss) \in Seq(0 .. Number(ss) - 1)
  <1>. DEFINE n == Number(ss)
              T == Seq(0 .. n - 1)
              K == [i \in 0 .. n |-> T]
  <1>1. PICK w : FoundBy(w, g, ss) /\ Found(g, ss) = w[n]
    BY FoundSteps
  <1>2. w[0] \in K[0]
    BY <1>1 DEF FoundBy
  <1>3. ASSUME NEW i \in 1 .. n, w[i - 1] \in K[i - 1] PROVE w[i] \in K[i]
    <2>0. K[i] = T /\ K[i - 1] = T
      OBVIOUS
    <2>1. i - 1 \in 0 .. n - 1 /\ w[i - 1] \in T
      BY <1>3, <2>0
    <2>2. CASE Holds(g, ss[i - 1])
      <3>1. w[i] = Append(w[i - 1], i - 1)
        BY <1>1, <2>2 DEF FoundBy
      <3>2. Append(w[i - 1], i - 1) \in T
        BY <2>1, AppendProperties
      <3>3. w[i] \in T
        BY <3>1, <3>2
      <3>. QED  BY <2>0, <3>3
    <2>3. CASE ~Holds(g, ss[i - 1])
      <3>1. w[i] = w[i - 1]
        BY <1>1, <2>3 DEF FoundBy
      <3>. QED  BY <2>0, <2>1, <3>1
    <2>. QED  BY <2>2, <2>3
  <1>4. n \in 0 .. n /\ K[n] = T
    OBVIOUS
  <1>. HIDE DEF K, n
  <1>5. w[n] \in K[n]
    BY <1>2, <1>3, <1>4, LoopStays DEF n
  <1>. QED  BY <1>1, <1>4, <1>5 DEF n

\* calc_segment_alignment only raises the alignment, to that of some section.
LEMMA RaisedIs ==
    ASSUME NEW n \in Nat, NEW ss \in [0 .. n - 1 -> SectionHeaders], NEW g \in SegmentHeaders(n)
    PROVE  Raised(g, ss) \in SegmentHeaders(n) /\ Raised(g, ss).members = g.members
  <1>. DEFINE ms == g.members
              m == Len(ms)
              f == [k \in 1 .. m |-> ss[ms[k]].align]
              A == {g.align} \cup {ss[ms[k]].align : k \in DOMAIN ms}
  <1>1. ms \in Seq(0 .. n - 1) /\ m \in Nat /\ DOMAIN ms = 1 .. m /\ g.align \in Nat
    BY DEF SegmentHeaders
  <1>2. \A k \in 1 .. m : ss[ms[k]].align \in Nat /\ f[k] = ss[ms[k]].align
    <2>. TAKE k \in 1 .. m
    <2>1. ms[k] \in 0 .. n - 1
      BY <1>1, ElementOfSeq
    <2>2. ss[ms[k]] \in SectionHeaders
      BY <2>1
    <2>. QED  BY <2>2 DEF SectionHeaders
  <1>3. A \in SUBSET Nat /\ A # {}
    BY <1>1, <1>2
  <1>4. PICK b \in Nat : \A k \in 1 .. m : f[k] <= b
    <2>1. \A k \in 1 .. m : f[k] \in Nat
      BY <1>2
    <2>. HIDE DEF f, m
    <2>. QED  BY <1>1, <2>1, BoundOf
  <1>5. b + g.align \in Nat /\ \A y \in A : y <= b + g.align
    <2>1. \A y \in A : y = g.align \/ \E k \in 1 .. m : y = f[k]
      BY <1>1, <1>2
    <2>2. \A k \in 1 .. m : f[k] \in Nat /\ f[k] <= b
      BY <1>2, <1>4
    <2>3. g.align \in Nat /\ b \in Nat
      BY <1>1, <1>4
    <2>. HIDE DEF f, m, A
    <2>. QED  BY <2>1, <2>2, <2>3
  <1>6. Max(A) \in Nat
    <2>. DEFINE c == b + g.align
    <2>1. c \in Nat /\ \A y \in A : y <= c
      BY <1>5
    <2>. HIDE DEF A, c
    <2>. QED  BY <1>3, <2>1, MaxOf
  <1>7. Raised(g, ss) = [g EXCEPT !.align = Max(A)]
    BY Zenon DEF Raised
  <1>. HIDE DEF A
  <1>. QED  BY <1>6, <1>7 DEF SegmentHeaders

\* get_ordered_segments exchanges segments and loses none.
Orders(n) == {a \in [1 .. n -> 1 .. n] : \A v \in 1 .. n : \E k \in 1 .. n : a[k] = v}

LEMMA SwapIs ==
    ASSUME NEW n \in Nat, NEW a \in Orders(n), NEW i \in 1 .. n, NEW j \in 1 .. n
    PROVE  [a EXCEPT ![i] = a[j], ![j] = a[i]] \in Orders(n)
  <1>. DEFINE b == [a EXCEPT ![i] = a[j], ![j] = a[i]]
  <1>1. b \in [1 .. n -> 1 .. n]
    BY DEF Orders
  <1>2. b[i] = a[j] /\ b[j] = a[i] /\ \A k \in (1 .. n) \ {i, j} : b[k] = a[k]
    BY DEF Orders
  <1>3. ASSUME NEW v \in 1 .. n PROVE \E k \in 1 .. n : b[k] = v
    <2>1. PICK k \in 1 .. n : a[k] = v
      BY DEF Orders
    <2>. QED  BY <1>2, <2>1
  <1>. HIDE DEF b
  <1>. QED  BY <1>1, <1>3 DEF Orders

States(n, i) == [list : Orders(n), slot : 1 .. i + 1]

LEMMA MovedIs ==
    ASSUME NEW n \in Nat, NEW i \in 1 .. n, NEW acc \in States(n, i - 1)
    PROVE  Moved(acc, i) \in States(n, i)
  <1>. DEFINE w == acc.list
              slot == IF segs[w[acc.slot]].offset = 0 THEN acc.slot + 1 ELSE acc.slot
              b == [w EXCEPT ![i] = w[slot], ![slot] = w[i]]
  <1>1. w \in Orders(n) /\ acc.slot \in 1 .. i
    BY DEF States
  <1>2. CASE i # acc.slot /\ segs[w[i]].set /\ segs[w[i]].offset = 0
    <2>1. slot \in 1 .. i /\ slot \in 1 .. n
      BY <1>1, <1>2
    <2>2. b \in Orders(n)
      <3>. HIDE DEF slot, w
      <3>. QED  BY <1>1, <2>1, SwapIs
    <2>3. Moved(acc, i) = [list |-> b, slot |-> slot + 1]
      BY <1>2 DEF Moved
    <2>. HIDE DEF b, slot
    <2>. QED  BY <2>1, <2>2, <2>3 DEF States
  <1>3. CASE ~(i # acc.slot /\ segs[w[i]].set /\ segs[w[i]].offset = 0)
    <2>1. Moved(acc, i) = acc
      BY <1>3 DEF Moved
    <2>. QED  BY <2>1 DEF States
  <1>. QED  BY <1>2, <1>3

LEMMA ZeroToFrontIs ==
    ASSUME NEW count \in Nat
    PROVE  ZeroToFront([s \in 1 .. count |-> s]) \in Orders(count)
  <1>. DEFINE q == [s \in 1 .. count |-> s]
              start == [list |-> q, slot |-> 1]
              K == [i \in 0 .. count |-> States(count, i)]
              step == [i \in 1 .. count |-> [x \in K[i - 1] |-> Moved(x, i)]]
              W == CHOOSE after : after = [i \in 0 .. Len(q) |->
                       IF i = 0 THEN [list |-> q, slot |-> 1] ELSE Moved(after[i - 1], i)]
  <1>1. Len(q) = count
    OBVIOUS
  <1>2. start \in K[0]
    <2>1. q \in [1 .. count -> 1 .. count] /\ \A v \in 1 .. count : q[v] = v
      OBVIOUS
    <2>2. q \in Orders(count)
      <3>. HIDE DEF q
      <3>. QED  BY <2>1 DEF Orders
    <2>3. K[0] = States(count, 0)
      OBVIOUS
    <2>. HIDE DEF q, K
    <2>. QED  BY <2>2, <2>3 DEF States
  <1>3. \A i \in 1 .. count : \A x \in K[i - 1] : step[i][x] \in K[i]
    <2>. TAKE i \in 1 .. count
    <2>1. K[i - 1] = States(count, i - 1) /\ K[i] = States(count, i)
      OBVIOUS
    <2>. TAKE x \in K[i - 1]
    <2>2. step[i][x] = Moved(x, i)
      OBVIOUS
    <2>. HIDE DEF K, step
    <2>. QED  BY <2>1, <2>2, MovedIs
  <1>4. PICK w : /\ w = [i \in 0 .. count |-> w[i]] /\ w[0] = start
                 /\ \A i \in 1 .. count : w[i] = step[i][w[i - 1]]
                 /\ \A i \in 0 .. count : w[i] \in K[i]
    <2>1. count \in Nat /\ start \in K[0]
      BY <1>2
    <2>2. \A i \in 1 .. count : \A x \in K[i - 1] : step[i][x] \in K[i]
      BY <1>3
    <2>. HIDE DEF K, step, q, W, start
    <2>3. \E w : Loops(w, count, K, start, step)
      BY <2>1, <2>2, LoopExists
    <2>. QED  BY <2>3 DEF Loops
  <1>5. \A k \in 0 .. count : w[k] = IF k = 0 THEN start ELSE Moved(w[k - 1], k)
    <2>. TAKE k \in 0 .. count
    <2>1. CASE k = 0
      BY <1>4, <2>1
    <2>2. CASE k # 0
      <3>1. k \in 1 .. count /\ k - 1 \in 0 .. count
        BY <2>2
      <3>2. w[k - 1] \in K[k - 1]
        BY <1>4, <3>1
      <3>3. w[k] = step[k][w[k - 1]]
        BY <1>4, <3>1
      <3>4. step[k][w[k - 1]] = Moved(w[k - 1], k)
        <4>. HIDE DEF K
        <4>. QED  BY <3>1, <3>2
      <3>. QED  BY <2>2, <3>3, <3>4
    <2>. QED  BY <2>1, <2>2
  <1>6. w = [i \in 0 .. Len(q) |->
                IF i = 0 THEN [list |-> q, slot |-> 1] ELSE Moved(w[i - 1], i)]
    <2>1. w = [i \in 0 .. count |-> w[i]]
      BY <1>4
    <2>2. w = [i \in 0 .. count |-> IF i = 0 THEN start ELSE Moved(w[i - 1], i)]
      BY <1>5, <2>1
    <2>. QED  BY <1>1, <2>2
  <1>7. W = [i \in 0 .. Len(q) |->
                IF i = 0 THEN [list |-> q, slot |-> 1] ELSE Moved(W[i - 1], i)]
    BY <1>6, Zenon
  <1>8. ZeroToFront(q) = W[Len(q)].list
    BY Zenon DEF ZeroToFront
  <1>. HIDE DEF W
  <1>9. \A i \in 0 .. count : W[i] = IF i = 0 THEN start ELSE Moved(W[i - 1], i)
    BY <1>1, <1>7
  <1>10. \A i \in 0 .. count : W[i] \in K[i]
    <2>1. W[0] \in K[0]
      <3>1. W[0] = start
        BY <1>9
      <3>. QED  BY <1>2, <3>1
    <2>2. ASSUME NEW i \in 1 .. count, W[i - 1] \in K[i - 1] PROVE W[i] \in K[i]
      <3>1. K[i - 1] = States(count, i - 1) /\ K[i] = States(count, i)
        OBVIOUS
      <3>2. W[i] = Moved(W[i - 1], i)
        <4>1. i \in 0 .. count /\ i # 0
          OBVIOUS
        <4>. QED  BY <1>9, <4>1
      <3>. HIDE DEF K
      <3>. QED  BY <2>2, <3>1, <3>2, MovedIs
    <2>. HIDE DEF K
    <2>. QED  BY <2>1, <2>2, LoopStays
  <1>11. W[count] \in States(count, count)
    BY <1>10
  <1>12. W[count].list \in Orders(count)
    BY <1>11 DEF States
  <1>. QED  BY <1>1, <1>8, <1>12
-----------------------------------------------------------------------------
(***************************************************************************)
(* What has its type keeps it.                                             *)
(***************************************************************************)
LEMMA ModWord == \A a \in Int : a % Word \in Nat
  BY ModIs, LayoutAssumption

LEMMA PlusMinusIs == \A a, b \in Nat : Plus(a, b) \in Nat /\ Minus(a, b) \in Nat
  BY ModWord DEF Plus, Minus

LEMMA SectionIs ==
    ASSUME Typed, NEW i \in Indices
    PROVE  /\ secs[i] \in SectionHeaders
           /\ secs[i].size \in Nat /\ secs[i].align \in Nat
           /\ secs[i].addr \in Nat /\ secs[i].offset \in Nat
  BY DEF Typed, SectionHeaders

LEMMA SegmentIs ==
    ASSUME Typed, NEW s \in DOMAIN segs
    PROVE  /\ segs[s] \in SegmentHeaders(N)
           /\ segs[s].align \in Nat /\ segs[s].vaddr \in Nat /\ segs[s].memsz \in Nat
           /\ segs[s].filesz \in Nat /\ segs[s].offset \in Nat
           /\ segs[s].members \in Seq(Indices)
           /\ Len(segs[s].members) \in Nat
           /\ DOMAIN segs[s].members = 1 .. Len(segs[s].members)
           /\ \A k \in DOMAIN segs[s].members : segs[s].members[k] \in Indices
  <1>1. segs[s] \in SegmentHeaders(N)
    BY DEF Typed
  <1>2. segs[s].members \in Seq(Indices)
    BY <1>1 DEF SegmentHeaders, Indices
  <1>3. \A k \in DOMAIN segs[s].members : segs[s].members[k] \in Indices
    BY <1>2
  <1>. QED  BY <1>1, <1>2, <1>3 DEF SegmentHeaders

LEMMA MemberSetIs ==
    ASSUME Typed, NEW s \in DOMAIN segs
    PROVE  MemberSet(segs[s]) = {segs[s].members[k] : k \in 1 .. Len(segs[s].members)}
  BY SegmentIs DEF MemberSet, ToSet

LEMMA ProductIs == \A a, b \in Nat : a * b \in Nat
  OBVIOUS

LEMMA HeadersEndIs == Typed => HeadersEnd \in Nat /\ Len(segs) \in Nat /\ PhSize * Len(segs) \in Nat
  <1>. SUFFICES ASSUME Typed PROVE HeadersEnd \in Nat /\ Len(segs) \in Nat /\ PhSize * Len(segs) \in Nat
    OBVIOUS
  <1>1. Len(segs) \in Nat
    BY DEF Typed
  <1>2. PhSize * Len(segs) \in Nat
    BY <1>1, ProductIs, LayoutAssumption
  <1>. QED  BY <1>1, <1>2, LayoutAssumption DEF HeadersEnd

LEMMA SectionAlignIs ==
    ASSUME Typed, cur.seg \in DOMAIN segs, NEW i \in Indices
    PROVE  SectionAlign(i) \in Nat
  <1>1. secs[i].offset \in Nat /\ secs[i].addr \in Nat /\ secs[i].align \in Nat
    BY SectionIs
  <1>2. Seg.vaddr \in Nat /\ pos \in Nat /\ cur.start \in Nat /\ cur.filesz \in Nat
    BY SegmentIs DEF Typed, Seg
  <1>3. Padding(pos, secs[i].align) \in Nat
    BY <1>1, <1>2, PaddingIs
  <1>. DEFINE back(a, b, c, d) == Minus(Minus(a, b), Minus(c, d))
  <1>4. \A a, b, c \in Nat : Minus(Minus(a, b), c) \in Nat
    BY PlusMinusIs
  <1>5. \A a, b, c, d \in Nat : back(a, b, c, d) \in Nat
    BY PlusMinusIs
  <1>6. /\ Minus(Minus(secs[i].offset, cur.start), cur.filesz) \in Nat
        /\ Minus(Minus(secs[i].addr, Seg.vaddr), Minus(pos, cur.start)) \in Nat
    BY <1>1, <1>2, <1>4, <1>5
  <1>. QED  BY <1>3, <1>6 DEF SectionAlign

\* A segment starts at a position, not before the current one when it is fresh.
LEMMA StartIs ==
    ASSUME Typed, NEW s \in DOMAIN segs
    PROVE  /\ Start(segs[s]).at \in Nat /\ Start(segs[s]).holds \in Nat
           /\ Start(segs[s]).move \in Nat
  <1>. DEFINE g == segs[s]
              a == IF g.align > 0 THEN g.align ELSE 1
  <1>1. /\ g.align \in Nat /\ g.vaddr \in Nat /\ g.members \in Seq(Indices) /\ pos \in Nat
        /\ g.members # <<>> => secs[g.members[1]].offset \in Nat
    <2>1. g.align \in Nat /\ g.vaddr \in Nat /\ g.members \in Seq(Indices) /\ pos \in Nat
      BY SegmentIs DEF Typed
    <2>2. g.members # <<>> => g.members[1] \in Indices
      BY <2>1
    <2>. QED  BY <2>1, <2>2, SectionIs
  <1>2. Gap(g) \in Nat
    <2>1. a \in Nat \ {0} /\ g.vaddr \in Int /\ pos \in Int
      BY <1>1
    <2>. HIDE DEF a
    <2>2. g.vaddr % a \in Nat /\ pos % a \in Nat
      BY <2>1, ModIs
    <2>3. (g.vaddr % a) - (pos % a) \in Int
      BY <2>2
    <2>4. Gap(g) = ((g.vaddr % a) - (pos % a)) % a
      BY DEF Gap, a
    <2>. QED  BY <2>1, <2>3, <2>4, ModIs
  <1>3. PhSize * Len(segs) \in Nat /\ EhSize \in Nat
    BY HeadersEndIs, LayoutAssumption
  <1>4. pos + Gap(g) \in Nat
    BY <1>1, <1>2
  <1>. HIDE DEF g
  <1>5. Start(g).at \in Nat /\ Start(g).holds \in Nat /\ Start(g).move \in Nat
    BY <1>1, <1>2, <1>3, <1>4 DEF Start
  <1>. QED  BY <1>5 DEF g

LEMMA InitTyped == Init => Typed
  <1>. SUFFICES ASSUME Init PROVE Typed
    OBVIOUS
  <1>1. PICK m \in Images : secs = m.secs /\ segs = m.segs
    BY DEF Init
  <1>. DEFINE n == Number(m.secs)
  <1>2. /\ n \in Nat \ {0} /\ m.secs \in [0 .. n - 1 -> SectionHeaders] /\ m.secs[0].type = "NULL"
        /\ m.segs \in Seq(SegmentHeaders(n))
    BY ImagesAssumption
  <1>4. N = n
    BY <1>1 DEF N
  <1>. HIDE DEF n
  <1>5. N \in Nat \ {0} /\ secs \in [Indices -> SectionHeaders] /\ Null(0)
        /\ segs \in Seq(SegmentHeaders(N))
    BY <1>1, <1>2, <1>4 DEF Indices, Null
  <1>6. Idle \in [seg : Nat, next : Nat \ {0}, start : Nat, filesz : Nat, memsz : Nat]
    BY DEF Idle
  <1>7. /\ pos \in Nat /\ shoff \in Nat /\ pc = "built" /\ pc \in Phases
        /\ generated \subseteq Indices
        /\ queue \in Seq(DOMAIN segs) /\ ordered \in Seq(DOMAIN segs)
    BY DEF Init, Phases
  <1>. QED  BY <1>5, <1>6, <1>7 DEF Typed, Init
CurType == [seg : Nat, next : Nat \ {0}, start : Nat, filesz : Nat, memsz : Nat]

\* A round of write_segment_data places a section it meets for the first time
\* and touches no other.
PlacedAt(i, at) ==
    /\ secs' \in [Indices -> SectionHeaders]
    /\ \A j \in Indices \ {i} : secs'[j] = secs[j]
    /\ secs'[i].type = secs[i].type /\ secs'[i].size = secs[i].size
    /\ secs'[i].offset = IF i = 0 THEN secs[i].offset ELSE at
    /\ pos' = After(i, at)

LEMMA AfterIs ==
    ASSUME Typed, NEW i \in Indices, NEW at \in Nat
    PROVE  After(i, at) \in Nat
  <1>1. secs[i].size \in Nat
    BY SectionIs
  <1>. QED  BY <1>1, PlusMinusIs DEF After

LEMMA WriteSectionIs ==
    ASSUME Typed, WriteSection
    PROVE  /\ cur.seg \in DOMAIN segs /\ Member \in Indices
           /\ cur.next \in DOMAIN Seg.members
           /\ SectionAlign(Member) \in Nat /\ Plus(pos, SectionAlign(Member)) \in Nat
           /\ UNCHANGED <<segs, queue, ordered, shoff, file, rounds>>
           /\ \/ pc' = "failed" /\ UNCHANGED <<secs, pos, generated, cur>>
              \/ /\ generated' = generated \cup {Member} /\ pc' = pc
                 /\ cur' \in CurType /\ cur'.next = cur.next + 1 /\ cur'.seg = cur.seg
                 /\ \/ Null(Member) /\ UNCHANGED <<secs, pos>>
                    \/ Member \in generated /\ UNCHANGED <<secs, pos>>
                    \/ /\ ~Null(Member) /\ Member \notin generated /\ Member # 0 /\ ~Behind(Member)
                       /\ PlacedAt(Member, Plus(pos, SectionAlign(Member)))
  <1>. DEFINE i == Member
              gap == SectionAlign(i)
              grow == Plus(secs[i].size, gap)
              at == Plus(pos, gap)
  <1>1. pc = "sections" /\ cur.seg \in DOMAIN segs /\ cur \in CurType
    BY DEF WriteSection, Typed, CurType
  <1>2. cur.next \in DOMAIN Seg.members /\ i \in Indices
    <2>1. cur.next \in Nat \ {0} /\ cur.next <= Len(Seg.members)
      BY <1>1 DEF WriteSection, CurType
    <2>2. cur.next \in DOMAIN Seg.members
      BY <1>1, <2>1, SegmentIs DEF Seg
    <2>. QED  BY <1>1, <2>2, SegmentIs DEF Seg, Member
  <1>3. gap \in Nat
    BY <1>1, <1>2, SectionAlignIs
  <1>4. pos \in Nat /\ secs[i].size \in Nat /\ secs[i] \in SectionHeaders
        /\ secs[i].offset \in Nat /\ secs[i].addr \in Nat
    BY <1>2, SectionIs DEF Typed
  <1>. HIDE DEF i, gap
  <1>5. at \in Nat /\ grow \in Nat
    BY <1>3, <1>4, PlusMinusIs
  <1>6. cur.memsz \in Nat /\ cur.filesz \in Nat /\ cur.start \in Nat
        /\ cur.next + 1 \in Nat \ {0} /\ cur.seg \in Nat
    BY <1>1 DEF CurType
  <1>7. Plus(cur.memsz, grow) \in Nat /\ Plus(cur.filesz, grow) \in Nat
    BY <1>5, <1>6, PlusMinusIs
  <1>8. UNCHANGED <<segs, queue, ordered, shoff, file, rounds>>
    BY DEF WriteSection
  <1>9. CASE Null(i) /\ generated' = Generated(i) /\ cur' = [cur EXCEPT !.next = @ + 1]
             /\ UNCHANGED <<secs, pos, pc>>
    <2>1. cur' \in CurType /\ cur'.next = cur.next + 1 /\ cur'.seg = cur.seg
      BY <1>1, <1>6, <1>9 DEF CurType
    <2>. QED  BY <1>1, <1>2, <1>3, <1>5, <1>8, <1>9, <2>1 DEF Generated, i, gap
  <1>10. CASE pc' = "failed" /\ UNCHANGED <<secs, pos, generated, cur>>
    BY <1>1, <1>2, <1>3, <1>5, <1>8, <1>10 DEF i, gap
  <1>11. CASE
      /\ ~Null(i) /\ ~Behind(i)
      /\ cur' = [cur EXCEPT
                    !.next = @ + 1,
                    !.memsz = IF InMemory(i) THEN Plus(@, grow) ELSE @,
                    !.filesz = IF NoBits(i) THEN @ ELSE Plus(@, grow)]
      /\ IF i \in generated THEN UNCHANGED <<secs, pos>>
         ELSE /\ pos' = After(i, at)
              /\ secs' = [secs EXCEPT
                   ![i].addr = IF secs[i].set THEN @
                               ELSE Plus(Seg.vaddr, Minus(at, cur.start)),
                   ![i].set = TRUE,
                   ![i].offset = IF i = 0 THEN @ ELSE at]
      /\ generated' = Generated(i)
      /\ UNCHANGED pc
    <2>1. cur' \in CurType /\ cur'.next = cur.next + 1 /\ cur'.seg = cur.seg
      <3>. HIDE DEF grow
      <3>. QED  BY <1>1, <1>6, <1>7, <1>11 DEF CurType
    <2>2. CASE i \in generated
      BY <1>1, <1>2, <1>3, <1>5, <1>8, <1>11, <2>1, <2>2 DEF Generated, i, gap
    <2>3. CASE i \notin generated
      <3>. DEFINE addr == IF secs[i].set THEN secs[i].addr
                          ELSE Plus(Seg.vaddr, Minus(at, cur.start))
      <3>1. addr \in Nat
        <4>1. Seg.vaddr \in Nat
          BY <1>1, SegmentIs DEF Seg
        <4>2. Minus(at, cur.start) \in Nat
          BY <1>5, <1>6, PlusMinusIs
        <4>3. Plus(Seg.vaddr, Minus(at, cur.start)) \in Nat
          <5>. DEFINE x == Seg.vaddr
                      y == Minus(at, cur.start)
          <5>1. x \in Nat /\ y \in Nat
            BY <4>1, <4>2
          <5>. HIDE DEF x, y
          <5>2. Plus(x, y) \in Nat
            BY <5>1, PlusMinusIs
          <5>. QED  BY <5>2 DEF x, y
        <4>. QED  BY <1>4, <4>3
      <3>2. secs' = [secs EXCEPT ![i] =
                [secs[i] EXCEPT !.addr = addr, !.set = TRUE,
                                !.offset = IF i = 0 THEN secs[i].offset ELSE at]]
        BY <1>2, <1>11, <2>3 DEF Typed
      <3>. DEFINE new == [secs[i] EXCEPT !.addr = addr, !.set = TRUE,
                                         !.offset = IF i = 0 THEN secs[i].offset ELSE at]
      <3>. HIDE DEF addr, at
      <3>3. /\ new \in SectionHeaders /\ new.type = secs[i].type /\ new.size = secs[i].size
            /\ new.offset = IF i = 0 THEN secs[i].offset ELSE at
        BY <1>4, <1>5, <3>1 DEF SectionHeaders
      <3>. HIDE DEF new
      <3>4. secs' = [secs EXCEPT ![i] = new] /\ secs \in [Indices -> SectionHeaders] /\ i \in Indices
        BY <1>2, <3>2 DEF new, Typed, i
      <3>5. /\ secs' \in [Indices -> SectionHeaders] /\ secs'[i] = new
            /\ \A j \in Indices \ {i} : secs'[j] = secs[j]
        BY <3>3, <3>4
      <3>6. PlacedAt(i, at)
        BY <1>11, <2>3, <3>3, <3>5 DEF PlacedAt
      <3>7. i # 0
        BY <1>11 DEF Typed
      <3>. QED  BY <1>1, <1>2, <1>3, <1>5, <1>8, <1>11, <2>1, <2>3, <3>6, <3>7
                   DEF Generated, i, gap, at
    <2>. QED  BY <2>2, <2>3
  <1>. QED  BY <1>9, <1>10, <1>11 DEF WriteSection, i, gap

LEMMA IndicesKept ==
    ASSUME DOMAIN secs' = DOMAIN secs
    PROVE  N' = N /\ Indices' = Indices
  BY DEF N, Number, Indices

LEMMA BeginSaveIs ==
    ASSUME Typed, BeginSave
    PROVE  /\ segs' \in Seq(SegmentHeaders(N)) /\ Len(segs') = Len(segs)
           /\ DOMAIN segs' = DOMAIN segs
           /\ \A s \in DOMAIN segs : segs'[s].members = segs[s].members
           /\ queue' \in Orders(Len(segs)) /\ pos' = HeadersEnd /\ pc' = "order"
           /\ ordered' = <<>> /\ generated' = {} /\ cur' = Idle /\ shoff' = 0
           /\ UNCHANGED <<secs, file>>
  <1>1. Len(segs) \in Nat /\ DOMAIN segs = 1 .. Len(segs) /\ N \in Nat
        /\ secs \in [0 .. N - 1 -> SectionHeaders]
    BY DEF Typed, Indices
  <1>2. \A s \in DOMAIN segs : Raised(segs[s], secs) \in SegmentHeaders(N)
                               /\ Raised(segs[s], secs).members = segs[s].members
    BY <1>1, SegmentIs, RaisedIs
  <1>3. segs' = [s \in 1 .. Len(segs) |-> Raised(segs[s], secs)]
    BY <1>1 DEF BeginSave
  <1>4. segs' \in [1 .. Len(segs) -> SegmentHeaders(N)]
    BY <1>1, <1>2, <1>3
  <1>5. segs' \in Seq(SegmentHeaders(N)) /\ Len(segs') = Len(segs) /\ DOMAIN segs' = 1 .. Len(segs)
    BY <1>1, <1>4
  <1>6. \A s \in DOMAIN segs : segs'[s].members = segs[s].members
    BY <1>1, <1>2, <1>3
  <1>7. queue' \in Orders(Len(segs))
    BY <1>1, ZeroToFrontIs DEF BeginSave
  <1>. QED  BY <1>1, <1>5, <1>6, <1>7 DEF BeginSave

LEMMA EndSegmentIs ==
    ASSUME Typed, EndSegment
    PROVE  /\ segs' \in Seq(SegmentHeaders(N)) /\ Len(segs') = Len(segs)
           /\ DOMAIN segs' = DOMAIN segs
           /\ \A s \in DOMAIN segs : segs'[s].members = segs[s].members
           /\ cur.seg \in DOMAIN segs
  <1>1. cur.seg \in DOMAIN segs /\ segs \in Seq(SegmentHeaders(N)) /\ cur \in CurType
    BY DEF EndSegment, Typed, CurType
  <1>. DEFINE g == segs[cur.seg]
              m == MemorySize(g.memsz)
              new == [g EXCEPT !.filesz = cur.filesz, !.memsz = m, !.offset = cur.start, !.set = TRUE]
  <1>2. g \in SegmentHeaders(N) /\ g.memsz \in Nat
    BY <1>1, SegmentIs
  <1>3. m \in Nat
    BY <1>1, <1>2 DEF MemorySize, CurType
  <1>4. segs' = [segs EXCEPT ![cur.seg] = new]
    BY <1>1 DEF EndSegment
  <1>. HIDE DEF m
  <1>5. new \in SegmentHeaders(N) /\ new.members = g.members
    BY <1>1, <1>2, <1>3 DEF SegmentHeaders, CurType
  <1>. HIDE DEF new
  <1>. QED  BY <1>1, <1>4, <1>5

LEMMA LoadIs ==
    ASSUME Typed, Load
    PROVE  /\ segs' \in Seq(SegmentHeaders(N)) /\ Len(segs') = Len(segs)
           /\ secs' \in [Indices -> SectionHeaders] /\ DOMAIN secs' = DOMAIN secs
           /\ \A i \in Indices : secs'[i].type = secs[i].type
  <1>1. file.secs = secs /\ file.segs = segs /\ N \in Nat /\ DOMAIN secs = Indices
    BY DEF Load, Typed
  <1>2. Len(segs) \in Nat /\ DOMAIN segs = 1 .. Len(segs)
    BY DEF Typed
  <1>3. secs' = [i \in Indices |-> [secs[i] EXCEPT !.set = TRUE]]
    BY <1>1 DEF Load
  <1>4. \A i \in Indices : /\ [secs[i] EXCEPT !.set = TRUE] \in SectionHeaders
                           /\ [secs[i] EXCEPT !.set = TRUE].type = secs[i].type
    BY SectionIs DEF SectionHeaders
  <1>5. secs' \in [Indices -> SectionHeaders] /\ DOMAIN secs' = DOMAIN secs
        /\ \A i \in Indices : secs'[i].type = secs[i].type
    BY <1>1, <1>3, <1>4
  <1>. DEFINE new(s) == [segs[s] EXCEPT !.set = TRUE, !.members = Found(segs[s], secs)]
  <1>6. segs' = [s \in 1 .. Len(segs) |-> new(s)]
    BY <1>1, <1>2 DEF Load
  <1>7. \A s \in 1 .. Len(segs) : new(s) \in SegmentHeaders(N)
    <2>. TAKE s \in 1 .. Len(segs)
    <2>1. segs[s] \in SegmentHeaders(N)
      BY <1>2, SegmentIs
    <2>2. Found(segs[s], secs) \in Seq(0 .. N - 1)
      BY <1>1, FoundIs DEF N
    <2>. QED  BY <2>1, <2>2 DEF SegmentHeaders
  <1>. HIDE DEF new
  <1>8. segs' \in [1 .. Len(segs) -> SegmentHeaders(N)]
    BY <1>6, <1>7
  <1>9. segs' \in Seq(SegmentHeaders(N)) /\ Len(segs') = Len(segs)
    BY <1>2, <1>8
  <1>. QED  BY <1>5, <1>9

LEMMA PlaceLooseIs ==
    ASSUME Typed, PlaceLoose
    PROVE  \E i \in Loose :
             /\ i \in Indices /\ generated' = generated \cup {i}
             /\ pos + Padding(pos, secs[i].align) \in Nat
             /\ PlacedAt(i, pos + Padding(pos, secs[i].align))
             /\ UNCHANGED <<segs, pc, queue, ordered, cur, shoff, file, rounds>>
  <1>1. Loose \in SUBSET Nat /\ Loose \subseteq Indices /\ Loose # {}
    BY DEF PlaceLoose, Loose, Typed, Indices
  <1>. DEFINE i == Min(Loose)
              at == pos + Padding(pos, secs[i].align)
  <1>2. i \in Loose
    BY <1>1, MinOf
  <1>3. i \in Indices /\ pos \in Nat
    BY <1>1, <1>2 DEF Typed
  <1>. HIDE DEF i
  <1>4. Padding(pos, secs[i].align) \in Nat
    BY <1>3, SectionIs, PaddingIs
  <1>5. at \in Nat
    BY <1>3, <1>4
  <1>6. /\ secs' = [secs EXCEPT ![i].offset = IF i = 0 THEN @ ELSE at]
        /\ pos' = After(i, at) /\ generated' = generated \cup {i}
        /\ UNCHANGED <<segs, pc, queue, ordered, cur, shoff, file, rounds>>
    BY DEF PlaceLoose, Generated, i
  <1>. DEFINE new == [secs[i] EXCEPT !.offset = IF i = 0 THEN secs[i].offset ELSE at]
  <1>7. secs' = [secs EXCEPT ![i] = new] /\ secs \in [Indices -> SectionHeaders]
    BY <1>3, <1>6 DEF Typed
  <1>. HIDE DEF at
  <1>8. new \in SectionHeaders /\ new.type = secs[i].type /\ new.size = secs[i].size
        /\ new.offset = IF i = 0 THEN secs[i].offset ELSE at
    BY <1>3, <1>5, SectionIs DEF SectionHeaders
  <1>. HIDE DEF new
  <1>9. PlacedAt(i, at)
    BY <1>3, <1>6, <1>7, <1>8 DEF PlacedAt
  <1>. QED  BY <1>2, <1>3, <1>5, <1>6, <1>9 DEF at

\* Typed, of the state a step leads to, by what the step has done.
LEMMA TypedThere ==
    ASSUME Typed,
           secs' \in [Indices -> SectionHeaders], \A i \in Indices : secs'[i].type = secs[i].type,
           segs' \in Seq(SegmentHeaders(N)),
           pos' \in Nat, shoff' \in Nat, pc' \in Phases, generated' \subseteq Indices,
           queue' \in Seq(1 .. Len(segs')), ordered' \in Seq(1 .. Len(segs')),
           cur' \in CurType,
           pc' = "sections" => cur'.seg \in 1 .. Len(segs'),
           pc' = "saved" => file'.secs = secs' /\ file'.segs = segs' /\ file'.shoff = shoff'
    PROVE  Typed' /\ N' = N /\ Indices' = Indices
  <1>1. DOMAIN secs' = DOMAIN secs
    BY DEF Typed
  <1>2. N' = N /\ Indices' = Indices
    BY <1>1, IndicesKept
  <1>3. DOMAIN segs' = 1 .. Len(segs')
    OBVIOUS
  <1>4. Null(0)'
    <2>1. 0 \in Indices /\ Null(0)
      BY DEF Typed, Indices
    <2>. QED  BY <2>1 DEF Null
  <1>5. N' \in Nat \ {0}
    BY <1>2 DEF Typed
  <1>6. secs' \in [Indices' -> SectionHeaders] /\ segs' \in Seq(SegmentHeaders(N'))
        /\ generated' \subseteq Indices'
    BY <1>2
  <1>7. queue' \in Seq(DOMAIN segs') /\ ordered' \in Seq(DOMAIN segs')
        /\ (pc' = "sections" => cur'.seg \in DOMAIN segs')
    BY <1>3
  <1>. QED  BY <1>2, <1>4, <1>5, <1>6, <1>7 DEF Typed, CurType

LEMMA PlacedAtIs ==
    ASSUME Typed, NEW i \in Indices, NEW at \in Nat, PlacedAt(i, at)
    PROVE  /\ secs' \in [Indices -> SectionHeaders] /\ \A j \in Indices : secs'[j].type = secs[j].type
           /\ pos' \in Nat
  BY AfterIs DEF PlacedAt

LEMMA TypedKept ==
    ASSUME Typed, [Next]_vars
    PROVE  Typed' /\ N' = N /\ Indices' = Indices
  <1>1. /\ N \in Nat \ {0} /\ secs \in [Indices -> SectionHeaders] /\ Null(0)
        /\ segs \in Seq(SegmentHeaders(N))
        /\ pos \in Nat /\ shoff \in Nat /\ pc \in Phases /\ generated \subseteq Indices
        /\ queue \in Seq(1 .. Len(segs)) /\ ordered \in Seq(1 .. Len(segs))
        /\ cur \in CurType /\ DOMAIN segs = 1 .. Len(segs) /\ Len(segs) \in Nat
        /\ pc = "sections" => cur.seg \in 1 .. Len(segs)
        /\ pc = "saved" => file.secs = secs /\ file.segs = segs /\ file.shoff = shoff
        /\ Idle \in CurType
    BY DEF Typed, CurType, Idle
  <1>2. CASE BeginSave
    <2>1. HeadersEnd \in Nat
      BY HeadersEndIs
    <2>2. queue' \in Seq(1 .. Len(segs'))
      <3>. DEFINE n == Len(segs)
      <3>1. queue' \in [1 .. n -> 1 .. n] /\ Len(segs') = n /\ n \in Nat
        BY <1>1, <1>2, BeginSaveIs DEF Orders
      <3>. HIDE DEF n
      <3>2. queue' \in Seq(1 .. n)
        BY <3>1, SeqDef
      <3>. QED  BY <3>1, <3>2
    <2>3. ordered' \in Seq(1 .. Len(segs'))
      BY <1>2, BeginSaveIs
    <2>4. pc' \in Phases /\ pc' # "sections" /\ pc' # "saved"
      BY <1>2, BeginSaveIs DEF Phases
    <2>. QED  BY <1>1, <1>2, <2>1, <2>2, <2>3, <2>4, BeginSaveIs, TypedThere
  <1>3. CASE OrderSegment
    <2>. USE <1>3 DEF OrderSegment
    <2>1. Tail(queue) \in Seq(1 .. Len(segs)) /\ Head(queue) \in 1 .. Len(segs)
      BY <1>1, HeadTailProperties
    <2>2. /\ Append(Tail(queue), Head(queue)) \in Seq(1 .. Len(segs))
          /\ Append(ordered, Head(queue)) \in Seq(1 .. Len(segs))
      BY <1>1, <2>1, AppendProperties
    <2>3. queue' \in Seq(1 .. Len(segs)) /\ ordered' \in Seq(1 .. Len(segs))
          /\ UNCHANGED <<secs, segs, pos, pc, generated, cur, shoff, file>>
      BY <1>1, <2>1, <2>2
    <2>. QED  BY <1>1, <2>3, TypedThere
  <1>4. CASE EndOrder
    <2>1. /\ queue' = ordered /\ pc' = "segments"
          /\ UNCHANGED <<secs, segs, pos, ordered, generated, cur, shoff, file>>
      BY <1>4 DEF EndOrder
    <2>. QED  BY <1>1, <2>1, TypedThere DEF Phases
  <1>5. CASE StartSegment
    <2>. DEFINE st == Start(segs[Head(queue)])
                a == st.at
                h == st.holds
                q == Head(queue)
    <2>1. q \in 1 .. Len(segs) /\ Tail(queue) \in Seq(1 .. Len(segs))
      BY <1>1, <1>5, HeadTailProperties DEF StartSegment
    <2>2. a \in Nat /\ h \in Nat /\ st.move \in Nat
      BY <1>1, <2>1, StartIs
    <2>3. /\ cur' = [seg |-> q, next |-> 1, start |-> a, filesz |-> h, memsz |-> h]
          /\ pos' = pos + st.move /\ queue' = Tail(queue) /\ pc' = "sections"
          /\ UNCHANGED <<secs, segs, ordered, generated, shoff, file>>
      BY <1>5 DEF StartSegment
    <2>4. pos' \in Nat
      <3>. DEFINE m == st.move
      <3>1. m \in Nat /\ pos' = pos + m
        BY <2>2, <2>3
      <3>. HIDE DEF m
      <3>. QED  BY <1>1, <3>1
    <2>. HIDE DEF a, h, q
    <2>5. cur' \in CurType /\ cur'.seg = q
      BY <1>1, <2>1, <2>2, <2>3 DEF CurType
    <2>. HIDE DEF st
    <2>. QED  BY <1>1, <2>1, <2>3, <2>4, <2>5, TypedThere DEF Phases
  <1>6. CASE WriteSection
    <2>1. PICK i \in Indices, at \in Nat :
             \/ pc' = "failed" /\ UNCHANGED <<secs, pos, generated, cur>>
             \/ /\ generated' = generated \cup {i} /\ pc' = pc
                /\ cur' \in CurType /\ cur'.seg = cur.seg
                /\ UNCHANGED <<secs, pos>> \/ PlacedAt(i, at)
      BY <1>6, WriteSectionIs
    <2>2. UNCHANGED <<segs, queue, ordered, shoff, file>> /\ pc = "sections"
      BY <1>6 DEF WriteSection
    <2>3. secs' \in [Indices -> SectionHeaders] /\ (\A j \in Indices : secs'[j].type = secs[j].type)
          /\ pos' \in Nat
      BY <1>1, <2>1, PlacedAtIs
    <2>4. /\ pc' \in Phases /\ pc' # "saved" /\ generated' \subseteq Indices /\ cur' \in CurType
          /\ cur'.seg = cur.seg
      BY <1>1, <2>1, <2>2 DEF Phases
    <2>. QED  BY <1>1, <2>2, <2>3, <2>4, TypedThere
  <1>7. CASE EndSegment
    <2>1. /\ cur' = Idle /\ pc' = "segments"
          /\ UNCHANGED <<secs, pos, queue, ordered, generated, shoff, file>>
      BY <1>7 DEF EndSegment
    <2>2. segs' \in Seq(SegmentHeaders(N)) /\ Len(segs') = Len(segs)
      BY <1>7, EndSegmentIs
    <2>. QED  BY <1>1, <2>1, <2>2, TypedThere DEF Phases
  <1>8. CASE EndSegments
    <2>1. /\ pc' = "loose"
          /\ UNCHANGED <<secs, segs, pos, queue, ordered, generated, cur, shoff, file>>
      BY <1>8 DEF EndSegments
    <2>. QED  BY <1>1, <2>1, TypedThere DEF Phases
  <1>9. CASE PlaceLoose
    <2>1. PICK i \in Indices, at \in Nat :
             /\ generated' = generated \cup {i} /\ PlacedAt(i, at)
             /\ UNCHANGED <<segs, pc, queue, ordered, cur, shoff, file>>
      BY <1>9, PlaceLooseIs
    <2>2. secs' \in [Indices -> SectionHeaders] /\ (\A j \in Indices : secs'[j].type = secs[j].type)
          /\ pos' \in Nat
      BY <2>1, PlacedAtIs
    <2>3. pc = "loose"
      BY <1>9 DEF PlaceLoose
    <2>. QED  BY <1>1, <2>1, <2>2, <2>3, TypedThere
  <1>10. CASE WriteFile
    <2>1. Padding(pos, 4) \in Nat
      BY <1>1, PaddingIs
    <2>2. /\ pos' \in Nat /\ shoff' = pos' /\ pc' = "saved"
          /\ file'.secs = secs' /\ file'.segs = segs' /\ file'.shoff = shoff'
          /\ UNCHANGED <<secs, segs, queue, ordered, generated, cur>>
      BY <1>1, <1>10, <2>1 DEF WriteFile
    <2>. QED  BY <1>1, <2>2, TypedThere DEF Phases
  <1>11. CASE Load
    <2>1. /\ pc' = "built" /\ UNCHANGED <<pos, queue, ordered, generated, cur>>
          /\ shoff' = file.shoff
      BY <1>11 DEF Load
    <2>2. /\ secs' \in [Indices -> SectionHeaders] /\ (\A i \in Indices : secs'[i].type = secs[i].type)
          /\ segs' \in Seq(SegmentHeaders(N)) /\ Len(segs') = Len(segs)
      BY <1>11, LoadIs
    <2>3. file.shoff \in Nat
      BY <1>1, <1>11 DEF Load
    <2>. QED  BY <1>1, <2>1, <2>2, <2>3, TypedThere DEF Phases
  <1>12. CASE Keep
    <2>1. /\ pc' = "built"
          /\ UNCHANGED <<secs, segs, pos, queue, ordered, generated, cur, shoff, file>>
      BY <1>12 DEF Keep
    <2>. QED  BY <1>1, <2>1, TypedThere DEF Phases
  <1>13. CASE UNCHANGED vars
    BY <1>1, <1>13, TypedThere DEF vars
  <1>. QED  BY <1>2, <1>3, <1>4, <1>5, <1>6, <1>7, <1>8, <1>9, <1>10, <1>11, <1>12, <1>13
            DEF Next, Save, Done
-----------------------------------------------------------------------------
(***************************************************************************)
(* No segment is lost.                                                     *)
(***************************************************************************)
LEMMA ToSetOfHead ==
    ASSUME NEW S, NEW q \in Seq(S), q # <<>>
    PROVE  ToSet(q) = {Head(q)} \cup ToSet(Tail(q))
  <1>1. Len(q) \in Nat \ {0} /\ DOMAIN q = 1 .. Len(q) /\ Head(q) = q[1]
    OBVIOUS
  <1>2. DOMAIN Tail(q) = 1 .. Len(q) - 1 /\ \A k \in 1 .. Len(q) - 1 : Tail(q)[k] = q[k + 1]
    BY <1>1, HeadTailProperties
  <1>3. ToSet(q) \subseteq {Head(q)} \cup ToSet(Tail(q))
    <2>. SUFFICES ASSUME NEW k \in 1 .. Len(q), k # 1 PROVE q[k] \in ToSet(Tail(q))
      BY <1>1 DEF ToSet
    <2>1. k - 1 \in 1 .. Len(q) - 1 /\ (k - 1) + 1 = k
      BY <1>1
    <2>2. Tail(q)[k - 1] = q[k]
      BY <1>2, <2>1
    <2>. QED  BY <1>2, <2>1, <2>2 DEF ToSet
  <1>4. ToSet(Tail(q)) \subseteq ToSet(q)
    <2>. SUFFICES ASSUME NEW k \in 1 .. Len(q) - 1 PROVE q[k + 1] \in ToSet(q)
      BY <1>2 DEF ToSet
    <2>1. k + 1 \in 1 .. Len(q)
      BY <1>1
    <2>. QED  BY <1>1, <2>1 DEF ToSet
  <1>5. Head(q) \in ToSet(q)
    BY <1>1 DEF ToSet
  <1>. QED  BY <1>3, <1>4, <1>5

LEMMA ToSetOfAppend ==
    ASSUME NEW S, NEW q \in Seq(S), NEW x \in S
    PROVE  ToSet(q) \cup {x} \subseteq ToSet(Append(q, x))
  <1>1. DOMAIN Append(q, x) = 1 .. Len(q) + 1 /\ DOMAIN q = 1 .. Len(q) /\ Len(q) \in Nat
    BY AppendProperties
  <1>2. /\ \A k \in 1 .. Len(q) : Append(q, x)[k] = q[k]
        /\ Append(q, x)[Len(q) + 1] = x
    BY AppendProperties
  <1>. QED  BY <1>1, <1>2 DEF ToSet

LEMMA ToSetOfEmpty == ToSet(<<>>) = {}
  BY DEF ToSet

\* A step that takes nothing out of the queue and finishes nothing keeps what
\* was finished.
LEMMA AccountedStill ==
    ASSUME Accounted, DOMAIN segs' = DOMAIN segs,
           \A s \in DOMAIN segs : segs'[s].members = segs[s].members,
           generated \subseteq generated',
           \A s \in Waiting : s \in Waiting' \/ (pc' = "sections" /\ s = cur'.seg),
           \A s : pc = "sections" /\ s = cur.seg =>
                    \/ s \in Waiting' \/ Finished(s)'
                    \/ pc' = "sections" /\ cur'.seg = s
    PROVE  Accounted'
  <1>1. ASSUME NEW s \in DOMAIN segs, Finished(s) PROVE Finished(s)'
    BY <1>1 DEF Finished, MemberSet, ToSet
  <1>2. ASSUME NEW s \in DOMAIN segs
        PROVE  s \in Waiting' \/ Finished(s)' \/ (pc' = "sections" /\ s = cur'.seg)
    <2>1. CASE s \in Waiting
      BY <2>1
    <2>2. CASE Finished(s)
      BY <1>1, <2>2
    <2>3. CASE pc = "sections" /\ s = cur.seg
      BY <2>3
    <2>. QED  BY <2>1, <2>2, <2>3 DEF Accounted
  <1>. QED  BY <1>2 DEF Accounted

LEMMA CompleteKept ==
    ASSUME Typed, Complete, [Next]_vars
    PROVE  Complete'
  <1>1. /\ Typed' /\ Indices' = Indices
        /\ DOMAIN segs = 1 .. Len(segs) /\ Len(segs) \in Nat /\ cur \in CurType
        /\ queue \in Seq(1 .. Len(segs)) /\ ordered \in Seq(1 .. Len(segs))
    <2>1. Typed' /\ Indices' = Indices
      BY TypedKept
    <2>2. /\ segs \in Seq(SegmentHeaders(N)) /\ cur \in CurType
          /\ queue \in Seq(DOMAIN segs) /\ ordered \in Seq(DOMAIN segs)
      BY Zenon DEF Typed, CurType
    <2>3. DOMAIN segs = 1 .. Len(segs) /\ Len(segs) \in Nat
      BY <2>2
    <2>. QED  BY <2>1, <2>2, <2>3, Zenon
  <1>2. CASE BeginSave
    <2>1. /\ DOMAIN segs' = DOMAIN segs /\ pc' = "order" /\ queue' \in Orders(Len(segs))
      BY <1>2, BeginSaveIs
    <2>2. ToSet(queue') = 1 .. Len(segs)
      BY <2>1 DEF Orders, ToSet
    <2>3. Accounted'
      BY <1>1, <2>1, <2>2 DEF Accounted, Waiting
    <2>. QED  BY <2>1, <2>3 DEF Complete
  <1>3. CASE OrderSegment
    <2>. DEFINE h == Head(queue)
                rest == Tail(queue)
    <2>1. queue # <<>> /\ pc = "order" /\ h \in 1 .. Len(segs) /\ rest \in Seq(1 .. Len(segs))
      BY <1>1, <1>3, HeadTailProperties DEF OrderSegment
    <2>2. ToSet(queue) = {h} \cup ToSet(rest)
      BY <1>1, <2>1, ToSetOfHead
    <2>3. /\ \/ queue' = Append(rest, h) /\ ordered' = ordered
             \/ queue' = rest /\ ordered' = Append(ordered, h)
          /\ UNCHANGED <<secs, segs, pos, pc, generated, cur, shoff, file, rounds>>
      BY <1>3 DEF OrderSegment
    <2>. HIDE DEF h, rest
    <2>4. /\ ToSet(rest) \cup {h} \subseteq ToSet(Append(rest, h))
          /\ ToSet(ordered) \cup {h} \subseteq ToSet(Append(ordered, h))
      BY <1>1, <2>1, ToSetOfAppend
    <2>5. Waiting \subseteq Waiting'
      BY <2>1, <2>2, <2>3, <2>4 DEF Waiting
    <2>6. Accounted
      BY <2>1 DEF Complete, Laying
    <2>7. DOMAIN segs' = DOMAIN segs /\ generated \subseteq generated'
          /\ (\A s \in DOMAIN segs : segs'[s].members = segs[s].members)
          /\ pc # "sections" /\ pc' = "order"
      BY <2>1, <2>3
    <2>8. Accounted'
      BY <2>5, <2>6, <2>7, AccountedStill
    <2>. QED  BY <2>7, <2>8 DEF Complete
  <1>4. CASE EndOrder
    <2>1. /\ pc = "order" /\ queue = <<>> /\ queue' = ordered /\ pc' = "segments"
          /\ UNCHANGED <<secs, segs, pos, ordered, generated, cur, shoff, file>>
      BY <1>4 DEF EndOrder
    <2>2. Waiting' = Waiting
      BY <2>1, ToSetOfEmpty DEF Waiting
    <2>3. Accounted
      BY <2>1 DEF Complete, Laying
    <2>4. Accounted'
      BY <2>1, <2>2, <2>3, AccountedStill
    <2>. QED  BY <2>1, <2>4 DEF Complete
  <1>5. CASE StartSegment
    <2>1. /\ pc = "segments" /\ queue # <<>> /\ queue' = Tail(queue) /\ pc' = "sections"
          /\ cur'.seg = Head(queue) /\ cur'.next = 1
          /\ UNCHANGED <<secs, segs, generated, ordered>>
      BY <1>5 DEF StartSegment
    <2>2. ToSet(queue) = {Head(queue)} \cup ToSet(Tail(queue))
      BY <1>1, <2>1, ToSetOfHead
    <2>3. \A s \in Waiting : s \in Waiting' \/ (pc' = "sections" /\ s = cur'.seg)
      BY <2>1, <2>2 DEF Waiting
    <2>4. Accounted
      BY <2>1 DEF Complete, Laying
    <2>5. Accounted'
      BY <2>1, <2>3, <2>4, AccountedStill
    <2>6. Head(queue) \in DOMAIN segs
      BY <1>1, <2>1, HeadTailProperties
    <2>7. Seg' = segs[Head(queue)]
      BY <2>1 DEF Seg
    <2>9. \A k \in DOMAIN segs[Head(queue)].members : ~(k < 1)
      BY <2>6, SegmentIs
    <2>. QED  BY <2>1, <2>5, <2>7, <2>9 DEF Complete
  <1>6. CASE WriteSection
    <2>1. pc = "sections" /\ UNCHANGED <<segs, queue, ordered, shoff, file>>
      BY <1>6 DEF WriteSection
    <2>2. CASE pc' = "failed"
      BY <2>2 DEF Complete, Laying
    <2>3. CASE pc' # "failed"
      <3>1. /\ generated' = generated \cup {Member} /\ pc' = "sections" /\ cur'.next = cur.next + 1
            /\ cur'.seg = cur.seg /\ cur.seg \in DOMAIN segs /\ cur.next \in DOMAIN Seg.members
        BY <1>6, <2>1, <2>3, WriteSectionIs
      <3>2. Accounted /\ Waiting' = Waiting
        BY <2>1, <3>1 DEF Complete, Laying, Waiting
      <3>3. Accounted'
        BY <2>1, <3>1, <3>2, AccountedStill
      <3>4. Seg' = Seg
        BY <2>1, <3>1 DEF Seg
      <3>5. ASSUME NEW k \in DOMAIN Seg.members, k < cur.next + 1
            PROVE Seg.members[k] \in generated'
        <4>1. DOMAIN Seg.members = 1 .. Len(Seg.members)
          BY <3>1, SegmentIs DEF Seg
        <4>2. k \in Nat /\ cur.next \in Nat
          BY <3>1, <4>1
        <4>3. k = cur.next \/ k < cur.next
          BY <3>5, <4>2
        <4>. QED  BY <2>1, <3>1, <4>3 DEF Complete, Member
      <3>. QED  BY <3>1, <3>3, <3>4, <3>5 DEF Complete
    <2>. QED  BY <2>2, <2>3
  <1>7. CASE EndSegment
    <2>1. /\ pc = "sections" /\ cur.next > Len(Seg.members) /\ pc' = "segments"
          /\ UNCHANGED <<secs, pos, queue, ordered, generated, shoff, file>>
      BY <1>7 DEF EndSegment
    <2>2. /\ DOMAIN segs' = DOMAIN segs /\ cur.seg \in DOMAIN segs
          /\ \A s \in DOMAIN segs : segs'[s].members = segs[s].members
      BY <1>7, EndSegmentIs
    <2>3. \A s : s = cur.seg => Finished(s)'
      <3>1. DOMAIN Seg.members = 1 .. Len(Seg.members) /\ Len(Seg.members) \in Nat /\ cur.next \in Nat
        BY <1>1, <2>2, SegmentIs DEF Seg, CurType
      <3>2. \A k \in DOMAIN Seg.members : Seg.members[k] \in generated
        BY <2>1, <3>1 DEF Complete
      <3>3. \A k \in DOMAIN segs[cur.seg].members : segs[cur.seg].members[k] \in generated'
        BY <2>1, <3>2 DEF Seg
      <3>4. segs'[cur.seg].members = segs[cur.seg].members
        BY <2>2
      <3>. QED  BY <3>3, <3>4 DEF Finished, MemberSet, ToSet
    <2>4. Accounted /\ Waiting' = Waiting
      BY <2>1 DEF Complete, Laying, Waiting
    <2>5. Accounted'
      BY <2>1, <2>2, <2>3, <2>4, AccountedStill
    <2>. QED  BY <2>1, <2>5 DEF Complete
  <1>8. CASE EndSegments
    <2>1. /\ pc = "segments" /\ queue = <<>> /\ pc' = "loose"
          /\ UNCHANGED <<secs, segs, pos, queue, ordered, generated, cur, shoff, file>>
      BY <1>8 DEF EndSegments
    <2>2. Accounted /\ Waiting' = Waiting
      BY <2>1 DEF Complete, Laying, Waiting
    <2>3. Accounted'
      BY <2>1, <2>2, AccountedStill
    <2>. QED  BY <2>1, <2>3 DEF Complete
  <1>9. CASE PlaceLoose
    <2>1. /\ pc = "loose" /\ UNCHANGED <<segs, pc, queue, ordered, cur, shoff, file>>
          /\ generated \subseteq generated'
      BY <1>9 DEF PlaceLoose, Generated
    <2>2. Accounted /\ Waiting' = Waiting
      BY <2>1 DEF Complete, Laying, Waiting
    <2>3. Accounted'
      BY <2>1, <2>2, AccountedStill
    <2>. QED  BY <2>1, <2>3 DEF Complete
  <1>10. CASE WriteFile
    <2>1. /\ pc = "loose" /\ Loose = {} /\ pc' = "saved"
          /\ UNCHANGED <<secs, segs, queue, ordered, generated, cur>>
      BY <1>10 DEF WriteFile
    <2>2. Accounted /\ Waiting = {} /\ Waiting' = {} /\ queue = <<>>
      BY <2>1, ToSetOfEmpty DEF Complete, Laying, Waiting
    <2>3. Accounted'
      BY <2>1, <2>2, AccountedStill
    <2>4. ASSUME NEW i \in Indices PROVE i \in generated
      <3>1. i \in DOMAIN secs
        BY DEF Typed
      <3>2. CASE InSegment(i)
        <4>1. PICK s \in DOMAIN segs : i \in ToSet(segs[s].members)
          BY <3>2 DEF InSegment
        <4>2. Finished(s)
          BY <2>1, <2>2 DEF Accounted
        <4>. QED  BY <4>1, <4>2 DEF Finished, MemberSet
      <3>3. CASE ~InSegment(i)
        BY <2>1, <3>1, <3>3 DEF Loose
      <3>. QED  BY <3>2, <3>3
    <2>5. Indices' \subseteq generated'
      BY <1>1, <2>1, <2>4
    <2>. QED  BY <2>1, <2>2, <2>3, <2>5 DEF Complete
  <1>11. CASE Load \/ Keep
    <2>1. pc' = "built"
      BY <1>11 DEF Load, Keep
    <2>. QED  BY <2>1 DEF Complete, Laying
  <1>12. CASE UNCHANGED vars
    BY <1>12 DEF vars, Complete, Laying, Accounted, Waiting, Finished, MemberSet, Seg, Indices, N
  <1>. QED  BY <1>2, <1>3, <1>4, <1>5, <1>6, <1>7, <1>8, <1>9, <1>10, <1>11, <1>12
            DEF Next, Save, Done
-----------------------------------------------------------------------------
(***************************************************************************)
(* What has been placed stays apart.                                       *)
(***************************************************************************)
LEMMA PlacedWider ==
    ASSUME Typed, Placed, Laying, UNCHANGED secs, Len(segs') = Len(segs),
           \A i \in generated' : WithBits(i) => i \in generated,
           Limit' \in Nat, Limit' >= Limit
    PROVE  Placed'
  <1>1. HeadersEnd' = HeadersEnd /\ HeadersEnd \in Nat
    BY HeadersEndIs DEF HeadersEnd
  <1>2. Limit \in Nat
    BY DEF Limit, Typed
  <1>3. \A i : WithBits(i)' = WithBits(i)
    BY DEF WithBits, NoBits, Null
  <1>4. \A i, j : Apart(i, j)' = Apart(i, j)
    BY DEF Apart
  <1>5. HeadersEnd' <= Limit'
    BY <1>1, <1>2 DEF Placed
  <1>6. ASSUME NEW i \in generated', WithBits(i)
        PROVE  /\ HeadersEnd <= secs[i].offset /\ secs[i].offset + secs[i].size <= Limit'
               /\ \A j \in generated' : WithBits(j) /\ i # j => Apart(i, j)
    <2>1. i \in generated /\ i \in Indices
      BY <1>6 DEF Typed
    <2>2. secs[i].offset \in Nat /\ secs[i].size \in Nat
      BY <2>1, SectionIs
    <2>3. secs[i].offset + secs[i].size <= Limit /\ HeadersEnd <= secs[i].offset
      BY <1>6, <2>1 DEF Placed
    <2>4. secs[i].offset + secs[i].size <= Limit'
      BY <1>2, <2>2, <2>3
    <2>. QED  BY <1>6, <2>1, <2>3, <2>4 DEF Placed
  <1>. QED  BY <1>1, <1>3, <1>4, <1>5, <1>6 DEF Placed

\* A section placed from the position on is apart from the earlier ones.
LEMMA PlacedMore ==
    ASSUME Typed, Placed, Laying, pc # "saved", pc' = pc, UNCHANGED segs,
           NEW i \in Indices, i \notin generated, generated' = generated \cup {i},
           NEW at \in Nat, at >= pos, PlacedAt(i, at), Ends(i, at) < Word
    PROVE  Placed'
  <1>1. HeadersEnd' = HeadersEnd /\ HeadersEnd \in Nat /\ HeadersEnd <= pos /\ pos \in Nat
    BY HeadersEndIs DEF HeadersEnd, Placed, Typed, Limit
  <1>2. secs[i].size \in Nat /\ secs[i].offset \in Nat
    BY SectionIs
  <1>3. \A j \in Indices : WithBits(j)' = WithBits(j)
    BY DEF PlacedAt, WithBits, NoBits, Null
  <1>4. Limit' = pos' /\ Limit = pos
    BY DEF Limit
  <1>5. \A n \in Nat : n < Word => n % Word = n
    BY LayoutAssumption
  <1>6. pos' = at + (IF NoBits(i) \/ Null(i) THEN 0 ELSE secs[i].size)
    <2>1. CASE NoBits(i) \/ Null(i)
      BY <2>1 DEF PlacedAt, After
    <2>2. CASE ~(NoBits(i) \/ Null(i))
      <3>1. at + secs[i].size \in Nat /\ at + secs[i].size < Word
        BY <1>2, <2>2 DEF Ends
      <3>2. (at + secs[i].size) % Word = at + secs[i].size
        BY <1>5, <3>1
      <3>. QED  BY <2>2, <3>2 DEF PlacedAt, After, Plus
    <2>. QED  BY <2>1, <2>2
  <1>7. pos' \in Nat /\ pos' >= at
    BY <1>2, <1>6
  <1>8. ASSUME WithBits(i)
        PROVE  /\ secs'[i].offset = at /\ secs'[i].size = secs[i].size
               /\ at + secs[i].size = pos'
    <2>1. i # 0
      BY <1>8 DEF WithBits, Typed
    <2>. QED  BY <1>6, <1>8, <2>1 DEF PlacedAt, WithBits
  <1>9. ASSUME NEW j \in generated, WithBits(j)
        PROVE  /\ j \in Indices /\ j # i /\ secs'[j] = secs[j]
               /\ secs[j].offset \in Nat /\ secs[j].size \in Nat
               /\ HeadersEnd <= secs[j].offset /\ secs[j].offset + secs[j].size <= pos
    <2>1. j \in Indices /\ j # i
      BY DEF Typed
    <2>2. secs'[j] = secs[j]
      BY <2>1 DEF PlacedAt
    <2>. QED  BY <1>4, <1>9, <2>1, <2>2, SectionIs DEF Placed
  <1>10. ASSUME NEW j \in generated', WithBits(j)'
         PROVE  HeadersEnd' <= secs'[j].offset /\ secs'[j].offset + secs'[j].size <= Limit'
    <2>0. j \in Indices
      BY DEF Typed
    <2>1. CASE j = i
      <3>1. WithBits(i)
        BY <1>3, <1>10, <2>0, <2>1
      <3>. QED  BY <1>1, <1>2, <1>4, <1>7, <1>8, <2>1, <3>1
    <2>2. CASE j # i
      <3>1. j \in generated /\ WithBits(j)
        BY <1>3, <1>10, <2>0, <2>2
      <3>. QED  BY <1>1, <1>4, <1>7, <1>9, <3>1
    <2>. QED  BY <2>1, <2>2
  <1>11. ASSUME NEW j \in generated', WithBits(j)', NEW k \in generated', WithBits(k)', j # k
         PROVE  Apart(j, k)'
    <2>0. j \in Indices /\ k \in Indices /\ WithBits(j) /\ WithBits(k)
      <3>1. j \in Indices /\ k \in Indices
        BY DEF Typed
      <3>. QED  BY <1>3, <1>11, <3>1
    <2>1. CASE j = i
      <3>1. k \in generated
        BY <1>11, <2>1
      <3>. QED  BY <1>1, <1>8, <1>9, <2>0, <2>1, <3>1 DEF Apart
    <2>2. CASE k = i
      <3>1. j \in generated
        BY <1>11, <2>2
      <3>. QED  BY <1>1, <1>8, <1>9, <2>0, <2>2, <3>1 DEF Apart
    <2>3. CASE j # i /\ k # i
      <3>1. j \in generated /\ k \in generated
        BY <2>3
      <3>2. Apart(j, k)
        BY <1>11, <2>0, <3>1 DEF Placed
      <3>. QED  BY <1>9, <2>0, <3>1, <3>2 DEF Apart
    <2>. QED  BY <2>1, <2>2, <2>3
  <1>12. HeadersEnd' <= Limit'
    BY <1>1, <1>4, <1>7
  <1>. QED  BY <1>10, <1>11, <1>12 DEF Placed

\* Where WriteSection puts a section it places: the sum does not wrap.
LEMMA PlaceIs ==
    ASSUME Typed, RoomInFile, WriteSection, Member \notin generated, ~Behind(Member)
    PROVE  /\ Plus(pos, SectionAlign(Member)) = pos + SectionAlign(Member)
           /\ pos + SectionAlign(Member) \in Nat /\ pos + SectionAlign(Member) >= pos
           /\ Ends(Member, pos + SectionAlign(Member)) < Word
  <1>. DEFINE i == Member
              gap == SectionAlign(i)
  <1>1. i \in Indices /\ gap \in Nat /\ pc = "sections" /\ cur.next <= Len(Seg.members)
    BY WriteSectionIs DEF WriteSection
  <1>2. Ends(i, pos + gap) < Word
    BY <1>1 DEF RoomInFile
  <1>3. secs[i].size \in Nat /\ pos \in Nat
    BY <1>1, SectionIs DEF Typed
  <1>. HIDE DEF i, gap
  <1>4. pos + gap \in Nat /\ pos + gap < Word /\ pos + gap >= pos
    BY <1>1, <1>2, <1>3, LayoutAssumption DEF Ends
  <1>5. Plus(pos, gap) = pos + gap
    BY <1>4, LayoutAssumption DEF Plus
  <1>. QED  BY <1>2, <1>4, <1>5 DEF i, gap

LEMMA PlacedKept ==
    ASSUME Typed, Placed, Complete, RoomInFile, [Next]_vars
    PROVE  Placed'
  <1>1. Typed' /\ N' = N /\ Indices' = Indices /\ pos \in Nat /\ shoff \in Nat
        /\ HeadersEnd \in Nat /\ pos' \in Nat /\ shoff' \in Nat
    BY TypedKept, HeadersEndIs DEF Typed
  <1>2. CASE BeginSave
    <2>1. Len(segs') = Len(segs) /\ generated' = {} /\ pos' = HeadersEnd /\ pc' = "order"
      BY <1>2, BeginSaveIs
    <2>2. HeadersEnd' = HeadersEnd /\ Limit' = pos'
      BY <2>1 DEF HeadersEnd, Limit
    <2>. QED  BY <1>1, <2>1, <2>2 DEF Placed
  <1>3. CASE OrderSegment \/ EndOrder \/ EndSegments
    <2>1. /\ UNCHANGED <<secs, segs, pos, generated>> /\ pc \in {"order", "segments"}
          /\ pc' \in {"order", "segments", "loose"}
      BY <1>3 DEF OrderSegment, EndOrder, EndSegments
    <2>. QED  BY <1>1, <2>1, PlacedWider DEF Limit, Laying
  <1>4. CASE StartSegment
    <2>. DEFINE move == Start(segs[Head(queue)]).move
    <2>1. /\ UNCHANGED <<secs, segs, generated>> /\ pc = "segments" /\ pc' = "sections"
          /\ pos' = pos + move
      BY <1>4 DEF StartSegment
    <2>2. move \in Nat
      <3>1. Head(queue) \in DOMAIN segs
        BY <1>4, HeadTailProperties DEF StartSegment, Typed
      <3>. QED  BY <3>1, StartIs
    <2>3. pos' >= pos
      BY <1>1, <2>1, <2>2
    <2>. QED  BY <1>1, <2>1, <2>3, PlacedWider DEF Limit, Laying
  <1>5. CASE WriteSection
    <2>. DEFINE i == Member
                gap == SectionAlign(i)
                at == Plus(pos, gap)
    <2>1. pc = "sections" /\ UNCHANGED segs /\ Laying /\ Limit = pos
      BY <1>5 DEF WriteSection, Laying, Limit
    <2>2. CASE pc' = "failed"
      BY <2>2 DEF Placed, Laying
    <2>3. CASE /\ pc' = pc /\ generated' = generated \cup {i} /\ UNCHANGED <<secs, pos>>
               /\ Null(i) \/ i \in generated
      <3>1. \A j \in generated' : WithBits(j) => j \in generated
        BY <2>3 DEF WithBits
      <3>2. Limit' = pos
        BY <2>1, <2>3 DEF Limit
      <3>. QED  BY <1>1, <2>1, <2>3, <3>1, <3>2, PlacedWider
    <2>4. CASE /\ pc' = pc /\ generated' = generated \cup {i}
               /\ i \notin generated /\ ~Null(i) /\ ~Behind(i) /\ PlacedAt(i, at)
      <3>1. i \in Indices
        BY <1>5, WriteSectionIs
      <3>6. at \in Nat /\ at >= pos /\ Ends(i, at) < Word
        BY <1>5, <2>4, PlaceIs
      <3>. HIDE DEF at
      <3>. QED  BY <2>1, <2>4, <3>1, <3>6, PlacedMore
    <2>. QED  BY <1>5, <2>1, <2>2, <2>3, <2>4, WriteSectionIs
  <1>6. CASE EndSegment
    <2>1. /\ UNCHANGED <<secs, pos, generated>> /\ pc = "sections" /\ pc' = "segments"
          /\ Len(segs') = Len(segs)
      BY <1>6, EndSegmentIs DEF EndSegment
    <2>. QED  BY <1>1, <2>1, PlacedWider DEF Limit, Laying
  <1>7. CASE PlaceLoose
    <2>1. PICK i \in Loose :
             /\ i \in Indices /\ generated' = generated \cup {i}
             /\ pos + Padding(pos, secs[i].align) \in Nat
             /\ PlacedAt(i, pos + Padding(pos, secs[i].align))
             /\ UNCHANGED <<segs, pc, queue, ordered, cur, shoff, file, rounds>>
      BY <1>7, PlaceLooseIs
    <2>. DEFINE at == pos + Padding(pos, secs[i].align)
    <2>2. pc = "loose" /\ Laying /\ i \notin generated
      BY <1>7 DEF PlaceLoose, Laying, Loose
    <2>3. Ends(i, at) < Word
      BY <2>2 DEF RoomInFile
    <2>4. at >= pos
      <3>1. Padding(pos, secs[i].align) \in Nat
        BY <1>1, <2>1, SectionIs, PaddingIs
      <3>. QED  BY <1>1, <3>1
    <2>5. at \in Nat /\ PlacedAt(i, at)
      BY <2>1
    <2>. HIDE DEF at
    <2>. QED  BY <2>1, <2>2, <2>3, <2>4, <2>5, PlacedMore
  <1>8. CASE WriteFile
    <2>1. /\ UNCHANGED <<secs, segs, generated>> /\ pc = "loose" /\ pc' = "saved"
          /\ pos' = pos + Padding(pos, 4) /\ shoff' = pos'
      BY <1>8 DEF WriteFile
    <2>2. Padding(pos, 4) \in Nat
      BY <1>1, PaddingIs
    <2>3. pos' >= pos
      BY <1>1, <2>1, <2>2
    <2>. QED  BY <1>1, <2>1, <2>3, PlacedWider DEF Limit, Laying
  <1>9. CASE Load \/ Keep
    <2>1. pc' = "built"
      BY <1>9 DEF Load, Keep
    <2>. QED  BY <2>1 DEF Placed, Laying
  <1>10. CASE UNCHANGED vars
    <2>1. UNCHANGED <<secs, segs, generated, pos, pc, shoff>>
      BY <1>10 DEF vars
    <2>2. CASE Laying
      BY <1>1, <2>1, <2>2, PlacedWider DEF Limit
    <2>3. CASE ~Laying
      BY <2>1, <2>3 DEF Laying, Placed
    <2>. QED  BY <2>2, <2>3
  <1>. QED  BY <1>2, <1>3, <1>4, <1>5, <1>6, <1>7, <1>8, <1>9, <1>10 DEF Next, Save, Done

-----------------------------------------------------------------------------
LEMMA BlocksApart == LayInv => NoOverlap
  <1>. SUFFICES ASSUME LayInv, pc = "saved", NEW a \in Blocks, NEW b \in Blocks
                PROVE  a = b \/ a.to <= b.from \/ b.to <= a.from
    BY DEF NoOverlap, Saved
  <1>1. Typed /\ Placed /\ Complete /\ Laying /\ Limit = shoff /\ shoff \in Nat
        /\ DOMAIN secs = Indices /\ Indices \subseteq generated
        /\ HeadersEnd \in Nat /\ HeadersEnd <= shoff /\ Cardinality(DOMAIN secs) \in Nat
    BY HeadersEndIs DEF LayInv, Laying, Limit, Typed, Placed, Complete, N, Number
  <1>. DEFINE all == ShSize * Cardinality(DOMAIN secs)
              heads == Block(-1, 0, HeadersEnd)
              table == Block(-2, shoff, all)
              sect(i) == Block(i, secs[i].offset, secs[i].size)
              D == {i \in Indices : WithBits(i)}
  <1>2. all \in Nat
    BY <1>1, ProductIs, LayoutAssumption
  <1>3. Blocks = {heads, table} \cup {sect(i) : i \in D}
    BY <1>1 DEF Blocks, HeadersEnd, WithBits
  <1>4. \A i \in D : /\ secs[i].offset \in Nat /\ secs[i].size \in Nat
                     /\ HeadersEnd <= secs[i].offset /\ secs[i].offset + secs[i].size <= shoff
                     /\ \A j \in D : i # j => Apart(i, j)
    <2>. TAKE i \in D
    <2>1. i \in generated /\ WithBits(i) /\ i \in Indices
      BY <1>1
    <2>2. secs[i].offset \in Nat /\ secs[i].size \in Nat
      BY <1>1, <2>1, SectionIs
    <2>3. \A j \in D : j \in generated /\ WithBits(j)
      BY <1>1
    <2>. QED  BY <1>1, <2>1, <2>2, <2>3 DEF Placed
  <1>. HIDE DEF D, all
  <1>5. /\ heads.from = 0 /\ heads.to = HeadersEnd
        /\ table.from = shoff /\ table.to = shoff + all
    BY <1>1 DEF Block
  <1>6. \A i \in D : sect(i).from = secs[i].offset /\ sect(i).to = secs[i].offset + secs[i].size
    BY DEF Block
  <1>7. \A i \in D : heads.to <= sect(i).from /\ sect(i).to <= table.from
    BY <1>4, <1>5, <1>6
  <1>8. heads.to <= table.from
    BY <1>1, <1>5
  <1>9. \A i, j \in D : i # j => sect(i).to <= sect(j).from \/ sect(j).to <= sect(i).from
    BY <1>4, <1>6 DEF Apart
  <1>. HIDE DEF heads, table, sect
  <1>. QED  BY <1>3, <1>7, <1>8, <1>9

LEMMA LayInvInit == Init => LayInv
  <1>. SUFFICES ASSUME Init PROVE LayInv
    OBVIOUS
  <1>1. pc = "built"
    BY DEF Init
  <1>. QED  BY <1>1, InitTyped DEF LayInv, Placed, Complete, Laying

LEMMA LayInvKept == LayInv /\ RoomInFile /\ [Next]_vars => LayInv'
  BY TypedKept, PlacedKept, CompleteKept DEF LayInv

\* No byte of a file that elfio::save writes belongs to two of its headers, its
\* section header table and its sections with bits, for any sections and
\* segments, however the segments share and nest and whatever addresses the
\* caller has set, and for any number of saves and loads, as long as no position
\* passes what an Elf_Xword can hold.
THEOREM NoBytesShared == Spec /\ []RoomInFile => []NoOverlap
  <1>1. Init => LayInv
    BY LayInvInit
  <1>2. LayInv /\ RoomInFile /\ [Next]_vars => LayInv'
    BY LayInvKept
  <1>3. LayInv => NoOverlap
    BY BlocksApart
  <1>. QED  BY <1>1, <1>2, <1>3, PTL DEF Spec
\* A step moves the position forward and puts sections behind it.
Ahead == /\ pos' >= pos
         /\ \A i \in DOMAIN secs : secs'[i].offset # secs[i].offset => secs'[i].offset >= pos

LEMMA PlacedAhead ==
    ASSUME Typed, NEW i \in Indices, NEW at \in Nat, at >= pos, PlacedAt(i, at), Ends(i, at) < Word
    PROVE  Ahead
  <1>1. secs[i].size \in Nat /\ pos \in Nat /\ DOMAIN secs = Indices
    BY SectionIs DEF Typed
  <1>2. pos' >= at
    <2>1. CASE NoBits(i) \/ Null(i)
      BY <2>1 DEF PlacedAt, After
    <2>2. CASE ~(NoBits(i) \/ Null(i))
      <3>1. at + secs[i].size \in Nat /\ at + secs[i].size < Word
        BY <1>1, <2>2 DEF Ends
      <3>2. (at + secs[i].size) % Word = at + secs[i].size
        BY <3>1, LayoutAssumption
      <3>3. pos' = at + secs[i].size
        BY <2>2, <3>2 DEF PlacedAt, After, Plus
      <3>. QED  BY <1>1, <3>3
    <2>. QED  BY <2>1, <2>2
  <1>3. pos' \in Nat
    BY PlacedAtIs
  <1>4. pos' >= pos
    BY <1>1, <1>2, <1>3
  <1>5. \A j \in Indices : secs'[j].offset # secs[j].offset => secs'[j].offset >= pos
    BY DEF PlacedAt
  <1>. QED  BY <1>1, <1>4, <1>5 DEF Ahead

LEMMA StepAhead ==
    ASSUME Typed, RoomInFile, [Next]_vars, pc # "built"
    PROVE  Ahead
  <1>1. pos \in Nat
    BY DEF Typed
  <1>2. CASE UNCHANGED <<secs, pos>>
    BY <1>1, <1>2 DEF Ahead
  <1>3. CASE StartSegment
    <2>. DEFINE move == Start(segs[Head(queue)]).move
    <2>1. UNCHANGED secs /\ pos' = pos + move
      BY <1>3 DEF StartSegment
    <2>2. Head(queue) \in DOMAIN segs
      BY <1>3, HeadTailProperties DEF StartSegment, Typed
    <2>3. move \in Nat
      BY <2>2, StartIs
    <2>4. pos' >= pos
      BY <1>1, <2>1, <2>3
    <2>. QED  BY <2>1, <2>4 DEF Ahead
  <1>4. CASE WriteSection
    <2>1. CASE UNCHANGED <<secs, pos>>
      BY <1>2, <2>1
    <2>2. CASE /\ Member \notin generated /\ ~Behind(Member)
               /\ PlacedAt(Member, Plus(pos, SectionAlign(Member)))
      <3>1. Member \in Indices
        BY <1>4, WriteSectionIs
      <3>. DEFINE at == Plus(pos, SectionAlign(Member))
      <3>2. at \in Nat /\ at >= pos /\ Ends(Member, at) < Word
        BY <1>4, <2>2, PlaceIs
      <3>3. PlacedAt(Member, at)
        BY <2>2
      <3>. HIDE DEF at
      <3>. QED  BY <3>1, <3>2, <3>3, PlacedAhead
    <2>. QED  BY <1>4, <2>1, <2>2, WriteSectionIs
  <1>5. CASE PlaceLoose
    <2>1. PICK i \in Loose :
             /\ i \in Indices /\ pos + Padding(pos, secs[i].align) \in Nat
             /\ PlacedAt(i, pos + Padding(pos, secs[i].align))
      BY <1>5, PlaceLooseIs
    <2>. DEFINE at == pos + Padding(pos, secs[i].align)
    <2>2. Ends(i, at) < Word
      BY <1>5 DEF RoomInFile, PlaceLoose
    <2>3. at \in Nat /\ PlacedAt(i, at)
      BY <2>1
    <2>4. at >= pos
      <3>1. Padding(pos, secs[i].align) \in Nat
        BY <1>1, <2>1, SectionIs, PaddingIs
      <3>. QED  BY <1>1, <3>1
    <2>. HIDE DEF at
    <2>. QED  BY <2>1, <2>2, <2>3, <2>4, PlacedAhead
  <1>6. CASE WriteFile
    <2>1. UNCHANGED secs /\ pos' = pos + Padding(pos, 4)
      BY <1>6 DEF WriteFile
    <2>2. Padding(pos, 4) \in Nat
      BY <1>1, PaddingIs
    <2>3. pos' >= pos
      BY <1>1, <2>1, <2>2
    <2>. QED  BY <2>1, <2>3 DEF Ahead
  <1>7. CASE Load
    <2>1. UNCHANGED pos /\ file.secs = secs
          /\ secs' = [i \in DOMAIN file.secs |-> [file.secs[i] EXCEPT !.set = TRUE]]
      BY <1>7 DEF Load, Typed
    <2>2. \A i \in DOMAIN secs : secs'[i].offset = secs[i].offset
      <3>. TAKE i \in DOMAIN secs
      <3>1. secs'[i] = [secs[i] EXCEPT !.set = TRUE]
        BY <2>1
      <3>2. secs[i] \in SectionHeaders
        BY DEF Typed
      <3>. QED  BY <3>1, <3>2 DEF SectionHeaders
    <2>. QED  BY <1>1, <2>1, <2>2 DEF Ahead
  <1>8. UNCHANGED <<secs, pos>> \/ StartSegment \/ WriteSection \/ PlaceLoose \/ WriteFile \/ Load
    BY DEF Next, Save, Done, vars, BeginSave, OrderSegment, EndOrder, EndSegment, EndSegments, Keep
  <1>. QED  BY <1>2, <1>3, <1>4, <1>5, <1>6, <1>7, <1>8

\* As long as no position passes what an Elf_Xword can hold, a save never goes
\* back in the file: write_segment_data refuses a section that would be before
\* the position, and only a sum that wraps gets past its test.
THEOREM OnlyWrapsGoBack == Spec /\ []RoomInFile => Forward
  <1>1. Init => LayInv
    BY LayInvInit
  <1>2. LayInv /\ RoomInFile /\ [Next]_vars => LayInv'
    BY LayInvKept
  <1>3. LayInv /\ RoomInFile /\ [Next]_vars =>
          [pc = "built"
             \/ /\ pos' >= pos
                /\ \A i \in DOMAIN secs :
                      secs'[i].offset # secs[i].offset => secs'[i].offset >= pos]_vars
    BY StepAhead DEF LayInv, Ahead
  <1>. QED  BY <1>1, <1>2, <1>3, PTL DEF Spec, Forward

------------------------------------------------------------------------------
(***************************************************************************)
(* What save refuses.  The order of the segments, what the caller owes and   *)
(* how far each segment has come together decide whether a section's place   *)
(* is still free.                                                            *)
(***************************************************************************)
\* What the caller owes when a save begins: that of WellFormed, and no segment
\* that begins with the headers of the file.
Owed ==
    pc = "built" =>
        /\ WellFormed([secs |-> secs, segs |-> segs])
        /\ \A s \in DOMAIN segs : segs[s].set => segs[s].offset # 0

\* No address passes the largest one that an Elf_Addr can hold.
RoomInMemory ==
    /\ \A i \in Indices : secs[i].addr < Word
    /\ /\ pc = "sections" /\ cur.next <= Len(Seg.members)
       /\ Member \notin generated /\ ~Null(Member) /\ ~Behind(Member) /\ ~secs[Member].set
       => Seg.vaddr + (pos + SectionAlign(Member) - cur.start) < Word

\* A segment is laid out before every smaller one that it includes.
LargerFirst ==
    /\ pc = "order" =>
          /\ \A j, k \in DOMAIN ordered : j < k => ~IsSubsequenceOf(ordered[j], ordered[k])
          /\ \A s \in ToSet(ordered), t \in ToSet(queue) : ~IsSubsequenceOf(s, t)
    /\ pc \in {"segments", "sections"} =>
          \A j, k \in DOMAIN queue : j < k => ~IsSubsequenceOf(queue[j], queue[k])
    /\ pc = "sections" => \A t \in ToSet(queue) : ~IsSubsequenceOf(cur.seg, t)

Early == pc \in {"order", "segments", "sections"}
Ascending(q) == \A j, k \in DOMAIN q : j < k => q[j] < q[k]

Nest(s, t) == LET S == MemberSet(segs[s])  T == MemberSet(segs[t])
              IN  S \cap T = {} \/ S \subseteq T \/ T \subseteq S

OwedOf(g) ==
    /\ Ascending(g.members)
    /\ \A j, k \in DOMAIN g.members : j < k => ~NoBits(g.members[j])
    /\ \A i \in MemberSet(g) \ generated : secs[i].set => secs[i].addr >= g.vaddr

\* What is left of the caller's part while the segments are laid out.
StillOwed ==
    Early =>
        /\ \A s \in DOMAIN segs : OwedOf(segs[s])
        /\ \A s, t \in DOMAIN segs : Nest(s, t)
        /\ \A s \in Waiting : Finished(s) \/ (segs[s].set => segs[s].offset # 0)

\* A section has been placed with a segment that includes none of those waiting.
Sourced ==
    /\ pc = "order" => generated = {}
    /\ pc \in {"segments", "sections"} =>
          \A i \in generated : \E s \in DOMAIN segs :
              /\ i \in MemberSet(segs[s])
              /\ \A t \in ToSet(queue) : ~IsSubsequenceOf(s, t)
              /\ Finished(s) \/ (pc = "sections" /\ s = cur.seg)

\* A segment either has all its sections or gets them all now, and then the
\* position is the end of one of them, in memory as in the file.
Reaches(i, at) ==
    secs[i].set /\ secs[i].addr >= Seg.vaddr /\ secs[i].addr + secs[i].size - Seg.vaddr = at - cur.start
Fresh ==
    pc = "sections" =>
        \/ Finished(cur.seg)
        \/ /\ \A k \in DOMAIN Seg.members : k >= cur.next => Seg.members[k] \notin generated
           /\ cur.next <= Len(Seg.members) =>
                 /\ cur.start <= pos
                 /\ \/ pos = cur.start
                    \/ \E j \in DOMAIN Seg.members : j < cur.next /\ Reaches(Seg.members[j], pos)

RefusalInv == LargerFirst /\ StillOwed /\ Sourced /\ Fresh /\ RefusesOnlyOverlaps
-----------------------------------------------------------------------------
(***************************************************************************)
(* std::includes finds what is there.                                      *)
(***************************************************************************)
LEMMA IncludesIs ==
    ASSUME NEW whole \in Seq(Nat), NEW part \in Seq(Nat), Ascending(whole), Ascending(part),
           \A k \in 1 .. Len(part) : \E l \in 1 .. Len(whole) : whole[l] = part[k]
    PROVE  Includes(whole, part)
  <1>. DEFINE n == Len(whole)
              m == Len(part)
              J == 1 .. m + 1
              K == [i \in 0 .. n |-> {j \in J : \A k \in j .. m : \E l \in i + 1 .. n : whole[l] = part[k]}]
              step == [i \in 1 .. n |-> [j \in J |-> Merged(part, j, whole[i])]]
              start == 1
              W == CHOOSE next : next = [i \in 0 .. Len(whole) |->
                      IF i = 0 THEN 1 ELSE Merged(part, next[i - 1], whole[i])]
  <1>1. /\ n \in Nat /\ m \in Nat /\ DOMAIN part = 1 .. m /\ DOMAIN whole = 1 .. n
        /\ \A i \in 1 .. n : whole[i] \in Nat
        /\ \A k \in 1 .. m : part[k] \in Nat
    OBVIOUS
  <1>. HIDE DEF n, m
  <1>2. start \in K[0]
    <2>1. 0 \in 0 .. n /\ 1 \in J /\ 0 + 1 = 1
      BY <1>1
    <2>2. \A k \in 1 .. m : \E l \in 1 .. n : whole[l] = part[k]
      BY DEF n, m
    <2>. QED  BY <2>1, <2>2
  <1>3. ASSUME NEW i \in 1 .. n, NEW j \in K[i - 1] PROVE Merged(part, j, whole[i]) \in K[i]
    <2>1. i - 1 \in 0 .. n /\ i \in 0 .. n /\ (i - 1) + 1 = i
      BY <1>1
    <2>2. j \in J /\ \A k \in j .. m : \E l \in i .. n : whole[l] = part[k]
      BY <1>3, <2>1
    <2>3. CASE j = m + 1
      <3>1. Merged(part, j, whole[i]) = j
        BY <1>1, <2>3 DEF Merged
      <3>2. \A k \in j .. m : FALSE
        BY <1>1, <2>3
      <3>. QED  BY <2>1, <2>2, <3>1, <3>2
    <2>4. CASE j # m + 1
      <3>1. j \in 1 .. m /\ j \in DOMAIN part /\ j \in j .. m
        BY <1>1, <2>2, <2>4
      <3>2. PICK l \in i .. n : whole[l] = part[j]
        BY <2>2, <3>1
      <3>3. l \in 1 .. n /\ whole[l] \in Nat /\ whole[i] \in Nat /\ part[j] \in Nat
        BY <1>1, <3>1
      <3>4. CASE l = i
        <4>1. Merged(part, j, whole[i]) = j + 1 /\ j + 1 \in J
          BY <1>1, <3>1, <3>2, <3>3, <3>4 DEF Merged
        <4>2. ASSUME NEW k \in j + 1 .. m PROVE \E x \in i + 1 .. n : whole[x] = part[k]
          <5>1. k \in j .. m /\ k \in 1 .. m /\ j < k
            BY <1>1, <3>1
          <5>2. PICK x \in i .. n : whole[x] = part[k]
            BY <2>2, <5>1
          <5>3. part[j] < part[k] /\ part[k] \in Nat
            BY <1>1, <3>1, <5>1 DEF Ascending
          <5>4. x # i
            BY <3>2, <3>3, <3>4, <5>2, <5>3
          <5>5. x \in i + 1 .. n
            BY <1>1, <5>4
          <5>. QED  BY <5>2, <5>5
        <4>. QED  BY <2>1, <4>1, <4>2
      <3>5. CASE l # i
        <4>1. whole[i] < part[j]
          <5>1. i < l /\ i \in DOMAIN whole /\ l \in DOMAIN whole
            BY <1>1, <3>3, <3>5
          <5>. QED  BY <3>2, <5>1 DEF Ascending
        <4>2. Merged(part, j, whole[i]) = j
          BY <4>1 DEF Merged
        <4>3. ASSUME NEW k \in j .. m PROVE \E x \in i + 1 .. n : whole[x] = part[k]
          <5>1. k \in 1 .. m /\ j <= k /\ part[k] \in Nat
            BY <1>1, <3>1
          <5>2. part[j] <= part[k]
            <6>1. CASE j = k
              BY <3>3, <6>1
            <6>2. CASE j # k
              <7>1. j < k
                BY <3>1, <5>1, <6>2
              <7>2. part[j] < part[k]
                BY <1>1, <3>1, <5>1, <7>1 DEF Ascending
              <7>. QED  BY <3>3, <5>1, <7>2
            <6>. QED  BY <6>1, <6>2
          <5>3. PICK x \in i .. n : whole[x] = part[k]
            BY <2>2
          <5>4. x # i
            BY <3>3, <4>1, <5>1, <5>2, <5>3
          <5>5. x \in i + 1 .. n
            BY <1>1, <5>4
          <5>. QED  BY <5>3, <5>5
        <4>. QED  BY <2>1, <2>2, <4>2, <4>3
      <3>. QED  BY <3>4, <3>5
    <2>. QED  BY <2>3, <2>4
  <1>4. \A i \in 1 .. n : \A j \in K[i - 1] : j \in J /\ step[i][j] = Merged(part, j, whole[i])
    <2>. TAKE i \in 1 .. n
    <2>1. i - 1 \in 0 .. n
      BY <1>1
    <2>. QED  BY <2>1
  <1>5. \A i \in 1 .. n : \A j \in K[i - 1] : step[i][j] \in K[i]
    BY <1>3, <1>4
  <1>. HIDE DEF K, step, J
  <1>6. PICK w : /\ w = [i \in 0 .. n |-> w[i]] /\ w[0] = start
                 /\ \A i \in 1 .. n : w[i] = step[i][w[i - 1]]
                 /\ \A i \in 0 .. n : w[i] \in K[i]
    <2>. HIDE DEF W, start
    <2>1. \E w : Loops(w, n, K, start, step)
      BY <1>1, <1>2, <1>5, LoopExists
    <2>. QED  BY <2>1 DEF Loops
  <1>7. \A i \in 0 .. n : w[i] = IF i = 0 THEN 1 ELSE Merged(part, w[i - 1], whole[i])
    <2>. TAKE i \in 0 .. n
    <2>1. CASE i = 0
      BY <1>6, <2>1
    <2>2. CASE i # 0
      <3>1. i \in 1 .. n /\ i - 1 \in 0 .. n
        BY <1>1, <2>2
      <3>. QED  BY <1>4, <1>6, <2>2, <3>1
    <2>. QED  BY <2>1, <2>2
  <1>8. w = [i \in 0 .. Len(whole) |-> IF i = 0 THEN 1 ELSE Merged(part, w[i - 1], whole[i])]
    <2>1. w = [i \in 0 .. n |-> w[i]]
      BY <1>6
    <2>. QED  BY <1>7, <2>1 DEF n
  <1>9. W = [i \in 0 .. Len(whole) |-> IF i = 0 THEN 1 ELSE Merged(part, W[i - 1], whole[i])]
    BY <1>8, Zenon
  <1>10. Includes(whole, part) = (W[Len(whole)] > Len(part))
    BY Zenon DEF Includes
  <1>. HIDE DEF W
  <1>11. \A i \in 0 .. n : W[i] = IF i = 0 THEN 1 ELSE Merged(part, W[i - 1], whole[i])
    BY <1>9 DEF n
  <1>12. \A i \in 0 .. n : W[i] \in K[i]
    <2>1. 0 \in 0 .. n
      BY <1>1
    <2>2. W[0] \in K[0]
      BY <1>2, <1>11, <2>1
    <2>3. ASSUME NEW i \in 1 .. n, W[i - 1] \in K[i - 1] PROVE W[i] \in K[i]
      <3>1. i \in 0 .. n /\ i # 0
        BY <1>1
      <3>. QED  BY <1>3, <1>11, <2>3, <3>1
    <2>. QED  BY <1>1, <2>2, <2>3, LoopStays
  <1>13. W[n] \in K[n] /\ n \in 0 .. n
    BY <1>1, <1>12
  <1>14. W[n] > m
    <2>1. W[n] \in 1 .. m + 1 /\ \A k \in W[n] .. m : \E l \in n + 1 .. n : whole[l] = part[k]
      BY <1>13 DEF K, J
    <2>2. \A l \in n + 1 .. n : FALSE
      BY <1>1
    <2>3. W[n] \notin W[n] .. m
      BY <2>1, <2>2
    <2>. QED  BY <1>1, <2>1, <2>3
  <1>. QED  BY <1>10, <1>14 DEF n, m

\* Indices in ascending order are as many as the sequence is long.
LEMMA AscendingCount ==
    ASSUME NEW q \in Seq(Nat), Ascending(q)
    PROVE  IsFiniteSet(ToSet(q)) /\ Cardinality(ToSet(q)) = Len(q)
  <1>. DEFINE n == Len(q)
              f == [k \in 1 .. n |-> q[k]]
  <1>1. n \in Nat /\ DOMAIN q = 1 .. n /\ \A k \in 1 .. n : q[k] \in Nat
    OBVIOUS
  <1>2. ToSet(q) = {q[k] : k \in 1 .. n}
    BY <1>1 DEF ToSet
  <1>. HIDE DEF n
  <1>3. f \in Surjection(1 .. n, ToSet(q))
    BY <1>1, <1>2, Fun_IsSurj
  <1>4. ASSUME NEW j \in 1 .. n, NEW k \in 1 .. n, q[j] = q[k] PROVE j = k
    <2>1. q[j] \in Nat /\ q[k] \in Nat /\ ~(j < k) /\ ~(k < j)
      BY <1>1, <1>4 DEF Ascending
    <2>. QED  BY <1>1, <2>1
  <1>5. f \in Injection(1 .. n, ToSet(q))
    BY <1>1, <1>2, <1>4, Fun_IsInj
  <1>6. IsFiniteSet(1 .. n) /\ Cardinality(1 .. n) = n
    BY <1>1, FS_Interval
  <1>. HIDE DEF f
  <1>. QED  BY <1>3, <1>5, <1>6, FS_Surjection DEF n

-----------------------------------------------------------------------------
LEMMA MembersAre ==
    ASSUME Typed, NEW s \in DOMAIN segs
    PROVE  /\ segs[s].members \in Seq(Nat)
           /\ MemberSet(segs[s]) = ToSet(segs[s].members)
           /\ \A k \in 1 .. Len(segs[s].members) : segs[s].members[k] \in MemberSet(segs[s])
  <1>1. Indices \subseteq Nat
    BY DEF Indices, Typed
  <1>2. segs[s].members \in Seq(Indices)
    BY SegmentIs
  <1>3. segs[s].members \in Seq(Nat)
    <2>. DEFINE q == segs[s].members
    <2>1. q \in Seq(Indices)
      BY <1>2
    <2>. HIDE DEF q, Indices
    <2>2. Len(q) \in Nat /\ q \in [1 .. Len(q) -> Indices]
      BY <2>1
    <2>3. q \in [1 .. Len(q) -> Nat]
      BY <1>1, <2>2
    <2>4. q \in Seq(Nat)
      BY <2>2, <2>3, SeqDef
    <2>. QED  BY <2>4 DEF q
  <1>4. MemberSet(segs[s]) = ToSet(segs[s].members)
    BY DEF MemberSet
  <1>. QED  BY <1>3, <1>4, MemberSetIs

\* Of two segments the one that really includes the other is the longer one,
\* and get_ordered_segments sees that it includes it.
LEMMA InclusionIsSeen ==
    ASSUME Typed, NEW s \in DOMAIN segs, NEW t \in DOMAIN segs,
           Ascending(segs[s].members), Ascending(segs[t].members),
           MemberSet(segs[t]) \subseteq MemberSet(segs[s]),
           ~(MemberSet(segs[s]) \subseteq MemberSet(segs[t]))
    PROVE  IsSubsequenceOf(t, s)
  <1>. DEFINE a == segs[t].members
              b == segs[s].members
  <1>1. a \in Seq(Nat) /\ b \in Seq(Nat) /\ MemberSet(segs[t]) = ToSet(a) /\ MemberSet(segs[s]) = ToSet(b)
    BY MembersAre
  <1>2. Ascending(a) /\ Ascending(b)
    OBVIOUS
  <1>3. ToSet(a) \subseteq ToSet(b) /\ ToSet(a) # ToSet(b)
    BY <1>1
  <1>. HIDE DEF a, b
  <1>4. /\ IsFiniteSet(ToSet(a)) /\ Cardinality(ToSet(a)) = Len(a)
        /\ IsFiniteSet(ToSet(b)) /\ Cardinality(ToSet(b)) = Len(b)
    BY <1>1, <1>2, AscendingCount
  <1>5. Cardinality(ToSet(a)) <= Cardinality(ToSet(b)) /\ Cardinality(ToSet(a)) # Cardinality(ToSet(b))
    BY <1>3, <1>4, FS_Subset
  <1>6. Len(a) < Len(b)
    BY <1>1, <1>4, <1>5
  <1>7. \A k \in 1 .. Len(a) : \E l \in 1 .. Len(b) : b[l] = a[k]
    <2>1. ToSet(a) = {a[k] : k \in 1 .. Len(a)} /\ ToSet(b) = {b[l] : l \in 1 .. Len(b)}
      BY <1>1 DEF ToSet
    <2>. QED  BY <1>3, <2>1
  <1>8. Includes(b, a)
    BY <1>1, <1>2, <1>7, IncludesIs
  <1>. QED  BY <1>6, <1>8 DEF IsSubsequenceOf, a, b

LEMMA AppendSet ==
    ASSUME NEW S, NEW q \in Seq(S), NEW x \in S
    PROVE  ToSet(Append(q, x)) = ToSet(q) \cup {x}
  <1>1. DOMAIN Append(q, x) = 1 .. Len(q) + 1 /\ DOMAIN q = 1 .. Len(q) /\ Len(q) \in Nat
    BY AppendProperties
  <1>2. /\ \A k \in 1 .. Len(q) : Append(q, x)[k] = q[k]
        /\ Append(q, x)[Len(q) + 1] = x
    BY AppendProperties
  <1>3. ASSUME NEW k \in 1 .. Len(q) + 1 PROVE Append(q, x)[k] \in ToSet(q) \cup {x}
    <2>1. k \in 1 .. Len(q) \/ k = Len(q) + 1
      BY <1>1
    <2>. QED  BY <1>1, <1>2, <2>1 DEF ToSet
  <1>4. ToSet(Append(q, x)) \subseteq ToSet(q) \cup {x}
    BY <1>1, <1>3 DEF ToSet
  <1>. QED  BY <1>4, ToSetOfAppend

LEMMA InclusionStays ==
    ASSUME \A s \in DOMAIN segs : segs'[s].members = segs[s].members,
           NEW s \in DOMAIN segs, NEW t \in DOMAIN segs
    PROVE  IsSubsequenceOf(s, t)' = IsSubsequenceOf(s, t)
  BY DEF IsSubsequenceOf

LEMMA QueueIs ==
    ASSUME Typed
    PROVE  /\ DOMAIN queue = 1 .. Len(queue) /\ Len(queue) \in Nat
           /\ DOMAIN ordered = 1 .. Len(ordered) /\ Len(ordered) \in Nat
           /\ \A k \in DOMAIN queue : queue[k] \in DOMAIN segs
           /\ \A k \in DOMAIN ordered : ordered[k] \in DOMAIN segs
           /\ ToSet(queue) \subseteq DOMAIN segs /\ ToSet(ordered) \subseteq DOMAIN segs
  <1>. DEFINE S == DOMAIN segs
  <1>1. queue \in Seq(S) /\ ordered \in Seq(S)
    BY DEF Typed
  <1>. HIDE DEF S
  <1>2. /\ DOMAIN queue = 1 .. Len(queue) /\ Len(queue) \in Nat
        /\ DOMAIN ordered = 1 .. Len(ordered) /\ Len(ordered) \in Nat
        /\ \A k \in DOMAIN queue : queue[k] \in S
        /\ \A k \in DOMAIN ordered : ordered[k] \in S
    BY <1>1
  <1>3. ToSet(queue) \subseteq S /\ ToSet(ordered) \subseteq S
    BY <1>2 DEF ToSet
  <1>. QED  BY <1>2, <1>3 DEF S

\* The segment at the head of the queue and the rest of it.
LEMMA HeadIs ==
    ASSUME Typed, queue # <<>>
    PROVE  /\ Head(queue) \in DOMAIN segs /\ Head(queue) = queue[1] /\ 1 \in DOMAIN queue
           /\ Tail(queue) \in Seq(DOMAIN segs)
           /\ ToSet(queue) = {Head(queue)} \cup ToSet(Tail(queue))
           /\ DOMAIN Tail(queue) = 1 .. Len(queue) - 1
           /\ \A k \in DOMAIN Tail(queue) : k + 1 \in DOMAIN queue /\ Tail(queue)[k] = queue[k + 1]
  <1>. DEFINE S == DOMAIN segs
  <1>1. queue \in Seq(S)
    BY DEF Typed
  <1>. HIDE DEF S
  <1>2. Len(queue) \in Nat \ {0} /\ DOMAIN queue = 1 .. Len(queue) /\ Head(queue) = queue[1]
    BY <1>1
  <1>3. /\ Tail(queue) \in Seq(S) /\ DOMAIN Tail(queue) = 1 .. Len(queue) - 1
        /\ \A k \in 1 .. Len(queue) - 1 : Tail(queue)[k] = queue[k + 1]
    BY <1>1, <1>2, HeadTailProperties
  <1>4. \A k \in 1 .. Len(queue) - 1 : k + 1 \in 1 .. Len(queue)
    BY <1>2
  <1>5. ToSet(queue) = {Head(queue)} \cup ToSet(Tail(queue))
    BY <1>1, ToSetOfHead
  <1>6. 1 \in DOMAIN queue /\ Head(queue) \in S
    BY <1>1, <1>2
  <1>. QED  BY <1>2, <1>3, <1>4, <1>5, <1>6 DEF S

LEMMA LargerFirstKept ==
    ASSUME Typed, LargerFirst, [Next]_vars
    PROVE  LargerFirst'
  <1>1. CASE BeginSave
    <2>1. pc' = "order" /\ ordered' = <<>>
      BY <1>1 DEF BeginSave
    <2>2. DOMAIN ordered' = {} /\ ToSet(ordered') = {}
      BY <2>1, ToSetOfEmpty
    <2>. QED  BY <2>1, <2>2 DEF LargerFirst
  <1>2. CASE OrderSegment
    <2>. DEFINE h == Head(queue)
                rest == Tail(queue)
    <2>1. /\ pc = "order" /\ queue # <<>> /\ pc' = "order" /\ segs' = segs
          /\ \/ queue' = Append(rest, h) /\ ordered' = ordered
             \/ /\ queue' = rest /\ ordered' = Append(ordered, h)
                /\ \A k \in DOMAIN rest : ~IsSubsequenceOf(h, rest[k])
      BY <1>2 DEF OrderSegment
    <2>2. /\ h \in DOMAIN segs /\ rest \in Seq(DOMAIN segs)
          /\ ToSet(queue) = {h} \cup ToSet(rest)
          /\ ordered \in Seq(DOMAIN segs)
      BY <2>1, HeadIs DEF Typed
    <2>. HIDE DEF h, rest
    <2>3. /\ \A j, k \in DOMAIN ordered : j < k => ~IsSubsequenceOf(ordered[j], ordered[k])
          /\ \A s \in ToSet(ordered), t \in ToSet(queue) : ~IsSubsequenceOf(s, t)
      BY <2>1 DEF LargerFirst
    <2>4. \A s, t : IsSubsequenceOf(s, t)' <=> IsSubsequenceOf(s, t)
      BY <2>1 DEF IsSubsequenceOf
    <2>5. CASE queue' = Append(rest, h) /\ ordered' = ordered
      <3>1. ToSet(queue') = ToSet(queue)
        BY <2>2, <2>5, AppendSet
      <3>. QED  BY <2>1, <2>3, <2>4, <2>5, <3>1 DEF LargerFirst
    <2>6. CASE /\ queue' = rest /\ ordered' = Append(ordered, h)
               /\ \A k \in DOMAIN rest : ~IsSubsequenceOf(h, rest[k])
      <3>1. /\ DOMAIN ordered' = 1 .. Len(ordered) + 1 /\ DOMAIN ordered = 1 .. Len(ordered)
            /\ Len(ordered) \in Nat
            /\ \A k \in 1 .. Len(ordered) : ordered'[k] = ordered[k]
            /\ ordered'[Len(ordered) + 1] = h
        BY <2>2, <2>6, AppendProperties
      <3>2. ToSet(ordered') = ToSet(ordered) \cup {h}
        BY <2>2, <2>6, AppendSet
      <3>3. \A k \in DOMAIN ordered : ~IsSubsequenceOf(ordered[k], h)
        <4>1. \A k \in DOMAIN ordered : ordered[k] \in ToSet(ordered)
          BY DEF ToSet
        <4>. QED  BY <2>2, <2>3, <4>1
      <3>4. ASSUME NEW j \in DOMAIN ordered', NEW k \in DOMAIN ordered', j < k
            PROVE  ~IsSubsequenceOf(ordered'[j], ordered'[k])
        <4>1. j \in 1 .. Len(ordered) /\ (k \in 1 .. Len(ordered) \/ k = Len(ordered) + 1)
          BY <3>1, <3>4
        <4>2. ordered'[j] = ordered[j]
          BY <3>1, <4>1
        <4>3. CASE k \in 1 .. Len(ordered)
          <5>1. ordered'[k] = ordered[k]
            BY <3>1, <4>3
          <5>. QED  BY <2>3, <3>1, <3>4, <4>1, <4>2, <4>3, <5>1
        <4>4. CASE k = Len(ordered) + 1
          <5>1. ordered'[k] = h
            BY <3>1, <4>4
          <5>. QED  BY <3>1, <3>3, <4>1, <4>2, <5>1
        <4>. QED  BY <4>1, <4>3, <4>4
      <3>5. \A s \in ToSet(ordered'), t \in ToSet(queue') : ~IsSubsequenceOf(s, t)
        <4>1. \A t \in ToSet(rest) : ~IsSubsequenceOf(h, t)
          BY <2>6 DEF ToSet
        <4>. QED  BY <2>2, <2>3, <2>6, <3>2, <4>1
      <3>. QED  BY <2>1, <2>4, <3>4, <3>5 DEF LargerFirst
    <2>. QED  BY <2>1, <2>5, <2>6
  <1>3. CASE EndOrder
    <2>1. pc = "order" /\ pc' = "segments" /\ queue' = ordered /\ segs' = segs
      BY <1>3 DEF EndOrder
    <2>2. \A s, t : IsSubsequenceOf(s, t)' <=> IsSubsequenceOf(s, t)
      BY <2>1 DEF IsSubsequenceOf
    <2>. QED  BY <2>1, <2>2 DEF LargerFirst
  <1>4. CASE StartSegment
    <2>1. /\ pc = "segments" /\ queue # <<>> /\ pc' = "sections" /\ segs' = segs
          /\ queue' = Tail(queue) /\ cur'.seg = Head(queue)
      BY <1>4 DEF StartSegment
    <2>2. \A s, t : IsSubsequenceOf(s, t)' <=> IsSubsequenceOf(s, t)
      BY <2>1 DEF IsSubsequenceOf
    <2>3. /\ DOMAIN queue' = 1 .. Len(queue) - 1 /\ Len(queue) \in Nat
          /\ \A k \in DOMAIN queue' : k + 1 \in DOMAIN queue /\ queue'[k] = queue[k + 1]
          /\ 1 \in DOMAIN queue /\ cur'.seg = queue[1]
      BY <2>1, HeadIs, QueueIs
    <2>4. \A j, k \in DOMAIN queue : j < k => ~IsSubsequenceOf(queue[j], queue[k])
      BY <2>1 DEF LargerFirst
    <2>5. ASSUME NEW j \in DOMAIN queue', NEW k \in DOMAIN queue', j < k
          PROVE  ~IsSubsequenceOf(queue'[j], queue'[k])
      <3>1. j + 1 < k + 1
        BY <2>3, <2>5
      <3>. QED  BY <2>3, <2>4, <3>1
    <2>6. ASSUME NEW k \in DOMAIN queue' PROVE ~IsSubsequenceOf(cur'.seg, queue'[k])
      <3>1. 1 < k + 1
        BY <2>3
      <3>. QED  BY <2>3, <2>4, <3>1
    <2>7. \A t \in ToSet(queue') : ~IsSubsequenceOf(cur'.seg, t)
      BY <2>6 DEF ToSet
    <2>. QED  BY <2>1, <2>2, <2>5, <2>7 DEF LargerFirst
  <1>5. CASE WriteSection
    <2>1. pc = "sections" /\ segs' = segs /\ queue' = queue
      BY <1>5 DEF WriteSection
    <2>2. pc' = "failed" \/ (pc' = "sections" /\ cur'.seg = cur.seg)
      BY <1>5, <2>1, WriteSectionIs
    <2>3. \A s, t : IsSubsequenceOf(s, t)' <=> IsSubsequenceOf(s, t)
      BY <2>1 DEF IsSubsequenceOf
    <2>. QED  BY <2>1, <2>2, <2>3 DEF LargerFirst
  <1>6. CASE EndSegment
    <2>1. pc = "sections" /\ pc' = "segments" /\ queue' = queue
      BY <1>6 DEF EndSegment
    <2>2. \A s, t \in DOMAIN segs : IsSubsequenceOf(s, t)' <=> IsSubsequenceOf(s, t)
      BY <1>6, EndSegmentIs, InclusionStays
    <2>. QED  BY <2>1, <2>2, QueueIs DEF LargerFirst
  <1>7. CASE EndSegments \/ PlaceLoose \/ WriteFile \/ Load \/ Keep
    <2>1. pc' \in {"loose", "saved", "built"}
      BY <1>7 DEF EndSegments, PlaceLoose, WriteFile, Load, Keep
    <2>. QED  BY <2>1 DEF LargerFirst
  <1>8. CASE UNCHANGED vars
    BY <1>8 DEF vars, LargerFirst, IsSubsequenceOf
  <1>. QED  BY <1>1, <1>2, <1>3, <1>4, <1>5, <1>6, <1>7, <1>8 DEF Next, Save, Done
-----------------------------------------------------------------------------
(***************************************************************************)
(* What the caller owes, and what has been placed with which segment.      *)
(***************************************************************************)
LEMMA FinishedStays ==
    ASSUME NEW s \in DOMAIN segs, Finished(s), segs'[s].members = segs[s].members,
           generated \subseteq generated'
    PROVE  Finished(s)'
  BY DEF Finished, MemberSet, ToSet

LEMMA OwedStays ==
    ASSUME Typed, StillOwed, Early, Indices' = Indices, DOMAIN segs' = DOMAIN segs,
           \A s \in DOMAIN segs : /\ segs'[s].members = segs[s].members
                                  /\ segs'[s].vaddr = segs[s].vaddr,
           generated \subseteq generated',
           \A i \in Indices : secs'[i].type = secs[i].type,
           \A i \in Indices \ generated' : secs'[i] = secs[i],
           \A s \in Waiting' : \/ Finished(s)'
                               \/ /\ s \in Waiting /\ segs'[s].set = segs[s].set
                                  /\ segs'[s].offset = segs[s].offset,
           Waiting' \subseteq DOMAIN segs
    PROVE  StillOwed'
  <1>1. ASSUME NEW s \in DOMAIN segs
        PROVE  OwedOf(segs[s])'
    <2>. DEFINE ms == segs[s].members
    <2>1. /\ Ascending(ms) /\ \A j, k \in DOMAIN ms : j < k => ~NoBits(ms[j])
          /\ \A i \in MemberSet(segs[s]) \ generated : secs[i].set => secs[i].addr >= segs[s].vaddr
      BY DEF StillOwed, OwedOf
    <2>2. \A k \in DOMAIN ms : ms[k] \in Indices
      BY SegmentIs
    <2>3. MemberSet(segs'[s]) = MemberSet(segs[s]) /\ MemberSet(segs[s]) \subseteq Indices
      BY <2>2 DEF MemberSet, ToSet
    <2>4. \A j, k \in DOMAIN ms : j < k => secs'[ms[j]].type # "NOBITS"
      BY <2>1, <2>2 DEF NoBits
    <2>5. \A i \in MemberSet(segs[s]) \ generated' : secs'[i].set => secs'[i].addr >= segs[s].vaddr
      BY <2>1, <2>3
    <2>6. segs'[s].members = ms /\ segs'[s].vaddr = segs[s].vaddr
      OBVIOUS
    <2>. HIDE DEF ms
    <2>7. Ascending(segs'[s].members)
      BY <2>1, <2>6
    <2>8. \A j, k \in DOMAIN segs'[s].members : j < k => secs'[segs'[s].members[j]].type # "NOBITS"
      BY <2>4, <2>6
    <2>9. \A i \in MemberSet(segs'[s]) \ generated' : secs'[i].set => secs'[i].addr >= segs'[s].vaddr
      BY <2>3, <2>5, <2>6
    <2>. QED  BY <2>7, <2>8, <2>9, Zenon DEF OwedOf, NoBits
  <1>2. \A s, t \in DOMAIN segs : Nest(s, t)'
    BY DEF StillOwed, Nest, MemberSet
  <1>3. ASSUME NEW s \in Waiting' PROVE Finished(s)' \/ (segs'[s].set => segs'[s].offset # 0)
    <2>1. CASE Finished(s)'
      BY <2>1
    <2>2. CASE s \in Waiting /\ segs'[s].set = segs[s].set /\ segs'[s].offset = segs[s].offset
      <3>1. Finished(s) \/ (segs[s].set => segs[s].offset # 0)
        BY <2>2 DEF StillOwed
      <3>2. CASE Finished(s)
        BY <3>2, FinishedStays
      <3>3. CASE segs[s].set => segs[s].offset # 0
        BY <2>2, <3>3
      <3>. QED  BY <3>1, <3>2, <3>3
    <2>. QED  BY <2>1, <2>2
  <1>. QED  BY <1>1, <1>2, <1>3, Zenon DEF StillOwed

LEMMA WaitingIs == Typed => Waiting \subseteq DOMAIN segs
  BY QueueIs DEF Waiting

\* BeginSave raises alignments and leaves what the caller owes as it is.
LEMMA OwedAtFirst ==
    ASSUME Typed, Owed, BeginSave
    PROVE  StillOwed'
  <1>. DEFINE m == [secs |-> secs, segs |-> segs]
  <1>1. /\ pc = "built" /\ pc' = "order" /\ secs' = secs /\ DOMAIN segs' = DOMAIN segs /\ generated' = {}
        /\ segs' = [s \in DOMAIN segs |-> Raised(segs[s], secs)]
    BY DEF BeginSave
  <1>2. /\ m.secs = secs /\ m.segs = segs /\ AboveBase(m) /\ InOrder(m) /\ NestedOrApart(m)
        /\ \A s \in DOMAIN segs : segs[s].set => segs[s].offset # 0
    BY <1>1 DEF Owed, WellFormed
  <1>. HIDE DEF m
  <1>3. \A s \in DOMAIN segs :
          /\ segs'[s].members = segs[s].members /\ segs'[s].vaddr = segs[s].vaddr
          /\ segs'[s].set = segs[s].set /\ segs'[s].offset = segs[s].offset
    <2>. TAKE s \in DOMAIN segs
    <2>1. segs'[s] = Raised(segs[s], secs) /\ segs[s] \in SegmentHeaders(N)
      BY <1>1, SegmentIs
    <2>. QED  BY <2>1 DEF Raised, SegmentHeaders
  <1>4. ASSUME NEW s \in DOMAIN segs
        PROVE  /\ Ascending(segs[s].members)
               /\ \A j, k \in DOMAIN segs[s].members : j < k => secs[segs[s].members[j]].type # "NOBITS"
               /\ \A i \in MemberSet(segs[s]) : secs[i].set => secs[i].addr >= segs[s].vaddr
    BY <1>2 DEF InOrder, AboveBase, Ascending
  <1>5. ASSUME NEW s \in DOMAIN segs, NEW t \in DOMAIN segs PROVE Nest(s, t)
    <2>1. \/ MemberSet(segs[s]) \cap MemberSet(segs[t]) = {}
          \/ \E p, q \in {s, t} : {p, q} = {s, t} /\ Inside(m, p, q)
      BY <1>2 DEF NestedOrApart
    <2>2. \A p, q : Inside(m, p, q) => MemberSet(segs[p]) \subseteq MemberSet(segs[q])
      BY <1>2 DEF Inside
    <2>3. ASSUME NEW p \in {s, t}, NEW q \in {s, t}, {p, q} = {s, t} PROVE <<p, q>> \in {<<s, t>>, <<t, s>>}
      BY <2>3
    <2>. QED  BY <2>1, <2>2, <2>3 DEF Nest
  <1>6. \A s \in DOMAIN segs : MemberSet(segs'[s]) = MemberSet(segs[s])
    BY <1>3 DEF MemberSet
  <1>7. \A s, t \in DOMAIN segs : Nest(s, t)'
    BY <1>5, <1>6 DEF Nest
  <1>8. ASSUME NEW s \in DOMAIN segs PROVE OwedOf(segs[s])'
    <2>1. segs'[s].members = segs[s].members /\ segs'[s].vaddr = segs[s].vaddr
      BY <1>3
    <2>2. \A k : ~NoBits(k)' <=> secs[k].type # "NOBITS"
      BY <1>1 DEF NoBits
    <2>. QED  BY <1>1, <1>4, <1>6, <2>1, <2>2, Zenon DEF OwedOf
  <1>9. Waiting' \subseteq DOMAIN segs
    <2>1. Typed'
      BY TypedKept DEF Next
    <2>2. Waiting' \subseteq DOMAIN segs'
      <3>1. queue' \in Seq(DOMAIN segs') /\ ordered' \in Seq(DOMAIN segs')
        BY <2>1, Zenon DEF Typed
      <3>2. /\ \A k \in DOMAIN queue' : queue'[k] \in DOMAIN segs'
            /\ \A k \in DOMAIN ordered' : ordered'[k] \in DOMAIN segs'
        <4>1. DOMAIN queue' = 1 .. Len(queue') /\ DOMAIN ordered' = 1 .. Len(ordered')
          BY <3>1
        <4>. QED  BY <3>1, <4>1, ElementOfSeq, Zenon
      <3>. QED  BY <3>2 DEF Waiting, ToSet
    <2>. QED  BY <1>1, <2>2
  <1>10. \A s \in Waiting' : segs'[s].set => segs'[s].offset # 0
    BY <1>2, <1>3, <1>9
  <1>. QED  BY <1>1, <1>7, <1>8, <1>10, Zenon DEF StillOwed

\* Sections change only when they are placed, and with that they are generated.
LEMMA WrittenIs ==
    ASSUME Typed, WriteSection, pc' # "failed"
    PROVE  /\ pc = "sections" /\ pc' = "sections" /\ UNCHANGED <<segs, queue, ordered>>
           /\ cur.seg \in DOMAIN segs /\ cur'.seg = cur.seg /\ cur'.next = cur.next + 1
           /\ cur.next \in DOMAIN Seg.members /\ Member \in Indices /\ Member \in MemberSet(segs[cur.seg])
           /\ generated' = generated \cup {Member}
           /\ \A i \in Indices : secs'[i].type = secs[i].type
           /\ \A i \in Indices : i # Member \/ i \in generated => secs'[i] = secs[i]
  <1>1. pc = "sections"
    BY DEF WriteSection
  <1>2. /\ cur.seg \in DOMAIN segs /\ Member \in Indices /\ cur.next \in DOMAIN Seg.members
        /\ UNCHANGED <<segs, queue, ordered>>
        /\ generated' = generated \cup {Member} /\ pc' = pc
        /\ cur'.next = cur.next + 1 /\ cur'.seg = cur.seg
    BY WriteSectionIs
  <1>3. Member \in MemberSet(segs[cur.seg])
    BY <1>2 DEF MemberSet, ToSet, Member, Seg
  <1>4. \/ UNCHANGED secs
        \/ Member \notin generated /\ PlacedAt(Member, Plus(pos, SectionAlign(Member)))
    BY WriteSectionIs
  <1>5. /\ \A i \in Indices : secs'[i].type = secs[i].type
        /\ \A i \in Indices : i # Member \/ i \in generated => secs'[i] = secs[i]
    BY <1>4 DEF PlacedAt
  <1>. QED  BY <1>1, <1>2, <1>3, <1>5

LEMMA StillOwedKept ==
    ASSUME Typed, Complete, Owed, StillOwed, [Next]_vars
    PROVE  StillOwed'
  <1>1. Indices' = Indices /\ Typed'
    BY TypedKept
  <1>2. CASE BeginSave
    BY <1>2, OwedAtFirst
  <1>3. CASE OrderSegment \/ EndOrder \/ StartSegment
    <2>1. /\ UNCHANGED <<secs, segs, generated>> /\ Early
          /\ pc \in {"order", "segments"} /\ pc' \in {"order", "segments", "sections"}
      BY <1>3 DEF OrderSegment, EndOrder, StartSegment, Early
    <2>2. Waiting' \subseteq Waiting
      <3>1. CASE OrderSegment
        <4>. DEFINE h == Head(queue)
                    rest == Tail(queue)
        <4>1. /\ pc = "order" /\ pc' = "order" /\ queue # <<>>
              /\ \/ queue' = Append(rest, h) /\ ordered' = ordered
                 \/ queue' = rest /\ ordered' = Append(ordered, h)
          BY <3>1 DEF OrderSegment
        <4>2. /\ h \in DOMAIN segs /\ rest \in Seq(DOMAIN segs) /\ ordered \in Seq(DOMAIN segs)
              /\ ToSet(queue) = {h} \cup ToSet(rest)
          BY <4>1, HeadIs DEF Typed
        <4>. HIDE DEF h, rest
        <4>3. /\ ToSet(Append(rest, h)) = ToSet(rest) \cup {h}
              /\ ToSet(Append(ordered, h)) = ToSet(ordered) \cup {h}
          BY <4>2, AppendSet
        <4>. QED  BY <4>1, <4>2, <4>3 DEF Waiting
      <3>2. CASE EndOrder
        BY <3>2 DEF EndOrder, Waiting
      <3>3. CASE StartSegment
        <4>1. pc = "segments" /\ pc' = "sections" /\ queue # <<>> /\ queue' = Tail(queue)
          BY <3>3 DEF StartSegment
        <4>. QED  BY <4>1, HeadIs DEF Waiting
      <3>. QED  BY <1>3, <3>1, <3>2, <3>3
    <2>3. Waiting' \subseteq DOMAIN segs
      BY <2>2, WaitingIs
    <2>. QED  BY <1>1, <2>1, <2>2, <2>3, OwedStays
  <1>4. CASE WriteSection
    <2>1. CASE pc' = "failed"
      BY <2>1 DEF StillOwed, Early
    <2>2. CASE pc' # "failed"
      <3>1. /\ Early /\ UNCHANGED segs /\ generated \subseteq generated' /\ Waiting' = Waiting
            /\ \A i \in Indices : secs'[i].type = secs[i].type
            /\ \A i \in Indices \ generated' : secs'[i] = secs[i]
        BY <1>4, <2>2, WrittenIs DEF Early, Waiting
      <3>2. Waiting' \subseteq DOMAIN segs
        BY <3>1, WaitingIs
      <3>. QED  BY <1>1, <3>1, <3>2, OwedStays
    <2>. QED  BY <2>1, <2>2
  <1>5. CASE EndSegment
    <2>1. /\ pc = "sections" /\ pc' = "segments" /\ cur.next > Len(Seg.members)
          /\ UNCHANGED <<secs, queue, ordered, generated>>
          /\ segs' = [segs EXCEPT ![cur.seg].filesz = cur.filesz, ![cur.seg].memsz = MemorySize(@),
                                  ![cur.seg].offset = cur.start, ![cur.seg].set = TRUE]
      BY <1>5 DEF EndSegment
    <2>2. /\ DOMAIN segs' = DOMAIN segs /\ cur.seg \in DOMAIN segs
          /\ \A s \in DOMAIN segs : segs'[s].members = segs[s].members
      BY <1>5, EndSegmentIs
    <2>3. \A s \in DOMAIN segs : segs'[s].vaddr = segs[s].vaddr
      <3>. TAKE s \in DOMAIN segs
      <3>1. segs[s] \in SegmentHeaders(N)
        BY SegmentIs
      <3>. QED  BY <2>1, <2>2, <3>1 DEF SegmentHeaders
    <2>4. \A s \in DOMAIN segs \ {cur.seg} : segs'[s] = segs[s]
      BY <2>1, <2>2
    <2>9. PICK s0 \in DOMAIN segs : s0 = cur.seg
      BY <2>2
    <2>5. Finished(s0)'
      <3>1. Finished(cur.seg)
        <4>1. /\ cur.next \in Nat /\ Len(Seg.members) \in Nat
              /\ DOMAIN Seg.members = 1 .. Len(Seg.members)
          BY <2>2, SegmentIs DEF Seg, Typed
        <4>2. \A k \in DOMAIN Seg.members : Seg.members[k] \in generated
          BY <2>1, <4>1 DEF Complete
        <4>. QED  BY <4>2 DEF Finished, MemberSet, ToSet, Seg
      <3>2. Finished(s0) /\ segs'[s0].members = segs[s0].members /\ generated' = generated
        BY <2>1, <2>2, <2>9, <3>1
      <3>. QED  BY <3>2, FinishedStays
    <2>6. Early /\ Waiting' = Waiting
      BY <2>1 DEF Early, Waiting
    <2>7. Waiting' \subseteq DOMAIN segs
      BY <2>6, WaitingIs
    <2>8. \A s \in Waiting' : \/ Finished(s)'
                              \/ /\ s \in Waiting /\ segs'[s].set = segs[s].set
                                 /\ segs'[s].offset = segs[s].offset
      BY <2>4, <2>5, <2>6, <2>7, <2>9
    <2>. QED  BY <1>1, <2>1, <2>2, <2>3, <2>6, <2>7, <2>8, OwedStays
  <1>6. CASE EndSegments \/ PlaceLoose \/ WriteFile \/ Load \/ Keep
    <2>1. pc' \in {"loose", "saved", "built"}
      BY <1>6 DEF EndSegments, PlaceLoose, WriteFile, Load, Keep
    <2>. QED  BY <2>1 DEF StillOwed, Early
  <1>7. CASE UNCHANGED vars
    <2>1. UNCHANGED <<secs, segs, generated, queue, ordered, pc, cur>>
      BY <1>7 DEF vars
    <2>2. CASE ~Early
      BY <2>1, <2>2 DEF Early, StillOwed
    <2>3. CASE Early
      <3>1. Waiting' = Waiting
        BY <2>1 DEF Waiting
      <3>. QED  BY <1>1, <2>1, <2>3, <3>1, WaitingIs, OwedStays
    <2>. QED  BY <2>2, <2>3
  <1>. QED  BY <1>2, <1>3, <1>4, <1>5, <1>6, <1>7 DEF Next, Save, Done

LEMMA SourcedKept ==
    ASSUME Typed, Complete, LargerFirst, Sourced, [Next]_vars
    PROVE  Sourced'
  <1>1. CASE BeginSave
    BY <1>1, BeginSaveIs DEF Sourced
  <1>2. CASE OrderSegment
    <2>1. pc = "order" /\ pc' = "order" /\ generated' = generated
      BY <1>2 DEF OrderSegment
    <2>. QED  BY <2>1 DEF Sourced
  <1>3. CASE EndOrder
    <2>1. pc = "order" /\ pc' = "segments" /\ generated' = generated
      BY <1>3 DEF EndOrder
    <2>. QED  BY <2>1 DEF Sourced
  <1>4. CASE StartSegment
    <2>1. /\ pc = "segments" /\ pc' = "sections" /\ queue # <<>> /\ queue' = Tail(queue)
          /\ UNCHANGED <<segs, generated>>
      BY <1>4 DEF StartSegment
    <2>2. ToSet(queue') \subseteq ToSet(queue)
      BY <2>1, HeadIs
    <2>3. ASSUME NEW i \in generated
          PROVE \E s \in DOMAIN segs : /\ i \in MemberSet(segs[s]) /\ Finished(s)
                                       /\ \A t \in ToSet(queue') : ~IsSubsequenceOf(s, t)
      BY <2>1, <2>2 DEF Sourced
    <2>4. \A s, t : /\ IsSubsequenceOf(s, t)' <=> IsSubsequenceOf(s, t)
                    /\ Finished(s)' <=> Finished(s)
      BY <2>1 DEF IsSubsequenceOf, Finished
    <2>. QED  BY <2>1, <2>3, <2>4 DEF Sourced
  <1>5. CASE WriteSection
    <2>1. CASE pc' = "failed"
      BY <2>1 DEF Sourced
    <2>2. CASE pc' # "failed"
      <3>1. /\ pc = "sections" /\ pc' = "sections" /\ UNCHANGED <<segs, queue>>
            /\ cur'.seg = cur.seg /\ cur.seg \in DOMAIN segs
            /\ Member \in MemberSet(segs[cur.seg]) /\ generated' = generated \cup {Member}
        BY <1>5, <2>2, WrittenIs
      <3>2. \A t \in ToSet(queue) : ~IsSubsequenceOf(cur.seg, t)
        BY <3>1 DEF LargerFirst
      <3>3. ASSUME NEW i \in generated'
            PROVE \E s \in DOMAIN segs : /\ i \in MemberSet(segs[s])
                                         /\ \A t \in ToSet(queue) : ~IsSubsequenceOf(s, t)
                                         /\ Finished(s)' \/ s = cur.seg
        <4>1. CASE i = Member
          BY <3>1, <3>2, <4>1
        <4>2. CASE i \in generated
          <5>1. PICK s \in DOMAIN segs : /\ i \in MemberSet(segs[s])
                                         /\ \A t \in ToSet(queue) : ~IsSubsequenceOf(s, t)
                                         /\ Finished(s) \/ s = cur.seg
            BY <3>1, <4>2 DEF Sourced
          <5>2. Finished(s) => Finished(s)'
            BY <3>1 DEF Finished
          <5>. QED  BY <5>1, <5>2
        <4>. QED  BY <3>1, <4>1, <4>2
      <3>4. \A s, t : IsSubsequenceOf(s, t)' <=> IsSubsequenceOf(s, t)
        BY <3>1 DEF IsSubsequenceOf
      <3>. QED  BY <3>1, <3>3, <3>4 DEF Sourced
    <2>. QED  BY <2>1, <2>2
  <1>6. CASE EndSegment
    <2>1. /\ pc = "sections" /\ pc' = "segments" /\ cur.next > Len(Seg.members)
          /\ UNCHANGED <<queue, generated>>
      BY <1>6 DEF EndSegment
    <2>2. /\ DOMAIN segs' = DOMAIN segs /\ cur.seg \in DOMAIN segs
          /\ \A s \in DOMAIN segs : segs'[s].members = segs[s].members
      BY <1>6, EndSegmentIs
    <2>3. Finished(cur.seg)
      <3>1. /\ cur.next \in Nat /\ Len(Seg.members) \in Nat
            /\ DOMAIN Seg.members = 1 .. Len(Seg.members)
        BY <2>2, SegmentIs DEF Seg, Typed
      <3>2. \A k \in DOMAIN Seg.members : Seg.members[k] \in generated
        BY <2>1, <3>1 DEF Complete
      <3>. QED  BY <3>2 DEF Finished, MemberSet, ToSet, Seg
    <2>4. ASSUME NEW i \in generated
          PROVE \E s \in DOMAIN segs : /\ i \in MemberSet(segs'[s])
                                       /\ \A t \in ToSet(queue) : ~IsSubsequenceOf(s, t)'
                                       /\ Finished(s)'
      <3>1. PICK s \in DOMAIN segs : /\ i \in MemberSet(segs[s])
                                     /\ \A t \in ToSet(queue) : ~IsSubsequenceOf(s, t)
                                     /\ Finished(s)
        BY <2>1, <2>3 DEF Sourced
      <3>2. MemberSet(segs'[s]) = MemberSet(segs[s])
        BY <2>2 DEF MemberSet
      <3>3. \A t \in ToSet(queue) : ~IsSubsequenceOf(s, t)'
        BY <2>2, <3>1, QueueIs, InclusionStays
      <3>4. Finished(s)'
        BY <2>1, <3>1, <3>2 DEF Finished
      <3>. QED  BY <3>1, <3>2, <3>3, <3>4
    <2>. QED  BY <2>1, <2>2, <2>4 DEF Sourced
  <1>7. CASE EndSegments \/ PlaceLoose \/ WriteFile \/ Load \/ Keep
    <2>1. pc' \in {"loose", "saved", "built"}
      BY <1>7 DEF EndSegments, PlaceLoose, WriteFile, Load, Keep
    <2>. QED  BY <2>1 DEF Sourced
  <1>8. CASE UNCHANGED vars
    BY <1>8 DEF vars, Sourced, Finished, IsSubsequenceOf
  <1>. QED  BY <1>1, <1>2, <1>3, <1>4, <1>5, <1>6, <1>7, <1>8 DEF Next, Save, Done

\* A segment that is not complete yet has none of its sections when it starts:
\* one that has some of them would have come first.
LEMMA AllOrNone ==
    ASSUME Typed, LargerFirst, StillOwed, Sourced, pc = "segments",
           NEW s \in ToSet(queue), ~Finished(s)
    PROVE  MemberSet(segs[s]) \cap generated = {}
  <1>. SUFFICES ASSUME NEW i \in MemberSet(segs[s]), i \in generated PROVE FALSE
    OBVIOUS
  <1>1. s \in DOMAIN segs
    BY QueueIs
  <1>2. PICK t \in DOMAIN segs : /\ i \in MemberSet(segs[t]) /\ Finished(t)
                                 /\ ~IsSubsequenceOf(t, s)
    BY DEF Sourced
  <1>3. /\ Nest(s, t) /\ Ascending(segs[s].members) /\ Ascending(segs[t].members)
    BY <1>1, <1>2 DEF StillOwed, Early, OwedOf
  <1>4. ~(MemberSet(segs[s]) \subseteq MemberSet(segs[t]))
    BY <1>2 DEF Finished
  <1>5. MemberSet(segs[t]) \subseteq MemberSet(segs[s])
    BY <1>2, <1>3, <1>4 DEF Nest
  <1>6. IsSubsequenceOf(t, s)
    BY <1>1, <1>2, <1>3, <1>4, <1>5, InclusionIsSeen
  <1>. QED  BY <1>2, <1>6

LEMMA FreshStart ==
    ASSUME Typed, LargerFirst, StillOwed, Sourced, StartSegment
    PROVE  Fresh'
  <1>. DEFINE s == Head(queue)
              g == segs[s]
  <1>1. /\ pc = "segments" /\ pc' = "sections" /\ queue # <<>> /\ UNCHANGED <<secs, segs, generated>>
        /\ cur' = [seg |-> s, next |-> 1, start |-> Start(g).at,
                   filesz |-> Start(g).holds, memsz |-> Start(g).holds]
        /\ pos' = pos + Start(g).move
    BY DEF StartSegment
  <1>2. s \in DOMAIN segs /\ s \in ToSet(queue) /\ s \in Waiting
    BY <1>1, HeadIs DEF Waiting
  <1>3. CASE Finished(s)
    <2>1. cur'.seg = s
      BY <1>1
    <2>2. Finished(cur.seg)'
      BY <1>1, <1>3, <2>1 DEF Finished
    <2>. QED  BY <2>2 DEF Fresh
  <1>4. CASE ~Finished(s)
    <2>1. MemberSet(g) \cap generated = {} /\ MemberSet(g) # {}
      BY <1>1, <1>2, <1>4, AllOrNone DEF Finished
    <2>2. /\ g.members \in Seq(Indices) /\ g.members # <<>>
          /\ \A k \in DOMAIN g.members : g.members[k] \notin generated
          /\ 1 \in DOMAIN g.members
      <3>1. g.members \in Seq(Indices)
        BY <1>2, SegmentIs
      <3>2. \A k \in DOMAIN g.members : g.members[k] \in MemberSet(g)
        BY DEF MemberSet, ToSet
      <3>3. g.members # <<>>
        BY <2>1, ToSetOfEmpty DEF MemberSet
      <3>. HIDE DEF g
      <3>4. 1 \in DOMAIN g.members
        BY <3>1, <3>3
      <3>. QED  BY <2>1, <3>1, <3>2, <3>3, <3>4
    <2>3. ~(g.set /\ g.offset = 0)
      BY <1>1, <1>2, <1>4 DEF StillOwed, Early
    <2>4. Start(g) = [at |-> pos + Gap(g), holds |-> 0, move |-> Gap(g)]
      BY <2>2, <2>3 DEF Start
    <2>5. pos' = cur'.start /\ pos' \in Nat /\ cur'.next = 1
      <3>1. Start(g).at \in Nat
        BY <1>2, StartIs
      <3>2. Start(g).at = pos + Gap(g) /\ Start(g).move = Gap(g)
        BY <2>4
      <3>3. cur'.start = Start(g).at /\ cur'.next = 1 /\ pos' = pos + Start(g).move
        BY <1>1
      <3>. HIDE DEF g
      <3>. QED  BY <3>1, <3>2, <3>3
    <2>6. Seg' = g
      BY <1>1 DEF Seg
    <2>. HIDE DEF g
    <2>7. \A k \in DOMAIN Seg'.members : k >= cur'.next => Seg'.members[k] \notin generated'
      BY <1>1, <2>2, <2>6
    <2>. QED  BY <2>5, <2>7 DEF Fresh
  <1>. QED  BY <1>3, <1>4

\* Where WriteSection puts a section, in memory.
LEMMA AddressIs ==
    ASSUME Typed, WriteSection
    PROVE  /\ pc' = "failed" => Behind(Member)
           /\ pc' # "failed" =>
                 /\ cur'.start = cur.start
                 /\ Member \notin generated /\ ~Null(Member) =>
                       /\ ~Behind(Member) /\ secs'[Member].set
                       /\ secs'[Member].addr =
                             IF secs[Member].set THEN secs[Member].addr
                             ELSE Plus(Seg.vaddr, Minus(Plus(pos, SectionAlign(Member)), cur.start))
  <1>. DEFINE i == Member
              gap == SectionAlign(i)
              grow == Plus(secs[i].size, gap)
              at == Plus(pos, gap)
  <1>1. pc = "sections" /\ cur \in CurType
    BY DEF WriteSection, Typed, CurType
  <1>2. i \in Indices /\ secs \in [Indices -> SectionHeaders] /\ secs[i] \in SectionHeaders
    BY WriteSectionIs DEF Typed
  <1>. HIDE DEF i, gap
  <1>3. CASE Null(i) /\ cur' = [cur EXCEPT !.next = @ + 1] /\ UNCHANGED <<secs, pos, pc>>
    BY <1>1, <1>3 DEF i, CurType
  <1>4. CASE Behind(i) /\ pc' = "failed"
    BY <1>4 DEF i
  <1>5. CASE
      /\ ~Null(i) /\ ~Behind(i)
      /\ cur' = [cur EXCEPT
                    !.next = @ + 1,
                    !.memsz = IF InMemory(i) THEN Plus(@, grow) ELSE @,
                    !.filesz = IF NoBits(i) THEN @ ELSE Plus(@, grow)]
      /\ IF i \in generated THEN UNCHANGED <<secs, pos>>
         ELSE /\ pos' = After(i, at)
              /\ secs' = [secs EXCEPT
                   ![i].addr = IF secs[i].set THEN @
                               ELSE Plus(Seg.vaddr, Minus(at, cur.start)),
                   ![i].set = TRUE,
                   ![i].offset = IF i = 0 THEN @ ELSE at]
      /\ UNCHANGED pc
    <2>1. cur'.start = cur.start /\ pc' # "failed"
      <3>. HIDE DEF grow
      <3>. QED  BY <1>1, <1>5 DEF CurType
    <2>2. i \notin generated => /\ secs'[i].set
                                /\ secs'[i].addr = IF secs[i].set THEN secs[i].addr
                                                   ELSE Plus(Seg.vaddr, Minus(at, cur.start))
      <3>. DEFINE addr == Plus(Seg.vaddr, Minus(at, cur.start))
      <3>. HIDE DEF at, addr
      <3>. SUFFICES ASSUME i \notin generated
                    PROVE  /\ secs'[i].set
                           /\ secs'[i].addr = IF secs[i].set THEN secs[i].addr ELSE addr
        BY DEF addr
      <3>1. secs' = [secs EXCEPT
                   ![i].addr = IF secs[i].set THEN @ ELSE addr,
                   ![i].set = TRUE,
                   ![i].offset = IF i = 0 THEN @ ELSE at]
        BY <1>5 DEF addr
      <3>. QED  BY <1>2, <3>1 DEF SectionHeaders
    <2>. QED  BY <1>5, <2>1, <2>2 DEF i, gap
  <1>. QED  BY <1>3, <1>4, <1>5 DEF WriteSection, i, gap

LEMMA MinusSmall ==
    ASSUME NEW a \in Nat, NEW b \in Nat, b <= a
    PROVE  /\ Minus(a, b) \in Nat /\ Minus(a, b) <= a - b
           /\ a - b < Word => Minus(a, b) = a - b
  <1>. DEFINE d == a - b
  <1>1. d \in Nat /\ Word \in Nat \ {0} /\ Minus(a, b) = d % Word
    BY LayoutAssumption DEF Minus
  <1>. HIDE DEF d
  <1>2. d % Word \in Nat /\ d % Word < Word
    BY <1>1, ModIs
  <1>3. d < Word => d % Word = d
    BY <1>1
  <1>4. d % Word <= d
    BY <1>1, <1>2, <1>3
  <1>. QED  BY <1>1, <1>2, <1>3, <1>4 DEF d

LEMMA PlusSmall ==
    ASSUME NEW a \in Nat, NEW b \in Nat, a + b < Word
    PROVE  Plus(a, b) = a + b
  <1>. DEFINE d == a + b
  <1>1. d \in Nat /\ d < Word /\ Word \in Nat \ {0}
    BY LayoutAssumption
  <1>. HIDE DEF d
  <1>2. d % Word = d
    BY <1>1
  <1>. QED  BY <1>2 DEF Plus, d

\* Where a fresh segment puts the next of its sections with bits: as far behind
\* the start in the file as in memory, or else right at the position.
LEMMA NextPlace ==
    ASSUME Typed, RoomInFile, RoomInMemory, WriteSection, pc' # "failed",
           Member \notin generated, ~Null(Member), ~NoBits(Member), cur.start <= pos,
           secs[Member].set => secs[Member].addr >= Seg.vaddr
    PROVE  /\ pos' \in Nat /\ pos' >= pos
           /\ secs'[Member].size = secs[Member].size
           /\ \/ pos' = pos
              \/ /\ secs'[Member].set /\ secs'[Member].addr >= Seg.vaddr
                 /\ secs'[Member].addr + secs'[Member].size - Seg.vaddr = pos' - cur.start
  <1>. DEFINE i == Member
              v == Seg.vaddr
              z == secs[i].size
              a == secs[i].addr
              st == cur.start
              gap == SectionAlign(i)
              a1 == secs'[i].addr
  <1>1. /\ pc = "sections" /\ cur.next <= Len(Seg.members) /\ i \in Indices /\ cur.seg \in DOMAIN segs
        /\ gap \in Nat /\ segs' = segs /\ cur'.seg = cur.seg
    BY WrittenIs, WriteSectionIs DEF WriteSection
  <1>2. v \in Nat /\ z \in Nat /\ a \in Nat /\ st \in Nat /\ pos \in Nat
    BY <1>1, SegmentIs, SectionIs DEF Seg, Typed
  <1>3. /\ ~Behind(i) /\ cur'.start = st /\ secs'[i].set
        /\ a1 = IF secs[i].set THEN a ELSE Plus(v, Minus(Plus(pos, gap), st))
    BY AddressIs
  <1>4. /\ Plus(pos, gap) = pos + gap /\ pos + gap \in Nat /\ pos + gap >= pos
        /\ pos + gap + z < Word
    BY <1>3, PlaceIs DEF Ends
  <1>5. secs'[i].size = z /\ pos' = pos + gap + z
    <2>1. PlacedAt(i, Plus(pos, gap))
      BY <1>1, WriteSectionIs
    <2>2. pos' = Plus(pos + gap, z) /\ secs'[i].size = z
      BY <1>4, <2>1 DEF PlacedAt, After
    <2>. DEFINE at == pos + gap
    <2>3. at \in Nat /\ at + z < Word
      BY <1>4
    <2>. HIDE DEF at, z
    <2>4. Plus(at, z) = at + z
      BY <1>2, <2>3, PlusSmall
    <2>. QED  BY <2>2, <2>4 DEF at
  <1>6. i \notin generated /\ ~NoBits(i) /\ ~Null(i) /\ st <= pos /\ (secs[i].set => a >= v)
        /\ a < Word
    BY <1>1 DEF RoomInMemory
  <1>7. a1 \in Nat
    <2>1. secs'[i] \in SectionHeaders
      BY <1>1, TypedKept DEF Typed, Next, Save
    <2>. QED  BY <2>1 DEF SectionHeaders
  <1>11. Word \in Nat \ {0}
    BY LayoutAssumption
  <1>. HIDE DEF i, v, z, a, st, gap, a1
  <1>12. /\ pos + gap \in Nat /\ pos + gap >= pos /\ pos + gap < Word /\ pos < Word
         /\ pos + gap >= st /\ gap \in Nat /\ Plus(pos, gap) = pos + gap
    BY <1>1, <1>2, <1>4, <1>6, <1>11
  <1>8. CASE secs[i].set /\ z = 0
    <2>1. gap = 0
      BY <1>6, <1>8 DEF gap, SectionAlign, ByAddress, i, z
    <2>. QED  BY <1>2, <1>5, <1>8, <2>1 DEF i, z
  <1>9. CASE secs[i].set /\ z # 0
    <2>. DEFINE x == Minus(a, v)
                y == Minus(pos, st)
    <2>1. ByAddress(i)
      BY <1>6, <1>9 DEF ByAddress, z
    <2>2. gap = Minus(x, y) /\ ~(x < y)
      BY <1>3, <1>6, <2>1 DEF gap, SectionAlign, Behind, a, v, st, i
    <2>3. a >= v /\ a - v < Word /\ pos - st < Word
      BY <1>2, <1>6, <1>9, <1>11, <1>12
    <2>4. x = a - v /\ y = pos - st
      BY <1>2, <1>6, <2>3, MinusSmall
    <2>5. x \in Nat /\ y \in Nat
      BY <1>2, <1>6, <2>3, <2>4
    <2>. HIDE DEF x, y
    <2>6. y <= x /\ x - y < Word
      BY <1>2, <1>6, <1>11, <2>2, <2>3, <2>4, <2>5
    <2>7. gap = x - y
      BY <2>2, <2>5, <2>6, MinusSmall
    <2>8. pos + gap = st + (a - v)
      BY <1>2, <2>4, <2>7
    <2>9. a1 = a
      BY <1>3, <1>9
    <2>10. a1 + z - v = pos' - st
      BY <1>2, <1>5, <2>8, <2>9
    <2>11. pos' \in Nat /\ pos' >= pos
      BY <1>2, <1>4, <1>5 DEF gap, i
    <2>. QED  BY <1>3, <1>5, <2>3, <2>9, <2>10, <2>11 DEF i, v, z, a, st, a1
  <1>10. CASE ~secs[i].set
    <2>. DEFINE at == pos + gap
    <2>1. at \in Nat /\ at >= st /\ at < Word /\ Plus(pos, gap) = at
      BY <1>12
    <2>2. v + (at - st) < Word
      <3>1. v + (pos + gap - st) < Word
        BY <1>1, <1>3, <1>6, <1>10 DEF RoomInMemory, gap, v, st, i
      <3>. QED  BY <1>2, <1>12, <3>1
    <2>. HIDE DEF at
    <2>3. Minus(at, st) = at - st
      <3>1. at - st < Word
        BY <1>2, <1>11, <2>1, <2>2
      <3>. QED  BY <1>2, <2>1, <3>1, MinusSmall
    <2>4. at - st \in Nat
      BY <1>2, <2>1
    <2>5. Plus(v, at - st) = v + (at - st)
      BY <1>2, <2>2, <2>4, PlusSmall
    <2>6. a1 = v + (at - st)
      BY <1>3, <1>10, <2>1, <2>3, <2>5
    <2>7. pos' = at + z
      BY <1>5 DEF at
    <2>8. a1 + z - v = pos' - st /\ a1 >= v /\ pos' \in Nat /\ pos' >= pos
      <3>1. at >= pos
        BY <1>4 DEF at, gap, i
      <3>. QED  BY <1>2, <2>1, <2>4, <2>6, <2>7, <3>1
    <2>. QED  BY <1>3, <1>5, <2>8 DEF i, v, z, a, st, a1
  <1>. QED  BY <1>8, <1>9, <1>10

\* Until its last section, a fresh segment ends with one of its sections.
LEMMA FreshWritten ==
    ASSUME Typed, RoomInFile, RoomInMemory, StillOwed, Fresh, WriteSection, pc' # "failed"
    PROVE  Fresh'
  <1>. DEFINE ms == Seg.members
              n == cur.next
  <1>1. /\ pc = "sections" /\ pc' = "sections" /\ segs' = segs /\ cur'.seg = cur.seg
        /\ cur.seg \in DOMAIN segs /\ cur'.next = n + 1 /\ n \in DOMAIN ms
        /\ Member \in Indices /\ Member \in MemberSet(segs[cur.seg])
        /\ generated' = generated \cup {Member}
        /\ \A i \in Indices : i # Member \/ i \in generated => secs'[i] = secs[i]
    BY WrittenIs
  <1>2. Seg' = Seg /\ cur'.start = cur.start
    BY <1>1, AddressIs DEF Seg
  <1>3. /\ DOMAIN ms = 1 .. Len(ms) /\ Len(ms) \in Nat /\ \A k \in DOMAIN ms : ms[k] \in Indices
        /\ cur.start \in Nat /\ pos \in Nat /\ n \in Nat
    BY <1>1, SegmentIs DEF Seg, Typed
  <1>4. /\ \A j, k \in DOMAIN ms : j < k => ms[j] < ms[k] /\ ~NoBits(ms[j])
        /\ \A i \in MemberSet(segs[cur.seg]) \ generated : secs[i].set => secs[i].addr >= Seg.vaddr
    BY <1>1 DEF StillOwed, Early, OwedOf, Ascending, Seg
  <1>5. Member = ms[n]
    BY DEF Member
  <1>6. CASE Finished(cur.seg)
    <2>1. Finished(cur.seg)'
      BY <1>1, <1>6 DEF Finished
    <2>. QED  BY <2>1 DEF Fresh
  <1>7. CASE ~Finished(cur.seg)
    <2>1. /\ \A k \in DOMAIN ms : k >= n => ms[k] \notin generated
          /\ n <= Len(ms) =>
                /\ cur.start <= pos
                /\ \/ pos = cur.start
                   \/ \E j \in DOMAIN ms : j < n /\ Reaches(ms[j], pos)
      BY <1>1, <1>7 DEF Fresh
    <2>. HIDE DEF n, ms
    <2>2. \A k \in DOMAIN ms : k >= n + 1 => ms[k] \notin generated'
      <3>. SUFFICES ASSUME NEW k \in DOMAIN ms, k >= n + 1 PROVE ms[k] \notin generated'
        OBVIOUS
      <3>1. n < k
        BY <1>3
      <3>2. ms[n] < ms[k] /\ ms[k] \notin generated /\ ms[n] \in Indices /\ ms[k] \in Indices
        BY <1>1, <1>3, <1>4, <2>1, <3>1
      <3>3. ms[n] # ms[k]
        BY <3>2 DEF Typed, Indices
      <3>. QED  BY <1>1, <1>5, <3>2, <3>3
    <2>3. ASSUME n + 1 <= Len(ms)
          PROVE  /\ cur.start <= pos'
                 /\ \/ pos' = cur.start
                    \/ \E j \in DOMAIN ms : /\ j < n + 1
                                            /\ secs'[ms[j]].set /\ secs'[ms[j]].addr >= Seg.vaddr
                                            /\ secs'[ms[j]].addr + secs'[ms[j]].size - Seg.vaddr = pos' - cur.start
      <3>1. n \in DOMAIN ms /\ n + 1 \in DOMAIN ms /\ n < n + 1 /\ n <= Len(ms)
        BY <1>1, <1>3, <2>3
      <3>2. ~NoBits(Member) /\ Member \notin generated /\ cur.start <= pos
            /\ (secs[Member].set => secs[Member].addr >= Seg.vaddr)
        BY <1>1, <1>3, <1>4, <1>5, <2>1, <3>1
      <3>3. ASSUME pos' = pos
            PROVE  \/ pos' = cur.start
                   \/ \E j \in DOMAIN ms : /\ j < n + 1
                                           /\ secs'[ms[j]].set /\ secs'[ms[j]].addr >= Seg.vaddr
                                           /\ secs'[ms[j]].addr + secs'[ms[j]].size - Seg.vaddr = pos' - cur.start
        <4>1. CASE pos = cur.start
          BY <3>3, <4>1
        <4>2. CASE \E j \in DOMAIN ms : j < n /\ Reaches(ms[j], pos)
          <5>1. PICK j \in DOMAIN ms : j < n /\ Reaches(ms[j], pos)
            BY <4>2
          <5>2. ms[j] < ms[n] /\ ms[j] \in Indices /\ ms[n] \in Indices
            BY <1>1, <1>3, <1>4, <5>1
          <5>3. ms[j] # Member
            BY <1>5, <5>2 DEF Typed, Indices
          <5>4. secs'[ms[j]] = secs[ms[j]]
            BY <1>1, <5>2, <5>3
          <5>5. j < n + 1
            BY <1>3, <5>1
          <5>. QED  BY <3>3, <5>1, <5>4, <5>5 DEF Reaches
        <4>. QED  BY <2>1, <3>1, <4>1, <4>2
      <3>4. CASE Null(Member)
        <4>1. pos' = pos
          BY <3>4, WriteSectionIs
        <4>. QED  BY <3>2, <3>3, <4>1
      <3>5. CASE ~Null(Member)
        <4>1. /\ pos' \in Nat /\ pos' >= pos
              /\ \/ pos' = pos
                 \/ /\ secs'[Member].set /\ secs'[Member].addr >= Seg.vaddr
                    /\ secs'[Member].addr + secs'[Member].size - Seg.vaddr = pos' - cur.start
          BY <3>2, <3>5, NextPlace
        <4>2. cur.start <= pos'
          BY <1>3, <3>2, <4>1
        <4>3. CASE pos' = pos
          BY <3>3, <4>2, <4>3
        <4>4. CASE /\ secs'[Member].set /\ secs'[Member].addr >= Seg.vaddr
                   /\ secs'[Member].addr + secs'[Member].size - Seg.vaddr = pos' - cur.start
          BY <1>5, <3>1, <4>2, <4>4
        <4>. QED  BY <4>1, <4>3, <4>4
      <3>. QED  BY <3>4, <3>5
    <2>4. Seg'.members = ms /\ cur'.next = n + 1
      BY <1>1, <1>2 DEF ms
    <2>. QED  BY <1>2, <2>2, <2>3, <2>4 DEF Fresh, Reaches
  <1>. QED  BY <1>6, <1>7

LEMMA FreshKept ==
    ASSUME Typed, RoomInFile, RoomInMemory, LargerFirst, StillOwed, Sourced, Fresh, [Next]_vars
    PROVE  Fresh'
  <1>1. CASE BeginSave \/ OrderSegment \/ EndOrder \/ EndSegment \/ EndSegments
             \/ PlaceLoose \/ WriteFile \/ Load \/ Keep
    <2>1. pc' # "sections"
      BY <1>1 DEF BeginSave, OrderSegment, EndOrder, EndSegment, EndSegments,
                  PlaceLoose, WriteFile, Load, Keep
    <2>. QED  BY <2>1 DEF Fresh
  <1>2. CASE StartSegment
    BY <1>2, FreshStart
  <1>3. CASE WriteSection
    <2>1. CASE pc' = "failed"
      BY <2>1 DEF Fresh
    <2>2. CASE pc' # "failed"
      BY <1>3, <2>2, FreshWritten
    <2>. QED  BY <2>1, <2>2
  <1>4. CASE UNCHANGED vars
    BY <1>4 DEF vars, Fresh, Finished, Seg, Reaches
  <1>. QED  BY <1>1, <1>2, <1>3, <1>4 DEF Next, Save, Done

\* A refused section has an address that an earlier one of its segment reaches past.
LEMMA RefusedRightly ==
    ASSUME Typed, RoomInMemory, StillOwed, Fresh, WriteSection, pc' = "failed"
    PROVE  RefusesOnlyOverlaps'
  <1>. DEFINE ms == Seg.members
              n == cur.next
              i == Member
  <1>1. /\ pc = "sections" /\ cur.seg \in DOMAIN segs /\ n \in DOMAIN ms /\ i = ms[n] /\ i \in Indices
        /\ Behind(i) /\ UNCHANGED <<secs, segs>>
    <2>1. pc = "sections" /\ pc' # pc
      BY DEF WriteSection
    <2>2. UNCHANGED <<secs, segs>>
      BY <2>1, WriteSectionIs
    <2>. QED  BY <2>1, <2>2, WriteSectionIs, AddressIs DEF WriteSection, Member
  <1>2. /\ DOMAIN ms = 1 .. Len(ms) /\ Len(ms) \in Nat /\ Seg.vaddr \in Nat /\ pos \in Nat
        /\ cur.start \in Nat /\ secs[i].addr \in Nat /\ secs[i].addr < Word
    BY <1>1, SegmentIs, SectionIs DEF Seg, Typed, RoomInMemory
  <1>3. i \notin generated /\ secs[i].set
        /\ Minus(secs[i].addr, Seg.vaddr) < Minus(pos, cur.start)
    BY <1>1 DEF Behind, ByAddress
  <1>4. i \in MemberSet(segs[cur.seg])
    BY <1>1 DEF MemberSet, ToSet, Seg
  <1>5. ~Finished(cur.seg)
    BY <1>3, <1>4 DEF Finished
  <1>6. secs[i].addr >= Seg.vaddr
    BY <1>1, <1>3, <1>4 DEF StillOwed, Early, OwedOf, Seg
  <1>7. /\ cur.start <= pos
        /\ pos = cur.start \/ \E j \in DOMAIN ms : j < n /\ Reaches(ms[j], pos)
    BY <1>1, <1>2, <1>5 DEF Fresh
  <1>. HIDE DEF ms, n, i
  <1>8. /\ Minus(secs[i].addr, Seg.vaddr) = secs[i].addr - Seg.vaddr
        /\ Minus(pos, cur.start) <= pos - cur.start
        /\ Minus(pos, cur.start) \in Nat
    <2>1. secs[i].addr - Seg.vaddr < Word
      BY <1>2, <1>6, LayoutAssumption
    <2>. QED  BY <1>2, <1>6, <1>7, <2>1, MinusSmall
  <1>9. secs[i].addr - Seg.vaddr < pos - cur.start
    <2>1. secs[i].addr - Seg.vaddr < Minus(pos, cur.start)
      BY <1>3, <1>8
    <2>. QED  BY <1>2, <1>8, <2>1
  <1>10. PICK j \in DOMAIN ms : j < n /\ Reaches(ms[j], pos)
    BY <1>2, <1>6, <1>7, <1>9
  <1>11. ms[j] \in Indices /\ secs[ms[j]].addr \in Nat /\ secs[ms[j]].size \in Nat
    <2>1. ms[j] \in Indices
      BY <1>1, <1>10, SegmentIs DEF ms, Seg
    <2>. QED  BY <2>1, SectionIs
  <1>12. secs[i].addr < secs[ms[j]].addr + secs[ms[j]].size /\ secs[ms[j]].set
    <2>1. /\ secs[ms[j]].set
          /\ secs[ms[j]].addr + secs[ms[j]].size - Seg.vaddr = pos - cur.start
      BY <1>10 DEF Reaches
    <2>. QED  BY <1>2, <1>9, <1>11, <2>1
  <1>13. \E s \in DOMAIN segs : \E x, y \in DOMAIN segs[s].members :
            /\ x < y /\ secs[segs[s].members[y]].set /\ secs[segs[s].members[x]].set
            /\ secs[segs[s].members[y]].addr < secs[segs[s].members[x]].addr + secs[segs[s].members[x]].size
    <2>1. segs[cur.seg].members = ms
      BY DEF ms, Seg
    <2>. QED  BY <1>1, <1>3, <1>10, <1>12, <2>1
  <1>. QED  BY <1>1, <1>13 DEF RefusesOnlyOverlaps

LEMMA RefusalKept ==
    ASSUME Typed, RoomInMemory, StillOwed, Fresh, RefusesOnlyOverlaps, [Next]_vars
    PROVE  RefusesOnlyOverlaps'
  <1>1. CASE pc' # "failed"
    BY <1>1 DEF RefusesOnlyOverlaps
  <1>2. CASE pc' = "failed" /\ WriteSection
    BY <1>2, RefusedRightly
  <1>3. CASE UNCHANGED vars
    BY <1>3 DEF vars, RefusesOnlyOverlaps
  <1>4. pc' # "failed" \/ WriteSection \/ UNCHANGED vars
    BY DEF Next, Save, Done, BeginSave, OrderSegment, EndOrder, StartSegment, EndSegment,
           EndSegments, PlaceLoose, WriteFile, Load, Keep
  <1>. QED  BY <1>1, <1>2, <1>3, <1>4

LEMMA RefusalInvInit == Init => LargerFirst /\ StillOwed /\ Sourced /\ Fresh /\ RefusesOnlyOverlaps
  <1>. SUFFICES ASSUME Init PROVE LargerFirst /\ StillOwed /\ Sourced /\ Fresh /\ RefusesOnlyOverlaps
    OBVIOUS
  <1>1. pc = "built"
    BY DEF Init
  <1>. QED  BY <1>1 DEF LargerFirst, StillOwed, Early, Sourced, Fresh, RefusesOnlyOverlaps

\* get_ordered_segments: a segment that is_subsequence_of finds in a larger one
\* is laid out behind it, so that the larger one gives their common sections
\* their places; it is so for any lists of members, even where their order
\* misleads std::includes about what lies in what.
THEOREM LargerSegmentsFirst == Spec => []LargerFirst
  <1>1. Init => Typed /\ LargerFirst
    BY InitTyped, RefusalInvInit
  <1>2. Typed /\ LargerFirst /\ [Next]_vars => (Typed /\ LargerFirst)'
    BY TypedKept, LargerFirstKept
  <1>. QED  BY <1>1, <1>2, PTL DEF Spec

\* save refuses only what it could not place: of an object whose segments are
\* nested or apart, have their sections in order and none below their address,
\* and do not begin with the headers, with numbers that fit their fields,
\* write_segment_data refuses a section only when an earlier one of its segment
\* reaches past the address it was given.
THEOREM RefusesForCause ==
    Spec /\ []RoomInFile /\ []RoomInMemory /\ []Owed => []RefusesOnlyOverlaps
  <1>. DEFINE Inv == Typed /\ Complete /\ RefusalInv
              Room == RoomInFile /\ RoomInMemory /\ Owed
  <1>1. Init => Inv
    BY LayInvInit, RefusalInvInit DEF LayInv, RefusalInv
  <1>2. Inv /\ Room /\ [Next]_vars => Inv'
    BY TypedKept, CompleteKept, LargerFirstKept, StillOwedKept, SourcedKept, FreshKept, RefusalKept
       DEF RefusalInv
  <1>3. Inv => RefusesOnlyOverlaps
    BY DEF RefusalInv
  <1>. QED  BY <1>1, <1>2, <1>3, PTL DEF Spec

-----------------------------------------------------------------------------
(***************************************************************************)
(* What a loader finds: each segment, once it is laid out, keeps its       *)
(* sections at the same distance in the file and in memory, whatever is    *)
(* placed behind it.                                                       *)
(***************************************************************************)
\* Of section headers: with bits, and part of the image in memory; the first
\* section of a segment.
Bits(x) == x.type # "NOBITS"
InImage(x) == x.alloc /\ ~(x.tls /\ ~Bits(x))
One(a) == IF a > 1 THEN a ELSE 1
Lead(g, ss) == ss[g.members[1]]

\* A segment inside another one divides its alignment, and either its first
\* section has bits and its address, or it starts where the other one does, and
\* its first section, without an address as yet, may be put there.
Inner(a, b) == MemberSet(a) # {} /\ MemberSet(a) \subseteq MemberSet(b)
Leading(ss, g) == LET x == Lead(g, ss) IN x.set /\ x.addr = g.vaddr /\ x.size > 0 /\ Bits(x)
Abreast(a, b) == b.members[1] = a.members[1] /\ b.vaddr = a.vaddr
Free(ss, a, b) ==
    LET x == Lead(a, ss)  n == One(x.align)
    IN  ~x.set /\ a.vaddr % n = 0 /\ One(b.align) % n = 0

\* A section lies in the memory of all its segments.
Given(ss, gs, i) ==
    \A s \in DOMAIN gs : i \in MemberSet(gs[s]) =>
        gs[s].vaddr <= ss[i].addr /\ ss[i].addr + ss[i].size <= gs[s].vaddr + gs[s].memsz

\* Segments hold no null section, and what is in memory comes first.
Sorted(ss, g) ==
    /\ \A i \in MemberSet(g) : ss[i].type # "NULL"
    /\ \A j, k \in DOMAIN g.members : j < k /\ ss[g.members[k]].alloc => ss[g.members[j]].alloc
BssGiven(ss, gs, D) ==
    \A i \in D : ~Bits(ss[i]) /\ InImage(ss[i]) /\ ss[i].set /\ ss[i].size > 0 => Given(ss, gs, i)

\* What the caller owes, beyond Owed, for a file that can be mapped.
MapOwed ==
    pc = "built" =>
        /\ \A s \in DOMAIN segs : Sorted(secs, segs[s])
        /\ BssGiven(secs, segs, DOMAIN secs)
        /\ \A s, t \in DOMAIN segs : s # t /\ Inner(segs[s], segs[t]) =>
              LET a == Raised(segs[s], secs)  b == Raised(segs[t], secs)
              IN  /\ One(b.align) % One(a.align) = 0
                  /\ Leading(secs, a) \/ (Abreast(a, b) /\ Free(secs, a, b))

\* No offset and no size of a segment passes the largest Elf_Xword.
RoomInImage ==
    /\ \A i \in Indices : secs[i].offset < Word
    /\ pc = "sections" /\ cur.next <= Len(Seg.members) /\ ~Behind(Member) =>
          LET grow == SectionAlign(Member) + secs[Member].size
          IN  cur.filesz + grow < Word /\ cur.memsz + grow < Word

\* A segment is waiting, at hand or laid out, and only one of these.
LaidOut ==
    IF pc \in {"segments", "sections", "loose", "saved"}
    THEN {s \in DOMAIN segs : s \notin ToSet(queue) /\ (pc = "sections" => s # cur.seg)}
    ELSE {}
Distinct(q) == \A j, k \in DOMAIN q : j # k => q[j] # q[k]
Once ==
    /\ Early => Distinct(queue)
    /\ pc = "order" =>
          /\ Distinct(ordered) /\ ToSet(queue) \cap ToSet(ordered) = {}
          /\ DOMAIN segs \subseteq ToSet(queue) \cup ToSet(ordered)
    /\ pc = "sections" => cur.seg \notin ToSet(queue)

\* The sections D of a segment with header h lie in it, in the file as in memory,
\* in order, and no other section has bytes where it has some.
Same(h, x) == x.addr - h.vaddr = x.offset - h.offset
Fits(ss, gs, h, i) ==
    LET x == ss[i]
    IN  /\ h.offset <= x.offset
        /\ Bits(x) => x.offset + x.size <= h.offset + h.filesz
        /\ Bits(x) /\ x.size > 0 => Same(h, x)
        /\ InImage(x) /\ x.size > 0 => h.vaddr <= x.addr /\ x.addr + x.size <= h.vaddr + h.memsz
        /\ ~Bits(x) /\ InImage(x) /\ x.size > 0 => Same(h, x) \/ Given(ss, gs, i)
Well(ss, gs, h, D) ==
    \A i \in D : /\ Fits(ss, gs, h, i)
                 /\ \A j \in D : i < j => ss[i].offset + ss[i].size <= ss[j].offset
Weighs(x) == Bits(x) /\ x.type # "NULL" /\ x.size > 0
Clear(ss, D, h) ==
    \A i \in D : Weighs(ss[i]) =>
        \/ ss[i].offset + ss[i].size <= h.offset
        \/ h.offset + h.filesz <= ss[i].offset
        \/ Same(h, ss[i])

\* A segment that is laid out keeps all this, whatever is placed behind it.
Settled(ss, gs, D, g, to) ==
    /\ Well(ss, gs, g, MemberSet(g)) /\ Clear(ss, D, g)
    /\ MemberSet(g) # {} => (g.offset - g.vaddr) % One(g.align) = 0
    /\ MemberSet(g) \subseteq D /\ g.offset + g.filesz <= to
AllSettled == \A s \in LaidOut : Settled(secs, segs, generated, segs[s], Limit)

\* The segment at hand: its header as it would be now, and the sections it has
\* passed.  Either it is the first to place its sections, or they have been
\* placed by one it lies in.
Now == [Seg EXCEPT !.offset = cur.start, !.filesz = cur.filesz, !.memsz = MemorySize(@)]
PassedOf(g, n) == {g.members[k] : k \in {k \in DOMAIN g.members : k < n}}
Passed == PassedOf(Seg, cur.next)
Alone ==
    /\ \A k \in DOMAIN Seg.members : k >= cur.next => Seg.members[k] \notin generated
    /\ \A i \in generated : Weighs(secs[i]) =>
          secs[i].offset + secs[i].size <= cur.start \/ Same(Now, secs[i])
    /\ \A i \in Passed : Bits(secs[i]) => secs[i].offset + secs[i].size <= pos
    /\ cur.next <= Len(Seg.members) => cur.filesz = pos - cur.start
Within(t) ==
    /\ MemberSet(Seg) \subseteq MemberSet(segs[t])
    /\ Seg.vaddr - segs[t].vaddr = cur.start - segs[t].offset
    /\ segs[t].offset <= cur.start /\ cur.start + cur.filesz <= segs[t].offset + segs[t].filesz
    /\ cur.next <= Len(Seg.members) =>
          cur.start + cur.filesz =
             IF cur.next = 1 THEN Lead(Seg, secs).offset
             ELSE LET x == secs[Seg.members[cur.next - 1]] IN x.offset + x.size
AtHand ==
    pc = "sections" =>
        /\ cur.start + cur.filesz <= pos
        /\ IF MemberSet(Seg) = {} THEN Clear(secs, generated, Now)
           ELSE /\ Well(secs, segs, Now, Passed)
                /\ (cur.start - Seg.vaddr) % One(Seg.align) = 0
                /\ cur.next <= Len(Seg.members) /\ (\A i \in Passed : secs[i].alloc) =>
                      cur.memsz = cur.filesz
                /\ Alone \/ (Finished(cur.seg) /\ \E t \in LaidOut : Within(t))

\* A section that is generated came with a segment that includes none waiting.
Rooted ==
    pc \in {"segments", "sections"} =>
        \A i \in generated : \E s \in LaidOut \cup (IF pc = "sections" THEN {cur.seg} ELSE {}) :
            i \in MemberSet(segs[s]) /\ \A t \in ToSet(queue) : ~IsSubsequenceOf(s, t)

\* Every segment that begins with section i begins where it does.
Leads(i) ==
    /\ \A t \in LaidOut : MemberSet(segs[t]) # {} /\ segs[t].members[1] = i =>
          secs[i].offset = segs[t].offset
    /\ pc = "sections" /\ MemberSet(Seg) # {} /\ Seg.members[1] = i => secs[i].offset = cur.start

\* What is left of the caller's part while the segments are laid out.
StillSorted == Early => \A s \in DOMAIN segs : Sorted(secs, segs[s])
StillGiven == Early => BssGiven(secs, segs, Indices \ generated)
StillBehind == Early => \A s \in Waiting : segs[s].set => segs[s].offset # 0
Tied(s, t) ==
    LET a == segs[s]  b == segs[t]
    IN  /\ One(b.align) % One(a.align) = 0
        /\ \/ Leading(secs, a)
           \/ /\ Abreast(a, b)
              /\ IF a.members[1] \in generated THEN Leads(a.members[1]) ELSE Free(secs, a, b)
StillTied ==
    Early => \A s \in Waiting, t \in DOMAIN segs :
                 s # t /\ Inner(segs[s], segs[t]) => Tied(s, t)

MapInv == Once /\ AllSettled /\ AtHand /\ Rooted /\ StillSorted /\ StillGiven /\ StillBehind /\ StillTied
-----------------------------------------------------------------------------
LEMMA DivModIs ==
    \A x \in Int, n \in Nat \ {0} :
        x = n * (x \div n) + (x % n) /\ x % n \in Nat /\ x \div n \in Int
  OBVIOUS

LEMMA MultipleIs == \A q \in Int, n \in Nat \ {0} : (q * n) % n = 0
  OBVIOUS

LEMMA OneIs == \A a \in Nat : One(a) \in Nat \ {0} /\ One(a) = Max({1, a})
  <1>. TAKE a \in Nat
  <1>1. One(a) \in Nat \ {0} /\ One(a) \in {1, a} /\ \A y \in {1, a} : y <= One(a)
    BY DEF One
  <1>2. Max({1, a}) \in {1, a} /\ \A y \in {1, a} : y <= Max({1, a})
    BY MaxOf
  <1>. QED  BY <1>1, <1>2

LEMMA Factor ==
    ASSUME NEW x \in Int, NEW n \in Nat \ {0}, x % n = 0
    PROVE  \E q \in Int : x = q * n
  <1>1. x = n * (x \div n) + (x % n) /\ x \div n \in Int
    BY DivModIs
  <1>2. x = (x \div n) * n
    BY <1>1
  <1>. QED  BY <1>1, <1>2

LEMMA FactorDivides ==
    ASSUME NEW x \in Int, NEW n \in Nat \ {0}, NEW q \in Int, x = q * n
    PROVE  x % n = 0
  BY MultipleIs

\* A segment that is moved by Gap is congruent to its address.
LEMMA GapFits ==
    ASSUME NEW v \in Nat, NEW p \in Nat, NEW n \in Nat \ {0}
    PROVE  (p + (((v % n) - (p % n)) % n) - v) % n = 0
  <1>. DEFINE w == (v % n) - (p % n)
              y == p + (w % n) - v
              q == (p \div n) - (v \div n) - (w \div n)
  <1>1. /\ v = n * (v \div n) + (v % n) /\ v \div n \in Int /\ v % n \in Nat
        /\ p = n * (p \div n) + (p % n) /\ p \div n \in Int /\ p % n \in Nat
    BY DivModIs
  <1>2. w = n * (w \div n) + (w % n) /\ w \div n \in Int /\ w % n \in Nat
    <2>1. w \in Int
      BY <1>1
    <2>. HIDE DEF w
    <2>. QED  BY <2>1, DivModIs
  <1>3. y = q * n /\ y \in Int /\ q \in Int
    BY <1>1, <1>2
  <1>4. y % n = 0
    <2>. HIDE DEF y, q
    <2>. QED  BY <1>3, FactorDivides
  <1>. QED  BY <1>4

LEMMA DividesOn ==
    ASSUME NEW x \in Int, NEW n \in Nat \ {0}, NEW m \in Nat \ {0}, x % n = 0, n % m = 0
    PROVE  x % m = 0
  <1>1. PICK q \in Int : x = q * n
    BY Factor
  <1>2. PICK k \in Int : n = k * m
    BY Factor
  <1>3. x = (q * k) * m /\ q * k \in Int
    BY <1>1, <1>2
  <1>. QED  BY <1>3, FactorDivides

\* A position congruent to a multiple needs no padding.
LEMMA NoPadding ==
    ASSUME NEW p \in Nat, NEW v \in Nat, NEW n \in Nat \ {0}, NEW a \in Nat,
           (p - v) % n = 0, n % One(a) = 0, v % One(a) = 0
    PROVE  Padding(p, a) = 0
  <1>1. CASE ~(a > 1)
    BY <1>1 DEF Padding
  <1>2. CASE a > 1
    <2>1. One(a) = a /\ a \in Nat \ {0}
      BY <1>2 DEF One
    <2>. DEFINE y == p - v
    <2>2. y \in Int /\ y % n = 0 /\ n % a = 0
      BY <2>1
    <2>3. PICK q \in Int : y = q * a
      <3>. HIDE DEF y
      <3>1. y % a = 0
        BY <2>1, <2>2, DividesOn
      <3>. QED  BY <2>1, <2>2, <3>1, Factor
    <2>4. PICK k \in Int : v = k * a
      BY <2>1, Factor
    <2>5. p = (q + k) * a /\ q + k \in Int
      BY <2>3, <2>4, <2>1
    <2>6. p % a = 0
      BY <2>1, <2>5, FactorDivides
    <2>7. a % a = 0
      BY <2>1, FactorDivides
    <2>8. a - (p % a) = a
      BY <2>1, <2>6
    <2>. QED  BY <1>2, <2>7, <2>8 DEF Padding
  <1>. QED  BY <1>1, <1>2

-----------------------------------------------------------------------------
(***************************************************************************)
(* Each segment is at one place at a time.                                 *)
(***************************************************************************)
LEMMA DistinctAppend ==
    ASSUME NEW S, NEW q \in Seq(S), NEW x \in S, Distinct(q), x \notin ToSet(q)
    PROVE  Distinct(Append(q, x))
  <1>1. /\ DOMAIN Append(q, x) = 1 .. Len(q) + 1 /\ DOMAIN q = 1 .. Len(q) /\ Len(q) \in Nat
        /\ \A k \in 1 .. Len(q) : Append(q, x)[k] = q[k]
        /\ Append(q, x)[Len(q) + 1] = x
    BY AppendProperties
  <1>2. \A k \in 1 .. Len(q) : q[k] # x
    BY <1>1 DEF ToSet
  <1>. SUFFICES ASSUME NEW j \in 1 .. Len(q) + 1, NEW k \in 1 .. Len(q) + 1, j # k
                PROVE  Append(q, x)[j] # Append(q, x)[k]
    BY <1>1 DEF Distinct
  <1>3. CASE j = Len(q) + 1
    <2>1. k \in 1 .. Len(q)
      BY <1>1, <1>3
    <2>. QED  BY <1>1, <1>2, <1>3, <2>1
  <1>4. CASE k = Len(q) + 1
    <2>1. j \in 1 .. Len(q)
      BY <1>1, <1>4
    <2>. QED  BY <1>1, <1>2, <1>4, <2>1
  <1>5. CASE j \in 1 .. Len(q) /\ k \in 1 .. Len(q)
    BY <1>1, <1>5 DEF Distinct
  <1>. QED  BY <1>1, <1>3, <1>4, <1>5

LEMMA DistinctTail ==
    ASSUME NEW S, NEW q \in Seq(S), q # <<>>, Distinct(q)
    PROVE  Distinct(Tail(q)) /\ Head(q) \notin ToSet(Tail(q))
  <1>1. /\ Head(q) = q[1] /\ DOMAIN q = 1 .. Len(q) /\ Len(q) \in Nat \ {0}
        /\ DOMAIN Tail(q) = 1 .. Len(q) - 1
        /\ \A k \in 1 .. Len(q) - 1 : Tail(q)[k] = q[k + 1]
    <2>1. Len(q) \in Nat \ {0} /\ Tail(q) \in Seq(S) /\ Len(Tail(q)) = Len(q) - 1
          /\ \A k \in 1 .. Len(Tail(q)) : Tail(q)[k] = q[k + 1]
      BY HeadTailProperties, EmptySeq
    <2>. QED  BY <2>1
  <1>2. \A j, k \in 1 .. Len(q) : j # k => q[j] # q[k]
    BY <1>1 DEF Distinct
  <1>3. ASSUME NEW j \in 1 .. Len(q) - 1, NEW k \in 1 .. Len(q) - 1, j # k
        PROVE  Tail(q)[j] # Tail(q)[k]
    <2>1. j + 1 \in 1 .. Len(q) /\ k + 1 \in 1 .. Len(q) /\ j + 1 # k + 1
      <3>1. Len(q) \in Nat
        BY <1>1
      <3>. QED  BY <1>3, <3>1
    <2>. QED  BY <1>1, <1>2, <2>1
  <1>4. ASSUME NEW k \in 1 .. Len(q) - 1 PROVE Tail(q)[k] # Head(q)
    <2>1. k + 1 \in 1 .. Len(q) /\ 1 \in 1 .. Len(q) /\ k + 1 # 1
      BY <1>1
    <2>. QED  BY <1>1, <1>2, <2>1
  <1>. QED  BY <1>1, <1>3, <1>4 DEF Distinct, ToSet

LEMMA OrdersAreDistinct ==
    ASSUME NEW n \in Nat, NEW a \in Orders(n)
    PROVE  Distinct(a) /\ ToSet(a) = 1 .. n
  <1>1. a \in [1 .. n -> 1 .. n] /\ \A v \in 1 .. n : \E k \in 1 .. n : a[k] = v
    BY DEF Orders
  <1>2. a \in Surjection(1 .. n, 1 .. n)
    BY <1>1 DEF Surjection
  <1>3. IsFiniteSet(1 .. n)
    BY FS_Interval
  <1>4. a \in Injection(1 .. n, 1 .. n)
    BY <1>2, <1>3, FS_SurjSameCardinalityImpliesInj
  <1>. QED  BY <1>1, <1>4 DEF Injection, IsInjective, Distinct, ToSet

LEMMA OnceKept ==
    ASSUME Typed, Once, [Next]_vars
    PROVE  Once'
  <1>1. CASE BeginSave
    <2>1. /\ pc' = "order" /\ ordered' = <<>> /\ queue' \in Orders(Len(segs))
          /\ DOMAIN segs' = 1 .. Len(segs) /\ Len(segs) \in Nat
      <3>1. DOMAIN segs = 1 .. Len(segs) /\ Len(segs) \in Nat
        BY DEF Typed
      <3>. QED  BY <1>1, <3>1, BeginSaveIs
    <2>2. Distinct(queue') /\ ToSet(queue') = 1 .. Len(segs)
      BY <2>1, OrdersAreDistinct
    <2>3. Distinct(ordered') /\ ToSet(ordered') = {}
      BY <2>1, ToSetOfEmpty DEF Distinct
    <2>. QED  BY <2>1, <2>2, <2>3 DEF Once
  <1>2. CASE OrderSegment
    <2>. DEFINE h == Head(queue)
                rest == Tail(queue)
    <2>1. /\ pc = "order" /\ queue # <<>> /\ pc' = "order" /\ segs' = segs
          /\ \/ queue' = Append(rest, h) /\ ordered' = ordered
             \/ queue' = rest /\ ordered' = Append(ordered, h)
      BY <1>2 DEF OrderSegment
    <2>2. /\ h \in DOMAIN segs /\ rest \in Seq(DOMAIN segs)
          /\ ToSet(queue) = {h} \cup ToSet(rest)
          /\ ordered \in Seq(DOMAIN segs) /\ queue \in Seq(DOMAIN segs)
      BY <2>1, HeadIs DEF Typed
    <2>3. /\ Distinct(queue) /\ Distinct(ordered) /\ ToSet(queue) \cap ToSet(ordered) = {}
          /\ DOMAIN segs \subseteq ToSet(queue) \cup ToSet(ordered)
      BY <2>1 DEF Once, Early
    <2>4. Distinct(rest) /\ h \notin ToSet(rest)
      BY <2>1, <2>2, <2>3, DistinctTail
    <2>. HIDE DEF h, rest
    <2>5. CASE queue' = Append(rest, h) /\ ordered' = ordered
      <3>1. ToSet(queue') = ToSet(queue) /\ Distinct(queue')
        BY <2>2, <2>4, <2>5, AppendSet, DistinctAppend
      <3>. QED  BY <2>1, <2>3, <2>5, <3>1 DEF Once
    <2>6. CASE queue' = rest /\ ordered' = Append(ordered, h)
      <3>1. h \notin ToSet(ordered)
        BY <2>2, <2>3
      <3>2. ToSet(ordered') = ToSet(ordered) \cup {h} /\ Distinct(ordered')
        BY <2>2, <2>3, <2>6, <3>1, AppendSet, DistinctAppend
      <3>. QED  BY <2>1, <2>2, <2>3, <2>4, <2>6, <3>2 DEF Once
    <2>. QED  BY <2>1, <2>5, <2>6
  <1>3. CASE EndOrder
    <2>1. pc = "order" /\ pc' = "segments" /\ queue' = ordered
      BY <1>3 DEF EndOrder
    <2>. QED  BY <2>1 DEF Once
  <1>4. CASE StartSegment
    <2>1. /\ pc = "segments" /\ queue # <<>> /\ pc' = "sections"
          /\ queue' = Tail(queue) /\ cur'.seg = Head(queue)
      BY <1>4 DEF StartSegment
    <2>2. Distinct(queue) /\ queue \in Seq(DOMAIN segs)
      BY <2>1 DEF Once, Early, Typed
    <2>. QED  BY <2>1, <2>2, DistinctTail DEF Once
  <1>5. CASE WriteSection
    <2>1. pc = "sections" /\ queue' = queue
      BY <1>5 DEF WriteSection
    <2>2. pc' = "failed" \/ (pc' = "sections" /\ cur'.seg = cur.seg)
      BY <1>5, <2>1, WriteSectionIs
    <2>. QED  BY <2>1, <2>2 DEF Once, Early
  <1>6. CASE EndSegment
    <2>1. pc = "sections" /\ pc' = "segments" /\ queue' = queue
      BY <1>6 DEF EndSegment
    <2>. QED  BY <2>1 DEF Once, Early
  <1>7. CASE EndSegments \/ PlaceLoose \/ WriteFile \/ Load \/ Keep
    <2>1. pc' \in {"loose", "saved", "built"}
      BY <1>7 DEF EndSegments, PlaceLoose, WriteFile, Load, Keep
    <2>. QED  BY <2>1 DEF Once, Early
  <1>8. CASE UNCHANGED vars
    BY <1>8 DEF vars, Once, Early
  <1>. QED  BY <1>1, <1>2, <1>3, <1>4, <1>5, <1>6, <1>7, <1>8 DEF Next, Save, Done

-----------------------------------------------------------------------------
(***************************************************************************)
(* What is laid out stays as it is.                                        *)
(***************************************************************************)
\* Segments keep their sections and addresses, and the memory they have.
Grown(gs, hs) ==
    /\ DOMAIN hs = DOMAIN gs
    /\ \A s \in DOMAIN gs : /\ hs[s].members = gs[s].members /\ hs[s].vaddr = gs[s].vaddr
                            /\ gs[s].memsz <= hs[s].memsz
Counts(ss, gs) ==
    /\ \A i \in DOMAIN ss : ss[i].addr \in Nat /\ ss[i].size \in Nat /\ ss[i].offset \in Nat
    /\ \A s \in DOMAIN gs : gs[s].vaddr \in Nat /\ gs[s].memsz \in Nat

LEMMA CountsOf ==
    ASSUME NEW n \in Nat, NEW ss \in [0 .. n - 1 -> SectionHeaders], NEW gs \in Seq(SegmentHeaders(n))
    PROVE  Counts(ss, gs) /\ DOMAIN ss = 0 .. n - 1
  <1>1. \A i \in DOMAIN ss : ss[i].addr \in Nat /\ ss[i].size \in Nat /\ ss[i].offset \in Nat
    <2>. TAKE i \in DOMAIN ss
    <2>1. ss[i] \in SectionHeaders
      OBVIOUS
    <2>. QED  BY <2>1 DEF SectionHeaders
  <1>2. \A s \in DOMAIN gs : gs[s].vaddr \in Nat /\ gs[s].memsz \in Nat
    <2>. TAKE s \in DOMAIN gs
    <2>1. gs[s] \in SegmentHeaders(n)
      OBVIOUS
    <2>. QED  BY <2>1 DEF SegmentHeaders
  <1>. QED  BY <1>1, <1>2 DEF Counts

LEMMA CountsIs == Typed => Counts(secs, segs) /\ DOMAIN secs = Indices
  BY CountsOf DEF Typed, Indices

LEMMA GivenStays ==
    ASSUME NEW ss, NEW tt, NEW gs, NEW hs, NEW i, Counts(ss, gs), Counts(tt, hs), Grown(gs, hs),
           i \in DOMAIN ss, tt[i] = ss[i], Given(ss, gs, i)
    PROVE  Given(tt, hs, i)
  <1>. SUFFICES ASSUME NEW s \in DOMAIN hs, i \in MemberSet(hs[s])
                PROVE  /\ hs[s].vaddr <= tt[i].addr
                       /\ tt[i].addr + tt[i].size <= hs[s].vaddr + hs[s].memsz
    BY DEF Given
  <1>1. s \in DOMAIN gs /\ i \in MemberSet(gs[s])
    BY DEF Grown, MemberSet
  <1>2. gs[s].vaddr <= ss[i].addr /\ ss[i].addr + ss[i].size <= gs[s].vaddr + gs[s].memsz
    BY <1>1 DEF Given
  <1>3. /\ gs[s].vaddr \in Nat /\ gs[s].memsz \in Nat /\ hs[s].vaddr = gs[s].vaddr
        /\ gs[s].memsz <= hs[s].memsz /\ hs[s].memsz \in Nat
        /\ ss[i].addr \in Nat /\ ss[i].size \in Nat
    BY <1>1 DEF Counts, Grown
  <1>. QED  BY <1>2, <1>3

LEMMA WellStays ==
    ASSUME NEW ss, NEW tt, NEW gs, NEW hs, NEW h, NEW D,
           Counts(ss, gs), Counts(tt, hs), Grown(gs, hs), D \subseteq DOMAIN ss,
           \A i \in D : tt[i] = ss[i], Well(ss, gs, h, D)
    PROVE  Well(tt, hs, h, D)
  <1>1. ASSUME NEW i \in D PROVE Fits(tt, hs, h, i)
    <2>1. tt[i] = ss[i] /\ Fits(ss, gs, h, i) /\ i \in DOMAIN ss
      BY DEF Well
    <2>2. Given(ss, gs, i) => Given(tt, hs, i)
      BY <2>1, GivenStays
    <2>. QED  BY <2>1, <2>2 DEF Fits
  <1>. QED  BY <1>1 DEF Well

\* A header that covers more covers it as well.
LEMMA WellWider ==
    ASSUME NEW ss, NEW gs, NEW h, NEW k, NEW D, Counts(ss, gs), D \subseteq DOMAIN ss,
           k.offset = h.offset, k.vaddr = h.vaddr, h.vaddr \in Nat, h.offset \in Nat,
           h.filesz \in Nat, h.memsz \in Nat, k.filesz \in Nat, k.memsz \in Nat,
           h.filesz <= k.filesz, h.memsz <= k.memsz, Well(ss, gs, h, D)
    PROVE  Well(ss, gs, k, D)
  <1>1. ASSUME NEW i \in D PROVE Fits(ss, gs, k, i)
    <2>1. Fits(ss, gs, h, i)
      BY DEF Well
    <2>2. ss[i].addr \in Nat /\ ss[i].size \in Nat /\ ss[i].offset \in Nat
      BY DEF Counts
    <2>3. Same(h, ss[i]) <=> Same(k, ss[i])
      BY DEF Same
    <2>4. /\ k.offset <= ss[i].offset
          /\ Bits(ss[i]) => ss[i].offset + ss[i].size <= k.offset + k.filesz
          /\ InImage(ss[i]) /\ ss[i].size > 0 =>
                k.vaddr <= ss[i].addr /\ ss[i].addr + ss[i].size <= k.vaddr + k.memsz
      BY <2>1, <2>2 DEF Fits
    <2>. QED  BY <2>1, <2>3, <2>4 DEF Fits
  <1>. QED  BY <1>1 DEF Well

LEMMA ClearStays ==
    ASSUME NEW ss, NEW tt, NEW gs, NEW hs, NEW D, NEW E, NEW h, NEW to \in Nat,
           Counts(ss, gs), Counts(tt, hs), D \subseteq DOMAIN ss, E \subseteq DOMAIN tt,
           \A i \in D : tt[i] = ss[i],
           \A i \in E \ D : Weighs(tt[i]) => to <= tt[i].offset,
           h.offset \in Nat, h.filesz \in Nat, h.offset + h.filesz <= to, Clear(ss, D, h)
    PROVE  Clear(tt, E, h)
  <1>. SUFFICES ASSUME NEW i \in E, Weighs(tt[i])
                PROVE  \/ tt[i].offset + tt[i].size <= h.offset
                       \/ h.offset + h.filesz <= tt[i].offset
                       \/ Same(h, tt[i])
    BY DEF Clear
  <1>1. CASE i \in D
    BY <1>1 DEF Clear
  <1>2. CASE i \notin D
    <2>1. to <= tt[i].offset /\ tt[i].offset \in Nat
      BY <1>2 DEF Counts
    <2>. QED  BY <2>1
  <1>. QED  BY <1>1, <1>2

LEMMA SettledStays ==
    ASSUME NEW ss, NEW tt, NEW gs, NEW hs, NEW D, NEW E, NEW g, NEW to \in Nat, NEW upto \in Nat,
           Counts(ss, gs), Counts(tt, hs), Grown(gs, hs),
           D \subseteq DOMAIN ss, E \subseteq DOMAIN tt, D \subseteq E,
           \A i \in D : tt[i] = ss[i],
           \A i \in E \ D : Weighs(tt[i]) => to <= tt[i].offset,
           g.offset \in Nat, g.filesz \in Nat, to <= upto, Settled(ss, gs, D, g, to)
    PROVE  Settled(tt, hs, E, g, upto)
  <1>1. /\ Well(ss, gs, g, MemberSet(g)) /\ Clear(ss, D, g) /\ MemberSet(g) \subseteq D
        /\ g.offset + g.filesz <= to
    BY DEF Settled
  <1>2. Well(tt, hs, g, MemberSet(g))
    BY <1>1, WellStays
  <1>3. Clear(tt, E, g)
    BY <1>1, ClearStays
  <1>4. g.offset + g.filesz <= upto
    BY <1>1
  <1>. QED  BY <1>1, <1>2, <1>3, <1>4, Zenon DEF Settled

LEMMA LimitIs == Typed => Limit \in Nat
  BY DEF Limit, Typed

LEMMA SettledKept ==
    ASSUME Typed, Typed', Indices' = Indices, AllSettled, Grown(segs, segs'),
           NEW s \in LaidOut, s \in DOMAIN segs, segs'[s] = segs[s], generated \subseteq generated',
           \A i \in generated : secs'[i] = secs[i],
           \A i \in generated' \ generated : Weighs(secs'[i]) => Limit <= secs'[i].offset,
           Limit <= Limit'
    PROVE  Settled(secs', segs', generated', segs'[s], Limit')
  <1>1. Counts(secs, segs) /\ DOMAIN secs = Indices /\ generated \subseteq Indices /\ Limit \in Nat
    BY CountsIs, LimitIs DEF Typed
  <1>2. Counts(secs', segs') /\ DOMAIN secs' = Indices /\ generated' \subseteq Indices
    <2>1. Counts(secs', segs') /\ DOMAIN secs' = Indices'
      <3>1. /\ N' \in Nat /\ secs' \in [0 .. N' - 1 -> SectionHeaders]
            /\ segs' \in Seq(SegmentHeaders(N'))
        BY DEF Typed, Indices
      <3>. QED  BY <3>1, CountsOf DEF Indices
    <2>2. generated' \subseteq Indices'
      BY DEF Typed
    <2>. QED  BY <2>1, <2>2
  <1>3. Limit' \in Nat
    BY DEF Limit, Typed
  <1>4. Settled(secs, segs, generated, segs[s], Limit)
    BY DEF AllSettled
  <1>5. segs[s].offset \in Nat /\ segs[s].filesz \in Nat
    BY SegmentIs
  <1>6. Settled(secs', segs', generated', segs[s], Limit')
    BY <1>1, <1>2, <1>3, <1>4, <1>5, SettledStays
  <1>. QED  BY <1>6

\* A section that is placed and has bytes lies at the position or behind it.
LEMMA NewBehind ==
    ASSUME Typed, RoomInFile, WriteSection \/ PlaceLoose, pc' # "failed"
    PROVE  \A i \in generated' \ generated : Weighs(secs'[i]) => pos <= secs'[i].offset
  <1>1. CASE WriteSection
    <2>1. generated' = generated \cup {Member} /\ Member \in Indices
      BY <1>1, WrittenIs
    <2>. SUFFICES ASSUME Member \notin generated, Weighs(secs'[Member])
                  PROVE  pos <= secs'[Member].offset
      BY <2>1
    <2>2. ~Null(Member)
      <3>1. secs'[Member].type = secs[Member].type
        BY <1>1, WrittenIs
      <3>. QED  BY <3>1 DEF Weighs, Null
    <2>3. /\ ~Behind(Member) /\ PlacedAt(Member, Plus(pos, SectionAlign(Member))) /\ Member # 0
      BY <1>1, <2>2, WriteSectionIs
    <2>4. /\ Plus(pos, SectionAlign(Member)) = pos + SectionAlign(Member)
          /\ pos + SectionAlign(Member) >= pos /\ pos + SectionAlign(Member) \in Nat
      BY <1>1, <2>3, PlaceIs
    <2>5. secs'[Member].offset = pos + SectionAlign(Member)
      BY <2>3, <2>4 DEF PlacedAt
    <2>. QED  BY <2>4, <2>5 DEF Typed
  <1>2. CASE PlaceLoose
    <2>1. PICK i \in Loose :
             /\ i \in Indices /\ generated' = generated \cup {i}
             /\ PlacedAt(i, pos + Padding(pos, secs[i].align))
      BY <1>2, PlaceLooseIs
    <2>. SUFFICES ASSUME Weighs(secs'[i]) PROVE pos <= secs'[i].offset
      BY <2>1
    <2>2. i # 0
      <3>1. secs'[i].type = secs[i].type
        BY <2>1 DEF PlacedAt
      <3>. QED  BY <3>1 DEF Weighs, Null, Typed
    <2>3. Padding(pos, secs[i].align) \in Nat /\ pos \in Nat
      BY <2>1, SectionIs, PaddingIs DEF Typed
    <2>4. secs'[i].offset = pos + Padding(pos, secs[i].align)
      BY <2>1, <2>2 DEF PlacedAt
    <2>. QED  BY <2>3, <2>4
  <1>. QED  BY <1>1, <1>2

\* Sections that have been placed stay where they are.
LEMMA PlacedStay ==
    ASSUME Typed, WriteSection \/ PlaceLoose, pc' # "failed"
    PROVE  generated \subseteq generated' /\ \A i \in generated : secs'[i] = secs[i]
  <1>1. CASE WriteSection
    BY <1>1, WrittenIs DEF Typed
  <1>2. CASE PlaceLoose
    <2>1. PICK i \in Loose :
             /\ i \in Indices /\ generated' = generated \cup {i}
             /\ PlacedAt(i, pos + Padding(pos, secs[i].align))
      BY <1>2, PlaceLooseIs
    <2>2. i \notin generated
      BY DEF Loose
    <2>3. \A j \in Indices \ {i} : secs'[j] = secs[j]
      BY <2>1 DEF PlacedAt
    <2>. QED  BY <2>1, <2>2, <2>3 DEF Typed
  <1>. QED  BY <1>1, <1>2

LEMMA GrownSame == Typed /\ UNCHANGED segs => Grown(segs, segs')
  <1>. SUFFICES ASSUME Typed, segs' = segs PROVE Grown(segs, segs')
    OBVIOUS
  <1>1. \A s \in DOMAIN segs : segs[s].memsz \in Nat
    BY SegmentIs
  <1>. QED  BY <1>1 DEF Grown

LEMMA LaidOutIs == LaidOut \subseteq DOMAIN segs
  BY DEF LaidOut

LEMMA AllSettledStays ==
    ASSUME Typed, Typed', Indices' = Indices, AllSettled, UNCHANGED segs,
           LaidOut' \subseteq LaidOut, generated \subseteq generated',
           \A i \in generated : secs'[i] = secs[i],
           \A i \in generated' \ generated : Weighs(secs'[i]) => Limit <= secs'[i].offset,
           Limit <= Limit'
    PROVE  AllSettled'
  <1>1. Grown(segs, segs')
    BY GrownSame
  <1>2. ASSUME NEW s \in LaidOut'
        PROVE  Settled(secs', segs', generated', segs'[s], Limit')
    <2>1. s \in LaidOut /\ s \in DOMAIN segs /\ segs'[s] = segs[s]
      BY LaidOutIs
    <2>. QED  BY <1>1, <2>1, SettledKept
  <1>. QED  BY <1>2, Zenon DEF AllSettled

LEMMA AllSettledKept ==
    ASSUME Typed, RoomInFile, Once, Complete, AllSettled, [Next]_vars, ~EndSegment
    PROVE  AllSettled'
  <1>1. Typed' /\ Indices' = Indices /\ pos \in Nat
    BY TypedKept DEF Typed
  <1>2. CASE pc' \notin {"segments", "sections", "loose", "saved"}
    <2>1. LaidOut' = {}
      BY <1>2 DEF LaidOut
    <2>. QED  BY <2>1 DEF AllSettled
  <1>3. CASE EndOrder
    <2>1. /\ pc = "order" /\ queue = <<>> /\ pc' = "segments" /\ queue' = ordered /\ segs' = segs
      BY <1>3 DEF EndOrder
    <2>2. DOMAIN segs \subseteq ToSet(ordered)
      BY <2>1, ToSetOfEmpty DEF Once
    <2>3. LaidOut' = {}
      BY <2>1, <2>2 DEF LaidOut
    <2>. QED  BY <2>3 DEF AllSettled
  <1>4. CASE StartSegment
    <2>1. /\ pc = "segments" /\ pc' = "sections" /\ queue # <<>> /\ UNCHANGED <<secs, segs, generated>>
          /\ queue' = Tail(queue) /\ cur'.seg = Head(queue)
      BY <1>4 DEF StartSegment
    <2>2. LaidOut' \subseteq LaidOut
      <3>1. ToSet(queue) = {Head(queue)} \cup ToSet(queue')
        BY <2>1, HeadIs
      <3>. QED  BY <2>1, <3>1 DEF LaidOut
    <2>3. Limit <= Limit'
      BY <1>4, <2>1, StepAhead DEF Limit, Next, Save, Ahead
    <2>. QED  BY <1>1, <2>1, <2>2, <2>3, AllSettledStays
  <1>5. CASE WriteSection /\ pc' # "failed"
    <2>1. /\ pc = "sections" /\ pc' = "sections" /\ UNCHANGED <<segs, queue>> /\ cur'.seg = cur.seg
      BY <1>5, WrittenIs
    <2>2. LaidOut' = LaidOut /\ Limit = pos
      BY <2>1 DEF LaidOut, Limit
    <2>3. Limit <= Limit'
      BY <1>5, <2>1, StepAhead DEF Limit, Next, Save, Ahead
    <2>4. /\ generated \subseteq generated' /\ \A i \in generated : secs'[i] = secs[i]
          /\ \A i \in generated' \ generated : Weighs(secs'[i]) => pos <= secs'[i].offset
      BY <1>5, NewBehind, PlacedStay
    <2>. QED  BY <1>1, <2>1, <2>2, <2>3, <2>4, AllSettledStays
  <1>6. CASE EndSegments \/ WriteFile
    <2>1. /\ UNCHANGED <<secs, segs, queue, generated>> /\ pc \in {"segments", "loose"}
          /\ pc' \in {"loose", "saved"} /\ (pc' = "saved" => shoff' = pos') /\ pos' >= pos
      BY <1>6, <1>1, PaddingIs DEF EndSegments, WriteFile
    <2>2. LaidOut' = LaidOut /\ Limit <= Limit'
      BY <2>1 DEF LaidOut, Limit, Typed
    <2>. QED  BY <1>1, <2>1, <2>2, AllSettledStays
  <1>7. CASE PlaceLoose
    <2>1. /\ UNCHANGED <<segs, queue, cur, pc>> /\ pc = "loose"
      BY <1>7 DEF PlaceLoose
    <2>2. LaidOut' = LaidOut /\ Limit = pos
      BY <2>1 DEF LaidOut, Limit
    <2>3. Limit <= Limit'
      BY <1>7, <2>1, StepAhead DEF Limit, Next, Save, Ahead
    <2>4. /\ generated \subseteq generated' /\ \A i \in generated : secs'[i] = secs[i]
          /\ \A i \in generated' \ generated : Weighs(secs'[i]) => pos <= secs'[i].offset
      BY <1>7, <2>1, NewBehind, PlacedStay
    <2>. QED  BY <1>1, <2>1, <2>2, <2>3, <2>4, AllSettledStays
  <1>8. CASE UNCHANGED vars
    <2>1. UNCHANGED <<secs, segs, generated, queue, pc, cur, pos, shoff>>
      BY <1>8 DEF vars
    <2>2. LaidOut' = LaidOut /\ Limit' = Limit
      BY <2>1 DEF LaidOut, Limit
    <2>3. AllSettled' <=> \A s \in LaidOut : Settled(secs, segs, generated, segs[s], Limit)
      BY <2>1, <2>2 DEF AllSettled
    <2>. QED  BY <2>3 DEF AllSettled
  <1>9. \/ pc' \notin {"segments", "sections", "loose", "saved"}
        \/ EndOrder \/ StartSegment \/ (WriteSection /\ pc' # "failed") \/ EndSegments \/ WriteFile
        \/ PlaceLoose \/ UNCHANGED vars
    BY DEF Next, Save, Done, BeginSave, OrderSegment, Load, Keep, WriteSection
  <1>. QED  BY <1>2, <1>3, <1>4, <1>5, <1>6, <1>7, <1>8, <1>9

\* What WriteSection does to its section and to the sizes of its segment.
LEMMA WrittenWhole ==
    ASSUME Typed, WriteSection, pc' # "failed"
    PROVE  /\ cur'.start = cur.start
           /\ Null(Member) => /\ UNCHANGED <<secs, pos>>
                              /\ cur'.filesz = cur.filesz /\ cur'.memsz = cur.memsz
           /\ ~Null(Member) =>
                LET grow == Plus(secs[Member].size, SectionAlign(Member))
                IN  /\ ~Behind(Member)
                    /\ cur'.filesz = IF NoBits(Member) THEN cur.filesz ELSE Plus(cur.filesz, grow)
                    /\ cur'.memsz = IF InMemory(Member) THEN Plus(cur.memsz, grow) ELSE cur.memsz
                    /\ Member \in generated => UNCHANGED <<secs, pos>>
                    /\ Member \notin generated =>
                          /\ secs'[Member].set
                          /\ secs'[Member].offset = Plus(pos, SectionAlign(Member))
                          /\ secs'[Member].addr =
                                IF secs[Member].set THEN secs[Member].addr
                                ELSE Plus(Seg.vaddr, Minus(Plus(pos, SectionAlign(Member)), cur.start))
                          /\ pos' = After(Member, Plus(pos, SectionAlign(Member)))
           /\ \A i \in Indices : /\ secs'[i].type = secs[i].type /\ secs'[i].alloc = secs[i].alloc
                                 /\ secs'[i].tls = secs[i].tls /\ secs'[i].size = secs[i].size
                                 /\ secs'[i].align = secs[i].align
  <1>. DEFINE i == Member
              gap == SectionAlign(i)
              grow == Plus(secs[i].size, gap)
              at == Plus(pos, gap)
              addr == IF secs[i].set THEN secs[i].addr ELSE Plus(Seg.vaddr, Minus(at, cur.start))
              out == [cur EXCEPT !.next = @ + 1,
                                 !.memsz = IF InMemory(i) THEN Plus(@, grow) ELSE @,
                                 !.filesz = IF NoBits(i) THEN @ ELSE Plus(@, grow)]
  <1>1. pc = "sections" /\ cur \in CurType
    BY DEF WriteSection, Typed, CurType
  <1>2. i \in Indices /\ secs \in [Indices -> SectionHeaders] /\ secs[i] \in SectionHeaders /\ Null(0)
    BY WriteSectionIs DEF Typed
  <1>. HIDE DEF i, gap
  <1>3. CASE Null(i) /\ cur' = [cur EXCEPT !.next = @ + 1] /\ UNCHANGED <<secs, pos, pc>>
    <2>1. cur'.start = cur.start /\ cur'.filesz = cur.filesz /\ cur'.memsz = cur.memsz
      BY <1>1, <1>3 DEF CurType
    <2>. QED  BY <1>3, <2>1 DEF i
  <1>4. CASE /\ ~Null(i) /\ ~Behind(i) /\ cur' = out
             /\ IF i \in generated THEN UNCHANGED <<secs, pos>>
                ELSE /\ pos' = After(i, at)
                     /\ secs' = [secs EXCEPT
                          ![i].addr = IF secs[i].set THEN @
                                      ELSE Plus(Seg.vaddr, Minus(at, cur.start)),
                          ![i].set = TRUE,
                          ![i].offset = IF i = 0 THEN @ ELSE at]
    <2>1. /\ cur'.start = cur.start
          /\ cur'.filesz = IF NoBits(i) THEN cur.filesz ELSE Plus(cur.filesz, grow)
          /\ cur'.memsz = IF InMemory(i) THEN Plus(cur.memsz, grow) ELSE cur.memsz
      <3>. HIDE DEF grow
      <3>. QED  BY <1>1, <1>4 DEF CurType
    <2>2. CASE i \in generated
      BY <1>4, <2>1, <2>2 DEF i, gap
    <2>3. CASE i \notin generated
      <3>. DEFINE there == Plus(Seg.vaddr, Minus(at, cur.start))
      <3>1. i # 0 /\ pos' = After(i, at)
        BY <1>2, <1>4, <2>3
      <3>2. secs' = [secs EXCEPT ![i].addr = IF secs[i].set THEN @ ELSE there,
                                 ![i].set = TRUE, ![i].offset = IF i = 0 THEN @ ELSE at]
        BY <1>4, <2>3
      <3>. HIDE DEF at, there
      <3>3. /\ secs'[i].set /\ secs'[i].offset = at
            /\ secs'[i].addr = IF secs[i].set THEN secs[i].addr ELSE there
            /\ secs'[i].type = secs[i].type /\ secs'[i].alloc = secs[i].alloc
            /\ secs'[i].tls = secs[i].tls /\ secs'[i].size = secs[i].size
            /\ secs'[i].align = secs[i].align
            /\ \A j \in Indices : j # i => secs'[j] = secs[j]
        BY <1>2, <3>1, <3>2 DEF SectionHeaders
      <3>4. \A j \in Indices : /\ secs'[j].type = secs[j].type /\ secs'[j].alloc = secs[j].alloc
                               /\ secs'[j].tls = secs[j].tls /\ secs'[j].size = secs[j].size
                               /\ secs'[j].align = secs[j].align
        BY <3>3
      <3>. QED  BY <1>4, <2>1, <2>3, <3>1, <3>3, <3>4 DEF at, there, i, gap
    <2>. QED  BY <2>2, <2>3
  <1>. QED  BY <1>1, <1>3, <1>4 DEF WriteSection, i, gap

\* What BeginSave and EndSegment do to the segments.
LEMMA RaisedKeeps ==
    ASSUME NEW n \in Nat, NEW ss \in [0 .. n - 1 -> SectionHeaders], NEW g \in SegmentHeaders(n)
    PROVE  /\ Raised(g, ss).members = g.members /\ Raised(g, ss).vaddr = g.vaddr
           /\ Raised(g, ss).memsz = g.memsz /\ Raised(g, ss).set = g.set
           /\ Raised(g, ss).offset = g.offset
  BY DEF Raised, SegmentHeaders

LEMMA EndSegmentWhole ==
    ASSUME Typed, EndSegment
    PROVE  /\ cur.seg \in DOMAIN segs /\ DOMAIN segs' = DOMAIN segs /\ segs'[cur.seg].members = Seg.members
           /\ segs'[cur.seg].vaddr = Seg.vaddr /\ segs'[cur.seg].align = Seg.align
           /\ segs'[cur.seg].offset = cur.start /\ segs'[cur.seg].filesz = cur.filesz
           /\ segs'[cur.seg].memsz = MemorySize(Seg.memsz)
           /\ \A s \in DOMAIN segs : s # cur.seg => segs'[s] = segs[s]
           /\ \A s \in DOMAIN segs : /\ segs'[s].members = segs[s].members
                                     /\ segs'[s].vaddr = segs[s].vaddr /\ segs'[s].align = segs[s].align
           /\ Now.members = Seg.members /\ Now.vaddr = Seg.vaddr /\ Now.align = Seg.align
           /\ Now.offset = cur.start /\ Now.filesz = cur.filesz /\ Now.memsz = MemorySize(Seg.memsz)
  <1>1. cur.seg \in DOMAIN segs
    BY EndSegmentIs
  <1>2. segs' = [segs EXCEPT ![cur.seg].filesz = cur.filesz, ![cur.seg].memsz = MemorySize(@),
                             ![cur.seg].offset = cur.start, ![cur.seg].set = TRUE]
    BY DEF EndSegment
  <1>. DEFINE m == MemorySize(Seg.memsz)
  <1>3. Seg \in SegmentHeaders(N) /\ Seg = segs[cur.seg] /\ segs \in Seq(SegmentHeaders(N))
    BY <1>1, SegmentIs DEF Seg, Typed
  <1>4. Now = [Seg EXCEPT !.offset = cur.start, !.filesz = cur.filesz, !.memsz = m]
    BY DEF Now
  <1>5. segs' = [segs EXCEPT ![cur.seg].filesz = cur.filesz, ![cur.seg].memsz = m,
                             ![cur.seg].offset = cur.start, ![cur.seg].set = TRUE]
    BY <1>2, <1>3
  <1>. HIDE DEF m
  <1>. DEFINE new == [Seg EXCEPT !.filesz = cur.filesz, !.memsz = m, !.offset = cur.start, !.set = TRUE]
  <1>6. segs' = [segs EXCEPT ![cur.seg] = new]
    BY <1>1, <1>3, <1>5
  <1>7. /\ new.members = Seg.members /\ new.vaddr = Seg.vaddr /\ new.align = Seg.align
        /\ new.offset = cur.start /\ new.filesz = cur.filesz /\ new.memsz = m
        /\ Now.members = Seg.members /\ Now.vaddr = Seg.vaddr /\ Now.align = Seg.align
        /\ Now.offset = cur.start /\ Now.filesz = cur.filesz /\ Now.memsz = m
    BY <1>3, <1>4 DEF SegmentHeaders
  <1>. HIDE DEF new
  <1>8. DOMAIN segs' = DOMAIN segs /\ segs'[cur.seg] = new
        /\ \A s \in DOMAIN segs : s # cur.seg => segs'[s] = segs[s]
    BY <1>1, <1>6
  <1>. QED  BY <1>1, <1>3, <1>7, <1>8 DEF m

(***************************************************************************)
(* What is left of the caller's part.                                      *)
(***************************************************************************)
LEMMA SortedStays ==
    ASSUME NEW ss, NEW tt, NEW g, NEW h, h.members = g.members, Sorted(ss, g),
           \A i \in MemberSet(g) : tt[i].type = ss[i].type /\ tt[i].alloc = ss[i].alloc
    PROVE  Sorted(tt, h)
  <1>1. MemberSet(h) = MemberSet(g) /\ \A k \in DOMAIN g.members : g.members[k] \in MemberSet(g)
    BY DEF MemberSet, ToSet
  <1>. QED  BY <1>1 DEF Sorted

\* While the segments are ordered and laid out, the sections keep their kind
\* and the segments their sections and addresses.
LEMMA EarlyStep ==
    ASSUME Typed, [Next]_vars, Early'
    PROVE  /\ DOMAIN segs' = DOMAIN segs
           /\ \A s \in DOMAIN segs : segs'[s].members = segs[s].members /\ segs'[s].vaddr = segs[s].vaddr
           /\ \A i \in Indices : /\ secs'[i].type = secs[i].type /\ secs'[i].alloc = secs[i].alloc
                                 /\ secs'[i].tls = secs[i].tls /\ secs'[i].size = secs[i].size
                                 /\ secs'[i].align = secs[i].align
           /\ \/ BeginSave
              \/ /\ Early /\ generated \subseteq generated'
                 /\ \A i \in generated : secs'[i] = secs[i]
                 /\ \A i \in Indices \ generated' : secs'[i] = secs[i]
                 /\ Grown(segs, segs') /\ Waiting' \subseteq Waiting
                 /\ \A s \in DOMAIN segs : segs'[s].align = segs[s].align
                 /\ \A s \in DOMAIN segs : s # cur.seg \/ pc # "sections" => segs'[s] = segs[s]
  <1>1. CASE BeginSave
    <2>1. DOMAIN segs' = DOMAIN segs /\ secs' = secs
      BY <1>1, BeginSaveIs
    <2>2. ASSUME NEW s \in DOMAIN segs PROVE segs'[s].members = segs[s].members /\ segs'[s].vaddr = segs[s].vaddr
      <3>1. segs'[s] = Raised(segs[s], secs)
        BY <1>1 DEF BeginSave
      <3>2. segs[s] \in SegmentHeaders(N) /\ N \in Nat /\ secs \in [0 .. N - 1 -> SectionHeaders]
        BY SegmentIs DEF Typed, Indices
      <3>. QED  BY <3>1, <3>2, RaisedKeeps
    <2>. QED  BY <1>1, <2>1, <2>2
  <1>2. CASE OrderSegment \/ EndOrder \/ StartSegment
    <2>1. /\ UNCHANGED <<secs, segs, generated>> /\ Early
          /\ pc \in {"order", "segments"} /\ pc' \in {"order", "segments", "sections"}
      BY <1>2 DEF OrderSegment, EndOrder, StartSegment, Early
    <2>2. Waiting' \subseteq Waiting
      <3>1. CASE OrderSegment
        <4>. DEFINE h == Head(queue)
                    rest == Tail(queue)
        <4>1. /\ pc = "order" /\ pc' = "order" /\ queue # <<>>
              /\ \/ queue' = Append(rest, h) /\ ordered' = ordered
                 \/ queue' = rest /\ ordered' = Append(ordered, h)
          BY <3>1 DEF OrderSegment
        <4>2. /\ h \in DOMAIN segs /\ rest \in Seq(DOMAIN segs) /\ ordered \in Seq(DOMAIN segs)
              /\ ToSet(queue) = {h} \cup ToSet(rest)
          BY <4>1, HeadIs DEF Typed
        <4>. HIDE DEF h, rest
        <4>3. /\ ToSet(Append(rest, h)) = ToSet(rest) \cup {h}
              /\ ToSet(Append(ordered, h)) = ToSet(ordered) \cup {h}
          BY <4>2, AppendSet
        <4>. QED  BY <4>1, <4>2, <4>3 DEF Waiting
      <3>2. CASE EndOrder
        BY <3>2 DEF EndOrder, Waiting
      <3>3. CASE StartSegment
        <4>1. pc = "segments" /\ pc' = "sections" /\ queue # <<>> /\ queue' = Tail(queue)
          BY <3>3 DEF StartSegment
        <4>. QED  BY <4>1, HeadIs DEF Waiting
      <3>. QED  BY <1>2, <3>1, <3>2, <3>3
    <2>. QED  BY <2>1, <2>2, GrownSame
  <1>3. CASE WriteSection /\ pc' # "failed"
    <2>1. /\ Early /\ UNCHANGED segs /\ Waiting' = Waiting
      BY <1>3, WrittenIs DEF Early, Waiting
    <2>2. /\ generated \subseteq generated' /\ \A i \in generated : secs'[i] = secs[i]
          /\ \A i \in Indices \ generated' : secs'[i] = secs[i]
      BY <1>3, WrittenIs DEF Typed
    <2>3. \A i \in Indices : /\ secs'[i].type = secs[i].type /\ secs'[i].alloc = secs[i].alloc
                             /\ secs'[i].tls = secs[i].tls /\ secs'[i].size = secs[i].size
                             /\ secs'[i].align = secs[i].align
      BY <1>3, WrittenWhole
    <2>4. Grown(segs, segs')
      BY <2>1, GrownSame
    <2>. QED  BY <2>1, <2>2, <2>3, <2>4
  <1>4. CASE EndSegment
    <2>1. /\ pc = "sections" /\ pc' = "segments" /\ UNCHANGED <<secs, generated, queue>>
      BY <1>4 DEF EndSegment
    <2>2. /\ DOMAIN segs' = DOMAIN segs /\ cur.seg \in DOMAIN segs
          /\ \A s \in DOMAIN segs : /\ segs'[s].members = segs[s].members
                                    /\ segs'[s].vaddr = segs[s].vaddr /\ segs'[s].align = segs[s].align
          /\ \A s \in DOMAIN segs : s # cur.seg => segs'[s] = segs[s]
          /\ segs'[cur.seg].memsz = MemorySize(Seg.memsz)
      BY <1>4, EndSegmentWhole
    <2>3. \A s \in DOMAIN segs : segs[s].memsz <= segs'[s].memsz
      <3>1. ASSUME NEW s \in DOMAIN segs, s = cur.seg PROVE segs[s].memsz <= segs'[s].memsz
        <4>1. segs[s].memsz \in Nat /\ cur.memsz \in Nat /\ Seg.memsz = segs[s].memsz
          BY <3>1, SegmentIs DEF Typed, Seg
        <4>2. segs[s].memsz <= MemorySize(Seg.memsz)
          BY <4>1 DEF MemorySize
        <4>. QED  BY <2>2, <3>1, <4>2
      <3>2. ASSUME NEW s \in DOMAIN segs, s # cur.seg PROVE segs[s].memsz <= segs'[s].memsz
        <4>1. segs[s].memsz \in Nat
          BY SegmentIs
        <4>. QED  BY <2>2, <3>2, <4>1
      <3>. QED  BY <3>1, <3>2
    <2>4. Early /\ Waiting' = Waiting
      BY <2>1 DEF Early, Waiting
    <2>. QED  BY <2>1, <2>2, <2>3, <2>4 DEF Grown
  <1>5. CASE UNCHANGED vars
    <2>1. UNCHANGED <<secs, segs, generated, queue, ordered, pc, cur>>
      BY <1>5 DEF vars
    <2>2. Early /\ Waiting' = Waiting
      BY <2>1 DEF Waiting, Early
    <2>. QED  BY <2>1, <2>2, GrownSame
  <1>6. \/ BeginSave \/ OrderSegment \/ EndOrder \/ StartSegment \/ (WriteSection /\ pc' # "failed")
        \/ EndSegment \/ UNCHANGED vars
    BY DEF Early, Next, Save, Done, EndSegments, PlaceLoose, WriteFile, Load, Keep
  <1>. QED  BY <1>1, <1>2, <1>3, <1>4, <1>5, <1>6

LEMMA StillSortedKept ==
    ASSUME Typed, MapOwed, StillSorted, [Next]_vars
    PROVE  StillSorted'
  <1>. SUFFICES ASSUME Early', NEW s \in DOMAIN segs' PROVE Sorted(secs', segs'[s])
    BY Zenon DEF StillSorted
  <1>1. /\ s \in DOMAIN segs /\ segs'[s].members = segs[s].members
        /\ \A i \in Indices : secs'[i].type = secs[i].type /\ secs'[i].alloc = secs[i].alloc
        /\ BeginSave \/ Early
    BY EarlyStep
  <1>2. Sorted(secs, segs[s])
    BY <1>1 DEF BeginSave, MapOwed, StillSorted
  <1>3. MemberSet(segs[s]) \subseteq Indices
    BY <1>1, SegmentIs DEF MemberSet, ToSet
  <1>. QED  BY <1>1, <1>2, <1>3, SortedStays

LEMMA StillGivenKept ==
    ASSUME Typed, MapOwed, StillGiven, [Next]_vars
    PROVE  StillGiven'
  <1>1. Typed' /\ Indices' = Indices
    BY TypedKept
  <1>. SUFFICES ASSUME Early', NEW i \in Indices \ generated',
                       ~Bits(secs'[i]), InImage(secs'[i]), secs'[i].set, secs'[i].size > 0
                PROVE  Given(secs', segs', i)
    BY <1>1, Zenon DEF StillGiven, BssGiven
  <1>2. Counts(secs, segs) /\ DOMAIN secs = Indices /\ Counts(secs', segs')
    BY <1>1, CountsIs, CountsOf DEF Typed, Indices
  <1>3. CASE BeginSave
    <2>1. secs' = secs /\ DOMAIN segs' = DOMAIN segs
      BY <1>3, BeginSaveIs
    <2>2. Given(secs, segs, i)
      BY <1>2, <1>3, <2>1 DEF BeginSave, MapOwed, BssGiven
    <2>3. Grown(segs, segs')
      <3>1. ASSUME NEW s \in DOMAIN segs
            PROVE  /\ segs'[s].members = segs[s].members /\ segs'[s].vaddr = segs[s].vaddr
                   /\ segs[s].memsz <= segs'[s].memsz
        <4>1. segs'[s] = Raised(segs[s], secs)
          BY <1>3 DEF BeginSave
        <4>2. /\ segs[s] \in SegmentHeaders(N) /\ N \in Nat /\ segs[s].memsz \in Nat
              /\ secs \in [0 .. N - 1 -> SectionHeaders]
          BY SegmentIs DEF Typed, Indices
        <4>. QED  BY <4>1, <4>2, RaisedKeeps
      <3>. QED  BY <2>1, <3>1 DEF Grown
    <2>. QED  BY <1>2, <2>1, <2>2, <2>3, GivenStays
  <1>4. CASE ~BeginSave
    <2>1. Early /\ Grown(segs, segs') /\ secs'[i] = secs[i] /\ i \notin generated
      BY <1>4, EarlyStep
    <2>2. Given(secs, segs, i)
      BY <2>1 DEF StillGiven, BssGiven
    <2>. QED  BY <1>2, <2>1, <2>2, GivenStays
  <1>. QED  BY <1>3, <1>4

LEMMA StillBehindKept ==
    ASSUME Typed, Owed, Once, StillBehind, [Next]_vars
    PROVE  StillBehind'
  <1>. SUFFICES ASSUME Early', NEW s \in Waiting', segs'[s].set PROVE segs'[s].offset # 0
    BY Zenon DEF StillBehind
  <1>1. CASE BeginSave
    <2>1. pc = "built" /\ pc' = "order" /\ DOMAIN segs' = DOMAIN segs /\ Typed'
      BY <1>1, TypedKept DEF BeginSave
    <2>2. s \in DOMAIN segs
      <3>1. queue' \in Seq(DOMAIN segs) /\ ordered' = <<>>
        BY <1>1, <2>1, BeginSaveIs DEF Typed
      <3>2. ToSet(queue') \subseteq DOMAIN segs /\ ToSet(ordered') = {}
        <4>1. \A k \in DOMAIN queue' : queue'[k] \in DOMAIN segs
          BY <3>1
        <4>. QED  BY <3>1, <4>1, ToSetOfEmpty DEF ToSet
      <3>. QED  BY <3>2 DEF Waiting
    <2>3. segs'[s] = Raised(segs[s], secs)
      BY <1>1, <2>2 DEF BeginSave
    <2>4. /\ segs[s] \in SegmentHeaders(N) /\ N \in Nat /\ secs \in [0 .. N - 1 -> SectionHeaders]
      BY <2>2, SegmentIs DEF Typed, Indices
    <2>5. segs'[s].set = segs[s].set /\ segs'[s].offset = segs[s].offset
      <3>1. Raised(segs[s], secs).set = segs[s].set /\ Raised(segs[s], secs).offset = segs[s].offset
        BY <2>4, RaisedKeeps
      <3>. QED  BY <2>3, <3>1, Zenon
    <2>. QED  BY <2>1, <2>2, <2>5 DEF Owed
  <1>2. CASE ~BeginSave
    <2>1. Early /\ Waiting' \subseteq Waiting
          /\ \A t \in DOMAIN segs : t # cur.seg \/ pc # "sections" => segs'[t] = segs[t]
      BY <1>2, EarlyStep
    <2>2. s \in Waiting /\ s \in DOMAIN segs
      BY <2>1, WaitingIs
    <2>3. pc = "sections" => s # cur.seg
      BY <2>2 DEF Once, Waiting
    <2>. QED  BY <2>1, <2>2, <2>3 DEF StillBehind
  <1>. QED  BY <1>1, <1>2

LEMMA RootedKept ==
    ASSUME Typed, Sourced, LargerFirst, Once, Rooted, [Next]_vars
    PROVE  Rooted'
  <1>1. CASE pc' \notin {"segments", "sections"}
    BY <1>1 DEF Rooted
  <1>2. CASE EndOrder
    <2>1. generated' = {}
      BY <1>2 DEF EndOrder, Sourced
    <2>. QED  BY <2>1 DEF Rooted
  <1>3. CASE StartSegment
    <2>1. /\ pc = "segments" /\ pc' = "sections" /\ queue # <<>> /\ queue' = Tail(queue)
          /\ UNCHANGED <<segs, generated>> /\ cur'.seg = Head(queue)
      BY <1>3 DEF StartSegment
    <2>2. ToSet(queue) = {Head(queue)} \cup ToSet(queue')
      BY <2>1, HeadIs
    <2>3. ASSUME NEW i \in generated
          PROVE \E s \in LaidOut' \cup {cur'.seg} :
                    /\ i \in MemberSet(segs[s])
                    /\ \A t \in ToSet(queue') : ~IsSubsequenceOf(s, t)
      <3>1. PICK s \in LaidOut : /\ i \in MemberSet(segs[s])
                                 /\ \A t \in ToSet(queue) : ~IsSubsequenceOf(s, t)
        BY <2>1 DEF Rooted
      <3>2. s \in LaidOut' \cup {cur'.seg}
        BY <2>1, <2>2 DEF LaidOut
      <3>. QED  BY <2>2, <3>1, <3>2
    <2>4. \A s, t : IsSubsequenceOf(s, t)' <=> IsSubsequenceOf(s, t)
      BY <2>1 DEF IsSubsequenceOf
    <2>. QED  BY <2>1, <2>3, <2>4 DEF Rooted
  <1>4. CASE WriteSection /\ pc' # "failed"
    <2>1. /\ pc = "sections" /\ pc' = "sections" /\ UNCHANGED <<segs, queue>>
          /\ cur'.seg = cur.seg /\ cur.seg \in DOMAIN segs
          /\ Member \in MemberSet(segs[cur.seg]) /\ generated' = generated \cup {Member}
      BY <1>4, WrittenIs
    <2>2. \A t \in ToSet(queue) : ~IsSubsequenceOf(cur.seg, t)
      BY <2>1 DEF LargerFirst
    <2>3. LaidOut' = LaidOut
      BY <2>1 DEF LaidOut
    <2>4. ASSUME NEW i \in generated'
          PROVE \E s \in LaidOut \cup {cur.seg} : /\ i \in MemberSet(segs[s])
                                                  /\ \A t \in ToSet(queue) : ~IsSubsequenceOf(s, t)
      BY <2>1, <2>2 DEF Rooted
    <2>5. \A s, t : IsSubsequenceOf(s, t)' <=> IsSubsequenceOf(s, t)
      BY <2>1 DEF IsSubsequenceOf
    <2>. QED  BY <2>1, <2>3, <2>4, <2>5 DEF Rooted
  <1>5. CASE EndSegment
    <2>1. /\ pc = "sections" /\ pc' = "segments" /\ UNCHANGED <<queue, generated>>
      BY <1>5 DEF EndSegment
    <2>2. /\ DOMAIN segs' = DOMAIN segs /\ cur.seg \in DOMAIN segs
          /\ \A s \in DOMAIN segs : segs'[s].members = segs[s].members
      BY <1>5, EndSegmentIs
    <2>3. LaidOut' = LaidOut \cup {cur.seg}
      BY <2>1, <2>2 DEF LaidOut, Once
    <2>4. ASSUME NEW i \in generated
          PROVE \E s \in LaidOut' : /\ i \in MemberSet(segs'[s])
                                    /\ \A t \in ToSet(queue) : ~IsSubsequenceOf(s, t)'
      <3>1. PICK s \in LaidOut \cup {cur.seg} : /\ i \in MemberSet(segs[s])
                                                /\ \A t \in ToSet(queue) : ~IsSubsequenceOf(s, t)
        BY <2>1 DEF Rooted
      <3>2. s \in DOMAIN segs
        BY <2>2, LaidOutIs
      <3>3. MemberSet(segs'[s]) = MemberSet(segs[s])
        BY <2>2, <3>2 DEF MemberSet
      <3>4. \A t \in ToSet(queue) : ~IsSubsequenceOf(s, t)'
        BY <2>2, <3>1, <3>2, QueueIs, InclusionStays
      <3>. QED  BY <2>3, <3>1, <3>3, <3>4
    <2>. QED  BY <2>1, <2>4 DEF Rooted
  <1>6. CASE UNCHANGED vars
    BY <1>6 DEF vars, Rooted, LaidOut, IsSubsequenceOf
  <1>7. \/ pc' \notin {"segments", "sections"} \/ EndOrder \/ StartSegment
        \/ (WriteSection /\ pc' # "failed") \/ EndSegment \/ UNCHANGED vars
    BY DEF Next, Save, Done, BeginSave, OrderSegment, EndSegments, PlaceLoose, WriteFile, Load, Keep
  <1>. QED  BY <1>1, <1>2, <1>3, <1>4, <1>5, <1>6, <1>7

(***************************************************************************)
(* Nested segments stay tied to each other.                                *)
(***************************************************************************)
LEMMA FirstIs ==
    ASSUME Typed, NEW s \in DOMAIN segs
    PROVE  /\ MemberSet(segs[s]) # {} =>
                 /\ segs[s].members # <<>> /\ 1 \in DOMAIN segs[s].members
                 /\ segs[s].members[1] \in MemberSet(segs[s]) /\ segs[s].members[1] \in Indices
           /\ MemberSet(segs[s]) = {} => segs[s].members = <<>> /\ DOMAIN segs[s].members = {}
           /\ MemberSet(segs[s]) \subseteq Indices
  <1>. DEFINE ms == segs[s].members
  <1>1. ms \in Seq(Indices) /\ MemberSet(segs[s]) = {ms[k] : k \in DOMAIN ms}
    BY SegmentIs DEF MemberSet, ToSet
  <1>. HIDE DEF ms
  <1>2. ms # <<>> => 1 \in DOMAIN ms
    BY <1>1
  <1>3. ms = <<>> => DOMAIN ms = {}
    OBVIOUS
  <1>4. ms # <<>> => ms[1] \in MemberSet(segs[s]) /\ ms[1] \in Indices
    BY <1>1, <1>2
  <1>5. MemberSet(segs[s]) = {} <=> ms = <<>>
    BY <1>1, <1>3, <1>4
  <1>6. MemberSet(segs[s]) \subseteq Indices
    BY <1>1
  <1>. QED  BY <1>2, <1>3, <1>4, <1>5, <1>6, Zenon DEF ms

LEMMA LeadsStay ==
    ASSUME Typed, Once, StillBehind, NEW i \in generated, Leads(i),
           \/ StartSegment \/ (WriteSection /\ pc' # "failed") \/ EndSegment
    PROVE  Leads(i)'
  <1>1. CASE StartSegment
    <2>. DEFINE s == Head(queue)
                g == segs[s]
    <2>1. /\ pc = "segments" /\ pc' = "sections" /\ queue # <<>> /\ UNCHANGED <<secs, segs, generated>>
          /\ queue' = Tail(queue) /\ cur'.seg = s /\ cur'.start = Start(g).at
      BY <1>1 DEF StartSegment
    <2>2. /\ ToSet(queue) = {s} \cup ToSet(queue') /\ s \in DOMAIN segs /\ s \in Waiting
      BY <2>1, HeadIs DEF Waiting
    <2>3. LaidOut' \subseteq LaidOut
      BY <2>1, <2>2 DEF LaidOut
    <2>4. Seg' = g
      BY <2>1 DEF Seg
    <2>5. ASSUME MemberSet(g) # {}, g.members[1] = i PROVE secs[i].offset = cur'.start
      <3>1. g.members # <<>> /\ ~(g.set /\ g.offset = 0) /\ g.members[1] \in generated
        BY <2>1, <2>2, <2>5, FirstIs DEF StillBehind, Early
      <3>. HIDE DEF g
      <3>2. Start(g).at = secs[i].offset
        BY <2>5, <3>1 DEF Start
      <3>. QED  BY <2>1, <3>2
    <2>. HIDE DEF g
    <2>. QED  BY <2>1, <2>3, <2>4, <2>5 DEF Leads
  <1>2. CASE WriteSection /\ pc' # "failed"
    <2>1. /\ pc = "sections" /\ pc' = "sections" /\ UNCHANGED <<segs, queue>> /\ cur'.seg = cur.seg
          /\ secs'[i] = secs[i] /\ cur'.start = cur.start
      BY <1>2, WrittenIs, WrittenWhole DEF Typed
    <2>2. LaidOut' = LaidOut /\ Seg' = Seg
      BY <2>1 DEF LaidOut, Seg
    <2>. QED  BY <2>1, <2>2 DEF Leads
  <1>3. CASE EndSegment
    <2>1. pc = "sections" /\ pc' = "segments" /\ UNCHANGED <<secs, generated, queue>>
      BY <1>3 DEF EndSegment
    <2>2. /\ DOMAIN segs' = DOMAIN segs /\ cur.seg \in DOMAIN segs
          /\ \A s \in DOMAIN segs : s # cur.seg => segs'[s] = segs[s]
          /\ segs'[cur.seg].members = Seg.members /\ segs'[cur.seg].offset = cur.start
      BY <1>3, EndSegmentWhole
    <2>3. LaidOut' = LaidOut \cup {cur.seg} /\ LaidOut \subseteq DOMAIN segs /\ cur.seg \notin LaidOut
      BY <2>1, <2>2 DEF LaidOut, Once
    <2>4. ASSUME NEW t \in LaidOut', MemberSet(segs'[t]) # {}, segs'[t].members[1] = i
          PROVE  secs[i].offset = segs'[t].offset
      <3>1. CASE t \in LaidOut
        <4>1. segs'[t] = segs[t]
          BY <2>2, <2>3, <3>1
        <4>. QED  BY <2>4, <3>1, <4>1 DEF Leads
      <3>2. CASE t = cur.seg
        <4>1. MemberSet(Seg) # {} /\ Seg.members[1] = i
          BY <2>2, <2>4, <3>2 DEF MemberSet
        <4>. QED  BY <2>1, <2>2, <3>2, <4>1 DEF Leads
      <3>. QED  BY <2>3, <2>4, <3>1, <3>2
    <2>. QED  BY <2>1, <2>4 DEF Leads
  <1>. QED  BY <1>1, <1>2, <1>3

\* The first section of a segment is placed right at its start.
LEMMA FirstAtStart ==
    ASSUME Typed, RoomInFile, AllSettled, AtHand, Fresh, LargerFirst, StillOwed, Once, StillTied,
           WriteSection, pc' # "failed", Member \notin generated, ~Null(Member),
           NEW s \in Waiting, NEW t \in DOMAIN segs, s # t, Inner(segs[s], segs[t]),
           segs[s].members[1] = Member, Free(secs, segs[s], segs[t]), NEW i, i = Member
    PROVE  Leads(i)'
  <1>. DEFINE g == Seg
              x == secs[Member]
  <1>1. /\ pc = "sections" /\ pc' = "sections" /\ UNCHANGED <<segs, queue>> /\ cur'.seg = cur.seg
        /\ cur.seg \in DOMAIN segs /\ cur.next \in DOMAIN g.members /\ Member \in Indices
        /\ Member \in MemberSet(g) /\ generated' = generated \cup {Member} /\ cur'.start = cur.start
    BY WrittenIs, WrittenWhole DEF Seg
  <1>2. /\ s \in DOMAIN segs /\ s # cur.seg /\ s \in ToSet(queue)
    BY <1>1, WaitingIs DEF Once, Waiting
  <1>3. Member \in MemberSet(segs[s])
    BY <1>2, FirstIs DEF Inner
  <1>4. MemberSet(segs[s]) \subseteq MemberSet(g)
    <2>1. Nest(s, cur.seg) /\ Ascending(segs[s].members) /\ Ascending(segs[cur.seg].members)
      BY <1>1, <1>2 DEF StillOwed, Early, OwedOf
    <2>2. ~IsSubsequenceOf(cur.seg, s)
      BY <1>1, <1>2 DEF LargerFirst
    <2>3. MemberSet(segs[cur.seg]) \subseteq MemberSet(segs[s]) =>
             MemberSet(segs[s]) \subseteq MemberSet(segs[cur.seg])
      BY <1>1, <1>2, <2>1, <2>2, InclusionIsSeen
    <2>. QED  BY <1>1, <1>3, <2>1, <2>3 DEF Nest, Seg
  <1>5. Tied(s, cur.seg)
    BY <1>1, <1>2, <1>3, <1>4 DEF StillTied, Early, Inner, Seg
  <1>6. Abreast(segs[s], g) /\ Free(secs, segs[s], g)
    <2>1. ~Leading(secs, segs[s])
      BY DEF Leading, Free, Lead
    <2>. QED  BY <1>5, <2>1 DEF Tied, Seg
  <1>7. g.members[1] = Member /\ g.vaddr % One(x.align) = 0 /\ One(g.align) % One(x.align) = 0 /\ ~x.set
    BY <1>6 DEF Abreast, Free, Lead
  <1>8. cur.next = 1
    <2>1. DOMAIN g.members = 1 .. Len(g.members) /\ Len(g.members) \in Nat
      BY <1>1, SegmentIs DEF Seg
    <2>2. /\ \A j, k \in DOMAIN g.members : j < k => g.members[j] < g.members[k]
          /\ \A k \in DOMAIN g.members : g.members[k] \in Int
      <3>1. \A k \in DOMAIN g.members : g.members[k] \in Indices
        BY <1>1, SegmentIs DEF Seg
      <3>. QED  BY <1>1, <3>1 DEF StillOwed, Early, OwedOf, Ascending, Seg, Indices, Typed
    <2>3. Member = g.members[cur.next] /\ 1 \in DOMAIN g.members
      BY <1>1, <2>1 DEF Member
    <2>. HIDE DEF g
    <2>4. ~(1 < cur.next)
      BY <1>1, <1>7, <2>2, <2>3
    <2>. QED  BY <1>1, <2>1, <2>4
  <1>9. cur.start = pos
    <2>1. ~Finished(cur.seg)
      BY <1>1 DEF Finished, Seg
    <2>2. cur.next <= Len(g.members)
      BY <1>1, SegmentIs DEF Seg
    <2>3. ~\E j \in DOMAIN g.members : j < cur.next
      <3>1. DOMAIN g.members = 1 .. Len(g.members)
        BY <1>1, SegmentIs DEF Seg
      <3>. QED  BY <1>8, <3>1
    <2>. QED  BY <1>1, <2>1, <2>2, <2>3 DEF Fresh
  <1>10. secs'[Member].offset = cur.start
    <2>1. ~Behind(Member)
      BY <1>7 DEF Behind, ByAddress
    <2>2. SectionAlign(Member) = Padding(pos, x.align)
      BY <1>7 DEF SectionAlign, ByAddress
    <2>3. (pos - g.vaddr) % One(g.align) = 0
      BY <1>1, <1>9, FirstIs DEF AtHand, Seg
    <2>4. /\ pos \in Nat /\ g.vaddr \in Nat /\ x.align \in Nat /\ g.align \in Nat
      BY <1>1, SegmentIs, SectionIs DEF Seg, Typed
    <2>5. One(g.align) \in Nat \ {0}
      BY <2>4, OneIs
    <2>. HIDE DEF g, x
    <2>6. Padding(pos, x.align) = 0
      BY <1>7, <2>3, <2>4, <2>5, NoPadding
    <2>7. Plus(pos, SectionAlign(Member)) = pos + 0
      BY <2>1, <2>2, <2>6, PlaceIs
    <2>. QED  BY <1>9, <2>4, <2>7, WrittenWhole
  <1>11. \A u \in LaidOut : Member \notin MemberSet(segs[u])
    BY DEF AllSettled, Settled
  <1>12. LaidOut' = LaidOut /\ Seg' = Seg /\ LaidOut \subseteq DOMAIN segs
    BY <1>1 DEF LaidOut, Seg
  <1>13. ASSUME NEW u \in LaidOut, MemberSet(segs[u]) # {} PROVE segs[u].members[1] # Member
    BY <1>11, <1>12, <1>13, FirstIs
  <1>14. secs'[i].offset = cur'.start
    BY <1>1, <1>10
  <1>15. \A u \in LaidOut' : ~(MemberSet(segs'[u]) # {} /\ segs'[u].members[1] = i)
    BY <1>1, <1>12, <1>13
  <1>. QED  BY <1>14, <1>15 DEF Leads

LEMMA StillTiedKept ==
    ASSUME Typed, RoomInFile, MapOwed, AllSettled, AtHand, Fresh, LargerFirst, StillOwed, Sourced,
           Once, StillSorted, StillBehind, StillTied, [Next]_vars
    PROVE  StillTied'
  <1>. SUFFICES ASSUME Early', NEW s \in Waiting', NEW t \in DOMAIN segs', s # t,
                       Inner(segs'[s], segs'[t])
                PROVE  Tied(s, t)'
    BY Zenon DEF StillTied
  <1>1. CASE BeginSave
    <2>1. /\ pc = "built" /\ pc' = "order" /\ DOMAIN segs' = DOMAIN segs /\ generated' = {}
          /\ secs' = secs /\ queue' \in Seq(DOMAIN segs) /\ ordered' = <<>>
          /\ segs' = [u \in DOMAIN segs |-> Raised(segs[u], secs)]
      BY <1>1, BeginSaveIs, TypedKept DEF BeginSave, Typed
    <2>2. s \in DOMAIN segs
      <3>1. ToSet(queue') \subseteq DOMAIN segs /\ ToSet(ordered') = {}
        <4>1. \A k \in DOMAIN queue' : queue'[k] \in DOMAIN segs
          BY <2>1
        <4>. QED  BY <2>1, <4>1, ToSetOfEmpty DEF ToSet
      <3>. QED  BY <3>1 DEF Waiting
    <2>. DEFINE a == Raised(segs[s], secs)
                b == Raised(segs[t], secs)
    <2>3. segs'[s] = a /\ segs'[t] = b
      BY <2>1, <2>2
    <2>4. a.members = segs[s].members /\ b.members = segs[t].members
      <3>1. /\ segs[s] \in SegmentHeaders(N) /\ segs[t] \in SegmentHeaders(N) /\ N \in Nat
            /\ secs \in [0 .. N - 1 -> SectionHeaders]
        BY <2>1, <2>2, SegmentIs DEF Typed, Indices
      <3>. QED  BY <3>1, RaisedKeeps
    <2>5. Inner(segs[s], segs[t])
      BY <2>3, <2>4 DEF Inner, MemberSet
    <2>6. /\ One(b.align) % One(a.align) = 0
          /\ Leading(secs, a) \/ (Abreast(a, b) /\ Free(secs, a, b))
      BY <2>1, <2>2, <2>5 DEF MapOwed
    <2>7. /\ One(b.align) % One(a.align) = 0
          /\ Leading(secs, a) \/ (Abreast(a, b) /\ Free(secs, a, b))
          => Tied(s, t)'
      <3>. HIDE DEF a, b
      <3>1. Tied(s, t)' <=>
              /\ One(segs'[t].align) % One(segs'[s].align) = 0
              /\ \/ Leading(secs', segs'[s])
                 \/ /\ Abreast(segs'[s], segs'[t])
                    /\ IF segs'[s].members[1] \in generated' THEN Leads(segs[s].members[1])'
                       ELSE Free(secs', segs'[s], segs'[t])
        BY Zenon DEF Tied
      <3>. QED  BY <2>1, <2>3, <3>1
    <2>. HIDE DEF a, b
    <2>. QED  BY <2>6, <2>7
  <1>2. CASE ~BeginSave
    <2>0. PICK i : i = segs[s].members[1]
      OBVIOUS
    <2>1. /\ Early /\ generated \subseteq generated' /\ \A j \in generated : secs'[j] = secs[j]
          /\ \A j \in Indices \ generated' : secs'[j] = secs[j]
          /\ Waiting' \subseteq Waiting /\ DOMAIN segs' = DOMAIN segs
          /\ \A u \in DOMAIN segs : u # cur.seg \/ pc # "sections" => segs'[u] = segs[u]
          /\ \A u \in DOMAIN segs : /\ segs'[u].members = segs[u].members
                                    /\ segs'[u].vaddr = segs[u].vaddr /\ segs'[u].align = segs[u].align
      BY <1>2, EarlyStep
    <2>2. s \in Waiting /\ s \in DOMAIN segs /\ t \in DOMAIN segs
      BY <2>1, WaitingIs
    <2>3. segs'[s] = segs[s]
      <3>1. pc = "sections" => s # cur.seg
        BY <2>2 DEF Once, Waiting
      <3>. QED  BY <2>1, <2>2, <3>1
    <2>4. Inner(segs[s], segs[t])
      BY <2>1, <2>2, <2>3 DEF Inner, MemberSet
    <2>5. Tied(s, t) /\ i \in Indices /\ i \in MemberSet(segs[s])
      BY <2>0, <2>1, <2>2, <2>4, FirstIs DEF StillTied, Inner
    <2>6. /\ Abreast(segs'[s], segs'[t]) <=> Abreast(segs[s], segs[t])
          /\ Free(secs', segs'[s], segs'[t]) <=> Free(secs', segs[s], segs[t])
      BY <2>1, <2>2, <2>3 DEF Abreast, Free, Lead
    <2>7. Tied(s, t)' <=>
              /\ One(segs[t].align) % One(segs[s].align) = 0
              /\ \/ Leading(secs', segs[s])
                 \/ /\ Abreast(segs[s], segs[t])
                    /\ IF i \in generated' THEN Leads(i)' ELSE Free(secs', segs[s], segs[t])
      <3>1. segs'[t].align = segs[t].align
        BY <2>1, <2>2
      <3>2. Tied(s, t)' <=>
              /\ One(segs'[t].align) % One(segs[s].align) = 0
              /\ \/ Leading(secs', segs[s])
                 \/ /\ Abreast(segs'[s], segs'[t])
                    /\ IF segs'[s].members[1] \in generated' THEN Leads(segs[s].members[1])'
                       ELSE Free(secs', segs'[s], segs'[t])
        BY <2>3, Zenon DEF Tied
      <3>. QED  BY <2>0, <2>3, <2>6, <3>1, <3>2
    <2>8. CASE i \notin generated'
      <3>1. secs'[i] = secs[i] /\ i \notin generated
        BY <2>1, <2>5, <2>8
      <3>2. /\ Leading(secs', segs[s]) <=> Leading(secs, segs[s])
            /\ Free(secs', segs[s], segs[t]) <=> Free(secs, segs[s], segs[t])
        BY <2>0, <3>1 DEF Leading, Free, Lead
      <3>. QED  BY <2>0, <2>5, <2>7, <2>8, <3>1, <3>2, Zenon DEF Tied
    <2>9. CASE i \in generated
      <3>1. secs'[i] = secs[i] /\ i \in generated'
        BY <2>1, <2>9
      <3>2. Leading(secs', segs[s]) <=> Leading(secs, segs[s])
        BY <2>0, <3>1 DEF Leading, Lead
      <3>3. Leads(i) => Leads(i)'
        <4>1. CASE OrderSegment \/ EndOrder
          <5>1. pc = "order"
            BY <4>1 DEF OrderSegment, EndOrder
          <5>. QED  BY <2>9, <5>1 DEF Sourced
        <4>2. CASE StartSegment \/ (WriteSection /\ pc' # "failed") \/ EndSegment
          BY <2>9, <4>2, LeadsStay
        <4>3. CASE UNCHANGED vars
          <5>1. UNCHANGED <<secs, segs, pc, queue, cur>>
            BY <4>3 DEF vars
          <5>. QED  BY <5>1 DEF Leads, LaidOut, Seg
        <4>. QED  BY <1>2, <4>1, <4>2, <4>3
                  DEF Early, Next, Save, Done, EndSegments, PlaceLoose, WriteFile, Load, Keep
      <3>. QED  BY <2>0, <2>5, <2>7, <2>9, <3>1, <3>2, <3>3, Zenon DEF Tied
    <2>10. CASE i \notin generated /\ i \in generated'
      <3>1. WriteSection /\ pc' # "failed"
        <4>1. generated' # generated
          BY <2>10
        <4>. QED  BY <1>2, <4>1
                  DEF Early, Next, Save, Done, vars, EndSegments, PlaceLoose, WriteFile, Load, Keep,
                      OrderSegment, EndOrder, StartSegment, EndSegment
      <3>2. i = Member /\ Member \notin generated
        BY <2>10, <3>1, WrittenIs
      <3>3. ~Null(Member)
        <4>1. Sorted(secs, segs[s])
          BY <2>1, <2>2 DEF StillSorted
        <4>. QED  BY <2>5, <3>2, <4>1 DEF Sorted, Null
      <3>4. CASE Leading(secs, segs[s])
        <4>1. /\ secs'[i].set /\ secs'[i].addr = secs[i].addr /\ secs'[i].size = secs[i].size
              /\ secs'[i].type = secs[i].type
          BY <2>5, <3>1, <3>2, <3>3, <3>4, WrittenWhole, <2>0 DEF Leading, Lead
        <4>2. Leading(secs', segs[s])
          BY <2>0, <3>4, <4>1 DEF Leading, Lead, Bits
        <4>. QED  BY <2>5, <2>7, <4>2 DEF Tied
      <3>5. CASE Abreast(segs[s], segs[t]) /\ Free(secs, segs[s], segs[t])
        <4>1. Leads(i)'
          BY <2>0, <2>2, <2>4, <3>1, <3>2, <3>3, <3>5, FirstAtStart
        <4>. QED  BY <2>5, <2>7, <2>10, <3>5, <4>1 DEF Tied
      <3>. QED  BY <2>0, <2>5, <2>10, <3>4, <3>5 DEF Tied
    <2>. QED  BY <2>8, <2>9, <2>10
  <1>. QED  BY <1>1, <1>2

(***************************************************************************)
(* A segment starts.                                                       *)
(***************************************************************************)
LEMMA HeaderIs ==
    ASSUME NEW n, NEW g \in SegmentHeaders(n), NEW a, NEW b, NEW c
    PROVE  LET h == [g EXCEPT !.offset = a, !.filesz = b, !.memsz = c]
           IN  /\ h.members = g.members /\ h.vaddr = g.vaddr /\ h.align = g.align
               /\ h.offset = a /\ h.filesz = b /\ h.memsz = c
  BY DEF SegmentHeaders

LEMMA ClearOf ==
    ASSUME NEW ss, NEW D, NEW h, NEW k, k.offset = h.offset, k.filesz = h.filesz, k.vaddr = h.vaddr,
           Clear(ss, D, h)
    PROVE  Clear(ss, D, k)
  BY DEF Clear, Same

LEMMA WellOf ==
    ASSUME NEW ss, NEW gs, NEW D, NEW h, NEW k, k.offset = h.offset, k.filesz = h.filesz,
           k.vaddr = h.vaddr, k.memsz = h.memsz, Well(ss, gs, h, D)
    PROVE  Well(ss, gs, k, D)
  BY DEF Well, Fits, Same

\* Where a segment starts, and what is known of it then.
LEMMA StartedAs ==
    ASSUME Typed, StartSegment
    PROVE  LET s == Head(queue)  g == segs[s]
           IN  /\ pc = "segments" /\ pc' = "sections" /\ queue # <<>>
               /\ UNCHANGED <<secs, segs, generated>> /\ queue' = Tail(queue)
               /\ s \in DOMAIN segs /\ s \in ToSet(queue) /\ s \in Waiting
               /\ cur'.seg = s /\ cur'.next = 1 /\ cur'.start = Start(g).at
               /\ cur'.filesz = Start(g).holds /\ cur'.memsz = Start(g).holds
               /\ pos' = pos + Start(g).move /\ Seg' = g
               /\ Now'.vaddr = g.vaddr /\ Now'.offset = Start(g).at /\ Now'.filesz = Start(g).holds
               /\ Now'.members = g.members
               /\ Start(g).at \in Nat /\ Start(g).holds \in Nat /\ Start(g).move \in Nat
  <1>. DEFINE s == Head(queue)
              g == segs[s]
  <1>1. /\ pc = "segments" /\ pc' = "sections" /\ queue # <<>> /\ UNCHANGED <<secs, segs, generated>>
        /\ queue' = Tail(queue)
        /\ cur'.seg = s /\ cur'.next = 1 /\ cur'.start = Start(g).at
        /\ cur'.filesz = Start(g).holds /\ cur'.memsz = Start(g).holds
        /\ pos' = pos + Start(g).move
    BY DEF StartSegment
  <1>2. s \in DOMAIN segs /\ s \in ToSet(queue) /\ s \in Waiting
    BY <1>1, HeadIs DEF Waiting
  <1>3. Seg' = g /\ g \in SegmentHeaders(N)
    BY <1>1, <1>2, SegmentIs DEF Seg
  <1>4. Start(g).at \in Nat /\ Start(g).holds \in Nat /\ Start(g).move \in Nat
    BY <1>2, StartIs
  <1>. HIDE DEF s, g
  <1>5. PICK m : Now' = [g EXCEPT !.offset = cur'.start, !.filesz = cur'.filesz, !.memsz = m]
    BY <1>3 DEF Now
  <1>6. /\ Now'.vaddr = g.vaddr /\ Now'.offset = cur'.start /\ Now'.filesz = cur'.filesz
        /\ Now'.members = g.members
    BY <1>3, <1>5, HeaderIs
  <1>. QED  BY <1>1, <1>2, <1>3, <1>4, <1>6 DEF s, g

\* A segment without sections: the program headers, or nothing at the position.
LEMMA StartEmpty ==
    ASSUME Typed, Placed, StillBehind, StartSegment, MemberSet(segs[Head(queue)]) = {}
    PROVE  AtHand'
  <1>. DEFINE s == Head(queue)
              g == segs[s]
              st == Start(g)
              table == PhSize * Len(segs)
  <1>1. /\ pc = "segments" /\ UNCHANGED <<secs, generated>> /\ s \in Waiting /\ s \in DOMAIN segs
        /\ Seg' = g /\ cur'.start = st.at /\ cur'.filesz = st.holds /\ pos' = pos + st.move
        /\ Now'.vaddr = g.vaddr /\ Now'.offset = st.at /\ Now'.filesz = st.holds
    BY StartedAs
  <1>2. g.members = <<>> /\ ~(g.set /\ g.offset = 0)
    BY <1>1, FirstIs DEF StillBehind, Early
  <1>3. /\ HeadersEnd \in Nat /\ pos \in Nat /\ EhSize \in Nat /\ table \in Nat
        /\ HeadersEnd = EhSize + table
        /\ HeadersEnd <= pos
        /\ \A i \in generated : WithBits(i) =>
              HeadersEnd <= secs[i].offset /\ secs[i].offset + secs[i].size <= pos
    <2>1. HeadersEnd \in Nat /\ table \in Nat
      BY HeadersEndIs
    <2>. QED  BY <1>1, <2>1, LayoutAssumption DEF Placed, Laying, Limit, HeadersEnd, Typed
  <1>. HIDE DEF g, table
  <1>4. \/ st.at = EhSize /\ st.holds = table /\ st.move = 0
        \/ st.at = pos /\ st.holds = 0 /\ st.move = 0
    BY <1>2 DEF Start, table
  <1>. HIDE DEF st
  <1>5. cur'.start + cur'.filesz <= pos'
    BY <1>1, <1>3, <1>4
  <1>6. Clear(secs', generated', Now')
    <2>. SUFFICES ASSUME NEW i \in generated, Weighs(secs[i])
                  PROVE  \/ secs[i].offset + secs[i].size <= st.at
                         \/ st.at + st.holds <= secs[i].offset
      BY <1>1 DEF Clear
    <2>1. WithBits(i)
      BY DEF Weighs, WithBits, NoBits, Null, Bits
    <2>2. secs[i].offset \in Nat /\ secs[i].size \in Nat
      BY SectionIs DEF Typed
    <2>. QED  BY <1>3, <1>4, <2>1, <2>2
  <1>7. MemberSet(Seg') = {}
    BY <1>1 DEF g
  <1>. QED  BY <1>5, <1>6, <1>7 DEF AtHand

LEMMA GapIs ==
    ASSUME Typed, NEW s \in DOMAIN segs
    PROVE  Gap(segs[s]) \in Nat /\ (pos + Gap(segs[s]) - segs[s].vaddr) % One(segs[s].align) = 0
  <1>. DEFINE g == segs[s]
              n == IF g.align > 0 THEN g.align ELSE 1
  <1>1. g.align \in Nat /\ g.vaddr \in Nat /\ pos \in Nat
    BY SegmentIs DEF Typed
  <1>2. n = One(g.align) /\ n \in Nat \ {0}
    BY <1>1 DEF One
  <1>3. Gap(g) = ((g.vaddr % n) - (pos % n)) % n
    BY DEF Gap
  <1>. HIDE DEF g, n
  <1>4. (pos + (((g.vaddr % n) - (pos % n)) % n) - g.vaddr) % n = 0
    BY <1>1, <1>2, GapFits
  <1>5. Gap(g) \in Nat
    <2>1. g.vaddr % n \in Int /\ pos % n \in Int
      BY <1>1, <1>2, ModIs
    <2>. QED  BY <1>2, <1>3, <2>1, ModIs
  <1>. QED  BY <1>2, <1>3, <1>4, <1>5 DEF g

\* One that is the first to place its sections.
LEMMA StartAlone ==
    ASSUME Typed, Placed, LargerFirst, StillOwed, Sourced, StillBehind, StartSegment,
           MemberSet(segs[Head(queue)]) # {}, ~Finished(Head(queue))
    PROVE  AtHand'
  <1>. DEFINE s == Head(queue)
              g == segs[s]
  <1>1. /\ pc = "segments" /\ pc' = "sections" /\ UNCHANGED <<secs, segs, generated>>
        /\ s \in Waiting /\ s \in DOMAIN segs /\ s \in ToSet(queue)
        /\ Seg' = g /\ cur'.start = Start(g).at /\ cur'.filesz = Start(g).holds
        /\ cur'.memsz = Start(g).holds /\ pos' = pos + Start(g).move /\ cur'.next = 1
    BY StartedAs
  <1>2. /\ g.members # <<>> /\ ~(g.set /\ g.offset = 0) /\ 1 \in DOMAIN g.members
        /\ g.members[1] \in MemberSet(g)
    BY <1>1, FirstIs DEF StillBehind, Early
  <1>3. MemberSet(g) \cap generated = {}
    BY <1>1, AllOrNone
  <1>4. Gap(g) \in Nat /\ (pos + Gap(g) - g.vaddr) % One(g.align) = 0
    BY <1>1, GapIs
  <1>5. \A k \in DOMAIN g.members : g.members[k] \notin generated
    BY <1>3 DEF MemberSet, ToSet
  <1>6. DOMAIN g.members = 1 .. Len(g.members) /\ Len(g.members) \in Nat
    BY <1>1, SegmentIs
  <1>. HIDE DEF g
  <1>7. Start(g) = [at |-> pos + Gap(g), holds |-> 0, move |-> Gap(g)]
    BY <1>2, <1>3 DEF Start
  <1>8. /\ cur'.start = pos + Gap(g) /\ cur'.filesz = 0 /\ cur'.memsz = 0 /\ pos' = pos + Gap(g)
        /\ pos \in Nat
    BY <1>1, <1>7 DEF Typed
  <1>9. Passed' = {}
    BY <1>1, <1>6 DEF Passed, PassedOf
  <1>10. \A i \in generated : Weighs(secs[i]) => secs[i].offset + secs[i].size <= cur'.start
    <2>. TAKE i \in generated
    <2>. HAVE Weighs(secs[i])
    <2>1. WithBits(i)
      BY DEF Weighs, WithBits, NoBits, Null, Bits
    <2>2. secs[i].offset \in Nat /\ secs[i].size \in Nat
      BY SectionIs DEF Typed
    <2>3. secs[i].offset + secs[i].size <= pos
      BY <1>1, <2>1 DEF Placed, Laying, Limit
    <2>. QED  BY <1>4, <1>8, <2>2, <2>3
  <1>11. Alone'
    <2>1. \A k \in DOMAIN Seg'.members : k >= cur'.next => Seg'.members[k] \notin generated'
      BY <1>1, <1>5
    <2>2. cur'.filesz = pos' - cur'.start
      BY <1>4, <1>8
    <2>. QED  BY <1>1, <1>9, <1>10, <2>1, <2>2 DEF Alone
  <1>12. Well(secs', segs', Now', Passed')
    BY <1>9 DEF Well
  <1>13. (cur'.start - Seg'.vaddr) % One(Seg'.align) = 0
    <2>. DEFINE y == pos + Gap(g) - g.vaddr
    <2>1. cur'.start - Seg'.vaddr = y /\ Seg'.align = g.align
      <3>1. cur'.start = pos + Gap(g) /\ Seg' = g
        BY <1>1, <1>8
      <3>2. g.vaddr \in Nat
        BY <1>1, SegmentIs DEF g
      <3>3. cur'.start - Seg'.vaddr = (pos + Gap(g)) - g.vaddr /\ Seg'.align = g.align
        BY <3>1, Zenon
      <3>. QED  BY <1>4, <1>8, <3>2, <3>3
    <2>2. y % One(g.align) = 0
      BY <1>4
    <2>. HIDE DEF y
    <2>. QED  BY <2>1, <2>2
  <1>14. cur'.start + cur'.filesz <= pos'
    BY <1>4, <1>8
  <1>. QED  BY <1>1, <1>8, <1>11, <1>12, <1>13, <1>14 DEF AtHand, g

\* One whose sections have been placed: with a segment it lies in.
LEMMA StartWithin ==
    ASSUME Typed, LargerFirst, StillOwed, Once, Rooted, AllSettled, StillTied, StillBehind, StartSegment,
           MemberSet(segs[Head(queue)]) # {}, Finished(Head(queue))
    PROVE  AtHand'
  <1>. DEFINE s == Head(queue)
              g == segs[s]
              i == g.members[1]
              x == secs[i]
  <1>1. /\ pc = "segments" /\ pc' = "sections" /\ UNCHANGED <<secs, segs, generated>>
        /\ s \in Waiting /\ s \in DOMAIN segs /\ s \in ToSet(queue) /\ queue # <<>> /\ queue' = Tail(queue)
        /\ Seg' = g /\ cur'.start = Start(g).at /\ cur'.filesz = Start(g).holds /\ cur'.seg = s
        /\ cur'.memsz = Start(g).holds /\ pos' = pos + Start(g).move /\ cur'.next = 1
    BY StartedAs
  <1>2. /\ g.members # <<>> /\ ~(g.set /\ g.offset = 0) /\ 1 \in DOMAIN g.members
        /\ i \in MemberSet(g) /\ i \in Indices /\ i \in generated
    BY <1>1, FirstIs DEF StillBehind, Early, Finished
  <1>3. DOMAIN g.members = 1 .. Len(g.members) /\ Len(g.members) \in Nat
    BY <1>1, SegmentIs
  <1>4. PICK t \in LaidOut : /\ i \in MemberSet(segs[t]) /\ \A u \in ToSet(queue) : ~IsSubsequenceOf(t, u)
    BY <1>1, <1>2 DEF Rooted
  <1>5. t \in DOMAIN segs /\ t \notin ToSet(queue) /\ t # s
    BY <1>1, <1>4 DEF LaidOut
  <1>6. MemberSet(g) \subseteq MemberSet(segs[t])
    <2>1. Nest(s, t) /\ Ascending(segs[s].members) /\ Ascending(segs[t].members)
      BY <1>1, <1>5 DEF StillOwed, Early, OwedOf
    <2>2. MemberSet(segs[t]) \subseteq MemberSet(segs[s]) => MemberSet(segs[s]) \subseteq MemberSet(segs[t])
      BY <1>1, <1>4, <1>5, <2>1, InclusionIsSeen
    <2>. QED  BY <1>2, <1>4, <2>1, <2>2 DEF Nest
  <1>7. Tied(s, t)
    BY <1>1, <1>2, <1>5, <1>6 DEF StillTied, Early, Inner
  <1>8. Settled(secs, segs, generated, segs[t], pos)
    BY <1>1, <1>4 DEF AllSettled, Limit
  <1>9. /\ g.vaddr \in Nat /\ g.align \in Nat /\ segs[t].vaddr \in Nat /\ segs[t].align \in Nat
        /\ segs[t].offset \in Nat /\ segs[t].filesz \in Nat /\ pos \in Nat
        /\ x.offset \in Nat /\ x.size \in Nat /\ x.addr \in Nat
    BY <1>1, <1>2, <1>5, SegmentIs, SectionIs DEF Typed
  <1>10. /\ Fits(secs, segs, segs[t], i)
         /\ (segs[t].offset - segs[t].vaddr) % One(segs[t].align) = 0
         /\ segs[t].offset + segs[t].filesz <= pos
    BY <1>4, <1>8 DEF Settled, Well
  <1>11. /\ g.vaddr - segs[t].vaddr = x.offset - segs[t].offset
         /\ segs[t].offset <= x.offset /\ x.offset <= segs[t].offset + segs[t].filesz
    <2>0. segs[t].offset <= x.offset
      BY <1>10 DEF Fits
    <2>1. CASE Leading(secs, g)
      <3>1. Bits(x) /\ x.size > 0 /\ x.addr = g.vaddr
        BY <2>1 DEF Leading, Lead
      <3>2. x.addr - segs[t].vaddr = x.offset - segs[t].offset
            /\ x.offset + x.size <= segs[t].offset + segs[t].filesz
        BY <1>10, <3>1 DEF Fits, Same
      <3>. QED  BY <1>9, <2>0, <3>1, <3>2
    <2>2. CASE Abreast(g, segs[t]) /\ Leads(i)
      <3>1. segs[t].vaddr = g.vaddr /\ x.offset = segs[t].offset
        BY <1>4, <2>2 DEF Abreast, Leads
      <3>. QED  BY <1>9, <2>0, <3>1
    <2>. QED  BY <1>2, <1>7, <2>1, <2>2 DEF Tied
  <1>12. One(segs[t].align) % One(g.align) = 0
    BY <1>7 DEF Tied
  <1>. HIDE DEF g, i, x
  <1>13. Start(g) = [at |-> x.offset, holds |-> 0, move |-> 0]
    BY <1>2 DEF Start, i, x
  <1>14. cur'.start = x.offset /\ cur'.filesz = 0 /\ cur'.memsz = 0 /\ pos' = pos
    BY <1>1, <1>9, <1>13
  <1>15. Passed' = {}
    BY <1>1, <1>3 DEF Passed, PassedOf
  <1>16. Well(secs', segs', Now', Passed')
    BY <1>15 DEF Well
  <1>17. (cur'.start - Seg'.vaddr) % One(Seg'.align) = 0
    <2>1. x.offset - g.vaddr = segs[t].offset - segs[t].vaddr
      BY <1>9, <1>11
    <2>2. One(segs[t].align) \in Nat \ {0} /\ One(g.align) \in Nat \ {0}
      BY <1>9, OneIs
    <2>. DEFINE y == segs[t].offset - segs[t].vaddr
    <2>3. y \in Int /\ y % One(segs[t].align) = 0
      BY <1>9, <1>10
    <2>. HIDE DEF y
    <2>4. y % One(g.align) = 0
      BY <1>12, <2>2, <2>3, DividesOn
    <2>5. cur'.start - Seg'.vaddr = y /\ Seg'.align = g.align
      BY <1>1, <1>14, <2>1 DEF y
    <2>. QED  BY <2>4, <2>5
  <1>18. t \in LaidOut' /\ Finished(cur.seg)'
    <2>1. ToSet(queue') \subseteq ToSet(queue)
      BY <1>1, HeadIs
    <2>2. t \in LaidOut'
      BY <1>1, <1>5, <2>1 DEF LaidOut
    <2>3. MemberSet(segs'[cur'.seg]) \subseteq generated'
      BY <1>1 DEF Finished
    <2>. QED  BY <2>2, <2>3 DEF Finished
  <1>19. Within(t)'
    <2>1. cur'.start + cur'.filesz = x.offset /\ cur'.start + cur'.filesz <= pos'
      BY <1>9, <1>10, <1>11, <1>14
    <2>2. Lead(Seg, secs)'.offset = x.offset
      BY <1>1 DEF Lead, x, i
    <2>3. MemberSet(Seg)' \subseteq MemberSet(segs[t])'
      BY <1>1, <1>6 DEF g
    <2>4. /\ Seg'.vaddr - segs'[t].vaddr = cur'.start - segs'[t].offset
          /\ segs'[t].offset <= cur'.start
          /\ cur'.start + cur'.filesz <= segs'[t].offset + segs'[t].filesz
      BY <1>1, <1>11, <1>14, <2>1
    <2>. QED  BY <1>1, <2>1, <2>2, <2>3, <2>4 DEF Within
  <1>20. cur'.start + cur'.filesz <= pos'
    BY <1>9, <1>10, <1>11, <1>14
  <1>21. cur'.memsz = cur'.filesz /\ MemberSet(Seg') # {}
    BY <1>1, <1>14 DEF g
  <1>. QED  BY <1>1, <1>16, <1>17, <1>18, <1>19, <1>20, <1>21 DEF AtHand

(***************************************************************************)
(* A segment takes its next section.                                       *)
(***************************************************************************)
LEMMA PassedNext ==
    ASSUME NEW g, NEW n \in Nat, n \in DOMAIN g.members, DOMAIN g.members \subseteq Nat
    PROVE  PassedOf(g, n + 1) = PassedOf(g, n) \cup {g.members[n]}
  <1>1. \A k \in DOMAIN g.members : k < n + 1 <=> k < n \/ k = n
    OBVIOUS
  <1>. QED  BY <1>1 DEF PassedOf

LEMMA NowIs ==
    ASSUME Typed, cur.seg \in DOMAIN segs
    PROVE  /\ Now.members = Seg.members /\ Now.vaddr = Seg.vaddr /\ Now.align = Seg.align
           /\ Now.offset = cur.start /\ Now.filesz = cur.filesz /\ Now.memsz = MemorySize(Seg.memsz)
           /\ Seg.vaddr \in Nat /\ Seg.memsz \in Nat /\ Seg.align \in Nat
           /\ cur.start \in Nat /\ cur.filesz \in Nat /\ cur.memsz \in Nat /\ pos \in Nat
           /\ Now.memsz \in Nat /\ Seg.memsz <= Now.memsz /\ cur.memsz <= Now.memsz
           /\ \A m \in Nat : Seg.memsz <= m /\ cur.memsz <= m => Now.memsz <= m
  <1>1. Seg \in SegmentHeaders(N) /\ Seg.vaddr \in Nat /\ Seg.memsz \in Nat /\ Seg.align \in Nat
    BY SegmentIs DEF Seg
  <1>2. cur.start \in Nat /\ cur.filesz \in Nat /\ cur.memsz \in Nat /\ pos \in Nat
    BY DEF Typed
  <1>. DEFINE m == MemorySize(Seg.memsz)
  <1>3. /\ m \in Nat /\ Seg.memsz <= m /\ cur.memsz <= m
        /\ \A k \in Nat : Seg.memsz <= k /\ cur.memsz <= k => m <= k
    BY <1>1, <1>2 DEF MemorySize
  <1>4. Now = [Seg EXCEPT !.offset = cur.start, !.filesz = cur.filesz, !.memsz = m]
    BY DEF Now
  <1>. HIDE DEF m
  <1>5. /\ Now.members = Seg.members /\ Now.vaddr = Seg.vaddr /\ Now.align = Seg.align
        /\ Now.offset = cur.start /\ Now.filesz = cur.filesz /\ Now.memsz = m
    BY <1>1, <1>4, HeaderIs
  <1>. QED  BY <1>1, <1>2, <1>3, <1>5 DEF m

\* The section at hand and those that have been passed.
LEMMA AtMember ==
    ASSUME Typed, Complete, StillOwed, StillSorted, WriteSection, pc' # "failed"
    PROVE  LET i == Member  n == cur.next
           IN  /\ pc = "sections" /\ pc' = "sections" /\ cur.seg \in DOMAIN segs /\ Seg' = Seg
               /\ UNCHANGED <<segs, queue>> /\ cur'.seg = cur.seg /\ cur'.start = cur.start
               /\ i \in Indices /\ i \in MemberSet(Seg) /\ i = Seg.members[n] /\ ~Null(i)
               /\ n \in Nat /\ n \in DOMAIN Seg.members /\ cur'.next = n + 1 /\ n <= Len(Seg.members)
               /\ DOMAIN Seg.members = 1 .. Len(Seg.members) /\ Len(Seg.members) \in Nat
               /\ generated' = generated \cup {i}
               /\ Passed' = Passed \cup {i} /\ Passed \subseteq generated /\ Passed \subseteq Indices
               /\ Passed \subseteq MemberSet(Seg)
               /\ \A j \in Passed : /\ j < i /\ ~NoBits(j) /\ secs'[j] = secs[j]
                                    /\ secs[i].alloc => secs[j].alloc
               /\ cur'.next <= Len(Seg.members) => ~NoBits(i)
               /\ \A k \in DOMAIN Seg.members : k >= n + 1 => Seg.members[k] # i
               /\ \A j \in Indices : j \in generated \/ j # i => secs'[j] = secs[j]
  <1>. DEFINE i == Member
              n == cur.next
              ms == Seg.members
  <1>1. /\ pc = "sections" /\ pc' = "sections" /\ cur.seg \in DOMAIN segs /\ UNCHANGED <<segs, queue>>
        /\ cur'.seg = cur.seg /\ i \in Indices /\ i \in MemberSet(Seg) /\ i = ms[n]
        /\ n \in DOMAIN ms /\ cur'.next = n + 1 /\ generated' = generated \cup {i}
        /\ \A j \in Indices : j # i \/ j \in generated => secs'[j] = secs[j]
    BY WrittenIs DEF Seg, Member
  <1>2. Seg' = Seg /\ cur'.start = cur.start
    BY <1>1, WrittenWhole DEF Seg
  <1>3. /\ DOMAIN ms = 1 .. Len(ms) /\ Len(ms) \in Nat /\ n \in Nat /\ n <= Len(ms)
        /\ \A k \in DOMAIN ms : ms[k] \in Indices
    BY <1>1, SegmentIs DEF Seg, Typed
  <1>4. \A j, k \in DOMAIN ms : j < k => ms[j] < ms[k] /\ ~NoBits(ms[j])
    BY <1>1 DEF StillOwed, Early, OwedOf, Ascending, Seg
  <1>5. /\ \A j \in MemberSet(Seg) : ~Null(j)
        /\ \A j, k \in DOMAIN ms : j < k /\ secs[ms[k]].alloc => secs[ms[j]].alloc
    BY <1>1 DEF StillSorted, Early, Sorted, Seg, Null
  <1>6. Passed' = Passed \cup {i}
    <2>1. Passed' = PassedOf(Seg, n + 1)
      BY <1>1, <1>2 DEF Passed
    <2>2. DOMAIN Seg.members \subseteq Nat
      BY <1>3
    <2>. QED  BY <1>1, <1>3, <2>1, <2>2, PassedNext DEF Passed
  <1>7. Passed \subseteq generated
    BY <1>1 DEF Complete, Passed, PassedOf
  <1>8. ASSUME NEW j \in Passed
        PROVE  /\ j < i /\ ~NoBits(j) /\ secs'[j] = secs[j] /\ j \in Indices /\ j \in MemberSet(Seg)
               /\ secs[i].alloc => secs[j].alloc
    <2>1. PICK k \in DOMAIN ms : k < n /\ j = ms[k]
      BY DEF Passed, PassedOf
    <2>2. j < i /\ ~NoBits(j) /\ (secs[i].alloc => secs[j].alloc) /\ j \in Indices /\ j \in MemberSet(Seg)
      BY <1>1, <1>3, <1>4, <1>5, <2>1 DEF MemberSet, ToSet
    <2>. QED  BY <1>1, <1>7, <2>2
  <1>9. cur'.next <= Len(ms) => ~NoBits(i)
    <2>. HAVE cur'.next <= Len(ms)
    <2>1. n + 1 \in DOMAIN ms /\ n < n + 1
      BY <1>1, <1>3
    <2>. QED  BY <1>1, <1>4, <2>1
  <1>10. \A k \in DOMAIN ms : k >= n + 1 => ms[k] # i
    <2>. TAKE k \in DOMAIN ms
    <2>. HAVE k >= n + 1
    <2>1. n < k
      BY <1>3
    <2>2. ms[n] < ms[k] /\ ms[n] \in Indices /\ ms[k] \in Indices
      BY <1>1, <1>3, <1>4, <2>1
    <2>3. ms[n] \in Int /\ ms[k] \in Int
      BY <2>2 DEF Indices, Typed
    <2>. HIDE DEF ms, n
    <2>. QED  BY <1>1, <2>2, <2>3
  <1>. QED  BY <1>1, <1>2, <1>3, <1>5, <1>6, <1>7, <1>8, <1>9, <1>10

\* The sizes of the segment afterwards.
LEMMA GrowIs ==
    ASSUME Typed, RoomInImage, WriteSection, pc' # "failed", ~Null(Member)
    PROVE  LET grow == SectionAlign(Member) + secs[Member].size
           IN  /\ SectionAlign(Member) \in Nat /\ secs[Member].size \in Nat
               /\ cur'.filesz = IF NoBits(Member) THEN cur.filesz ELSE cur.filesz + grow
               /\ cur'.memsz = IF InMemory(Member) THEN cur.memsz + grow ELSE cur.memsz
  <1>. DEFINE gap == SectionAlign(Member)
              z == secs[Member].size
              grow == gap + z
  <1>1. gap \in Nat /\ z \in Nat /\ cur.filesz \in Nat /\ cur.memsz \in Nat
    BY WriteSectionIs, SectionIs DEF Typed
  <1>2. /\ cur'.filesz = IF NoBits(Member) THEN cur.filesz ELSE Plus(cur.filesz, Plus(z, gap))
        /\ cur'.memsz = IF InMemory(Member) THEN Plus(cur.memsz, Plus(z, gap)) ELSE cur.memsz
        /\ ~Behind(Member)
    BY WrittenWhole
  <1>3. cur.filesz + grow < Word /\ cur.memsz + grow < Word
    BY <1>2 DEF RoomInImage, WriteSection
  <1>. HIDE DEF gap, z
  <1>4. Word \in Nat
    BY LayoutAssumption
  <1>5. z + gap < Word /\ grow \in Nat /\ grow = z + gap
    BY <1>1, <1>3, <1>4
  <1>6. Plus(z, gap) = grow
    BY <1>1, <1>5, PlusSmall
  <1>. HIDE DEF grow
  <1>7. Plus(cur.filesz, grow) = cur.filesz + grow /\ Plus(cur.memsz, grow) = cur.memsz + grow
    BY <1>1, <1>3, <1>5, PlusSmall
  <1>. QED  BY <1>1, <1>2, <1>6, <1>7 DEF gap, z, grow

\* Where a section is put that is placed with this segment: as far from the
\* start in the file as in memory, unless it has an address and no bytes.
LEMMA PlacedThere ==
    ASSUME Typed, RoomInFile, RoomInMemory, WriteSection, pc' # "failed",
           Member \notin generated, ~Null(Member), cur.start <= pos,
           secs[Member].set => secs[Member].addr >= Seg.vaddr
    PROVE  LET x == secs[Member]  y == secs'[Member]  at == pos + SectionAlign(Member)
           IN  /\ at \in Nat /\ at >= pos /\ y.offset = at /\ y.addr \in Nat
               /\ pos' = IF NoBits(Member) THEN at ELSE at + x.size
               /\ x.set => y.addr = x.addr
               /\ ~x.set \/ (~NoBits(Member) /\ x.size # 0) => y.addr - Seg.vaddr = at - cur.start
  <1>. DEFINE i == Member
              v == Seg.vaddr
              z == secs[i].size
              a == secs[i].addr
              st == cur.start
              gap == SectionAlign(i)
              a1 == secs'[i].addr
              at == pos + gap
  <1>1. /\ pc = "sections" /\ cur.next <= Len(Seg.members) /\ i \in Indices /\ cur.seg \in DOMAIN segs
        /\ gap \in Nat
    BY WrittenIs, WriteSectionIs DEF WriteSection
  <1>2. v \in Nat /\ z \in Nat /\ a \in Nat /\ st \in Nat /\ pos \in Nat
    BY <1>1, SegmentIs, SectionIs DEF Seg, Typed
  <1>3. /\ ~Behind(i) /\ secs'[i].offset = Plus(pos, gap)
        /\ a1 = IF secs[i].set THEN a ELSE Plus(v, Minus(Plus(pos, gap), st))
        /\ pos' = After(i, Plus(pos, gap))
    BY WrittenWhole
  <1>4. /\ Plus(pos, gap) = at /\ at \in Nat /\ at >= pos /\ Ends(i, at) < Word
    BY <1>3, PlaceIs
  <1>5. i \notin generated /\ ~Null(i) /\ st <= pos /\ (secs[i].set => a >= v) /\ a < Word
    BY <1>1 DEF RoomInMemory
  <1>6. Word \in Nat \ {0}
    BY LayoutAssumption
  <1>7. pos' = IF NoBits(i) THEN at ELSE at + z
    <2>1. CASE NoBits(i)
      BY <1>3, <1>4, <2>1 DEF After
    <2>2. CASE ~NoBits(i)
      <3>1. at + z < Word
        BY <1>4, <1>5, <2>2 DEF Ends
      <3>. HIDE DEF at, z
      <3>2. Plus(at, z) = at + z
        BY <1>2, <1>4, <3>1, PlusSmall
      <3>. QED  BY <1>3, <1>4, <1>5, <2>2, <3>2 DEF After, z
    <2>. QED  BY <2>1, <2>2
  <1>8. at < Word /\ pos < Word
    BY <1>1, <1>2, <1>4, <1>6 DEF Ends
  <1>9. a1 \in Nat
    <2>1. secs'[i] \in SectionHeaders
      BY <1>1, TypedKept DEF Typed, Next, Save
    <2>. QED  BY <2>1 DEF SectionHeaders
  <1>10. CASE secs[i].set /\ ~NoBits(i) /\ z # 0
    <2>. DEFINE p == Minus(a, v)
                q == Minus(pos, st)
    <2>1. ByAddress(i)
      BY <1>10 DEF ByAddress, z
    <2>2. gap = Minus(p, q) /\ ~(p < q)
      BY <1>3, <1>5, <2>1 DEF gap, SectionAlign, Behind, a, v, st, i
    <2>. HIDE DEF i, v, z, a, st, gap, a1
    <2>3. a >= v /\ a - v < Word /\ pos - st < Word
      BY <1>2, <1>5, <1>6, <1>8, <1>10
    <2>4. p = a - v /\ q = pos - st
      BY <1>2, <1>5, <2>3, MinusSmall
    <2>5. p \in Nat /\ q \in Nat
      BY <1>2, <1>5, <2>3, <2>4
    <2>. HIDE DEF p, q
    <2>6. q <= p /\ p - q < Word
      BY <1>2, <1>5, <1>6, <2>2, <2>3, <2>4, <2>5
    <2>7. gap = p - q
      BY <2>2, <2>5, <2>6, MinusSmall
    <2>8. a1 - v = at - st /\ a1 = a
      BY <1>2, <1>3, <1>10, <2>4, <2>7
    <2>. QED  BY <1>3, <1>4, <1>7, <1>9, <2>8 DEF i, v, z, a, st, gap, a1
  <1>11. CASE secs[i].set /\ ~(~NoBits(i) /\ z # 0)
    BY <1>3, <1>4, <1>7, <1>9, <1>11
  <1>12. CASE ~secs[i].set
    <2>1. v + (at - st) < Word
      <3>1. v + (pos + gap - st) < Word
        BY <1>1, <1>3, <1>5, <1>12 DEF RoomInMemory
      <3>. HIDE DEF gap, v, st
      <3>. QED  BY <1>1, <1>2, <3>1
    <2>. HIDE DEF i, v, z, a, st, gap, a1, at
    <2>2. at >= st
      BY <1>2, <1>4, <1>5
    <2>3. Minus(at, st) = at - st
      <3>1. at - st < Word
        BY <1>2, <1>4, <1>6, <2>1, <2>2
      <3>. QED  BY <1>2, <1>4, <2>2, <3>1, MinusSmall
    <2>4. at - st \in Nat
      BY <1>2, <1>4, <2>2
    <2>5. Plus(v, at - st) = v + (at - st)
      BY <1>2, <2>1, <2>4, PlusSmall
    <2>6. a1 - v = at - st
      BY <1>2, <1>3, <1>4, <1>12, <2>3, <2>4, <2>5
    <2>. QED  BY <1>3, <1>4, <1>7, <1>9, <1>12, <2>6 DEF i, v, z, a, st, gap, a1, at
  <1>. QED  BY <1>10, <1>11, <1>12

\* When a section fits into its segment.
LEMMA FitsWhen ==
    ASSUME NEW ss, NEW gs, NEW h, NEW i,
           ss[i].addr \in Nat, ss[i].size \in Nat, ss[i].offset \in Nat,
           h.offset \in Nat, h.filesz \in Nat, h.vaddr \in Nat, h.memsz \in Nat,
           h.offset <= ss[i].offset,
           Bits(ss[i]) => ss[i].offset + ss[i].size <= h.offset + h.filesz,
           Bits(ss[i]) /\ ss[i].size > 0 => Same(h, ss[i]),
           ~Bits(ss[i]) /\ InImage(ss[i]) /\ ss[i].size > 0 => Same(h, ss[i]) \/ Given(ss, gs, i),
           InImage(ss[i]) => ss[i].offset + ss[i].size <= h.offset + h.memsz,
           Given(ss, gs, i) => /\ h.vaddr <= ss[i].addr
                               /\ ss[i].addr + ss[i].size <= h.vaddr + h.memsz
    PROVE  Fits(ss, gs, h, i)
  <1>. DEFINE x == ss[i]
  <1>1. ASSUME InImage(x), x.size > 0, Same(h, x)
        PROVE  h.vaddr <= x.addr /\ x.addr + x.size <= h.vaddr + h.memsz
    <2>1. x.addr - h.vaddr = x.offset - h.offset /\ x.offset + x.size <= h.offset + h.memsz
      BY <1>1 DEF Same
    <2>. HIDE DEF x
    <2>. QED  BY <2>1 DEF x
  <1>2. InImage(x) /\ x.size > 0 => h.vaddr <= x.addr /\ x.addr + x.size <= h.vaddr + h.memsz
    BY <1>1
  <1>. HIDE DEF x
  <1>. QED  BY <1>2, Zenon DEF Fits, x

LEMMA NowNext ==
    ASSUME Typed, Typed', cur.seg \in DOMAIN segs, Seg' = Seg
    PROVE  /\ Now'.vaddr = Seg.vaddr /\ Now'.offset = cur'.start /\ Now'.filesz = cur'.filesz
           /\ Now'.memsz \in Nat /\ cur'.memsz <= Now'.memsz /\ Seg.memsz <= Now'.memsz
           /\ cur'.start \in Nat /\ cur'.filesz \in Nat /\ cur'.memsz \in Nat
  <1>1. Seg \in SegmentHeaders(N) /\ Seg.memsz \in Nat
    BY SegmentIs DEF Seg
  <1>2. cur'.start \in Nat /\ cur'.filesz \in Nat /\ cur'.memsz \in Nat
    BY DEF Typed
  <1>3. PICK m : m = MemorySize(Seg.memsz)'
    OBVIOUS
  <1>4. m = IF Seg.memsz < cur'.memsz THEN cur'.memsz ELSE Seg.memsz
    BY <1>3 DEF MemorySize
  <1>5. Now' = [Seg EXCEPT !.offset = cur'.start, !.filesz = cur'.filesz, !.memsz = m]
    BY <1>3 DEF Now
  <1>6. /\ Now'.vaddr = Seg.vaddr /\ Now'.offset = cur'.start /\ Now'.filesz = cur'.filesz
        /\ Now'.memsz = m
    BY <1>1, <1>5, HeaderIs
  <1>. QED  BY <1>1, <1>2, <1>4, <1>6

\* A segment that fits its sections fits one more behind them.
LEMMA WellGrows ==
    ASSUME Typed, Complete, StillOwed, StillSorted, WriteSection, pc' # "failed",
           Well(secs, segs, Now, Passed), cur.filesz <= cur'.filesz, cur.memsz <= cur'.memsz,
           NEW i, i = Member, Fits(secs', segs', Now', i),
           \A j \in Passed : secs[j].offset + secs[j].size <= secs'[i].offset
    PROVE  Well(secs', segs', Now', Passed')
  <1>1. /\ cur.seg \in DOMAIN segs /\ Seg' = Seg /\ segs' = segs /\ cur'.start = cur.start
        /\ i \in Indices /\ Passed' = Passed \cup {i} /\ Passed \subseteq Indices
        /\ \A j \in Passed : j < i /\ secs'[j] = secs[j]
        /\ cur'.seg = cur.seg
    BY AtMember
  <1>2. Typed' /\ Indices' = Indices
    BY TypedKept DEF Next, Save
  <1>3. /\ Now.vaddr = Seg.vaddr /\ Now.offset = cur.start /\ Now.filesz = cur.filesz
        /\ Now.memsz = MemorySize(Seg.memsz) /\ Now.vaddr \in Nat /\ Now.offset \in Nat
        /\ Now.filesz \in Nat /\ Now.memsz \in Nat
        /\ \A m \in Nat : Seg.memsz <= m /\ cur.memsz <= m => Now.memsz <= m
        /\ cur.memsz \in Nat /\ Seg.memsz \in Nat
    BY <1>1, NowIs
  <1>4. /\ Now'.vaddr = Seg.vaddr /\ Now'.offset = cur.start /\ Now'.filesz = cur'.filesz
        /\ Now'.filesz \in Nat /\ Now'.memsz \in Nat /\ Seg.memsz <= Now'.memsz
        /\ cur'.memsz <= Now'.memsz /\ cur'.memsz \in Nat
    BY <1>1, <1>2, NowNext
  <1>5. Now.memsz <= Now'.memsz
    <2>1. cur.memsz <= Now'.memsz
      BY <1>3, <1>4
    <2>. QED  BY <1>3, <1>4, <2>1
  <1>6. Counts(secs, segs) /\ DOMAIN secs = Indices
    BY CountsIs
  <1>7. Counts(secs', segs') /\ DOMAIN secs' = Indices
    BY <1>2, CountsOf DEF Typed, Indices
  <1>8. Grown(segs, segs')
    BY <1>1, GrownSame
  <1>9. Well(secs', segs', Now, Passed)
    BY <1>1, <1>6, <1>7, <1>8, WellStays
  <1>10. Well(secs', segs', Now', Passed)
    BY <1>1, <1>3, <1>4, <1>5, <1>7, <1>9, WellWider
  <1>11. ASSUME NEW j \in Passed \cup {i}
         PROVE  /\ Fits(secs', segs', Now', j)
                /\ \A k \in Passed \cup {i} : j < k => secs'[j].offset + secs'[j].size <= secs'[k].offset
    <2>1. CASE j \in Passed
      <3>1. Fits(secs', segs', Now', j)
        BY <1>10, <2>1 DEF Well
      <3>2. ASSUME NEW k \in Passed, j < k PROVE secs'[j].offset + secs'[j].size <= secs'[k].offset
        BY <1>10, <2>1, <3>2 DEF Well
      <3>3. secs'[j].offset + secs'[j].size <= secs'[i].offset
        BY <1>1, <2>1
      <3>. QED  BY <3>1, <3>2, <3>3
    <2>2. CASE j = i
      <3>1. \A k \in Passed \cup {i} : ~(i < k)
        <4>1. \A k \in Passed : k \in Int /\ i \in Int /\ k < i
          BY <1>1 DEF Indices, Typed
        <4>2. i \in Int
          BY <1>1 DEF Indices, Typed
        <4>. QED  BY <4>1, <4>2
      <3>. QED  BY <2>2, <3>1
    <2>. QED  BY <2>1, <2>2
  <1>. QED  BY <1>1, <1>11 DEF Well

\* A segment that places its sections.
LEMMA WroteAlone ==
    ASSUME Typed, RoomInFile, RoomInMemory, RoomInImage, Complete, StillOwed, StillSorted, StillGiven,
           WriteSection, pc' # "failed", AtHand, Alone
    PROVE  AtHand'
  <1>0. PICK i : i = Member
    OBVIOUS
  <1>. DEFINE x == secs[i]
              y == secs'[i]
              gap == SectionAlign(i)
              at == pos + gap
              st == cur.start
              v == Seg.vaddr
  <1>1. /\ pc = "sections" /\ pc' = "sections" /\ cur.seg \in DOMAIN segs /\ Seg' = Seg
        /\ UNCHANGED <<segs, queue>> /\ cur'.seg = cur.seg /\ cur'.start = st
        /\ i \in Indices /\ i \in MemberSet(Seg) /\ ~Null(i)
        /\ cur'.next = cur.next + 1 /\ cur.next <= Len(Seg.members) /\ cur.next \in DOMAIN Seg.members
        /\ cur.next \in Nat /\ Len(Seg.members) \in Nat /\ DOMAIN Seg.members = 1 .. Len(Seg.members)
        /\ i = Seg.members[cur.next]
        /\ generated' = generated \cup {i}
        /\ Passed' = Passed \cup {i} /\ Passed \subseteq generated /\ Passed \subseteq Indices
    BY <1>0, AtMember
  <1>2. /\ \A j \in Passed : ~NoBits(j) /\ secs'[j] = secs[j] /\ (x.alloc => secs[j].alloc)
        /\ cur'.next <= Len(Seg.members) => ~NoBits(i)
        /\ \A k \in DOMAIN Seg.members : k >= cur.next + 1 => Seg.members[k] # i
        /\ \A j \in Indices : j \in generated => secs'[j] = secs[j]
    BY <1>0, AtMember
  <1>3. /\ v \in Nat /\ st \in Nat /\ pos \in Nat /\ cur.filesz \in Nat /\ cur.memsz \in Nat
        /\ Seg.memsz \in Nat /\ x.size \in Nat /\ x.addr \in Nat /\ gap \in Nat
    BY <1>0, <1>1, NowIs, SectionIs, WriteSectionIs
  <1>4. /\ i \notin generated /\ cur.filesz = pos - st
        /\ \A j \in generated : Weighs(secs[j]) =>
              secs[j].offset + secs[j].size <= st \/ Same(Now, secs[j])
        /\ \A j \in Passed : Bits(secs[j]) => secs[j].offset + secs[j].size <= pos
        /\ \A k \in DOMAIN Seg.members : k >= cur.next => Seg.members[k] \notin generated
    BY <1>1 DEF Alone
  <1>5. /\ MemberSet(Seg) # {} /\ st + cur.filesz <= pos /\ st <= pos
        /\ Well(secs, segs, Now, Passed) /\ (st - v) % One(Seg.align) = 0
        /\ (\A j \in Passed : secs[j].alloc) => cur.memsz = cur.filesz
    <2>1. MemberSet(Seg) # {}
      BY <1>1
    <2>. QED  BY <1>1, <1>3, <2>1 DEF AtHand
  <1>6. x.set => x.addr >= v
    BY <1>1, <1>4 DEF StillOwed, Early, OwedOf, Seg
  <1>7. /\ at \in Nat /\ at >= pos /\ y.offset = at /\ y.addr \in Nat
        /\ pos' = IF NoBits(i) THEN at ELSE at + x.size
        /\ x.set => y.addr = x.addr
        /\ ~x.set \/ (~NoBits(i) /\ x.size # 0) => y.addr - v = at - st
    BY <1>0, <1>1, <1>4, <1>5, <1>6, PlacedThere
  <1>8. /\ y.type = x.type /\ y.alloc = x.alloc /\ y.tls = x.tls /\ y.size = x.size
    BY <1>1, WrittenWhole
  <1>9. /\ cur'.filesz = IF NoBits(i) THEN cur.filesz ELSE cur.filesz + (gap + x.size)
        /\ cur'.memsz = IF InMemory(i) THEN cur.memsz + (gap + x.size) ELSE cur.memsz
    BY <1>0, <1>1, GrowIs
  <1>11. Typed' /\ Indices' = Indices
    BY TypedKept DEF Next, Save
  <1>10. /\ Now'.vaddr = v /\ Now'.offset = st /\ Now'.filesz = cur'.filesz
         /\ Now'.memsz \in Nat /\ cur'.memsz <= Now'.memsz /\ Seg.memsz <= Now'.memsz
         /\ cur'.filesz \in Nat /\ cur'.memsz \in Nat /\ Now.vaddr = v /\ Now.offset = st
    BY <1>1, <1>11, NowNext, NowIs
  <1>. HIDE DEF gap, st, v
  <1>12. Same(Now', y) <=> y.addr - v = at - st
    BY <1>7, <1>10 DEF Same
  <1>13. Bits(y) <=> ~NoBits(i)
    BY <1>8 DEF Bits, NoBits
  <1>14. InImage(y) => InMemory(i) /\ cur.memsz = cur.filesz
    <2>. HAVE InImage(y)
    <2>1. x.alloc /\ InMemory(i)
      BY <1>8, <1>13 DEF InImage, InMemory
    <2>. QED  BY <1>2, <1>5, <2>1
  <1>21. cur'.filesz = IF NoBits(i) THEN pos - st ELSE at + x.size - st
    BY <1>3, <1>4, <1>9
  <1>22. InImage(y) => cur'.memsz = at + x.size - st
    BY <1>3, <1>4, <1>9, <1>14
  <1>15. Fits(secs', segs', Now', i)
    <2>1. Bits(y) /\ y.size > 0 => Same(Now', y)
      BY <1>3, <1>7, <1>8, <1>12, <1>13
    <2>2. ~Bits(y) /\ InImage(y) /\ y.size > 0 => Same(Now', y) \/ Given(secs', segs', i)
      <3>. SUFFICES ASSUME ~Bits(y), InImage(y), y.size > 0, x.set PROVE Given(secs', segs', i)
        BY <1>7, <1>12
      <3>1. ~Bits(x) /\ InImage(x) /\ x.size > 0
        BY <1>8 DEF Bits, InImage
      <3>2. Given(secs, segs, i)
        BY <1>1, <1>4, <3>1 DEF StillGiven, Early, BssGiven
      <3>. QED  BY <1>1, <1>7, <1>8, <3>2 DEF Given
    <2>3. Given(secs', segs', i) => Now'.vaddr <= y.addr /\ y.addr + y.size <= Now'.vaddr + Now'.memsz
      <3>. HAVE Given(secs', segs', i)
      <3>1. v <= y.addr /\ y.addr + y.size <= v + Seg.memsz
        BY <1>1 DEF Given, Seg, v
      <3>. QED  BY <1>3, <1>7, <1>8, <1>10, <3>1
    <2>4. y.offset + y.size \in Nat /\ y.size \in Nat /\ y.offset \in Nat /\ y.addr \in Nat
      BY <1>3, <1>7, <1>8
    <2>5. /\ Now'.offset <= y.offset
          /\ Bits(y) => y.offset + y.size <= Now'.offset + Now'.filesz
      BY <1>3, <1>5, <1>7, <1>8, <1>10, <1>13, <1>21
    <2>6. InImage(y) => y.offset + y.size <= Now'.offset + Now'.memsz
      BY <1>3, <1>7, <1>8, <1>10, <1>22
    <2>. HIDE DEF y
    <2>. QED  BY <1>3, <1>10, <2>1, <2>2, <2>3, <2>4, <2>5, <2>6, FitsWhen DEF y
  <1>16. Well(secs', segs', Now', Passed')
    <2>1. cur.filesz <= cur'.filesz /\ cur.memsz <= cur'.memsz
      BY <1>3, <1>9
    <2>2. \A j \in Passed : secs[j].offset + secs[j].size <= y.offset
      <3>. TAKE j \in Passed
      <3>1. secs[j].offset \in Nat /\ secs[j].size \in Nat /\ Bits(secs[j])
        BY <1>1, <1>2, SectionIs DEF Bits, NoBits
      <3>. QED  BY <1>3, <1>4, <1>7, <3>1
    <2>. QED  BY <1>0, <1>5, <1>15, <2>1, <2>2, WellGrows
  <1>17. Alone'
    <2>1. \A k \in DOMAIN Seg.members : k >= cur'.next => Seg.members[k] \notin generated'
      <3>. TAKE k \in DOMAIN Seg.members
      <3>. HAVE k >= cur'.next
      <3>1. k >= cur.next
        BY <1>1
      <3>. QED  BY <1>1, <1>2, <1>4, <3>1
    <2>2. \A j \in generated' : Weighs(secs'[j]) =>
              secs'[j].offset + secs'[j].size <= st \/ Same(Now', secs'[j])
      <3>. TAKE j \in generated'
      <3>. HAVE Weighs(secs'[j])
      <3>1. CASE j = i
        BY <1>3, <1>7, <1>8, <1>12, <1>13, <3>1 DEF Weighs
      <3>2. CASE j \in generated
        <4>1. secs'[j] = secs[j]
          BY <1>2, <3>2 DEF Typed
        <4>2. Same(Now, secs[j]) => Same(Now', secs[j])
          BY <1>10 DEF Same
        <4>. QED  BY <1>4, <3>2, <4>1, <4>2
      <3>. QED  BY <1>1, <3>1, <3>2
    <2>3. \A j \in Passed' : Bits(secs'[j]) => secs'[j].offset + secs'[j].size <= pos'
      <3>. TAKE j \in Passed'
      <3>. HAVE Bits(secs'[j])
      <3>1. CASE j = i
        BY <1>3, <1>7, <1>8, <1>13, <3>1
      <3>2. CASE j \in Passed
        <4>1. secs'[j] = secs[j] /\ secs[j].offset \in Nat /\ secs[j].size \in Nat
          BY <1>1, <1>2, <3>2, SectionIs
        <4>2. secs[j].offset + secs[j].size <= pos /\ pos <= pos' /\ pos' \in Nat
          BY <1>3, <1>4, <1>7, <3>2, <4>1
        <4>. QED  BY <1>3, <4>1, <4>2
      <3>. QED  BY <1>1, <3>1, <3>2
    <2>4. cur'.next <= Len(Seg.members) => cur'.filesz = pos' - st
      BY <1>2, <1>3, <1>7, <1>21
    <2>5. cur'.start = st
      BY <1>1 DEF st
    <2>. QED  BY <1>1, <2>1, <2>2, <2>3, <2>4, <2>5 DEF Alone
  <1>18. cur'.start + cur'.filesz <= pos'
    <2>1. cur'.start = st
      BY <1>1 DEF st
    <2>. QED  BY <1>3, <1>5, <1>7, <1>21, <2>1
  <1>19. cur'.next <= Len(Seg.members) /\ (\A j \in Passed' : secs'[j].alloc) => cur'.memsz = cur'.filesz
    <2>. SUFFICES ASSUME cur'.next <= Len(Seg.members), \A j \in Passed' : secs'[j].alloc
                  PROVE  cur'.memsz = cur'.filesz
      OBVIOUS
    <2>1. ~NoBits(i) /\ x.alloc /\ InMemory(i)
      BY <1>1, <1>2, <1>8 DEF InMemory
    <2>2. InImage(y)
      BY <1>8, <1>13, <2>1 DEF InImage
    <2>. QED  BY <1>21, <1>22, <2>1, <2>2
  <1>20. MemberSet(Seg') # {} /\ (cur'.start - Seg'.vaddr) % One(Seg'.align) = 0
    BY <1>1, <1>5 DEF st, v
  <1>. QED  BY <1>1, <1>16, <1>17, <1>18, <1>19, <1>20 DEF AtHand

\* A segment whose sections lie where a larger one has put them.
LEMMA WroteWithin ==
    ASSUME Typed, RoomInFile, RoomInImage, Complete, StillOwed, StillSorted, AllSettled,
           WriteSection, pc' # "failed", AtHand, Finished(cur.seg), NEW t \in LaidOut, Within(t)
    PROVE  AtHand'
  <1>0. PICK i : i = Member
    OBVIOUS
  <1>. DEFINE x == secs[i]
              gap == SectionAlign(i)
              st == cur.start
              v == Seg.vaddr
              h == segs[t]
  <1>1. /\ pc = "sections" /\ pc' = "sections" /\ cur.seg \in DOMAIN segs /\ Seg' = Seg
        /\ UNCHANGED <<segs, queue>> /\ cur'.seg = cur.seg /\ cur'.start = st
        /\ i \in Indices /\ i \in MemberSet(Seg) /\ ~Null(i)
        /\ cur'.next = cur.next + 1 /\ cur.next <= Len(Seg.members) /\ cur.next \in DOMAIN Seg.members
        /\ cur.next \in Nat /\ Len(Seg.members) \in Nat /\ DOMAIN Seg.members = 1 .. Len(Seg.members)
        /\ i = Seg.members[cur.next]
        /\ generated' = generated \cup {i}
        /\ Passed' = Passed \cup {i} /\ Passed \subseteq generated /\ Passed \subseteq Indices
        /\ Passed \subseteq MemberSet(Seg)
    BY <1>0, AtMember
  <1>2. /\ \A j \in Passed : j < i /\ ~NoBits(j) /\ (x.alloc => secs[j].alloc)
        /\ cur'.next <= Len(Seg.members) => ~NoBits(i)
    BY <1>0, AtMember
  <1>3. /\ v \in Nat /\ st \in Nat /\ pos \in Nat /\ cur.filesz \in Nat /\ cur.memsz \in Nat
        /\ Seg.memsz \in Nat /\ x.size \in Nat /\ x.addr \in Nat /\ x.offset \in Nat
    BY <1>0, <1>1, NowIs, SectionIs
  <1>4. i \in generated /\ generated' = generated
    BY <1>1 DEF Finished, Seg
  <1>5. UNCHANGED <<secs, pos>>
    BY <1>0, <1>1, <1>4, WrittenWhole
  <1>6. /\ MemberSet(Seg) # {} /\ st + cur.filesz <= pos
        /\ Well(secs, segs, Now, Passed) /\ (st - v) % One(Seg.align) = 0
        /\ (\A j \in Passed : secs[j].alloc) => cur.memsz = cur.filesz
    <2>1. MemberSet(Seg) # {}
      BY <1>1
    <2>. QED  BY <1>1, <2>1 DEF AtHand
  <1>7. t \in DOMAIN segs /\ h.vaddr \in Nat /\ h.offset \in Nat /\ h.filesz \in Nat
    BY LaidOutIs, SegmentIs
  <1>8. Well(secs, segs, h, MemberSet(h)) /\ h.offset + h.filesz <= pos
    BY <1>1 DEF AllSettled, Settled, Limit
  <1>9. /\ MemberSet(Seg) \subseteq MemberSet(h) /\ v - h.vaddr = st - h.offset
        /\ h.offset <= st /\ st + cur.filesz <= h.offset + h.filesz
        /\ st + cur.filesz = IF cur.next = 1 THEN Lead(Seg, secs).offset
                             ELSE LET w == secs[Seg.members[cur.next - 1]] IN w.offset + w.size
    BY <1>1 DEF Within
  <1>10. i \in MemberSet(h) /\ Fits(secs, segs, h, i)
         /\ \A j \in MemberSet(h) : j < i => secs[j].offset + secs[j].size <= x.offset
    <2>1. i \in MemberSet(h)
      BY <1>1, <1>9
    <2>. QED  BY <1>8, <2>1 DEF Well
  <1>11. \A j \in Passed : secs[j].offset + secs[j].size <= x.offset
    BY <1>1, <1>2, <1>9, <1>10
  <1>12. st + cur.filesz <= x.offset
    <2>1. CASE cur.next = 1
      <3>1. st + cur.filesz = x.offset
        BY <1>1, <1>9, <2>1 DEF Lead
      <3>. QED  BY <1>3, <3>1
    <2>2. CASE cur.next # 1
      <3>. DEFINE k == cur.next - 1
      <3>1. k \in DOMAIN Seg.members /\ k < cur.next
        BY <1>1, <2>2
      <3>2. Seg.members[k] \in Passed
        BY <1>1, <3>1 DEF Passed, PassedOf
      <3>. QED  BY <1>9, <1>11, <2>2, <3>2
    <2>. QED  BY <2>1, <2>2
  <1>13. gap = x.offset - (st + cur.filesz) /\ gap \in Nat
    <2>1. x.offset < Word /\ Word \in Nat
      BY <1>1, LayoutAssumption DEF RoomInImage
    <2>2. gap = Minus(Minus(x.offset, st), cur.filesz)
      BY <1>4 DEF SectionAlign
    <2>. DEFINE o == x.offset
    <2>. HIDE DEF gap, st, o
    <2>3. Minus(o, st) = o - st
      <3>1. st <= o /\ o - st < Word
        BY <1>3, <1>12, <2>1 DEF o
      <3>. QED  BY <1>3, <3>1, MinusSmall DEF o
    <2>. DEFINE d == o - st
    <2>4. d \in Nat /\ cur.filesz <= d /\ d - cur.filesz < Word
      BY <1>3, <1>12, <2>1 DEF o
    <2>. HIDE DEF d
    <2>5. Minus(d, cur.filesz) = d - cur.filesz
      BY <1>3, <2>4, MinusSmall
    <2>. QED  BY <1>3, <1>12, <2>2, <2>3, <2>4, <2>5 DEF d, o
  <1>14. /\ cur'.filesz = IF NoBits(i) THEN cur.filesz ELSE cur.filesz + (gap + x.size)
         /\ cur'.memsz = IF InMemory(i) THEN cur.memsz + (gap + x.size) ELSE cur.memsz
    BY <1>0, <1>1, GrowIs
  <1>15. Typed' /\ Indices' = Indices
    BY TypedKept DEF Next, Save
  <1>16. /\ Now'.vaddr = v /\ Now'.offset = st /\ Now'.filesz = cur'.filesz
         /\ Now'.memsz \in Nat /\ cur'.memsz <= Now'.memsz /\ Seg.memsz <= Now'.memsz
         /\ cur'.filesz \in Nat /\ cur'.memsz \in Nat
    BY <1>1, <1>15, NowNext
  <1>. HIDE DEF gap, st, v
  <1>17. Same(h, x) => Same(Now', x)
    BY <1>3, <1>7, <1>9, <1>16 DEF Same
  <1>18. Bits(x) <=> ~NoBits(i)
    BY DEF Bits, NoBits
  <1>19. InImage(x) => InMemory(i) /\ cur.memsz = cur.filesz
    <2>. HAVE InImage(x)
    <2>1. x.alloc /\ InMemory(i)
      BY <1>18 DEF InImage, InMemory
    <2>. QED  BY <1>2, <1>6, <2>1
  <1>20. cur'.filesz = IF NoBits(i) THEN cur.filesz ELSE x.offset + x.size - st
    BY <1>3, <1>13, <1>14
  <1>21. InImage(x) => cur'.memsz = x.offset + x.size - st
    BY <1>3, <1>13, <1>14, <1>19
  <1>22. /\ Bits(x) => x.offset + x.size <= h.offset + h.filesz
         /\ Bits(x) /\ x.size > 0 => Same(h, x)
         /\ ~Bits(x) /\ InImage(x) /\ x.size > 0 => Same(h, x) \/ Given(secs, segs, i)
    BY <1>10 DEF Fits
  <1>23. Fits(secs, segs, Now', i)
    <2>1. Given(secs, segs, i) => Now'.vaddr <= x.addr /\ x.addr + x.size <= Now'.vaddr + Now'.memsz
      <3>. HAVE Given(secs, segs, i)
      <3>1. v <= x.addr /\ x.addr + x.size <= v + Seg.memsz
        BY <1>1 DEF Given, Seg, v
      <3>. QED  BY <1>3, <1>16, <3>1
    <2>2. /\ Now'.offset <= x.offset
          /\ Bits(x) => x.offset + x.size <= Now'.offset + Now'.filesz
      BY <1>3, <1>12, <1>16, <1>18, <1>20
    <2>3. InImage(x) => x.offset + x.size <= Now'.offset + Now'.memsz
      BY <1>3, <1>16, <1>21
    <2>. QED  BY <1>3, <1>16, <1>17, <1>22, <2>1, <2>2, <2>3, FitsWhen
  <1>24. Well(secs', segs', Now', Passed')
    <2>1. cur.filesz <= cur'.filesz /\ cur.memsz <= cur'.memsz
      BY <1>3, <1>13, <1>14
    <2>2. Fits(secs', segs', Now', i)
      BY <1>1, <1>5, <1>23
    <2>3. \A j \in Passed : secs[j].offset + secs[j].size <= secs'[i].offset
      BY <1>5, <1>11
    <2>. QED  BY <1>0, <1>6, <2>1, <2>2, <2>3, WellGrows
  <1>25. st + cur'.filesz <= h.offset + h.filesz
    BY <1>3, <1>7, <1>9, <1>18, <1>20, <1>22
  <1>26. cur'.next <= Len(Seg.members) => st + cur'.filesz = x.offset + x.size
    BY <1>2, <1>3, <1>20
  <1>27. Within(t)' /\ t \in LaidOut' /\ Finished(cur.seg)'
    <2>1. LaidOut' = LaidOut
      BY <1>1 DEF LaidOut
    <2>2. MemberSet(segs'[cur'.seg]) \subseteq generated'
      BY <1>1, <1>4 DEF Finished
    <2>3. cur'.next # 1 /\ cur'.next - 1 = cur.next
      BY <1>1
    <2>4. cur'.start = st
      BY <1>1 DEF st
    <2>5. cur'.next <= Len(Seg'.members) =>
             cur'.start + cur'.filesz =
                IF cur'.next = 1 THEN Lead(Seg, secs)'.offset
                ELSE LET w == secs'[Seg'.members[cur'.next - 1]] IN w.offset + w.size
      BY <1>1, <1>5, <1>26, <2>3, <2>4
    <2>6. /\ MemberSet(Seg') \subseteq MemberSet(segs'[t])
          /\ Seg'.vaddr - segs'[t].vaddr = cur'.start - segs'[t].offset
          /\ segs'[t].offset <= cur'.start
          /\ cur'.start + cur'.filesz <= segs'[t].offset + segs'[t].filesz
      BY <1>1, <1>9, <1>25, <2>4 DEF v
    <2>7. Within(t)'
      BY <2>5, <2>6 DEF Within
    <2>. QED  BY <2>1, <2>2, <2>7 DEF Finished
  <1>28. cur'.start + cur'.filesz <= pos'
    <2>1. cur'.start = st
      BY <1>1 DEF st
    <2>. QED  BY <1>3, <1>5, <1>7, <1>8, <1>16, <1>25, <2>1
  <1>29. cur'.next <= Len(Seg.members) /\ (\A j \in Passed' : secs'[j].alloc) => cur'.memsz = cur'.filesz
    <2>. SUFFICES ASSUME cur'.next <= Len(Seg.members), \A j \in Passed' : secs'[j].alloc
                  PROVE  cur'.memsz = cur'.filesz
      OBVIOUS
    <2>1. ~NoBits(i) /\ x.alloc /\ InMemory(i)
      BY <1>1, <1>2, <1>5 DEF InMemory
    <2>2. InImage(x)
      BY <1>18, <2>1 DEF InImage
    <2>. QED  BY <1>20, <1>21, <2>1, <2>2
  <1>30. MemberSet(Seg') # {} /\ (cur'.start - Seg'.vaddr) % One(Seg'.align) = 0
    BY <1>1, <1>6 DEF st, v
  <1>. QED  BY <1>1, <1>24, <1>27, <1>28, <1>29, <1>30 DEF AtHand

LEMMA AtHandKept ==
    ASSUME Typed, Placed, RoomInFile, RoomInMemory, RoomInImage, Complete, LargerFirst, StillOwed, Sourced,
           Once, AllSettled, AtHand, Rooted, StillSorted, StillGiven, StillBehind, StillTied, [Next]_vars
    PROVE  AtHand'
  <1>1. CASE pc' # "sections"
    BY <1>1 DEF AtHand
  <1>2. CASE StartSegment
    BY <1>2, StartEmpty, StartAlone, StartWithin
  <1>3. CASE WriteSection /\ pc' # "failed"
    <2>1. pc = "sections" /\ MemberSet(Seg) # {}
      BY <1>3, AtMember
    <2>2. Alone \/ (Finished(cur.seg) /\ \E t \in LaidOut : Within(t))
      BY <2>1 DEF AtHand
    <2>3. CASE Alone
      BY <1>3, <2>3, WroteAlone
    <2>4. CASE Finished(cur.seg) /\ \E t \in LaidOut : Within(t)
      <3>1. PICK t \in LaidOut : Within(t)
        BY <2>4
      <3>. QED  BY <1>3, <2>4, <3>1, WroteWithin
    <2>. QED  BY <2>2, <2>3, <2>4
  <1>4. CASE UNCHANGED vars
    <2>1. /\ UNCHANGED <<secs, segs, pos, pc, queue, generated, cur>>
      BY <1>4 DEF vars
    <2>2. UNCHANGED <<Seg, LaidOut, Now, Passed>>
      BY <2>1 DEF Seg, LaidOut, Now, MemorySize, Passed, PassedOf, Seg
    <2>. QED  BY <2>1, <2>2 DEF AtHand, Alone, Within, Finished, Lead
  <1>5. pc' # "sections" \/ StartSegment \/ (WriteSection /\ pc' # "failed") \/ UNCHANGED vars
    BY DEF Next, Save, Done, BeginSave, OrderSegment, EndOrder, EndSegment, EndSegments, PlaceLoose,
           WriteFile, Load, Keep
  <1>. QED  BY <1>1, <1>2, <1>3, <1>4, <1>5

\* What the segment at hand holds in the end.
LEMMA AtLast ==
    ASSUME Typed, Complete, AllSettled, AtHand, EndSegment
    PROVE  /\ MemberSet(Seg) \subseteq generated
           /\ MemberSet(Seg) # {} => Well(secs, segs, Now, MemberSet(Seg))
           /\ Clear(secs, generated, Now)
  <1>1. /\ pc = "sections" /\ cur.next > Len(Seg.members) /\ cur.seg \in DOMAIN segs
    BY EndSegmentIs DEF EndSegment
  <1>2. /\ DOMAIN Seg.members = 1 .. Len(Seg.members) /\ Len(Seg.members) \in Nat /\ cur.next \in Nat
    BY <1>1, SegmentIs DEF Seg, Typed
  <1>3. Passed = MemberSet(Seg)
    BY <1>1, <1>2 DEF Passed, PassedOf, MemberSet, ToSet
  <1>4. Passed \subseteq generated
    BY <1>1 DEF Complete, Passed, PassedOf
  <1>5. MemberSet(Seg) # {} => Well(secs, segs, Now, MemberSet(Seg))
    BY <1>1, <1>3 DEF AtHand
  <1>6. /\ Now.vaddr = Seg.vaddr /\ Now.offset = cur.start /\ Now.filesz = cur.filesz
        /\ Seg.vaddr \in Nat /\ cur.start \in Nat /\ cur.filesz \in Nat /\ pos \in Nat
    BY <1>1, NowIs
  <1>7. Clear(secs, generated, Now)
    <2>1. CASE MemberSet(Seg) = {}
      BY <1>1, <2>1 DEF AtHand
    <2>2. CASE Alone
      BY <1>6, <2>2 DEF Alone, Clear
    <2>3. CASE MemberSet(Seg) # {} /\ \E t \in LaidOut : Within(t)
      <3>1. PICK t \in LaidOut : Within(t)
        BY <2>3
      <3>. DEFINE h == segs[t]
      <3>2. t \in DOMAIN segs /\ h.vaddr \in Nat /\ h.offset \in Nat /\ h.filesz \in Nat
        BY <3>1, LaidOutIs, SegmentIs
      <3>3. Well(secs, segs, h, MemberSet(h)) /\ Clear(secs, generated, h)
        BY <3>1 DEF AllSettled, Settled
      <3>4. /\ MemberSet(Seg) \subseteq MemberSet(h) /\ Seg.vaddr - h.vaddr = cur.start - h.offset
            /\ h.offset <= cur.start /\ cur.start + cur.filesz <= h.offset + h.filesz
        BY <3>1 DEF Within
      <3>. SUFFICES ASSUME NEW i \in generated, Weighs(secs[i])
                    PROVE  \/ secs[i].offset + secs[i].size <= Now.offset
                           \/ Now.offset + Now.filesz <= secs[i].offset
                           \/ Same(Now, secs[i])
        BY DEF Clear
      <3>5. secs[i].offset \in Nat /\ secs[i].size \in Nat /\ secs[i].addr \in Nat
        BY SectionIs DEF Typed
      <3>6. \/ secs[i].offset + secs[i].size <= h.offset
            \/ h.offset + h.filesz <= secs[i].offset
            \/ Same(h, secs[i])
        BY <3>3 DEF Clear
      <3>7. CASE Same(h, secs[i])
        BY <1>6, <3>2, <3>4, <3>5, <3>7 DEF Same
      <3>8. CASE h.offset + h.filesz <= secs[i].offset
        <4>. HIDE DEF h
        <4>. QED  BY <1>6, <3>2, <3>4, <3>5, <3>8
      <3>9. CASE secs[i].offset + secs[i].size <= h.offset
        <4>. HIDE DEF h
        <4>. QED  BY <1>6, <3>2, <3>4, <3>5, <3>9
      <3>. QED  BY <3>6, <3>7, <3>8, <3>9
    <2>. QED  BY <1>1, <2>1, <2>2, <2>3 DEF AtHand
  <1>. QED  BY <1>3, <1>4, <1>5, <1>7

LEMMA SettledAtLast ==
    ASSUME Typed, Complete, Once, AllSettled, AtHand, EndSegment
    PROVE  AllSettled'
  <1>1. /\ pc = "sections" /\ pc' = "segments" /\ UNCHANGED <<secs, pos, queue, generated>>
    BY DEF EndSegment
  <1>2. /\ cur.seg \in DOMAIN segs /\ DOMAIN segs' = DOMAIN segs /\ segs'[cur.seg].members = Seg.members
        /\ segs'[cur.seg].vaddr = Seg.vaddr /\ segs'[cur.seg].align = Seg.align
        /\ segs'[cur.seg].offset = cur.start /\ segs'[cur.seg].filesz = cur.filesz
        /\ segs'[cur.seg].memsz = MemorySize(Seg.memsz)
        /\ \A s \in DOMAIN segs : s # cur.seg => segs'[s] = segs[s]
        /\ Now.vaddr = Seg.vaddr /\ Now.align = Seg.align
        /\ Now.offset = cur.start /\ Now.filesz = cur.filesz /\ Now.memsz = MemorySize(Seg.memsz)
    BY EndSegmentWhole
  <1>3. Typed' /\ Indices' = Indices /\ Grown(segs, segs')
    <2>1. Typed' /\ Indices' = Indices
      BY TypedKept DEF Next, Save
    <2>. QED  BY <1>1, <2>1, EarlyStep DEF Next, Save, Early, BeginSave
  <1>4. LaidOut' = LaidOut \cup {cur.seg} /\ cur.seg \notin LaidOut
    BY <1>1, <1>2 DEF LaidOut, Once
  <1>5. Limit' = Limit /\ Limit = pos /\ pos \in Nat
    BY <1>1 DEF Limit, Typed
  <1>6. ASSUME NEW s \in LaidOut PROVE Settled(secs', segs', generated', segs'[s], Limit')
    <2>1. s \in DOMAIN segs /\ segs'[s] = segs[s]
      BY <1>2, <1>4, LaidOutIs
    <2>2. generated \subseteq generated' /\ (\A i \in generated : secs'[i] = secs[i])
          /\ generated' \ generated = {}
      BY <1>1
    <2>3. Limit <= Limit'
      BY <1>5
    <2>. QED  BY <1>3, <2>1, <2>2, <2>3, SettledKept
  <1>. DEFINE g == segs'[cur.seg]
  <1>7. Settled(secs', segs', generated', g, Limit')
    <2>1. /\ MemberSet(Seg) \subseteq generated
          /\ MemberSet(Seg) # {} => Well(secs, segs, Now, MemberSet(Seg))
          /\ Clear(secs, generated, Now)
      BY AtLast
    <2>2. MemberSet(g) = MemberSet(Seg)
      BY <1>2 DEF MemberSet
    <2>3. /\ cur.start + cur.filesz <= pos
          /\ MemberSet(Seg) # {} => (cur.start - Seg.vaddr) % One(Seg.align) = 0
      BY <1>1 DEF AtHand
    <2>. HIDE DEF g
    <2>4. Counts(secs, segs) /\ DOMAIN secs = Indices /\ Counts(secs', segs') /\ generated \subseteq Indices
      BY <1>3, CountsIs, CountsOf DEF Typed, Indices
    <2>5. Well(secs', segs', g, MemberSet(g))
      <3>1. CASE MemberSet(Seg) = {}
        BY <2>2, <3>1 DEF Well
      <3>2. CASE MemberSet(Seg) # {}
        <4>1. MemberSet(Seg) \subseteq DOMAIN secs /\ \A i \in MemberSet(Seg) : secs'[i] = secs[i]
          BY <1>1, <2>1, <2>4
        <4>2. Well(secs', segs', Now, MemberSet(Seg))
          BY <1>3, <2>1, <2>4, <3>2, <4>1, WellStays
        <4>. QED  BY <1>2, <2>2, <4>2, WellOf DEF g
      <3>. QED  BY <3>1, <3>2
    <2>6. Clear(secs', generated', g)
      BY <1>1, <1>2, <2>1, ClearOf DEF g
    <2>7. /\ MemberSet(g) # {} => (g.offset - g.vaddr) % One(g.align) = 0
          /\ g.offset + g.filesz <= Limit'
      BY <1>2, <1>5, <2>2, <2>3 DEF g
    <2>. QED  BY <1>1, <2>1, <2>2, <2>5, <2>6, <2>7, Zenon DEF Settled
  <1>8. \A s \in LaidOut' : Settled(secs', segs', generated', segs'[s], Limit')
    BY <1>4, <1>6, <1>7
  <1>. QED  BY <1>8, Zenon DEF AllSettled

LEMMA MapInvInit == Init => MapInv
  <1>. SUFFICES ASSUME Init PROVE MapInv
    OBVIOUS
  <1>1. pc = "built"
    BY DEF Init
  <1>. QED  BY <1>1 DEF MapInv, Once, AllSettled, LaidOut, AtHand, Rooted, StillSorted, StillGiven,
                        StillBehind, StillTied, Early

LEMMA MapInvKept ==
    ASSUME LayInv, RefusalInv, MapInv, RoomInFile, RoomInMemory, RoomInImage, Owed, MapOwed, [Next]_vars
    PROVE  MapInv'
  <1>1. /\ Typed /\ Placed /\ Complete /\ LargerFirst /\ StillOwed /\ Sourced /\ Fresh
        /\ Once /\ AllSettled /\ AtHand /\ Rooted /\ StillSorted /\ StillGiven /\ StillBehind /\ StillTied
    BY DEF LayInv, RefusalInv, MapInv
  <1>2. Once' /\ Rooted' /\ StillSorted' /\ StillGiven' /\ StillBehind'
    BY <1>1, OnceKept, RootedKept, StillSortedKept, StillGivenKept, StillBehindKept
  <1>3. StillTied'
    BY <1>1, StillTiedKept
  <1>4. AtHand'
    BY <1>1, AtHandKept
  <1>5. AllSettled'
    BY <1>1, AllSettledKept, SettledAtLast
  <1>. QED  BY <1>2, <1>3, <1>4, <1>5 DEF MapInv

\* Of a saved file all segments are laid out.
LEMMA SettledLoadable ==
    ASSUME Typed, Complete, AllSettled
    PROVE  Loadable
  <1>. SUFFICES ASSUME Saved
                PROVE  /\ \A p \in Members : LET g == segs[p[1]]  i == secs[p[2]]
                                             IN  Covers(g, i) /\ SameDistance(g, i)
                       /\ \A s \in DOMAIN segs : MemberSet(segs[s]) # {} => Congruent(segs[s])
    BY DEF Loadable
  <1>1. LaidOut = DOMAIN segs
    BY ToSetOfEmpty DEF Saved, Complete, LaidOut
  <1>2. ASSUME NEW s \in DOMAIN segs, NEW j \in MemberSet(segs[s])
        PROVE  Covers(segs[s], secs[j]) /\ SameDistance(segs[s], secs[j])
    <2>1. Fits(secs, segs, segs[s], j)
      BY <1>1, <1>2 DEF AllSettled, Settled, Well
    <2>2. j \in Indices
      BY <1>2, FirstIs
    <2>3. /\ secs[j].addr \in Nat /\ secs[j].size \in Nat /\ secs[j].offset \in Nat
          /\ segs[s].vaddr \in Nat /\ segs[s].offset \in Nat
      BY <1>2, <2>2, SectionIs, SegmentIs
    <2>4. secs[j].alloc \in BOOLEAN /\ secs[j].tls \in BOOLEAN
      BY <2>2, SectionIs DEF SectionHeaders
    <2>. QED  BY <2>1, <2>3, <2>4 DEF Fits, Covers, SameDistance, Bits, InImage, Same
  <1>3. ASSUME NEW s \in DOMAIN segs, MemberSet(segs[s]) # {} PROVE Congruent(segs[s])
    <2>1. (segs[s].offset - segs[s].vaddr) % One(segs[s].align) = 0
      BY <1>1, <1>3 DEF AllSettled, Settled
    <2>2. One(segs[s].align) = Max({1, segs[s].align})
      BY SegmentIs, OneIs
    <2>. QED  BY <2>1, <2>2, Zenon DEF Congruent
  <1>. QED  BY <1>2, <1>3 DEF Members

\* A section is null, and then empty, has bits or has none.
Plain == \A i \in Indices : /\ secs[i].type \in {"NULL", "BITS", "NOBITS"}
                            /\ Null(i) => secs[i].size = 0

LEMMA AsProgBitsIs ==
    ASSUME Typed, Plain, NEW i \in Indices
    PROVE  LET x == secs[i]  y == AsProgBits[i]
           IN  /\ DOMAIN AsProgBits = Indices
               /\ y.offset = x.offset /\ y.size = x.size /\ y.addr = x.addr
               /\ y.type \in {"NULL", "PROGBITS", "NOBITS"}
               /\ y.type = "PROGBITS" => Bits(x) /\ ~Null(i)
               /\ ~NoBits(i) /\ y.size > 0 => WithBits(i)
               /\ NoBits(i) => y.type = "NOBITS"
  <1>1. secs[i] \in SectionHeaders /\ DOMAIN secs = Indices /\ secs[i].size \in Nat
    BY SectionIs DEF Typed
  <1>2. secs[i].type \in {"NULL", "BITS", "NOBITS"} /\ (Null(i) => secs[i].size = 0)
    BY DEF Plain
  <1>3. AsProgBits[i] = IF secs[i].type = "BITS" THEN [secs[i] EXCEPT !.type = "PROGBITS"] ELSE secs[i]
    BY <1>1 DEF AsProgBits
  <1>4. DOMAIN AsProgBits = Indices
    BY <1>1 DEF AsProgBits
  <1>. QED  BY <1>1, <1>2, <1>3, <1>4 DEF SectionHeaders, Bits, Null, NoBits, WithBits

LEMMA InFileIs ==
    ASSUME Typed, Plain, NEW i \in Indices, Validate!InFile(AsProgBits[i])
    PROVE  WithBits(i)
  <1>1. /\ AsProgBits[i].type \in {"NULL", "PROGBITS", "NOBITS"}
        /\ ~NoBits(i) /\ AsProgBits[i].size > 0 => WithBits(i)
        /\ NoBits(i) => AsProgBits[i].type = "NOBITS"
    BY AsProgBitsIs
  <1>2. AsProgBits[i].size > 0 /\ ~Validate!TakenForNoBits(AsProgBits[i])
    BY DEF Validate!InFile
  <1>3. ASSUME AsProgBits[i].type = "NOBITS" PROVE Validate!TakenForNoBits(AsProgBits[i])
    BY <1>3 DEF Validate!TakenForNoBits, Validate!SHT
  <1>. QED  BY <1>1, <1>2, <1>3

LEMMA ApartMeetNot ==
    ASSUME NEW a, NEW b, a.offset \in Nat, b.offset \in Nat, a.size \in Nat, b.size \in Nat,
           a.size > 0, b.size > 0,
           a.offset + a.size <= b.offset \/ b.offset + b.size <= a.offset
    PROVE  ~Validate!Meets(a, b)
  BY DEF Validate!Meets, Validate!IsOffsetInSection

LEMMA SavedIsValid ==
    ASSUME Typed, Placed, Complete, AllSettled, Plain
    PROVE  PassesValidation
  <1>. SUFFICES ASSUME Saved PROVE Validate!Silent(AsProgBits, segs)
    BY DEF PassesValidation
  <1>1. LaidOut = DOMAIN segs /\ generated = Indices /\ DOMAIN AsProgBits = Indices
    <2>1. DOMAIN secs = Indices
      BY DEF Typed
    <2>. QED  BY <2>1, ToSetOfEmpty DEF Saved, Complete, LaidOut, Typed, AsProgBits
  <1>2. Validate!OverlapErrors(AsProgBits) = {}
    <2>. SUFFICES ASSUME NEW i \in Indices, NEW j \in Indices, i < j,
                         Validate!InFile(AsProgBits[i]), Validate!InFile(AsProgBits[j]),
                         Validate!Meets(AsProgBits[i], AsProgBits[j])
                  PROVE  FALSE
      BY <1>1 DEF Validate!OverlapErrors
    <2>1. WithBits(i) /\ WithBits(j) /\ i # j
      BY InFileIs DEF Typed, Indices
    <2>2. Apart(i, j)
      BY <1>1, <2>1 DEF Placed, Laying, Saved
    <2>3. /\ AsProgBits[i].offset = secs[i].offset /\ AsProgBits[i].size = secs[i].size
          /\ AsProgBits[j].offset = secs[j].offset /\ AsProgBits[j].size = secs[j].size
          /\ secs[i].size > 0 /\ secs[j].size > 0
      BY <2>1, AsProgBitsIs DEF WithBits
    <2>4. /\ secs[i].offset \in Nat /\ secs[i].size \in Nat /\ secs[j].offset \in Nat /\ secs[j].size \in Nat
      BY SectionIs
    <2>. QED  BY <2>2, <2>3, <2>4, ApartMeetNot DEF Apart
  <1>3. Validate!AddressErrors(AsProgBits, segs) = {}
    <2>. SUFFICES ASSUME NEW h \in DOMAIN segs, segs[h].filesz > 0,
                         NEW i \in Validate!ProgSectionForOffset(AsProgBits, segs[h].offset)
                  PROVE  Validate!GetVirtualAddr(segs[h].offset, AsProgBits[i]) = segs[h].vaddr
      BY DEF Validate!AddressErrors
    <2>. DEFINE o == segs[h].offset
    <2>1. i \in Indices /\ AsProgBits[i].type = "PROGBITS" /\ Validate!IsOffsetInSection(o, AsProgBits[i])
      <3>. DEFINE homes == {k \in DOMAIN AsProgBits :
                              AsProgBits[k].type = "PROGBITS" /\ Validate!IsOffsetInSection(o, AsProgBits[k])}
      <3>1. homes # {} /\ i = Validate!Min(homes)
        BY DEF Validate!ProgSectionForOffset
      <3>2. homes \in SUBSET Nat
        BY <1>1 DEF Typed, Indices
      <3>3. Validate!Min(homes) = Min(homes)
        BY DEF Validate!Min, Min
      <3>4. i \in homes
        <4>. HIDE DEF homes
        <4>. QED  BY <3>1, <3>2, <3>3, MinOf
      <3>. QED  BY <1>1, <3>4
    <2>2. /\ AsProgBits[i].offset = secs[i].offset /\ AsProgBits[i].size = secs[i].size
          /\ AsProgBits[i].addr = secs[i].addr /\ Bits(secs[i]) /\ ~Null(i)
      BY <2>1, AsProgBitsIs
    <2>3. /\ secs[i].offset \in Nat /\ secs[i].size \in Nat /\ secs[i].addr \in Nat
          /\ o \in Nat /\ segs[h].vaddr \in Nat /\ segs[h].filesz \in Nat
      BY <2>1, SectionIs, SegmentIs
    <2>4. secs[i].offset <= o /\ o < secs[i].offset + secs[i].size
      BY <2>1, <2>2 DEF Validate!IsOffsetInSection
    <2>5. Weighs(secs[i])
      BY <2>2, <2>3, <2>4 DEF Weighs, Null
    <2>6. Clear(secs, generated, segs[h])
      BY <1>1 DEF AllSettled, Settled
    <2>7. \/ secs[i].offset + secs[i].size <= o
          \/ o + segs[h].filesz <= secs[i].offset
          \/ Same(segs[h], secs[i])
      BY <1>1, <2>1, <2>5, <2>6 DEF Clear
    <2>8. secs[i].addr - segs[h].vaddr = secs[i].offset - o
      <3>1. CASE Same(segs[h], secs[i])
        BY <3>1 DEF Same
      <3>. HIDE DEF o
      <3>2. CASE ~Same(segs[h], secs[i])
        BY <2>3, <2>4, <2>7, <3>2
      <3>. QED  BY <3>1, <3>2
    <2>9. Validate!GetVirtualAddr(o, AsProgBits[i]) = secs[i].addr + o - secs[i].offset
      BY <2>2 DEF Validate!GetVirtualAddr
    <2>. HIDE DEF o
    <2>10. secs[i].addr + o - secs[i].offset = segs[h].vaddr
      BY <2>3, <2>8
    <2>. QED  BY <2>9, <2>10 DEF o
  <1>. QED  BY <1>2, <1>3 DEF Validate!Silent

-----------------------------------------------------------------------------
(***************************************************************************)
(* What load gives the segments back.                                      *)
(***************************************************************************)
\* load finds every section that lies in the segment.
LEMMA FoundHas ==
    ASSUME NEW g, NEW ss, Number(ss) \in Nat, NEW j \in 0 .. Number(ss) - 1, Holds(g, ss[j])
    PROVE  j \in ToSet(Found(g, ss))
  <1>. DEFINE n == Number(ss)
              T == Seq(0 .. n - 1)
              K == [i \in 0 .. n |-> {x \in T : j < i => j \in ToSet(x)}]
  <1>1. PICK w : FoundBy(w, g, ss) /\ Found(g, ss) = w[n]
    BY FoundSteps
  <1>2. w[0] \in K[0]
    BY <1>1 DEF FoundBy
  <1>3. ASSUME NEW i \in 1 .. n, w[i - 1] \in K[i - 1] PROVE w[i] \in K[i]
    <2>1. i - 1 \in 0 .. n - 1 /\ w[i - 1] \in T /\ (j < i - 1 => j \in ToSet(w[i - 1]))
      BY <1>3
    <2>2. w[i] \in T
      BY <1>1, <2>1, AppendProperties DEF FoundBy
    <2>3. ASSUME j < i PROVE j \in ToSet(w[i])
      <3>1. CASE Holds(g, ss[i - 1])
        <4>1. w[i] = Append(w[i - 1], i - 1)
          BY <1>1, <3>1 DEF FoundBy
        <4>2. ToSet(w[i]) = ToSet(w[i - 1]) \cup {i - 1}
          <5>. DEFINE S == 0 .. n - 1
          <5>1. w[i - 1] \in Seq(S) /\ i - 1 \in S
            BY <2>1
          <5>. HIDE DEF S, n
          <5>2. ToSet(Append(w[i - 1], i - 1)) = ToSet(w[i - 1]) \cup {i - 1}
            BY <5>1, AppendSet
          <5>. QED  BY <4>1, <5>2
        <4>3. j < i - 1 \/ j = i - 1
          BY <2>3
        <4>. QED  BY <2>1, <4>2, <4>3
      <3>2. CASE ~Holds(g, ss[i - 1])
        <4>1. w[i] = w[i - 1] /\ j # i - 1
          BY <1>1, <3>2 DEF FoundBy
        <4>2. j < i - 1
          BY <2>3, <4>1
        <4>. QED  BY <2>1, <4>1, <4>2
      <3>. QED  BY <3>1, <3>2
    <2>. QED  BY <2>2, <2>3
  <1>4. n \in 0 .. n /\ j < n
    OBVIOUS
  <1>5. \A i \in 0 .. n : w[i] \in K[i]
    <2>. HIDE DEF K
    <2>. QED  BY <1>2, <1>3, LoopStays
  <1>. QED  BY <1>1, <1>4, <1>5

\* Sections without bits are in memory.
BssInMemory == \A i \in Indices : NoBits(i) => secs[i].alloc

\* Of the sections a segment had in f, it still has those that take room.
Slight(x) == x.size = 0 \/ (x.tls /\ ~Bits(x))
Kept(f) ==
    \A s \in DOMAIN segs : \A i \in MemberSet(f.segs[s]) :
        i \in Indices /\ (i \in MemberSet(segs[s]) \/ Slight(secs[i]))
Returned ==
    /\ rounds \in Nat
    /\ pc = "built" /\ rounds > 0 => Kept(file)
    /\ pc \in {"order", "segments", "sections", "loose"} /\ rounds > 1 => Kept(file)
    /\ pc = "saved" /\ rounds > 1 => Kept(file.before)

LEMMA KeptStays ==
    ASSUME Indices' = Indices, DOMAIN segs' = DOMAIN segs,
           \A s \in DOMAIN segs : segs'[s].members = segs[s].members,
           \A i \in Indices : /\ secs'[i].size = secs[i].size /\ secs'[i].tls = secs[i].tls
                              /\ secs'[i].type = secs[i].type,
           NEW f, Kept(f)
    PROVE  Kept(f)'
  <1>1. \A s \in DOMAIN segs : MemberSet(segs'[s]) = MemberSet(segs[s])
    BY DEF MemberSet
  <1>2. \A i \in Indices : Slight(secs'[i]) <=> Slight(secs[i])
    BY DEF Slight, Bits
  <1>3. \A s \in DOMAIN segs' : \A i \in MemberSet(f.segs[s]) :
            i \in Indices' /\ (i \in MemberSet(segs'[s]) \/ Slight(secs'[i]))
    BY <1>1, <1>2 DEF Kept
  <1>. QED  BY <1>3, Zenon DEF Kept

\* A section that lies in its segment is one that load finds.
LEMMA FitsIsHeld ==
    ASSUME Typed, AllSettled, BssInMemory, pc = "saved", LaidOut = DOMAIN segs,
           NEW s \in DOMAIN segs, NEW i \in MemberSet(segs[s]), ~Slight(secs[i])
    PROVE  Holds(segs[s], secs[i])
  <1>1. i \in Indices /\ Fits(secs, segs, segs[s], i)
    BY FirstIs DEF AllSettled, Settled, Well
  <1>2. /\ secs[i].addr \in Nat /\ secs[i].size \in Nat /\ secs[i].offset \in Nat
        /\ secs[i].alloc \in BOOLEAN /\ secs[i].tls \in BOOLEAN
        /\ segs[s].vaddr \in Nat /\ segs[s].offset \in Nat /\ segs[s].memsz \in Nat /\ segs[s].filesz \in Nat
    BY <1>1, SectionIs, SegmentIs DEF SectionHeaders
  <1>3. secs[i].size > 0 /\ (secs[i].tls => Bits(secs[i]))
    BY <1>2 DEF Slight
  <1>4. ~Bits(secs[i]) => secs[i].alloc
    BY <1>1 DEF BssInMemory, NoBits, Bits
  <1>5. CASE secs[i].alloc
    <2>1. InImage(secs[i])
      BY <1>3, <1>5 DEF InImage
    <2>2. segs[s].vaddr <= secs[i].addr /\ secs[i].addr + secs[i].size <= segs[s].vaddr + segs[s].memsz
      BY <1>1, <1>3, <2>1 DEF Fits
    <2>. QED  BY <1>2, <1>3, <1>5, <2>2 DEF Holds, IsSectInSeg
  <1>6. CASE ~secs[i].alloc
    <2>1. segs[s].offset <= secs[i].offset /\ secs[i].offset + secs[i].size <= segs[s].offset + segs[s].filesz
      BY <1>1, <1>4, <1>6 DEF Fits
    <2>. QED  BY <1>2, <1>3, <1>6, <2>1 DEF Holds, IsSectInSeg
  <1>. QED  BY <1>5, <1>6

LEMMA ReturnedKept ==
    ASSUME Typed, Complete, AllSettled, BssInMemory, Returned, [Next]_vars
    PROVE  Returned'
  <1>0. Typed' /\ Indices' = Indices /\ DOMAIN secs = Indices
    BY TypedKept DEF Typed
  <1>. PICK f : f = file
    OBVIOUS
  <1>1. CASE BeginSave
    <2>1. /\ pc = "built" /\ pc' = "order" /\ rounds' = rounds + 1 /\ file' = file
          /\ secs' = secs /\ DOMAIN segs' = DOMAIN segs
          /\ \A s \in DOMAIN segs : segs'[s].members = segs[s].members
      BY <1>1, BeginSaveIs DEF BeginSave
    <2>2. ASSUME rounds' > 1 PROVE Kept(f)'
      <3>1. Kept(f)
        BY <2>1, <2>2 DEF Returned
      <3>. QED  BY <1>0, <2>1, <3>1, KeptStays
    <2>. QED  BY <2>1, <2>2 DEF Returned
  <1>2. CASE OrderSegment \/ EndOrder \/ StartSegment \/ (WriteSection /\ pc' # "failed") \/ EndSegment
    <2>1. /\ pc \in {"order", "segments", "sections"} /\ Early' /\ UNCHANGED <<file, rounds>> /\ ~BeginSave
      BY <1>2, WrittenIs DEF OrderSegment, EndOrder, StartSegment, WriteSection, EndSegment, Early, BeginSave
    <2>2. ASSUME rounds > 1 PROVE Kept(f)'
      <3>1. Kept(f)
        BY <2>1, <2>2 DEF Returned
      <3>. QED  BY <1>0, <2>1, <3>1, EarlyStep, KeptStays
    <2>. QED  BY <2>1, <2>2 DEF Returned, Early
  <1>3. CASE EndSegments
    <2>1. pc = "segments" /\ pc' = "loose" /\ UNCHANGED <<secs, segs, file, rounds>>
      BY <1>3 DEF EndSegments
    <2>2. ASSUME rounds > 1 PROVE Kept(f)'
      <3>1. Kept(f)
        BY <2>1, <2>2 DEF Returned
      <3>. QED  BY <1>0, <2>1, <3>1, KeptStays
    <2>. QED  BY <2>1, <2>2 DEF Returned
  <1>4. CASE PlaceLoose
    <2>1. /\ pc = "loose" /\ pc' = "loose" /\ UNCHANGED <<segs, file, rounds>>
      BY <1>4 DEF PlaceLoose
    <2>2. ASSUME NEW j \in Indices
          PROVE  secs'[j].size = secs[j].size /\ secs'[j].tls = secs[j].tls /\ secs'[j].type = secs[j].type
      <3>. DEFINE i == Min(Loose)
                  at == pos + Padding(pos, secs[i].align)
      <3>1. secs' = [secs EXCEPT ![i].offset = IF i = 0 THEN @ ELSE at]
        BY <1>4 DEF PlaceLoose
      <3>. HIDE DEF i, at
      <3>2. secs[j] \in SectionHeaders /\ secs \in [Indices -> SectionHeaders]
        BY SectionIs DEF Typed
      <3>. QED  BY <3>1, <3>2 DEF SectionHeaders
    <2>3. ASSUME rounds > 1 PROVE Kept(f)'
      <3>1. Kept(f)
        BY <2>1, <2>3 DEF Returned
      <3>. QED  BY <1>0, <2>1, <2>2, <3>1, KeptStays
    <2>. QED  BY <2>1, <2>3 DEF Returned
  <1>5. CASE WriteFile
    <2>1. /\ pc = "loose" /\ pc' = "saved" /\ UNCHANGED <<secs, segs, rounds>> /\ file'.before = f
      BY <1>5 DEF WriteFile
    <2>2. ASSUME rounds > 1 PROVE Kept(f)'
      <3>1. Kept(f)
        BY <2>1, <2>2 DEF Returned
      <3>. QED  BY <1>0, <2>1, <3>1, KeptStays
    <2>. QED  BY <2>1, <2>2 DEF Returned
  <1>6. CASE Load
    <2>1. /\ pc = "saved" /\ pc' = "built" /\ file' = file /\ rounds' = rounds
          /\ file.secs = secs /\ file.segs = segs /\ N \in Nat /\ N = Number(secs)
      BY <1>6 DEF Load, Typed, N
    <2>2. LaidOut = DOMAIN segs
      BY <2>1, ToSetOfEmpty DEF Complete, LaidOut
    <2>3. /\ secs' = [i \in Indices |-> [secs[i] EXCEPT !.set = TRUE]]
          /\ segs' = [s \in DOMAIN segs |-> [segs[s] EXCEPT !.set = TRUE, !.members = Found(segs[s], secs)]]
      BY <1>0, <1>6, <2>1 DEF Load
    <2>4. ASSUME NEW s \in DOMAIN segs, NEW i \in MemberSet(segs[s])
          PROVE  i \in Indices /\ (i \in MemberSet(segs'[s]) \/ Slight(secs'[i]))
      <3>1. i \in Indices
        BY FirstIs
      <3>2. CASE Slight(secs[i])
        <4>1. secs'[i] = [secs[i] EXCEPT !.set = TRUE] /\ secs[i] \in SectionHeaders
          BY <2>3, <3>1, SectionIs
        <4>2. secs'[i].size = secs[i].size /\ secs'[i].tls = secs[i].tls /\ secs'[i].type = secs[i].type
          BY <4>1 DEF SectionHeaders
        <4>. QED  BY <3>1, <3>2, <4>2 DEF Slight, Bits
      <3>3. CASE ~Slight(secs[i])
        <4>1. Holds(segs[s], secs[i])
          BY <2>1, <2>2, <3>3, FitsIsHeld
        <4>2. i \in ToSet(Found(segs[s], secs))
          BY <2>1, <3>1, <4>1, FoundHas DEF Indices
        <4>3. segs'[s].members = Found(segs[s], secs)
          <5>1. segs[s] \in SegmentHeaders(N)
            BY SegmentIs
          <5>. DEFINE ms == Found(segs[s], secs)
          <5>2. segs'[s] = [segs[s] EXCEPT !.set = TRUE, !.members = ms]
            BY <2>3
          <5>. HIDE DEF ms
          <5>3. segs'[s].members = ms
            BY <5>1, <5>2 DEF SegmentHeaders
          <5>. QED  BY <5>3 DEF ms
        <4>. QED  BY <3>1, <4>2, <4>3 DEF MemberSet
      <3>. QED  BY <3>2, <3>3
    <2>5. DOMAIN segs' = DOMAIN segs
      BY <2>3
    <2>6. f.segs = segs
      BY <2>1
    <2>7. Kept(f)'
      BY <1>0, <2>4, <2>5, <2>6 DEF Kept
    <2>. QED  BY <2>1, <2>7 DEF Returned
  <1>7. CASE Keep
    <2>1. /\ pc = "saved" /\ pc' = "built" /\ UNCHANGED <<secs, segs, file, rounds>> /\ f.segs = segs
      BY <1>7 DEF Keep, Typed
    <2>2. Kept(f)
      <3>1. \A s \in DOMAIN segs : MemberSet(segs[s]) \subseteq Indices
        BY FirstIs
      <3>. QED  BY <2>1, <3>1 DEF Kept
    <2>3. Kept(f)'
      BY <1>0, <2>1, <2>2, KeptStays
    <2>. QED  BY <2>1, <2>3 DEF Returned
  <1>8. CASE UNCHANGED vars
    <2>1. UNCHANGED <<secs, segs, pc, file, rounds>>
      BY <1>8 DEF vars
    <2>2. ASSUME NEW h, Kept(h) PROVE Kept(h)'
      BY <1>0, <2>1, <2>2, KeptStays
    <2>3. PICK b : b = file.before
      OBVIOUS
    <2>. QED  BY <2>1, <2>2, <2>3 DEF Returned
  <1>9. CASE WriteSection /\ pc' = "failed"
    <2>1. rounds' = rounds
      BY <1>9 DEF WriteSection
    <2>. QED  BY <1>9, <2>1 DEF Returned
  <1>. QED  BY <1>1, <1>2, <1>3, <1>4, <1>5, <1>6, <1>7, <1>8, <1>9 DEF Next, Save, Done

LEMMA ReturnedFound == Typed /\ Returned => MembersFound
  <1>. SUFFICES ASSUME Typed, Returned, SavedAgain, NEW s \in DOMAIN segs,
                       NEW i \in MemberSet(file.before.segs[s])
                PROVE  \/ i \in MemberSet(file.segs[s])
                       \/ secs[i].size = 0 \/ (secs[i].tls /\ NoBits(i))
    BY DEF MembersFound
  <1>1. file.segs = segs /\ Kept(file.before)
    BY DEF SavedAgain, Saved, Typed, Returned
  <1>. QED  BY <1>1 DEF Kept, Slight, Bits, NoBits

ImageInv == LayInv /\ RefusalInv /\ MapInv

LEMMA ImageInvInit == Init => ImageInv
  BY LayInvInit, RefusalInvInit, MapInvInit DEF ImageInv, RefusalInv

LEMMA ImageInvKept ==
    ASSUME ImageInv, RoomInFile, RoomInMemory, RoomInImage, Owed, MapOwed, [Next]_vars
    PROVE  ImageInv'
  <1>1. LayInv /\ RefusalInv /\ MapInv
    BY DEF ImageInv
  <1>2. LayInv'
    BY <1>1, LayInvKept
  <1>3. RefusalInv'
    BY <1>1, LargerFirstKept, StillOwedKept, SourcedKept, FreshKept, RefusalKept DEF LayInv, RefusalInv
  <1>4. MapInv'
    BY <1>1, MapInvKept
  <1>. QED  BY <1>2, <1>3, <1>4 DEF ImageInv

\* A loader that maps the segments of a file save has written finds every
\* section of theirs at its address, those of nested segments included: each
\* section that write_segment_data places, or finds placed by a larger segment,
\* lies in its segment, as far from its start in the file as in memory, and the
\* segment starts where its alignment allows it to be mapped.  It is so of every
\* save of an object whose segments are as RefusesForCause wants them, hold what
\* is in memory first and, when nested, start at their first section.
THEOREM LoadersFindAll ==
    Spec /\ []RoomInFile /\ []RoomInMemory /\ []RoomInImage /\ []Owed /\ []MapOwed => []Loadable
  <1>. DEFINE Room == RoomInFile /\ RoomInMemory /\ RoomInImage /\ Owed /\ MapOwed
  <1>1. ImageInv /\ Room /\ [Next]_vars => ImageInv'
    BY ImageInvKept
  <1>2. ImageInv => Loadable
    BY SettledLoadable DEF ImageInv, LayInv, MapInv
  <1>. QED  BY ImageInvInit, <1>1, <1>2, PTL DEF Spec

\* The library passes its own test: of a file save has written of such an
\* object, validate finds no two sections that overlap, though it compares the
\* ends of all of them, and no loaded segment that starts inside a section at
\* another address than its own.
THEOREM ValidatesItself ==
    /\ Spec /\ []RoomInFile /\ []RoomInMemory /\ []RoomInImage /\ []Owed /\ []MapOwed
    /\ []Plain
    => []PassesValidation
  <1>. DEFINE Room == RoomInFile /\ RoomInMemory /\ RoomInImage /\ Owed /\ MapOwed
  <1>1. ImageInv /\ Room /\ [Next]_vars => ImageInv'
    BY ImageInvKept
  <1>2. ImageInv /\ Plain => PassesValidation
    BY SavedIsValid DEF ImageInv, LayInv, MapInv
  <1>. QED  BY ImageInvInit, <1>1, <1>2, PTL DEF Spec

\* load finds again, by where they lie, all sections of a segment that save has
\* laid out, but for those that take no room; they are still its sections when
\* the object is saved once more.
THEOREM LoadFindsMembers ==
    /\ Spec /\ []RoomInFile /\ []RoomInMemory /\ []RoomInImage /\ []Owed /\ []MapOwed
    /\ []BssInMemory
    => []MembersFound
  <1>. DEFINE Room == RoomInFile /\ RoomInMemory /\ RoomInImage /\ Owed /\ MapOwed
              Inv == ImageInv /\ Returned
  <1>1. Init => Inv
    BY ImageInvInit DEF Returned, Init
  <1>2. Inv /\ Room /\ BssInMemory /\ [Next]_vars => Inv'
    <2>1. ImageInv => Typed /\ Complete /\ AllSettled
      BY DEF ImageInv, LayInv, MapInv
    <2>. QED  BY <2>1, ImageInvKept, ReturnedKept
  <1>3. Inv => MembersFound
    BY ReturnedFound DEF ImageInv, LayInv
  <1>. QED  BY <1>1, <1>2, <1>3, PTL DEF Spec
=============================================================================
