-------------------------- MODULE ElfSectionProofs --------------------------
(***************************************************************************)
(* A section never leaves its buffer on its own account: for every stream, *)
(* every sequence of calls, every size and every width of the word that    *)
(* holds the capacity.                                                     *)
(***************************************************************************)
EXTENDS ElfSection, SequenceTheorems, TLAPS

LEMMA ModSmall == \A x, n \in Nat : x < n => x % n = x
  OBVIOUS

LEMMA ModRange == \A x \in Nat, n \in Nat \ {0} : x % n \in Nat
  OBVIOUS

\* The bytes of a call, and those of a fresh buffer, are sequences of cells.
LEMMA RawIsSeq ==
    ASSUME NEW raw \in Raw
    PROVE  raw \in Seq(Cell) /\ Len(raw) \in 0 .. MaxRaw
  <1>1. PICK n \in 0 .. MaxRaw : raw \in [1 .. n -> Byte]
    BY DEF Raw
  <1>2. raw \in Seq(Byte) /\ Len(raw) = n
    BY <1>1, SectionAssumption
  <1>. QED  BY <1>1, <1>2, SeqMonotonic DEF Cell

LEMMA FillIsSeq ==
    ASSUME NEW n \in Nat
    PROVE  Fill(n) \in Seq(Cell) /\ Len(Fill(n)) = n
  <1>1. Fill(n) \in [1 .. n -> Cell]
    BY DEF Fill, Cell
  <1>. QED  BY <1>1

LEMMA BufferIsSeq == TypeOK => Buffer \in Seq(Cell) /\ Len(Buffer) \in Nat
  BY DEF TypeOK, Buffer

\* Whatever part of a sequence of cells: its length.
LEMMA Part ==
    ASSUME NEW s \in Seq(Cell), NEW m \in 1 .. Len(s) + 1, NEW n \in 0 .. Len(s), m <= n + 1
    PROVE  SubSeq(s, m, n) \in Seq(Cell) /\ Len(SubSeq(s, m, n)) = n - m + 1
  <1>1. \A i \in m .. n : s[i] \in Cell
    OBVIOUS
  <1>. QED  BY <1>1, SubSeqProperties

LEMMA Joined ==
    \A s, t \in Seq(Cell) : s \o t \in Seq(Cell) /\ Len(s \o t) = Len(s) + Len(t)
  BY ConcatProperties

\* insert_data keeps every byte of the text and adds those of the call.
LEMMA SplicedIsSeq ==
    ASSUME TypeOK, NEW raw \in Raw, NEW pos \in 0 .. size, size <= Len(Buffer)
    PROVE  Spliced(pos, raw) \in Seq(Cell) /\ Len(Spliced(pos, raw)) = size + Len(raw)
  <1>. DEFINE front == SubSeq(Buffer, 1, pos)  back == SubSeq(Buffer, pos + 1, size)
  <1>1. Buffer \in Seq(Cell) /\ Len(Buffer) \in Nat /\ size \in Nat
    BY BufferIsSeq, SectionAssumption DEF TypeOK
  <1>2. front \in Seq(Cell) /\ Len(front) = pos
    BY <1>1, Part
  <1>3. back \in Seq(Cell) /\ Len(back) = size - pos
    BY <1>1, Part
  <1>4. raw \in Seq(Cell) /\ Len(raw) \in Nat
    BY RawIsSeq, SectionAssumption
  <1>5. front \o raw \in Seq(Cell) /\ Len(front \o raw) = pos + Len(raw)
    BY <1>2, <1>4, Joined
  <1>6. (front \o raw) \o back \in Seq(Cell)
        /\ Len((front \o raw) \o back) = Len(front \o raw) + Len(back)
    <2>. HIDE DEF front, back
    <2>. QED  BY <1>3, <1>5, Joined, Zenon
  <1>7. Spliced(pos, raw) = (front \o raw) \o back
    BY DEF Spliced
  <1>8. (pos + Len(raw)) + (size - pos) = size + Len(raw)
    BY <1>1, <1>4
  <1>9. Spliced(pos, raw) \in Seq(Cell)
    BY <1>6, <1>7, Zenon
  <1>10. Len(Spliced(pos, raw)) = (pos + Len(raw)) + (size - pos)
    BY <1>3, <1>5, <1>6, <1>7, Zenon
  <1>. QED  BY <1>8, <1>9, <1>10, Zenon

\* What load_data reads, with the byte 0 behind it.
LEMMA SliceIsSeq ==
    ASSUME NEW at \in Nat, NEW n \in Nat, at + n <= Len(File)
    PROVE  /\ Slice(at, n) \in Seq(Cell) /\ Len(Slice(at, n)) = n
           /\ Append(Slice(at, n), Nul) \in Seq(Cell) /\ Len(Append(Slice(at, n), Nul)) = n + 1
  <1>1. File \in Seq(Cell) /\ Len(File) \in Nat
    BY SectionAssumption, SeqMonotonic DEF Cell
  <1>2. Slice(at, n) \in Seq(Cell) /\ Len(Slice(at, n)) = n
    BY <1>1, Part DEF Slice
  <1>. QED  BY <1>2, AppendProperties DEF Cell

LEMMA InitIInv == Init => IInv
  <1>. SUFFICES ASSUME Init PROVE IInv
    OBVIOUS
  <1>1. Len(File) \in Nat /\ MaxSize \in Nat /\ Len(<<>>) = 0 /\ <<>> \in Seq(Cell)
    BY SectionAssumption
  <1>2. TypeOK
    <2>1. op.call = "new"
      BY DEF Init
    <2>2. /\ type \in {"NULL", "NOBITS", "PROGBITS"} /\ data = NoData /\ written = <<>>
          /\ size = 0 /\ offset = 0 /\ data_size = 0 /\ stream_size = 0 /\ seen = {}
          /\ is_lazy \in BOOLEAN /\ translated \in BOOLEAN /\ overrun \in BOOLEAN
      BY DEF Init
    <2>. QED  BY <1>1, <2>1, <2>2 DEF TypeOK
  <1>3. Bare /\ Room /\ OverrunOnlyAfter /\ StreamCovers
    BY <1>1 DEF Init, Bare, Room, OverrunOnlyAfter, StreamCovers, Buffer, Unread
  <1>. QED  BY <1>2, <1>3 DEF IInv
-----------------------------------------------------------------------------
(***************************************************************************)
(* The parts the actions share.                                            *)
(***************************************************************************)
LEMMA NotedNone == \A kind : \A h \in BOOLEAN : Noted(kind, h) = {} => ~h
  BY DEF Noted

LEMMA NotedKind == \A kind : \A h \in BOOLEAN : Noted(kind, h) \subseteq {kind}
  BY DEF Noted

LEMMA StreamSize ==
    ASSUME TypeOK, NEW n \in Nat, SetStreamSize(n)
    PROVE  stream_size' \in Nat /\ (~translated => stream_size' = n)
  BY DEF SetStreamSize, TypeOK

LEMMA CallInRange ==
    ASSUME NEW r, NEW c \in {"new", "set", "insert", "resize", "get", "save"}, op' = r, r.call = c
    PROVE  op'.call \in {"new", "set", "insert", "resize", "get", "save"} /\ (c # "new" => op'.call # "new")
  OBVIOUS

-----------------------------------------------------------------------------
(***************************************************************************)
(* set_data                                                                *)
(***************************************************************************)
LEMMA SetDataStep ==
    ASSUME IInv, NEW raw \in Raw, NEW ok \in Allocation, SetData(raw, ok)
    PROVE  IInv'
  <1>1. raw \in Seq(Cell) /\ Len(raw) \in 0 .. MaxRaw /\ ok \in BOOLEAN
    BY RawIsSeq DEF Allocation
  <1>2. Len(raw) \in 0 .. MaxSize /\ 0 \in 0 .. MaxSize
    BY <1>1, SectionAssumption
  <1>3. data_size' = (IF ok THEN Len(raw) ELSE 0) /\ size' = data_size' /\ data_size' \in 0 .. MaxSize
    BY <1>1, <1>2 DEF SetData
  <1>4. stream_size' \in Nat /\ (~translated => stream_size' = data_size')
    BY <1>3, StreamSize DEF IInv, SetData, TypeOK, SetStreamSize
  <1>5. seen' = seen \cup Noted("alloc", ~ok)
    BY DEF SetData
  <1>6. op'.call = "set"
    BY DEF SetData
  <1>7. data' = IF ok THEN raw ELSE NoData
    BY DEF SetData
  <1>8. UNCHANGED <<type, offset, is_lazy, translated, written, overrun>> /\ type # "NOBITS"
    BY DEF SetData
  <1>9. TypeOK'
    <2>1. data' = NoData \/ data' \in Seq(Cell)
      BY <1>1, <1>7
    <2>2. seen' \in SUBSET {"alloc", "resize", "short", "unread", "wrap"}
      BY <1>1, <1>5, NotedKind DEF IInv, TypeOK
    <2>. QED  BY <1>3, <1>4, <1>6, <1>8, <2>1, <2>2, SectionAssumption DEF IInv, TypeOK
  <1>10. seen' = {} => ok /\ seen = {}
    BY <1>1, <1>5, NotedNone
  <1>11. Room'
    <2>1. ok => Buffer' = raw /\ data' # NoData
      BY <1>1, <1>7, SectionAssumption DEF Buffer, Cell
    <2>. QED  BY <1>3, <1>10, <1>1, <2>1 DEF Room, Unread
  <1>12. Bare' /\ OverrunOnlyAfter' /\ StreamCovers'
    BY <1>3, <1>4, <1>5, <1>6, <1>8, <1>10, <1>2 DEF IInv, TypeOK, Bare, OverrunOnlyAfter, StreamCovers
  <1>. QED  BY <1>9, <1>11, <1>12 DEF IInv

LEMMA SetDataNullStep ==
    ASSUME IInv, NEW n \in 0 .. MaxRaw, SetDataNull(n)
    PROVE  IInv'
  <1>1. n \in Nat /\ Fill(n) \in Seq(Cell) /\ Len(Fill(n)) = n /\ 0 \in 0 .. MaxSize
    BY FillIsSeq, SectionAssumption
  <1>2. data' = Fill(n) /\ data_size' = 0 /\ size' = 0 /\ seen' = seen /\ op'.call = "set"
    BY DEF SetDataNull
  <1>3. UNCHANGED <<type, offset, is_lazy, translated, written, seen, overrun>>
    BY DEF SetDataNull
  <1>4. stream_size' \in Nat
    BY StreamSize DEF IInv, SetDataNull
  <1>5. TypeOK'
    BY <1>1, <1>2, <1>3, <1>4 DEF IInv, TypeOK
  <1>6. Buffer' = Fill(n) /\ data' # NoData
    BY <1>1, <1>2, SectionAssumption DEF Buffer, Cell
  <1>7. Room' /\ Bare'
    BY <1>1, <1>2, <1>3, <1>6 DEF IInv, Room, Bare, Unread
  <1>8. OverrunOnlyAfter' /\ StreamCovers'
    BY <1>2, <1>3, <1>4 DEF IInv, OverrunOnlyAfter, StreamCovers
  <1>. QED  BY <1>5, <1>7, <1>8 DEF IInv

LEMMA SetDataNoBitsStep ==
    ASSUME IInv, SetDataNoBits
    PROVE  IInv'
  <1>1. type = "NOBITS" /\ data_size = 0 /\ size' = 0 /\ seen' = seen /\ op'.call = "set"
    BY DEF IInv, Bare, SetDataNoBits
  <1>2. UNCHANGED <<type, offset, data, data_size, is_lazy, translated, written, seen, overrun>>
    BY DEF SetDataNoBits, buffer
  <1>3. stream_size' \in Nat /\ 0 \in 0 .. MaxSize
    BY <1>1, StreamSize, SectionAssumption DEF IInv, SetDataNoBits
  <1>4. TypeOK'
    BY <1>1, <1>2, <1>3 DEF IInv, TypeOK
  <1>5. Room' /\ Bare' /\ OverrunOnlyAfter' /\ StreamCovers'
    BY <1>1, <1>2, <1>3 DEF IInv, Room, Bare, OverrunOnlyAfter, StreamCovers, Buffer, Unread
  <1>. QED  BY <1>4, <1>5 DEF IInv
-----------------------------------------------------------------------------
(***************************************************************************)
(* insert_data and append_data                                             *)
(***************************************************************************)
\* The new text fits into the buffer there is.
LEMMA InPlaceStep ==
    ASSUME IInv, NEW raw \in Raw, NEW pos \in 0 .. size, InPlace(pos, raw), type # "NOBITS"
    PROVE  /\ data' = NoData \/ data' \in Seq(Cell)
           /\ seen' = seen \cup Noted("unread", Unread)
           /\ size' = size + Len(raw) /\ data_size' = data_size
           /\ overrun' \in BOOLEAN
           /\ seen' = {} =>
                /\ seen = {} /\ ~Unread /\ ~overrun'
                /\ size' <= data_size' /\ data_size' <= Len(Buffer') /\ data' # NoData
  <1>. DEFINE n == Len(raw)
  <1>1. n \in 0 .. MaxRaw /\ size \in Nat /\ data_size \in Nat /\ Len(Buffer) \in Nat /\ Buffer \in Seq(Cell)
    BY RawIsSeq, BufferIsSeq, SectionAssumption DEF IInv, TypeOK
  <1>2. /\ size + n < data_size /\ overrun' \in BOOLEAN
        /\ size' = size + n /\ seen' = seen \cup Noted("unread", Unread) /\ data_size' = data_size
    BY DEF InPlace
  <1>2a. overrun' <=> size + n > Len(Buffer)
    BY Zenon DEF InPlace
  <1>3. seen' = {} => seen = {} /\ ~Unread
    BY <1>2, NotedNone DEF Unread, IInv, TypeOK
  <1>4. seen = {} => ~overrun' /\ data # NoData
    <2>1. seen = {} => data_size <= Len(Buffer)
      BY DEF IInv, Room
    <2>2. data = NoData => Len(Buffer) = 0
      BY DEF Buffer
    <2>. QED  BY <1>1, <1>2, <1>2a, <2>1, <2>2
  <1>5. CASE data = NoData \/ overrun'
    <2>1. data' = data
      BY <1>5 DEF InPlace
    <2>2. seen' # {}
      BY <1>3, <1>4, <1>5
    <2>. QED  BY <1>1, <1>2, <2>1, <2>2 DEF IInv, TypeOK
  <1>6. CASE data # NoData /\ ~overrun'
    <2>. DEFINE text == Spliced(pos, raw)  rest == SubSeq(data, size + n + 1, Len(data))
    <2>1. Buffer = data /\ data \in Seq(Cell) /\ size + n <= Len(data) /\ Len(data) \in Nat
      BY <1>1, <1>2a, <1>6 DEF Buffer
    <2>2. text \in Seq(Cell) /\ Len(text) = size + n
      BY <1>1, <2>1, SplicedIsSeq DEF IInv
    <2>3. rest \in Seq(Cell) /\ Len(rest) = Len(data) - (size + n)
      BY <1>1, <2>1, Part
    <2>4. data' = text \o rest
      BY <1>6 DEF InPlace
    <2>5. data' \in Seq(Cell) /\ Len(data') = Len(text) + Len(rest)
      <3>. HIDE DEF text, rest
      <3>. QED  BY <2>2, <2>3, <2>4, Joined, Zenon
    <2>6. Len(data') = Len(data)
      <3>. HIDE DEF text, rest
      <3>. QED  BY <1>1, <2>1, <2>2, <2>3, <2>5
    <2>7. data' # NoData /\ Buffer' = data'
      BY <2>5, SectionAssumption DEF Buffer, Cell
    <2>8. seen' = {} => size' <= data_size' /\ data_size' <= Len(Buffer')
      BY <1>1, <1>2, <1>3, <2>1, <2>6, <2>7 DEF IInv, Room
    <2>. QED  BY <1>2, <1>3, <1>6, <2>5, <2>7, <2>8
  <1>. QED  BY <1>5, <1>6

\* It needs a new one, of twice the size, unless the word cannot hold that.
LEMMA GrowStep ==
    ASSUME IInv, NEW raw \in Raw, NEW pos \in 0 .. size, NEW ok \in BOOLEAN,
           Grow(pos, raw, ok), type # "NOBITS"
    PROVE  /\ data' = NoData \/ data' \in Seq(Cell)
           /\ seen' \in SUBSET (seen \cup {"unread", "alloc", "wrap"}) /\ seen \subseteq seen'
           /\ size' = size + GrownBy(Len(raw), ok) /\ data_size' \in Nat
           /\ overrun' \in BOOLEAN
           /\ seen' = {} =>
                /\ seen = {} /\ ~Unread /\ ~overrun' /\ ok
                /\ size' <= data_size' /\ data_size' <= Len(Buffer') /\ data' # NoData
  <1>. DEFINE n == Len(raw)  twice == 2 * (data_size + n)  capacity == twice % Word
  <1>1. n \in Nat /\ size \in Nat /\ data_size \in Nat /\ Len(Buffer) \in Nat /\ Buffer \in Seq(Cell)
    BY RawIsSeq, BufferIsSeq, SectionAssumption DEF IInv, TypeOK
  <1>2. twice \in Nat /\ Word \in Nat \ {0}
    BY <1>1, SectionAssumption
  <1>3. capacity \in Nat /\ (twice < Word => capacity = twice)
    <2>. HIDE DEF twice
    <2>. QED  BY <1>2, ModSmall, ModRange
  <1>4. /\ data_size' = capacity /\ size' = size + GrownBy(n, ok)
        /\ overrun' \in BOOLEAN
        /\ seen' = seen \cup Noted("unread", Unread) \cup Noted("alloc", ~ok)
                        \cup Noted("wrap", twice >= Word)
    BY DEF Grow
  <1>4a. overrun' <=> ok /\ (size > Len(Buffer) \/ size + n > capacity)
    BY Zenon DEF Grow
  <1>5. seen' = {} => seen = {} /\ ~Unread /\ ok /\ twice < Word
    <2>1. Unread \in BOOLEAN /\ (~ok) \in BOOLEAN /\ (twice >= Word) \in BOOLEAN
      BY DEF Unread, IInv, TypeOK
    <2>2. seen' = {} => seen = {} /\ ~Unread /\ ok /\ ~(twice >= Word)
      <3>. HIDE DEF twice
      <3>. QED  BY <1>4, <2>1, NotedNone, Zenon
    <2>3. ~(twice >= Word) => twice < Word
      <3>. HIDE DEF twice
      <3>. QED  BY <1>2
    <2>. QED  BY <2>2, <2>3
  <1>6. seen' \in SUBSET (seen \cup {"unread", "alloc", "wrap"}) /\ seen \subseteq seen'
    BY <1>4 DEF Noted
  <1>7. seen' = {} => size <= data_size /\ data_size <= Len(Buffer)
    BY <1>5 DEF IInv, Room
  <1>8. seen' = {} => ~overrun'
    BY <1>1, <1>3, <1>4a, <1>5, <1>7
  <1>9. seen' = {} => size' = size + n /\ size + n <= capacity
    BY <1>1, <1>3, <1>4, <1>5, <1>7 DEF GrownBy
  <1>10. CASE ~ok \/ overrun'
    <2>1. data' = data
      BY <1>10 DEF Grow
    <2>2. seen' # {}
      BY <1>5, <1>8, <1>10
    <2>. QED  BY <1>3, <1>4, <1>6, <2>1, <2>2 DEF IInv, TypeOK
  <1>11. CASE ok /\ ~overrun'
    <2>. DEFINE text == Spliced(pos, raw)  rest == Fill(capacity - size - n)
    <2>1. size <= Len(Buffer) /\ size + n <= capacity /\ capacity - size - n \in Nat
      <3>. HIDE DEF capacity
      <3>. QED  BY <1>1, <1>3, <1>4a, <1>11
    <2>2. text \in Seq(Cell) /\ Len(text) = size + n
      BY <2>1, SplicedIsSeq DEF IInv
    <2>3. rest \in Seq(Cell) /\ Len(rest) = capacity - size - n
      <3>. HIDE DEF capacity
      <3>. QED  BY <2>1, FillIsSeq
    <2>4. data' = text \o rest
      BY <1>11 DEF Grow
    <2>5. data' \in Seq(Cell) /\ Len(data') = Len(text) + Len(rest)
      <3>. HIDE DEF text, rest
      <3>. QED  BY <2>2, <2>3, <2>4, Joined, Zenon
    <2>6. Len(data') = capacity
      <3>. HIDE DEF text, rest, capacity
      <3>. QED  BY <1>1, <1>3, <2>1, <2>2, <2>3, <2>5
    <2>7. data' # NoData /\ Buffer' = data'
      BY <2>5, SectionAssumption DEF Buffer, Cell
    <2>8. seen' = {} => size' <= data_size' /\ data_size' <= Len(Buffer')
      <3>. HIDE DEF capacity
      <3>. QED  BY <1>1, <1>3, <1>4, <1>9, <2>6, <2>7
    <2>. QED  BY <1>3, <1>4, <1>5, <1>6, <1>11, <2>5, <2>7, <2>8
  <1>. QED  BY <1>10, <1>11

LEMMA InsertDataStep ==
    ASSUME IInv, NEW raw \in Raw, NEW pos \in 0 .. size, NEW ok \in Allocation,
           InsertData(pos, raw, ok)
    PROVE  IInv'
  <1>1. Len(raw) \in Nat /\ size \in Nat /\ MaxSize \in Nat /\ ok \in BOOLEAN
    <2>1. ok \in BOOLEAN
      BY DEF Allocation
    <2>. QED  BY <2>1, RawIsSeq, SectionAssumption DEF IInv, TypeOK
  <1>2. /\ type # "NOBITS" /\ size + Len(raw) <= MaxSize
        /\ InPlace(pos, raw) \/ Grow(pos, raw, ok)
        /\ op'.call = "insert"
        /\ UNCHANGED <<type, offset, is_lazy, translated, written>>
    BY DEF InsertData
  <1>3. \E n \in Nat :
            n <= Len(raw) /\ size' = size + n /\ SetStreamSize(stream_size + n)
    <2>1. CASE InPlace(pos, raw)
      BY <1>1, <2>1 DEF InPlace
    <2>2. CASE Grow(pos, raw, ok)
      BY <1>1, <2>2 DEF Grow, GrownBy
    <2>. QED  BY <1>2, <2>1, <2>2
  <1>4. PICK n \in Nat : n <= Len(raw) /\ size' = size + n /\ SetStreamSize(stream_size + n)
    BY <1>3
  <1>5. stream_size \in Nat /\ stream_size' \in Nat /\ (~translated => stream_size' = stream_size + n)
    BY <1>4, StreamSize DEF IInv, TypeOK
  <1>6. /\ data' = NoData \/ data' \in Seq(Cell)
        /\ data_size' \in Nat /\ overrun' \in BOOLEAN
        /\ seen' \in SUBSET (seen \cup {"unread", "alloc", "wrap"}) /\ seen \subseteq seen'
        /\ seen' = {} =>
              /\ seen = {} /\ ~overrun' /\ data' # NoData
              /\ size' <= data_size' /\ data_size' <= Len(Buffer')
    <2>1. CASE InPlace(pos, raw)
      BY <1>2, <2>1, InPlaceStep, NotedKind DEF Noted, IInv, TypeOK
    <2>2. CASE Grow(pos, raw, ok)
      BY <1>1, <1>2, <2>2, GrowStep
    <2>. QED  BY <1>2, <2>1, <2>2
  <1>7. size' \in 0 .. MaxSize
    BY <1>1, <1>2, <1>4
  <1>8. seen' \in SUBSET {"alloc", "resize", "short", "unread", "wrap"}
    BY <1>6 DEF IInv, TypeOK
  <1>9. TypeOK'
    BY <1>2, <1>5, <1>6, <1>7, <1>8 DEF IInv, TypeOK
  <1>10. Room' /\ Bare' /\ OverrunOnlyAfter'
    BY <1>2, <1>6 DEF IInv, Room, Bare, OverrunOnlyAfter, Unread
  <1>11. StreamCovers'
    BY <1>1, <1>2, <1>4, <1>5, <1>6 DEF IInv, StreamCovers
  <1>. QED  BY <1>9, <1>10, <1>11 DEF IInv

LEMMA SetSizeStep ==
    ASSUME IInv, NEW n \in 0 .. MaxSize, SetSize(n)
    PROVE  IInv'
  <1>1. /\ size' = n /\ seen' = seen \cup Noted("resize", type # "NOBITS") /\ op'.call = "resize"
        /\ UNCHANGED <<type, offset, data, data_size, is_lazy, stream_size, translated, written, overrun>>
    BY DEF SetSize, buffer
  <1>2. seen' = {} => seen = {} /\ type = "NOBITS"
    BY <1>1, NotedNone
  <1>3. seen' \in SUBSET {"alloc", "resize", "short", "unread", "wrap"} /\ seen \subseteq seen'
    BY <1>1, NotedKind DEF IInv, TypeOK
  <1>4. TypeOK'
    BY <1>1, <1>3 DEF IInv, TypeOK
  <1>5. Room' /\ Bare' /\ OverrunOnlyAfter' /\ StreamCovers'
    BY <1>1, <1>2, <1>3 DEF IInv, Room, Bare, OverrunOnlyAfter, StreamCovers, Buffer, Unread
  <1>. QED  BY <1>4, <1>5 DEF IInv
-----------------------------------------------------------------------------
(***************************************************************************)
(* load_data, load, get_data and save                                      *)
(***************************************************************************)
\* A buffer that could be read holds the section and the byte behind it; one
\* that could not is not there, and the reason is noted.
DataLoaded(ty, at, n, limit) ==
    /\ is_lazy' = FALSE
    /\ data' = NoData \/ data' \in Seq(Cell)
    /\ data_size' \in Nat
    /\ seen \subseteq seen' /\ seen' \in SUBSET (seen \cup {"alloc", "short"})
    /\ data # NoData \/ ty # "PROGBITS" => data' = data /\ data_size' = data_size
    /\ seen' = {} /\ data = NoData => ~Misfit(ty, at, n)
    /\ seen' = {} /\ data = NoData /\ ty = "PROGBITS" /\ n < limit =>
          data_size' = n /\ data' # NoData /\ n <= Len(Buffer')

LEMMA LoadDataStep ==
    ASSUME TypeOK, NEW ty \in {"NULL", "NOBITS", "PROGBITS"}, NEW at \in Nat, NEW n \in Nat,
           NEW limit \in Nat, NEW ok \in BOOLEAN, LoadData(ty, at, n, limit, ok)
    PROVE  DataLoaded(ty, at, n, limit)
  <1>. DEFINE tried == data = NoData /\ ty \notin {"NULL", "NOBITS"} /\ n < limit
              short == tried /\ n # 0 /\ ok /\ at + n > Len(File)
  <1>1. /\ is_lazy' = FALSE
        /\ data' = IF ~tried \/ ~ok \/ short THEN data
                   ELSE IF n = 0 THEN <<Junk>> ELSE Append(Slice(at, n), Nul)
        /\ data_size' = IF ~tried \/ short THEN data_size ELSE IF ok THEN n ELSE 0
        /\ seen' = seen \cup Noted("alloc", tried /\ ~ok)
                        \cup Noted("short", data = NoData /\ Misfit(ty, at, n))
    BY DEF LoadData
  <1>2. (tried /\ ~ok) \in BOOLEAN /\ (data = NoData /\ Misfit(ty, at, n)) \in BOOLEAN
    BY DEF Misfit
  <1>3. seen' = {} => seen = {} /\ ~(tried /\ ~ok) /\ ~(data = NoData /\ Misfit(ty, at, n))
    <2>. HIDE DEF tried
    <2>. QED  BY <1>1, <1>2, NotedNone, Zenon
  <1>4. seen \subseteq seen' /\ seen' \in SUBSET (seen \cup {"alloc", "short"})
    BY <1>1 DEF Noted
  <1>5. data_size \in Nat /\ (data = NoData \/ data \in Seq(Cell)) /\ Len(File) \in Nat
    BY SectionAssumption DEF TypeOK
  <1>6. <<Junk>> \in Seq(Cell) /\ Len(<<Junk>>) = 1
    BY DEF Cell
  <1>7. CASE ~tried \/ ~ok \/ short
    <2>1. data' = data /\ (data_size' = data_size \/ data_size' = 0 \/ data_size' = n)
      BY <1>1, <1>7
    <2>2. data # NoData \/ ty # "PROGBITS" => data_size' = data_size
      BY <1>1
    <2>3. short /\ ty = "PROGBITS" => Misfit(ty, at, n)
      BY <1>5 DEF Misfit
    <2>4. ~(seen' = {} /\ data = NoData /\ ty = "PROGBITS" /\ n < limit)
      BY <1>3, <1>7, <2>3
    <2>. QED  BY <1>1, <1>3, <1>4, <1>5, <2>1, <2>2, <2>4 DEF DataLoaded
  <1>8. CASE tried /\ ok /\ ~short
    <2>1. data = NoData /\ ty = "PROGBITS" /\ data_size' = n
      BY <1>1, <1>8
    <2>2. data' \in Seq(Cell) /\ n <= Len(data')
      <3>1. CASE n = 0
        BY <1>1, <1>6, <1>8, <3>1
      <3>2. CASE n # 0
        <4>1. at + n <= Len(File)
          BY <1>5, <1>8, <3>2
        <4>2. data' = Append(Slice(at, n), Nul)
          BY <1>1, <1>8, <3>2
        <4>. QED  BY <4>1, <4>2, SliceIsSeq
      <3>. QED  BY <3>1, <3>2
    <2>3. data' # NoData /\ Buffer' = data'
      BY <2>2, SectionAssumption DEF Buffer, Cell
    <2>. QED  BY <1>1, <1>3, <1>4, <1>5, <2>1, <2>2, <2>3 DEF DataLoaded
  <1>. QED  BY <1>7, <1>8

LEMMA LoadStep ==
    ASSUME IInv, ~overrun,
           NEW ty \in {"NULL", "NOBITS", "PROGBITS"}, NEW at \in 0 .. Len(File),
           NEW n \in 0 .. MaxSize, NEW lazy \in BOOLEAN, NEW ok \in Allocation,
           Load(ty, at, n, lazy, ok)
    PROVE  IInv'
  <1>. DEFINE limit == IF translated THEN Unlimited ELSE Len(File)
  <1>1. /\ data = NoData /\ data_size = 0 /\ at \in Nat /\ n \in Nat /\ Len(File) \in Nat
        /\ MaxSize \in Nat
    BY SectionAssumption DEF Load, IInv, Bare
  <1>2. ok \in BOOLEAN
    BY DEF Allocation
  <1>3. limit \in Nat /\ Len(File) <= limit
    BY <1>1 DEF Unlimited
  <1>4. /\ type' = ty /\ offset' = at /\ size' = n /\ stream_size' = limit
        /\ UNCHANGED <<translated, written, overrun>> /\ op'.call = "set"
    BY DEF Load
  <1>5. /\ data' = NoData \/ data' \in Seq(Cell)
        /\ data_size' \in Nat /\ is_lazy' \in BOOLEAN
        /\ seen' \in SUBSET (seen \cup {"alloc", "short"})
        /\ ty # "PROGBITS" => data' = data /\ data_size' = 0
        /\ seen' = {} => ~Misfit(ty, at, n)
        /\ seen' = {} /\ ~(is_lazy' /\ data' = NoData) /\ ty = "PROGBITS" /\ n < limit =>
              data_size' = n /\ data' # NoData /\ n <= Len(Buffer')
        /\ is_lazy' => data' = NoData /\ data_size' = 0
    <2>1. CASE lazy
      <3>1. /\ is_lazy' = TRUE /\ data' = NoData /\ data_size' = 0
            /\ seen' = Noted("short", Misfit(ty, at, n))
        BY <1>1, <2>1 DEF Load
      <3>2. Misfit(ty, at, n) \in BOOLEAN
        BY DEF Misfit
      <3>3. seen' = {} => ~Misfit(ty, at, n)
        BY <3>1, <3>2, NotedNone
      <3>. QED  BY <1>1, <3>1, <3>3 DEF Noted
    <2>2. CASE ~lazy
      <3>1. LoadData(ty, at, n, limit, ok)
        BY <2>2 DEF Load
      <3>2. TypeOK
        BY DEF IInv
      <3>. HIDE DEF limit
      <3>3. DataLoaded(ty, at, n, limit)
        BY <1>1, <1>2, <1>3, <3>1, <3>2, LoadDataStep
      <3>. QED  BY <1>1, <3>3 DEF DataLoaded
    <2>. QED  BY <2>1, <2>2
  <1>6. seen' \in SUBSET {"alloc", "resize", "short", "unread", "wrap"}
    BY <1>5 DEF IInv, TypeOK
  <1>7. TypeOK'
    <2>. HIDE DEF limit
    <2>. QED  BY <1>3, <1>4, <1>5, <1>6 DEF IInv, TypeOK
  <1>8. seen' = {} => /\ ty = "NULL" => n = 0
                      /\ ty = "PROGBITS" => n < Len(File) /\ at + n <= Len(File)
    BY <1>1, <1>5 DEF Misfit
  <1>9. data' = NoData => Len(Buffer') = 0
    BY DEF Buffer
  <1>10. Room'
    <2>. HIDE DEF limit
    <2>1. seen' = {} => data_size' <= Len(Buffer')
      BY <1>1, <1>3, <1>5, <1>8, <1>9
    <2>2. seen' = {} => (type' # "NOBITS" /\ ~Unread' => size' <= data_size')
      BY <1>1, <1>3, <1>4, <1>5, <1>8 DEF Unread
    <2>3. seen' = {} => (Unread' /\ type' # "NOBITS" =>
              IF type' = "NULL" THEN size' = 0
              ELSE size' < stream_size' /\ offset' + size' <= Len(File))
      BY <1>1, <1>3, <1>4, <1>8
    <2>. QED  BY <2>1, <2>2, <2>3 DEF Room
  <1>11. Bare' /\ OverrunOnlyAfter' /\ StreamCovers'
    BY <1>1, <1>3, <1>4, <1>5, <1>8 DEF Bare, OverrunOnlyAfter, StreamCovers
  <1>. QED  BY <1>7, <1>10, <1>11 DEF IInv

LEMMA GetDataStep ==
    ASSUME IInv, NEW ok \in Allocation, GetData(ok)
    PROVE  IInv'
  <1>1. /\ UNCHANGED <<type, size, offset, stream_size, translated, written>>
        /\ op'.call = "get"
    BY DEF GetData, header
  <1>2. overrun' \in BOOLEAN /\ (overrun' => Carries /\ data' # NoData /\ size > Len(data'))
    BY Zenon DEF GetData
  <1>3. size \in Nat /\ offset \in Nat /\ stream_size \in Nat /\ data_size \in Nat
        /\ type \in {"NULL", "NOBITS", "PROGBITS"} /\ Len(Buffer) \in Nat
    BY SectionAssumption, BufferIsSeq DEF IInv, TypeOK
  <1>4. /\ data' = NoData \/ data' \in Seq(Cell)
        /\ data_size' \in Nat /\ is_lazy' \in BOOLEAN
        /\ seen \subseteq seen' /\ seen' \in SUBSET (seen \cup {"alloc", "short"})
        /\ ~Unread'
        /\ type # "PROGBITS" => data_size' = data_size
        /\ seen' = {} => data_size' <= Len(Buffer')
        /\ seen' = {} /\ type # "NOBITS" => size <= data_size'
    <2>1. CASE is_lazy
      <3>1. LoadData(type, offset, size, stream_size, ok)
        BY <2>1 DEF GetData
      <3>2. ok \in BOOLEAN
        BY DEF Allocation
      <3>2a. TypeOK
        BY DEF IInv
      <3>2b. DataLoaded(type, offset, size, stream_size)
        BY <1>3, <3>1, <3>2, <3>2a, LoadDataStep
      <3>3. /\ is_lazy' = FALSE
            /\ data' = NoData \/ data' \in Seq(Cell)
            /\ data_size' \in Nat
            /\ seen \subseteq seen' /\ seen' \in SUBSET (seen \cup {"alloc", "short"})
            /\ data # NoData \/ type # "PROGBITS" => data' = data /\ data_size' = data_size
            /\ seen' = {} /\ data = NoData /\ type = "PROGBITS" /\ size < stream_size =>
                  data_size' = size /\ data' # NoData /\ size <= Len(Buffer')
        BY <3>2b DEF DataLoaded
      <3>4. seen' = {} => seen = {}
        BY <3>3
      <3>5. CASE data = NoData /\ type = "PROGBITS"
        <4>1. seen = {} => size < stream_size
          BY <2>1, <3>5 DEF IInv, Room, Unread
        <4>2. seen' = {} => data_size' = size /\ size <= Len(Buffer')
          BY <3>3, <3>4, <3>5, <4>1
        <4>3. ~Unread'
          BY <3>3 DEF Unread
        <4>4. is_lazy' \in BOOLEAN /\ (type # "PROGBITS" => data_size' = data_size)
          BY <3>3, <3>5
        <4>5. seen' = {} => data_size' <= Len(Buffer') /\ size <= data_size'
          BY <1>3, <4>2
        <4>. QED  BY <3>3, <4>3, <4>4, <4>5, Zenon
      <3>6. CASE data # NoData \/ type # "PROGBITS"
        <4>1. Buffer' = Buffer
          BY <3>3, <3>6 DEF Buffer
        <4>2. seen = {} /\ type # "NOBITS" => size <= data_size
          BY <1>3, <2>1, <3>6 DEF IInv, Room, Unread
        <4>3. seen = {} => data_size <= Len(Buffer)
          BY DEF IInv, Room
        <4>. QED  BY <3>3, <3>4, <3>6, <4>1, <4>2, <4>3 DEF Unread
      <3>. QED  BY <3>5, <3>6
    <2>2. CASE ~is_lazy
      <3>1. UNCHANGED <<data, data_size, is_lazy, seen>>
        BY <2>2 DEF GetData, buffer
      <3>. QED  BY <2>2, <3>1 DEF IInv, TypeOK, Room, Unread, Buffer
    <2>. QED  BY <2>1, <2>2
  <1>5. seen' \in SUBSET {"alloc", "resize", "short", "unread", "wrap"}
    BY <1>4 DEF IInv, TypeOK
  <1>6. TypeOK'
    BY <1>1, <1>2, <1>4, <1>5 DEF IInv, TypeOK
  <1>7. Room' /\ Bare' /\ StreamCovers'
    BY <1>1, <1>4 DEF IInv, Room, Bare, StreamCovers
  <1>8. OverrunOnlyAfter'
    <2>1. data' # NoData => Buffer' = data' /\ Len(data') \in Nat
      BY <1>4 DEF Buffer
    <2>2. Carries => type # "NOBITS"
      BY DEF Carries
    <2>3. seen' = {} => ~overrun'
      BY <1>2, <1>3, <1>4, <2>1, <2>2
    <2>. QED  BY <2>3 DEF OverrunOnlyAfter
  <1>. QED  BY <1>6, <1>7, <1>8 DEF IInv

LEMMA SaveStep ==
    ASSUME IInv, NEW at \in 0 .. Len(File), Save(at)
    PROVE  IInv'
  <1>1. /\ UNCHANGED <<type, size, data, data_size, stream_size, translated>>
        /\ offset' = at /\ op'.call = "save"
        /\ is_lazy' = (is_lazy /\ ~Writes)
        /\ written' = IF Writes /\ ~overrun' THEN SubSeq(data, 1, size) ELSE <<>>
        /\ seen' = seen \cup Noted("unread", Unread)
    BY DEF Save
  <1>2. overrun' \in BOOLEAN /\ (overrun' <=> Writes /\ size > Len(data))
    BY Zenon DEF Save
  <1>3. Unread \in BOOLEAN /\ is_lazy' \in BOOLEAN /\ (is_lazy' => is_lazy)
    BY <1>1, Zenon DEF Unread, Writes, IInv, TypeOK
  <1>4. seen' = {} => seen = {} /\ ~Unread
    BY <1>1, <1>3, NotedNone, Zenon
  <1>5. seen' \in SUBSET {"alloc", "resize", "short", "unread", "wrap"}
    BY <1>1, NotedKind, <1>3 DEF IInv, TypeOK
  <1>6. size \in Nat /\ data_size \in Nat
    BY SectionAssumption DEF IInv, TypeOK
  <1>7. Writes => data \in Seq(Cell) /\ Buffer = data /\ Len(data) \in Nat /\ type # "NOBITS"
    BY DEF Writes, Carries, Buffer, IInv, TypeOK
  <1>8. written' \in Seq(Cell)
    <2>1. CASE Writes /\ ~overrun'
      <3>1. size <= Len(data)
        BY <1>2, <1>6, <1>7, <2>1
      <3>2. SubSeq(data, 1, size) \in Seq(Cell)
        BY <1>6, <1>7, <2>1, <3>1, Part
      <3>. QED  BY <1>1, <2>1, <3>2
    <2>2. CASE ~(Writes /\ ~overrun')
      BY <1>1, <2>2
    <2>. QED  BY <2>1, <2>2
  <1>9. TypeOK'
    BY <1>1, <1>2, <1>3, <1>5, <1>8 DEF IInv, TypeOK
  <1>10. Room' /\ Bare' /\ StreamCovers'
    BY <1>1, <1>3, <1>4 DEF IInv, Room, Bare, StreamCovers, Unread, Buffer
  <1>11. OverrunOnlyAfter'
    <2>1. seen' = {} => size <= data_size \/ type = "NOBITS"
      BY <1>4 DEF IInv, Room
    <2>2. seen' = {} => data_size <= Len(Buffer)
      BY <1>4 DEF IInv, Room
    <2>3. seen' = {} => ~overrun'
      BY <1>2, <1>6, <1>7, <2>1, <2>2
    <2>. QED  BY <2>3 DEF OverrunOnlyAfter
  <1>. QED  BY <1>9, <1>10, <1>11 DEF IInv

-----------------------------------------------------------------------------
LEMMA StepIInv == IInv /\ [Next]_vars => IInv'
  <1>. SUFFICES ASSUME IInv, [Next]_vars PROVE IInv'
    OBVIOUS
  <1>1. ASSUME Next PROVE IInv'
    <2>1. \A raw \in Raw, ok \in Allocation : SetData(raw, ok) => IInv'
      BY SetDataStep
    <2>2. \A raw \in Raw, ok \in Allocation, pos \in 0 .. size : InsertData(pos, raw, ok) => IInv'
      BY InsertDataStep
    <2>3. \A raw \in Raw, ok \in Allocation : AppendData(raw, ok) => IInv'
      <3>1. size \in 0 .. size
        BY SectionAssumption DEF IInv, TypeOK
      <3>. QED  BY <2>2, <3>1 DEF AppendData
    <2>4. \A n \in 0 .. MaxRaw : SetDataNull(n) => IInv'
      BY SetDataNullStep
    <2>5. SetDataNoBits => IInv'
      BY SetDataNoBitsStep
    <2>6. \A n \in 0 .. MaxSize : SetSize(n) => IInv'
      BY SetSizeStep
    <2>7. \A ty \in {"NULL", "NOBITS", "PROGBITS"}, at \in 0 .. Len(File), n \in 0 .. MaxSize,
             lazy \in BOOLEAN, ok \in Allocation : Load(ty, at, n, lazy, ok) => IInv'
      BY <1>1, LoadStep DEF Next
    <2>8. \A ok \in Allocation : GetData(ok) => IInv'
      BY GetDataStep
    <2>9. \A at \in 0 .. Len(File) : Save(at) => IInv'
      BY SaveStep
    <2>. QED  BY <1>1, <2>1, <2>2, <2>3, <2>4, <2>5, <2>6, <2>7, <2>8, <2>9, Zenon DEF Next
  <1>2. ASSUME UNCHANGED vars PROVE IInv'
    BY <1>2 DEF vars, header, buffer, IInv, TypeOK, Bare, Room, OverrunOnlyAfter,
                StreamCovers, Unread, Buffer
  <1>. QED  BY <1>1, <1>2

\* The strengthened invariant, from which the others below follow: it is kept by
\* every call of the interface of elfio_section.hpp.
THEOREM SectionInvariant == Spec => []IInv
  <1>. QED  BY InitIInv, StepIInv, PTL DEF Spec

\* Sizes and capacities stay numbers of their ranges, whatever is called in
\* whatever order.
THEOREM SectionTypes == Spec => []TypeOK
  <1>1. IInv => TypeOK
    BY DEF IInv
  <1>. QED  BY <1>1, SectionInvariant, PTL

\* No call of insert_data, get_data or save copies past a buffer unless an
\* allocation has failed, set_size was called, a header has led past the file,
\* the section was changed before it was read, or the capacity has wrapped:
\* for every file, all sizes and every width of the capacity.
THEOREM SectionNeverOverruns == Spec => []OverrunOnlyAfter
  <1>1. IInv => OverrunOnlyAfter
    BY DEF IInv
  <1>. QED  BY <1>1, SectionInvariant, PTL

\* The accessors for symbols and relocations may compare a section with its
\* stream_size: an undisturbed one is never larger.
THEOREM StreamSizeCovers == Spec => []StreamCovers
  <1>1. IInv => StreamCovers
    BY DEF IInv
  <1>. QED  BY <1>1, SectionInvariant, PTL
-----------------------------------------------------------------------------
(***************************************************************************)
(* ImplementsText: on an undisturbed section every call is an operation of *)
(* the string of bytes it stands for, or one that looks at it.  IInv says  *)
(* that the text is inside the buffer; what the refinement needs besides   *)
(* is that nothing has been written for a section without bytes of its     *)
(* own, nor for one that is new and may yet become one.                    *)
(***************************************************************************)
Uncopied == ~Carries \/ op.call = "new" => written = <<>>

LEMMA InitUncopied == Init => Uncopied
  BY DEF Init, Uncopied

LEMMA StepUncopied == IInv /\ Uncopied /\ [Next]_vars => Uncopied'
  <1>. SUFFICES ASSUME IInv, Uncopied, [Next]_vars PROVE Uncopied'
    OBVIOUS
  <1>1. CASE UNCHANGED vars
    BY <1>1 DEF vars, header, Uncopied, Carries
  <1>2. CASE \E ty \in {"NULL", "NOBITS", "PROGBITS"}, at \in 0 .. Len(File),
                n \in 0 .. MaxSize, lazy \in BOOLEAN, ok \in Allocation :
                Load(ty, at, n, lazy, ok)
    BY <1>2 DEF Load, Uncopied
  <1>3. CASE \E at \in 0 .. Len(File) : Save(at)
    BY <1>3 DEF Save, Writes, Uncopied, Carries
  <1>4. ASSUME UNCHANGED <<type, written>>, op'.call # "new" PROVE Uncopied'
    BY <1>4 DEF Uncopied, Carries
  <1>5. \A raw \in Raw, ok \in Allocation, pos \in Nat :
            SetData(raw, ok) \/ AppendData(raw, ok) \/ InsertData(pos, raw, ok) => Uncopied'
    BY <1>4 DEF SetData, AppendData, InsertData
  <1>6. \A n \in Nat : SetDataNull(n) \/ SetDataNoBits \/ SetSize(n) => Uncopied'
    BY <1>4 DEF SetDataNull, SetDataNoBits, SetSize
  <1>7. \A ok \in Allocation : GetData(ok) => Uncopied'
    BY <1>4 DEF GetData, header
  <1>8. size \in Nat /\ MaxRaw \in Nat /\ MaxSize \in Nat
    BY SectionAssumption DEF IInv, TypeOK
  <1>. QED  BY <1>1, <1>2, <1>3, <1>5, <1>6, <1>7, <1>8 DEF Next

LEMMA UncopiedInvariant == Spec => []Uncopied
  <1>1. IInv /\ Uncopied /\ [Next]_vars => Uncopied'
    BY StepUncopied
  <1>. QED  BY <1>1, InitUncopied, SectionInvariant, PTL DEF Spec

\* What may be passed to the string, as the refinement mapping has it.
Texts == UNION {[1 .. n -> Byte] : n \in 0 .. MaxSize}

LEMMA RawIsText == Raw \subseteq Texts
  <1>1. MaxRaw \in Nat /\ MaxSize \in Nat /\ MaxRaw <= MaxSize
    BY SectionAssumption
  <1>. QED  BY <1>1 DEF Raw, Texts

\* The three ways in which a step is one of the string's.
LEMMA StepLooks ==
    ASSUME ~Carries' \/ op' = [call |-> "get"], Content' = Content, written' = written
    PROVE  Text!TextNext
  BY DEF Text!TextNext, Text!Look

LEMMA StepReplaces ==
    ASSUME NEW raw \in Texts, Carries', op' = [call |-> "set", raw |-> raw],
           Content' = raw, written' = written
    PROVE  Text!TextNext
  BY DEF Text!TextNext, Text!Replace, Texts

LEMMA StepInserts ==
    ASSUME NEW raw \in Texts, NEW pos \in 0 .. Len(Content), Carries',
           op' = [call |-> "insert", pos |-> pos, raw |-> raw],
           Content' = Text!Inserted(Content, pos, raw), written' = written
    PROVE  Text!TextNext
  BY DEF Text!TextNext, Text!InsertAt, Texts

\* A section that carries no bytes is the empty string.
LEMMA NothingCarried == ~Carries => Content = <<>>
  BY DEF Content

\* What IInv says of an undisturbed section that carries bytes.
LEMMA Undisturbed ==
    ASSUME IInv, seen = {}, Carries
    PROVE  /\ type = "PROGBITS" /\ size \in Nat /\ Buffer \in Seq(Cell)
           /\ ~Unread => /\ size <= Len(Buffer) /\ Content = SubSeq(Buffer, 1, size)
                         /\ Content \in Seq(Cell) /\ Len(Content) = size
           /\ Unread => /\ offset \in Nat /\ size < stream_size /\ offset + size <= Len(File)
                        /\ Content = Slice(offset, size)
  <1>1. type = "PROGBITS" /\ size \in Nat /\ offset \in Nat /\ data_size \in Nat
    BY SectionAssumption DEF IInv, TypeOK, Carries
  <1>2. Buffer \in Seq(Cell) /\ Len(Buffer) \in Nat
    BY BufferIsSeq DEF IInv
  <1>3. ~Unread => size <= Len(Buffer) /\ Content = SubSeq(Buffer, 1, size)
    BY <1>1, <1>2 DEF IInv, Room, Content
  <1>4. ~Unread => Content \in Seq(Cell) /\ Len(Content) = size
    BY <1>1, <1>2, <1>3, Part
  <1>5. Unread => size < stream_size /\ offset + size <= Len(File) /\ Content = Slice(offset, size)
    BY <1>1 DEF IInv, Room, Content
  <1>. QED  BY <1>1, <1>2, <1>3, <1>4, <1>5

\* The front of a sequence.
LEMMA Front ==
    ASSUME NEW s \in Seq(Cell), NEW t \in Seq(Cell)
    PROVE  SubSeq(s \o t, 1, Len(s)) = s
  <1>1. CASE s = <<>>
    <2>1. Len(s) = 0
      BY <1>1
    <2>. QED  BY <1>1, <2>1, SubSeqEmpty
  <1>2. CASE s # <<>>
    <2>1. Len(s) \in 1 .. Len(s)
      BY <1>2
    <2>2. SubSeq(s \o t, 1, Len(s)) = SubSeq(s, 1, Len(s))
      BY <2>1, SubSeqOfConcat1
    <2>. QED  BY <2>2, SubSeqFull
  <1>. QED  BY <1>1, <1>2

\* A part of the front is that part of the whole.
LEMMA PartOfFront ==
    ASSUME NEW s \in Seq(Cell), NEW n \in 0 .. Len(s), NEW a \in 1 .. n + 1, NEW b \in a - 1 .. n
    PROVE  SubSeq(SubSeq(s, 1, n), a, b) = SubSeq(s, a, b)
  <1>1. CASE b = a - 1
    BY <1>1, SubSeqEmpty
  <1>2. CASE b >= a
    <2>1. /\ 1 \in 1 .. Len(s) /\ n \in 1 .. Len(s)
          /\ a \in 1 .. n - 1 + 1 /\ b \in 1 .. n - 1 + 1
          /\ 1 + a - 1 = a /\ 1 + b - 1 = b
      BY <1>2
    <2>. QED  BY <2>1, SubSeqOfSubSeq
  <1>. QED  BY <1>1, <1>2

\* Spliced is what the string calls Inserted.
LEMMA SplicedIsInserted ==
    ASSUME IInv, seen = {}, Carries, ~Unread, NEW raw \in Raw, NEW pos \in 0 .. size
    PROVE  Spliced(pos, raw) = Text!Inserted(Content, pos, raw)
  <1>1. /\ size \in Nat /\ Buffer \in Seq(Cell) /\ size \in 0 .. Len(Buffer)
        /\ Content = SubSeq(Buffer, 1, size) /\ Len(Content) = size
    BY Undisturbed
  <1>2. SubSeq(Content, 1, pos) = SubSeq(Buffer, 1, pos)
    BY <1>1, PartOfFront
  <1>3. SubSeq(Content, pos + 1, size) = SubSeq(Buffer, pos + 1, size)
    BY <1>1, PartOfFront
  <1>. QED  BY <1>1, <1>2, <1>3, Zenon DEF Spliced, Text!Inserted
-----------------------------------------------------------------------------
LEMMA SetDataIsText ==
    ASSUME IInv, NEW raw \in Raw, NEW ok \in Allocation, SetData(raw, ok), seen' = {}
    PROVE  Text!TextNext
  <1>1. /\ data' = (IF ok THEN raw ELSE NoData) /\ data_size' = (IF ok THEN Len(raw) ELSE 0)
        /\ size' = data_size' /\ seen' = seen \cup Noted("alloc", ~ok)
        /\ op' = [call |-> "set", raw |-> raw] /\ UNCHANGED <<type, written>>
    BY DEF SetData
  <1>2. ok /\ seen = {}
    BY <1>1, NotedNone DEF Allocation
  <1>3. raw \in Seq(Cell) /\ raw # NoData /\ raw \in Texts
    BY RawIsSeq, RawIsText, SectionAssumption DEF Cell
  <1>4. Content' = IF Carries THEN raw ELSE <<>>
    <2>1. data' = raw /\ size' = Len(raw) /\ data' # NoData
      BY <1>1, <1>2, <1>3
    <2>2. Buffer' = raw /\ ~Unread' /\ (Carries' <=> Carries)
      BY <1>1, <2>1 DEF Buffer, Unread, Carries
    <2>3. SubSeq(raw, 1, Len(raw)) = raw
      BY <1>3, SubSeqFull
    <2>. QED  BY <2>1, <2>2, <2>3 DEF Content
  <1>5. CASE Carries
    <2>1. Carries'
      BY <1>1, <1>5 DEF Carries
    <2>. QED  BY <1>1, <1>3, <1>4, <1>5, <2>1, StepReplaces
  <1>6. CASE ~Carries
    <2>1. ~Carries'
      BY <1>1, <1>6 DEF Carries
    <2>. QED  BY <1>1, <1>4, <1>6, <2>1, StepLooks, NothingCarried
  <1>. QED  BY <1>5, <1>6

LEMMA SetDataNullIsText ==
    ASSUME IInv, NEW n \in 0 .. MaxRaw, SetDataNull(n), seen' = {}
    PROVE  Text!TextNext
  <1>1. /\ data' = Fill(n) /\ size' = 0 /\ op' = [call |-> "set", raw |-> <<>>]
        /\ UNCHANGED <<type, written>>
    BY DEF SetDataNull
  <1>2. Content' = <<>>
    <2>1. Fill(n) # NoData
      BY FillIsSeq, SectionAssumption DEF Cell
    <2>2. ~Unread' /\ SubSeq(Buffer', 1, 0) = <<>>
      BY <1>1, <2>1, SubSeqEmpty DEF Unread
    <2>. QED  BY <1>1, <2>2 DEF Content
  <1>3. <<>> \in Texts
    <2>1. <<>> \in [1 .. 0 -> Byte] /\ 0 \in 0 .. MaxSize
      BY SectionAssumption
    <2>. QED  BY <2>1 DEF Texts
  <1>4. CASE Carries
    <2>1. Carries'
      BY <1>1, <1>4 DEF Carries
    <2>. QED  BY <1>1, <1>2, <1>3, <2>1, StepReplaces
  <1>5. CASE ~Carries
    <2>1. ~Carries'
      BY <1>1, <1>5 DEF Carries
    <2>. QED  BY <1>1, <1>2, <1>5, <2>1, StepLooks, NothingCarried
  <1>. QED  BY <1>4, <1>5

\* The calls that concern no bytes.
LEMMA SetDataNoBitsIsText ==
    ASSUME IInv, SetDataNoBits, seen' = {}
    PROVE  Text!TextNext
  <1>1. ~Carries /\ ~Carries' /\ written' = written
    BY DEF SetDataNoBits, Carries
  <1>. QED  BY <1>1, StepLooks DEF Content

LEMMA SetSizeIsText ==
    ASSUME IInv, NEW n \in 0 .. MaxSize, SetSize(n), seen' = {}
    PROVE  Text!TextNext
  <1>1. seen' = seen \cup Noted("resize", type # "NOBITS") /\ UNCHANGED <<type, written>>
    BY DEF SetSize
  <1>2. type = "NOBITS"
    BY <1>1, NotedNone
  <1>3. ~Carries /\ ~Carries'
    BY <1>1, <1>2 DEF Carries
  <1>. QED  BY <1>1, <1>3, StepLooks DEF Content

-----------------------------------------------------------------------------
\* insert_data: the old buffer or a new one begins with the spliced text.
LEMMA SplicedInFront ==
    ASSUME IInv, NEW raw \in Raw, NEW pos \in 0 .. size, NEW ok \in BOOLEAN, type # "NOBITS",
           InPlace(pos, raw) \/ Grow(pos, raw, ok), seen' = {}
    PROVE  /\ size' = size + Len(raw) /\ data' # NoData
           /\ Spliced(pos, raw) \in Seq(Cell) /\ Len(Spliced(pos, raw)) = size + Len(raw)
           /\ SubSeq(data', 1, size') = Spliced(pos, raw)
  <1>. DEFINE n == Len(raw)  capacity == (2 * (data_size + n)) % Word
              text == Spliced(pos, raw)
  <1>1. n \in Nat /\ size \in Nat /\ data_size \in Nat /\ Buffer \in Seq(Cell) /\ Len(Buffer) \in Nat
    BY RawIsSeq, BufferIsSeq, SectionAssumption DEF IInv, TypeOK
  <1>2. CASE InPlace(pos, raw)
    <2>. DEFINE rest == SubSeq(data, size + n + 1, Len(data))
    <2>1. /\ size' = size + n /\ size + n < data_size /\ data_size' = data_size
          /\ seen = {} /\ ~overrun' /\ data' # NoData
      BY <1>2, InPlaceStep, SectionAssumption DEF InPlace
    <2>2. (overrun' <=> size + n > Len(Buffer)) /\ (data = NoData \/ overrun' => data' = data)
          /\ (~(data = NoData \/ overrun') => data' = text \o rest)
      BY <1>2, Zenon DEF InPlace
    <2>3. size + n <= Len(Buffer) /\ data # NoData /\ data' = text \o rest
      <3>. HIDE DEF text, rest
      <3>1. data # NoData /\ ~(size + n > Len(Buffer)) /\ data' = text \o rest
        BY <2>1, <2>2, Zenon
      <3>. QED  BY <1>1, <3>1
    <2>4. text \in Seq(Cell) /\ Len(text) = size + n
      BY <1>1, <2>3, SplicedIsSeq DEF IInv
    <2>5. rest \in Seq(Cell)
      <3>1. data = Buffer
        BY <2>3 DEF Buffer
      <3>. QED  BY <1>1, <2>3, <3>1, Part
    <2>. HIDE DEF text, rest
    <2>. QED  BY <2>1, <2>3, <2>4, <2>5, Front DEF text
  <1>3. CASE Grow(pos, raw, ok)
    <2>. DEFINE rest == Fill(capacity - size - n)
    <2>1. /\ size' = size + GrownBy(n, ok) /\ seen = {} /\ ~Unread /\ ~overrun' /\ ok /\ data' # NoData
          /\ data_size' \in Nat /\ size' <= data_size'
      BY <1>3, GrowStep
    <2>2. data_size' = capacity /\ (overrun' <=> ok /\ (size > Len(Buffer) \/ size + n > capacity))
          /\ (~(~ok \/ overrun') => data' = text \o rest)
      BY <1>3, Zenon DEF Grow
    <2>3. size' = size + n
      BY <1>1, <2>1 DEF GrownBy
    <2>. HIDE DEF capacity
    <2>4. size <= Len(Buffer) /\ capacity - size - n \in Nat /\ data' = text \o rest
      BY <1>1, <2>1, <2>2, <2>3
    <2>5. text \in Seq(Cell) /\ Len(text) = size + n
      BY <1>1, <2>4, SplicedIsSeq DEF IInv
    <2>6. rest \in Seq(Cell)
      BY <2>4, FillIsSeq
    <2>. HIDE DEF text, rest
    <2>. QED  BY <2>1, <2>3, <2>4, <2>5, <2>6, Front DEF text
  <1>. QED  BY <1>2, <1>3

LEMMA InsertDataIsText ==
    ASSUME IInv, NEW raw \in Raw, NEW pos \in 0 .. size, NEW ok \in Allocation,
           InsertData(pos, raw, ok), seen' = {}
    PROVE  Text!TextNext
  <1>1. /\ type # "NOBITS"
        /\ InPlace(pos, raw) \/ Grow(pos, raw, ok)
        /\ op' = [call |-> "insert", pos |-> pos, raw |-> raw]
        /\ UNCHANGED <<type, written>> /\ ok \in BOOLEAN
    BY DEF InsertData, Allocation
  <1>2. CASE ~Carries
    <2>1. ~Carries'
      BY <1>1, <1>2 DEF Carries
    <2>. QED  BY <1>1, <1>2, <2>1, StepLooks DEF Content
  <1>3. CASE Carries
    <2>1. seen = {} /\ ~Unread
      <3>1. CASE InPlace(pos, raw)
        BY <1>1, <3>1, InPlaceStep
      <3>2. CASE Grow(pos, raw, ok)
        BY <1>1, <3>2, GrowStep
      <3>. QED  BY <1>1, <3>1, <3>2
    <2>2. /\ size' = size + Len(raw) /\ data' # NoData
          /\ SubSeq(data', 1, size') = Spliced(pos, raw)
      BY <1>1, SplicedInFront
    <2>3. Carries' /\ Buffer' = data' /\ ~Unread'
      BY <1>1, <1>3, <2>2 DEF Carries, Buffer, Unread
    <2>4. Content' = Spliced(pos, raw)
      BY <2>2, <2>3 DEF Content
    <2>5. Spliced(pos, raw) = Text!Inserted(Content, pos, raw)
      BY <1>3, <2>1, SplicedIsInserted
    <2>6. Len(Content) = size
      BY <1>3, <2>1, Undisturbed
    <2>7. raw \in Texts
      BY RawIsText
    <2>. QED  BY <1>1, <2>3, <2>4, <2>5, <2>6, <2>7, StepInserts
  <1>. QED  BY <1>2, <1>3

-----------------------------------------------------------------------------
\* load, of a new section, replaces nothing by what the header leads to.
LEMMA SliceIsText ==
    ASSUME NEW at \in Nat, NEW n \in 0 .. MaxSize, at + n <= Len(File)
    PROVE  Slice(at, n) \in Texts
  <1>1. File \in Seq(Byte) /\ Len(File) \in Nat /\ n \in Nat
    BY SectionAssumption
  <1>2. \A i \in at + 1 .. at + n : File[i] \in Byte
    BY <1>1
  <1>3. Slice(at, n) \in Seq(Byte) /\ Len(Slice(at, n)) = n
    BY <1>1, <1>2, SubSeqProperties DEF Slice
  <1>4. Slice(at, n) \in [1 .. n -> Byte]
    BY <1>3
  <1>. QED  BY <1>4 DEF Texts

\* What was read is the slice, with a byte behind it that is none of the text.
LEMMA ReadIsSlice ==
    ASSUME NEW ty \in {"NULL", "NOBITS", "PROGBITS"}, NEW at \in Nat, NEW n \in Nat,
           NEW limit \in Nat, NEW ok \in BOOLEAN, LoadData(ty, at, n, limit, ok), seen' = {},
           data = NoData, ty = "PROGBITS", n < limit, at + n <= Len(File)
    PROVE  data' # NoData /\ SubSeq(data', 1, n) = Slice(at, n)
  <1>. DEFINE tried == data = NoData /\ ty \notin {"NULL", "NOBITS"} /\ n < limit
  <1>1. Len(File) \in Nat /\ tried
    BY SectionAssumption
  <1>2. seen' = seen \cup Noted("alloc", tried /\ ~ok)
                     \cup Noted("short", data = NoData /\ Misfit(ty, at, n))
    BY DEF LoadData
  <1>3. ok
    BY <1>1, <1>2, NotedNone
  <1>4. data' = IF n = 0 THEN <<Junk>> ELSE Append(Slice(at, n), Nul)
    BY <1>1, <1>3 DEF LoadData
  <1>5. Slice(at, n) \in Seq(Cell) /\ Len(Slice(at, n)) = n
    BY SliceIsSeq
  <1>6. CASE n = 0
    <2>1. Slice(at, n) = <<>> /\ SubSeq(data', 1, n) = <<>>
      BY <1>6, SubSeqEmpty DEF Slice
    <2>2. <<Junk>> \in Seq(Cell)
      BY DEF Cell
    <2>. QED  BY <1>4, <1>6, <2>1, <2>2, SectionAssumption DEF Cell
  <1>7. CASE n # 0
    <2>1. data' = Slice(at, n) \o <<Nul>> /\ <<Nul>> \in Seq(Cell) /\ data' \in Seq(Cell)
      <3>1. Nul \in Cell
        BY DEF Cell
      <3>. QED  BY <1>4, <1>5, <1>7, <3>1, AppendIsConcat, AppendProperties
    <2>2. SubSeq(data', 1, n) = Slice(at, n)
      BY <1>5, <2>1, Front
    <2>. QED  BY <2>1, <2>2, SectionAssumption DEF Cell
  <1>. QED  BY <1>6, <1>7

LEMMA LoadIsText ==
    ASSUME IInv, NEW ty \in {"NULL", "NOBITS", "PROGBITS"}, NEW at \in 0 .. Len(File),
           NEW n \in 0 .. MaxSize, NEW lazy \in BOOLEAN, NEW ok \in Allocation,
           Load(ty, at, n, lazy, ok), seen' = {}
    PROVE  Text!TextNext
  <1>. DEFINE limit == IF translated THEN Unlimited ELSE Len(File)
  <1>1. /\ data = NoData /\ size = 0 /\ ~is_lazy /\ at \in Nat /\ n \in Nat /\ Len(File) \in Nat
        /\ MaxSize \in Nat /\ ok \in BOOLEAN
    <2>1. data = NoData /\ size = 0 /\ ~is_lazy
      BY DEF Load, IInv, Bare
    <2>2. ok \in BOOLEAN
      BY DEF Allocation
    <2>. QED  BY <2>1, <2>2, SectionAssumption
  <1>2. /\ type' = ty /\ offset' = at /\ size' = n /\ written' = written
        /\ op' = [call |-> "set", raw |-> IF at + n > Len(File) THEN <<>> ELSE Slice(at, n)]
    BY DEF Load
  <1>3. limit \in Nat /\ Len(File) <= limit
    BY <1>1 DEF Unlimited
  <1>4. Content = <<>>
    <2>1. ~Unread /\ SubSeq(Buffer, 1, size) = <<>>
      BY <1>1, SubSeqEmpty DEF Unread
    <2>. QED  BY <2>1 DEF Content
  <1>5. CASE ty # "PROGBITS"
    <2>1. ~Carries'
      BY <1>2, <1>5 DEF Carries
    <2>. QED  BY <1>2, <1>4, <2>1, StepLooks DEF Content
  <1>6. CASE ty = "PROGBITS"
    <2>1. ~Misfit(ty, at, n)
      <3>1. Misfit(ty, at, n) \in BOOLEAN
        BY DEF Misfit
      <3>2. CASE lazy
        <4>1. seen' = Noted("short", Misfit(ty, at, n))
          BY <3>2 DEF Load
        <4>. QED  BY <3>1, <4>1, NotedNone
      <3>3. CASE ~lazy
        <4>1. LoadData(ty, at, n, limit, ok)
          BY <3>3 DEF Load
        <4>. HIDE DEF limit
        <4>2. DataLoaded(ty, at, n, limit)
          BY <1>1, <1>3, <4>1, LoadDataStep DEF IInv
        <4>. QED  BY <1>1, <4>2 DEF DataLoaded
      <3>. QED  BY <3>2, <3>3
    <2>2. at + n <= Len(File) /\ n < Len(File)
      BY <1>1, <1>6, <2>1 DEF Misfit
    <2>3. Content' = Slice(at, n)
      <3>1. CASE lazy
        <4>1. is_lazy' = TRUE /\ data' = data
          BY <3>1 DEF Load
        <4>. QED  BY <1>1, <1>2, <1>6, <4>1 DEF Content, Unread, Carries
      <3>2. CASE ~lazy
        <4>1. LoadData(ty, at, n, limit, ok)
          BY <3>2 DEF Load
        <4>. HIDE DEF limit
        <4>2. n < limit
          BY <1>1, <1>3, <2>2
        <4>3. data' # NoData /\ SubSeq(data', 1, n) = Slice(at, n)
          BY <1>1, <1>3, <1>6, <2>2, <4>1, <4>2, ReadIsSlice
        <4>. QED  BY <1>2, <1>6, <4>3 DEF Content, Unread, Carries, Buffer
      <3>. QED  BY <3>1, <3>2
    <2>4. op' = [call |-> "set", raw |-> Slice(at, n)] /\ Carries'
      BY <1>1, <1>2, <1>6, <2>2 DEF Carries
    <2>5. Slice(at, n) \in Texts
      BY <1>1, <2>2, SliceIsText
    <2>. QED  BY <1>2, <2>3, <2>4, <2>5, StepReplaces
  <1>. QED  BY <1>5, <1>6

\* get_data changes where the bytes are and nothing else.
LEMMA GetDataIsText ==
    ASSUME IInv, NEW ok \in Allocation, GetData(ok), seen' = {}
    PROVE  Text!TextNext
  <1>1. /\ UNCHANGED <<type, size, offset, stream_size, written>> /\ op' = [call |-> "get"]
        /\ ok \in BOOLEAN
    BY DEF GetData, header, Allocation
  <1>2. Carries' <=> Carries
    BY <1>1 DEF Carries
  <1>3. CASE ~is_lazy
    <2>1. UNCHANGED <<data, is_lazy>>
      BY <1>3 DEF GetData, buffer
    <2>. QED  BY <1>1, <1>2, <2>1, StepLooks DEF Content, Unread, Buffer, Slice
  <1>4. CASE is_lazy /\ ~Carries
    BY <1>1, <1>2, <1>4, StepLooks DEF Content
  <1>5. CASE is_lazy /\ Carries
    <2>1. LoadData(type, offset, size, stream_size, ok)
      BY <1>5 DEF GetData
    <2>2. size \in Nat /\ offset \in Nat /\ stream_size \in Nat
          /\ type \in {"NULL", "NOBITS", "PROGBITS"}
      BY SectionAssumption DEF IInv, TypeOK
    <2>3. DataLoaded(type, offset, size, stream_size)
      BY <1>1, <2>1, <2>2, LoadDataStep DEF IInv
    <2>4. seen = {} /\ is_lazy' = FALSE
      BY <2>3 DEF DataLoaded
    <2>5. CASE Unread
      <3>1. /\ type = "PROGBITS" /\ size < stream_size /\ offset + size <= Len(File)
            /\ Content = Slice(offset, size)
        BY <1>5, <2>4, <2>5, Undisturbed
      <3>2. data' # NoData /\ SubSeq(data', 1, size) = Slice(offset, size)
        BY <1>1, <2>1, <2>2, <2>5, <3>1, ReadIsSlice DEF Unread
      <3>3. Content' = Slice(offset, size)
        BY <1>1, <1>2, <1>5, <3>2 DEF Content, Unread, Buffer
      <3>. QED  BY <1>1, <3>1, <3>3, StepLooks
    <2>6. CASE ~Unread
      <3>1. data # NoData /\ data' = data
        BY <1>5, <2>3, <2>6 DEF Unread, DataLoaded
      <3>2. Content' = Content
        BY <1>1, <1>2, <1>5, <2>6, <3>1 DEF Content, Unread, Buffer
      <3>. QED  BY <1>1, <3>2, StepLooks
    <2>. QED  BY <2>5, <2>6
  <1>. QED  BY <1>3, <1>4, <1>5

\* save writes the text, or nothing where there is none.
LEMMA SaveIsText ==
    ASSUME IInv, Uncopied, NEW at \in 0 .. Len(File), Save(at), seen' = {}
    PROVE  Text!TextNext
  <1>1. /\ UNCHANGED <<type, size, data>> /\ op' = [call |-> "save"]
        /\ is_lazy' = (is_lazy /\ ~Writes)
        /\ written' = IF Writes /\ ~overrun' THEN SubSeq(data, 1, size) ELSE <<>>
        /\ seen' = seen \cup Noted("unread", Unread)
    BY DEF Save
  <1>2. overrun' <=> Writes /\ size > Len(data)
    BY Zenon DEF Save
  <1>3. Unread \in BOOLEAN
    BY DEF Unread, IInv, TypeOK
  <1>4. seen = {} /\ ~Unread
    BY <1>1, <1>3, NotedNone
  <1>5. Carries' <=> Carries
    BY <1>1 DEF Carries
  <1>6. CASE ~Carries
    <2>1. written' = <<>> /\ written = <<>> /\ Content' = <<>> /\ Content = <<>>
      BY <1>1, <1>5, <1>6 DEF Writes, Uncopied, Content
    <2>. QED  BY <1>5, <1>6, <2>1, StepLooks
  <1>7. CASE Carries
    <2>1. size \in Nat /\ size <= Len(Buffer) /\ Content = SubSeq(Buffer, 1, size)
      BY <1>4, <1>7, Undisturbed
    <2>2. written' = Content
      <3>1. CASE data # NoData /\ size # 0
        <4>1. Writes /\ Buffer = data
          BY <1>7, <3>1 DEF Writes, Buffer
        <4>. QED  BY <1>1, <1>2, <2>1, <4>1
      <3>2. CASE data = NoData \/ size = 0
        <4>1. ~Writes /\ size = 0
          BY <2>1, <3>2 DEF Writes, Buffer
        <4>2. SubSeq(Buffer, 1, 0) = <<>>
          BY SubSeqEmpty
        <4>. QED  BY <1>1, <2>1, <4>1, <4>2
      <3>. QED  BY <3>1, <3>2
    <2>3. Content' = Content
      <3>1. ~Unread' /\ Buffer' = Buffer
        BY <1>1, <1>4 DEF Unread, Buffer
      <3>. QED  BY <1>1, <1>5, <1>7, <2>1, <3>1 DEF Content
    <2>. QED  BY <1>1, <1>5, <1>7, <2>2, <2>3 DEF Text!TextNext, Text!CopyOut
  <1>. QED  BY <1>6, <1>7

LEMMA StepIsText ==
    ASSUME IInv, Uncopied, Next, seen' = {}
    PROVE  Text!TextNext
  <1>1. \A raw \in Raw, ok \in Allocation : SetData(raw, ok) => Text!TextNext
    BY SetDataIsText
  <1>2. \A raw \in Raw, ok \in Allocation, pos \in 0 .. size :
            InsertData(pos, raw, ok) => Text!TextNext
    BY InsertDataIsText
  <1>3. \A raw \in Raw, ok \in Allocation : AppendData(raw, ok) => Text!TextNext
    <2>1. size \in 0 .. size
      BY SectionAssumption DEF IInv, TypeOK
    <2>. QED  BY <1>2, <2>1 DEF AppendData
  <1>4. \A n \in 0 .. MaxRaw : SetDataNull(n) => Text!TextNext
    BY SetDataNullIsText
  <1>5. SetDataNoBits => Text!TextNext
    BY SetDataNoBitsIsText
  <1>6. \A n \in 0 .. MaxSize : SetSize(n) => Text!TextNext
    BY SetSizeIsText
  <1>7. \A ty \in {"NULL", "NOBITS", "PROGBITS"}, at \in 0 .. Len(File), n \in 0 .. MaxSize,
           lazy \in BOOLEAN, ok \in Allocation : Load(ty, at, n, lazy, ok) => Text!TextNext
    BY LoadIsText
  <1>8. \A ok \in Allocation : GetData(ok) => Text!TextNext
    BY GetDataIsText
  <1>9. \A at \in 0 .. Len(File) : Save(at) => Text!TextNext
    BY SaveIsText
  <1>. QED  BY <1>1, <1>2, <1>3, <1>4, <1>5, <1>6, <1>7, <1>8, <1>9, Zenon DEF Next

LEMMA InitIsText == Init => Text!TextInit
  <1>. SUFFICES ASSUME Init PROVE Text!TextInit
    OBVIOUS
  <1>1. size = 0 /\ ~is_lazy /\ written = <<>> /\ op = [call |-> "new"]
    BY DEF Init
  <1>2. Content = <<>>
    BY <1>1, SubSeqEmpty DEF Content, Unread
  <1>. QED  BY <1>1, <1>2 DEF Text!TextInit

\* set_data, insert_data, append_data, load, get_data and save implement a
\* string of bytes and its faithful copy, for every stream, all sizes and every
\* sequence of calls, as long as nothing listed under `seen' has happened
\* (elfio_section.hpp:130-330).
THEOREM SectionImplementsText == Spec => ImplementsText
  <1>1. IInv /\ Uncopied /\ [Next]_vars => [seen' = {} => Text!TextNext]_(Text!textVars)
    <2>. SUFFICES ASSUME IInv, Uncopied, [Next]_vars
                  PROVE  [seen' = {} => Text!TextNext]_(Text!textVars)
      OBVIOUS
    <2>1. CASE Next
      BY <2>1, StepIsText
    <2>2. CASE UNCHANGED vars
      BY <2>2 DEF vars, header, buffer, Text!textVars, Content, Carries, Unread, Buffer
    <2>. QED  BY <2>1, <2>2
  <1>. QED  BY <1>1, InitIsText, SectionInvariant, UncopiedInvariant, PTL DEF Spec, ImplementsText

-----------------------------------------------------------------------------
\* A call of insert_data that could not get its new buffer has changed neither
\* the header nor the bytes nor what stream_size says (elfio_section.hpp
\* insert_data), whatever is called before.
THEOREM SectionGrowthFails == Spec => FailedGrowthKeeps
  <1>1. ASSUME IInv, [Next]_vars, op'.call = "insert", "alloc" \in seen' \ seen
        PROVE  UNCHANGED <<header, data, stream_size>>
    <2>1. ASSUME NEW raw, NEW ok, NEW pos, InsertData(pos, raw, ok)
          PROVE  UNCHANGED <<header, data, stream_size>>
      <3>1. UNCHANGED <<type, offset>> /\ (InPlace(pos, raw) \/ Grow(pos, raw, ok))
        BY <2>1 DEF InsertData
      <3>2. ~InPlace(pos, raw)
        BY <1>1 DEF InPlace, Noted
      <3>3. Grow(pos, raw, ok)
        BY <3>1, <3>2
      <3>4. ~ok
        BY <1>1, <3>3 DEF Grow, Noted
      <3>5. size' = size + 0 /\ data' = data /\ SetStreamSize(stream_size + 0)
        BY <3>3, <3>4 DEF Grow, GrownBy
      <3>6. size \in Nat /\ stream_size \in Nat
        BY <1>1, SectionAssumption DEF IInv, TypeOK
      <3>. QED  BY <3>1, <3>5, <3>6 DEF header, SetStreamSize
    <2>2. CASE Next
      <3>1. ASSUME NEW raw, NEW ok, SetData(raw, ok) PROVE FALSE
        BY <1>1, <3>1 DEF SetData
      <3>2. ASSUME NEW n, SetDataNull(n) \/ SetDataNoBits \/ SetSize(n) PROVE FALSE
        BY <1>1, <3>2 DEF SetDataNull, SetDataNoBits, SetSize
      <3>3. ASSUME NEW ty, NEW at, NEW n, NEW lazy, NEW ok, Load(ty, at, n, lazy, ok) PROVE FALSE
        BY <1>1, <3>3 DEF Load
      <3>4. ASSUME NEW ok, GetData(ok) PROVE FALSE
        BY <1>1, <3>4 DEF GetData
      <3>5. ASSUME NEW at, Save(at) PROVE FALSE
        BY <1>1, <3>5 DEF Save
      <3>. QED  BY <2>1, <2>2, <3>1, <3>2, <3>3, <3>4, <3>5, Zenon DEF Next, AppendData
    <2>3. CASE UNCHANGED vars
      BY <1>1, <2>3 DEF vars
    <2>. QED  BY <1>1, <2>2, <2>3
  <1>2. IInv /\ [Next]_vars =>
           [op'.call = "insert" /\ "alloc" \in seen' \ seen
               => UNCHANGED <<header, data, stream_size>>]_vars
    BY <1>1, Zenon
  <1>. QED  BY <1>2, SectionInvariant, PTL DEF Spec, FailedGrowthKeeps
=============================================================================
