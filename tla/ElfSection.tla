----------------------------- MODULE ElfSection -----------------------------
(***************************************************************************)
(* A section of an ELF file, elfio_section.hpp: a header that says how     *)
(* long it is, a buffer of which the object only remembers how long it     *)
(* believes it to be, and a stream from which the buffer may still have to *)
(* be read.  One section is followed from its construction over any calls  *)
(* of its public interface.  Memory is checked: a copy that leaves the     *)
(* buffer raises `overrun', after which nothing more is said.  There is no *)
(* compression object, as in every caller of the repository.               *)
(***************************************************************************)
EXTENDS Integers, Sequences, FiniteSets

CONSTANTS
    Byte,       \* values of a byte that callers store
    Nul,        \* the byte 0 that load_data puts behind what it read
    Junk,       \* a byte nobody has written
    NoData,     \* data == nullptr
    File,       \* the bytes of the stream a section is loaded from
    Word,       \* number of values of an Elf_Word
    MaxSize,    \* bound: bytes a section grows to
    MaxRaw,     \* bound: bytes of one call
    MaxTroubles,\* bound: kinds of trouble met, after which nothing is called
    Troubles    \* what may happen: "alloc" new fails, "resize" set_size is
                \* called, "short" a header leads past the file, "unread" a
                \* section is changed or saved before it has been read

ASSUME SectionAssumption ==
    /\ Word \in Nat \ {0} /\ MaxRaw <= MaxSize /\ MaxSize \in Nat /\ MaxRaw \in Nat /\ MaxTroubles \in Nat
    /\ NoData \notin Seq(Byte \cup {Nul, Junk})
    /\ File \in Seq(Byte)

Cell == Byte \cup {Nul, Junk}
Raw == UNION {[1 .. n -> Byte] : n \in 0 .. MaxRaw}
\* Mutant: a buffer has room for the bytes at hand and nothing more.
FillNone(n) == <<>>

Fill(n) == [i \in 1 .. n |-> Junk]

VARIABLES
    type, size, offset,     \* of the header
    data, data_size,        \* the buffer and the length it is taken to have
    stream_size, is_lazy,
    translated,             \* ~translator->empty()
    written,                \* what the last save wrote behind the header
    seen,                   \* history: kinds of trouble met so far
    overrun,                \* history: a copy has left its buffer
    op                      \* history: the last call, a load being a set of
                            \* the bytes the header leads to

header == <<type, size, offset>>
buffer == <<data, data_size, is_lazy>>
vars == <<header, buffer, stream_size, translated, written, seen, overrun, op>>

\* What the buffer really holds.
Buffer == IF data = NoData THEN <<>> ELSE data

Carries == type \notin {"NULL", "NOBITS"}

\* std::numeric_limits<size_t>::max(), and the bound on stream_size.
Unlimited == Len(File) + MaxSize + 1

Init ==
    /\ type \in {"NULL", "NOBITS", "PROGBITS"}
    /\ size = 0 /\ offset = 0
    /\ data = NoData /\ data_size = 0 /\ is_lazy = FALSE
    /\ stream_size = 0
    /\ translated \in BOOLEAN
    /\ written = <<>> /\ seen = {} /\ overrun = FALSE /\ op = [call |-> "new"]

SetStreamSize(n) == stream_size' = IF translated THEN stream_size ELSE n

Allocation == IF "alloc" \in Troubles THEN BOOLEAN ELSE {TRUE}
Noted(kind, happened) == IF happened THEN {kind} ELSE {}

\* set_data, with raw_data == nullptr as the second form: the buffer is taken
\* before the pointer is looked at.
SetData(raw, ok) ==
    /\ type # "NOBITS"
    /\ data' = IF ok THEN raw ELSE NoData
    /\ data_size' = IF ok THEN Len(raw) ELSE 0
    /\ size' = data_size'
    /\ SetStreamSize(data_size')
    /\ seen' = seen \cup Noted("alloc", ~ok)
    /\ op' = [call |-> "set", raw |-> raw]
    /\ UNCHANGED <<type, offset, is_lazy, translated, written, overrun>>

SetDataNull(n) ==
    /\ type # "NOBITS"
    /\ data' = Fill(n) /\ data_size' = 0
    /\ size' = 0
    /\ SetStreamSize(0)
    /\ op' = [call |-> "set", raw |-> <<>>]
    /\ UNCHANGED <<type, offset, is_lazy, translated, written, seen, overrun>>

\* The size of a section without bits is overwritten as well.
SetDataNoBits ==
    /\ type = "NOBITS"
    /\ size' = data_size
    /\ SetStreamSize(data_size)
    /\ op' = [call |-> "set", raw |-> <<>>]
    /\ UNCHANGED <<type, offset, buffer, translated, written, seen, overrun>>

\* load has left the buffer to the first get_data.
Unread == is_lazy /\ data = NoData

\* Mutant: the bytes go to the end wherever they were meant to be.
SplicedAtEnd(pos, raw) == SubSeq(Buffer, 1, size) \o raw

\* The new bytes at their place.
Spliced(pos, raw) == SubSeq(Buffer, 1, pos) \o raw \o SubSeq(Buffer, pos + 1, size)

\* Bytes are copied from and to places inside the buffers, or the copy is an
\* overrun and leaves nothing to say about the buffer.
InPlace(pos, raw) ==
    LET n == Len(raw)
    IN  /\ size + n < data_size
        /\ overrun' = (size + n > Len(Buffer))
        /\ data' = IF data = NoData \/ overrun' THEN data
                   ELSE Spliced(pos, raw) \o SubSeq(data, size + n + 1, Len(data))
        /\ size' = size + n
        /\ SetStreamSize(stream_size + n)
        /\ seen' = seen \cup Noted("unread", Unread)
        /\ UNCHANGED data_size

\* Mutant: the size grows although there is no buffer for it.
GrownAnyway(n, ok) == n

GrownBy(n, ok) == IF ok THEN n ELSE 0

\* insert_data with a new buffer: data_size is changed first, and stays so
\* when the buffer cannot be had.
Grow(pos, raw, ok) ==
    LET n        == Len(raw)
        capacity == (2 * (data_size + n)) % Word
    IN  /\ size + n >= data_size
        /\ data_size' = capacity
        /\ overrun' = (ok /\ (size > Len(Buffer) \/ size + n > capacity))
        /\ data' = IF ~ok \/ overrun' THEN data
                   ELSE Spliced(pos, raw) \o Fill(capacity - size - n)
        /\ size' = size + GrownBy(n, ok)
        /\ SetStreamSize(stream_size + GrownBy(n, ok))
        /\ seen' = seen \cup Noted("unread", Unread) \cup Noted("alloc", ~ok)
                        \cup Noted("wrap", 2 * (data_size + n) >= Word)

InsertData(pos, raw, ok) ==
    /\ type # "NOBITS"
    /\ Unread => "unread" \in Troubles
    /\ size + Len(raw) <= MaxSize
    /\ stream_size + Len(raw) <= Unlimited
    /\ InPlace(pos, raw) \/ Grow(pos, raw, ok)
    /\ op' = [call |-> "insert", pos |-> pos, raw |-> raw]
    /\ UNCHANGED <<type, offset, is_lazy, translated, written>>

AppendData(raw, ok) == InsertData(size, raw, ok)

SetSize(n) ==
    /\ type # "NOBITS" => "resize" \in Troubles
    /\ size' = n
    /\ seen' = seen \cup Noted("resize", type # "NOBITS")
    /\ op' = [call |-> "resize"]
    /\ UNCHANGED <<type, offset, buffer, stream_size, translated, written, overrun>>

\* load_data: once, and only a section smaller than the stream.
Slice(at, n) == SubSeq(File, at + 1, at + n)
Misfit(ty, at, n) ==
    \/ ty = "NULL" /\ n # 0
    \/ ty = "PROGBITS" /\ (at + n > Len(File) \/ n >= Len(File))

LoadData(ty, at, n, limit, ok) ==
    LET tried == data = NoData /\ ty \notin {"NULL", "NOBITS"} /\ n < limit
        short == tried /\ n # 0 /\ ok /\ at + n > Len(File)
    IN  /\ is_lazy' = FALSE
        /\ data' = IF ~tried \/ ~ok \/ short THEN data
                   ELSE IF n = 0 THEN <<Junk>> ELSE Append(Slice(at, n), Nul)
        /\ data_size' = IF ~tried \/ short THEN data_size ELSE IF ok THEN n ELSE 0
        /\ seen' = seen \cup Noted("alloc", tried /\ ~ok)
                        \cup Noted("short", data = NoData /\ Misfit(ty, at, n))

\* load, of a section just constructed; ty, at and n come from the stream.
Load(ty, at, n, lazy, ok) ==
    LET limit == IF translated THEN Unlimited ELSE Len(File)
    IN  /\ op.call = "new"
        /\ Misfit(ty, at, n) => "short" \in Troubles
        /\ type' = ty /\ offset' = at /\ size' = n
        /\ stream_size' = limit
        /\ IF lazy THEN /\ is_lazy' = TRUE
                         /\ seen' = Noted("short", Misfit(ty, at, n))
                         /\ UNCHANGED <<data, data_size>>
                    ELSE LoadData(ty, at, n, limit, ok)
        /\ op' = [call |-> "set", raw |-> IF at + n > Len(File) THEN <<>> ELSE Slice(at, n)]
        /\ UNCHANGED <<translated, written, overrun>>

\* get_data, and the caller reads get_size() bytes where there is a buffer.
GetData(ok) ==
    /\ IF is_lazy THEN LoadData(type, offset, size, stream_size, ok)
                  ELSE UNCHANGED <<buffer, seen>>
    /\ overrun' = (Carries /\ data' # NoData /\ size > Len(data'))
    /\ op' = [call |-> "get"]
    /\ UNCHANGED <<header, stream_size, translated, written>>

Writes == Carries /\ data # NoData /\ size # 0

\* save looks at the pointer before anything has been read into it, and has
\* moved the offset by then.
Save(at) ==
    /\ Unread => "unread" \in Troubles
    /\ offset' = at
    /\ overrun' = (Writes /\ size > Len(data))
    /\ written' = IF Writes /\ ~overrun' THEN SubSeq(data, 1, size) ELSE <<>>
    /\ is_lazy' = (is_lazy /\ ~Writes)
    /\ seen' = seen \cup Noted("unread", Unread)
    /\ op' = [call |-> "save"]
    /\ UNCHANGED <<type, size, data, data_size, stream_size, translated>>

Next ==
    /\ ~overrun /\ Cardinality(seen) < MaxTroubles
    /\ \/ \E raw \in Raw, ok \in Allocation :
              \/ SetData(raw, ok)
              \/ AppendData(raw, ok)
              \/ \E pos \in 0 .. size : InsertData(pos, raw, ok)
       \/ \E n \in 0 .. MaxRaw : SetDataNull(n)
       \/ SetDataNoBits
       \/ \E n \in 0 .. MaxSize : SetSize(n)
       \/ \E ty \in {"NULL", "NOBITS", "PROGBITS"}, at \in 0 .. Len(File),
             n \in 0 .. MaxSize, lazy \in BOOLEAN, ok \in Allocation :
             Load(ty, at, n, lazy, ok)
       \/ \E ok \in Allocation : GetData(ok)
       \/ \E at \in 0 .. Len(File) : Save(at)

Spec == Init /\ [][Next]_vars
-----------------------------------------------------------------------------
\* Every field has a value of its type, and sizes stay within their bounds.
TypeOK ==
    /\ type \in {"NULL", "NOBITS", "PROGBITS"}
    /\ size \in 0 .. MaxSize /\ offset \in 0 .. Len(File)
    /\ data = NoData \/ data \in Seq(Cell)
    /\ data_size \in Nat /\ stream_size \in Nat
    /\ is_lazy \in BOOLEAN /\ translated \in BOOLEAN /\ overrun \in BOOLEAN
    /\ written \in Seq(Cell)
    /\ seen \in SUBSET {"alloc", "resize", "short", "unread", "wrap"}
    /\ op.call \in {"new", "set", "insert", "resize", "get", "save"}

\* The bytes a section stands for, wherever they are at the moment.
Content ==
    IF ~Carries THEN <<>>
    ELSE IF Unread THEN Slice(offset, size)
    ELSE SubSeq(Buffer, 1, size)

\* set_data, insert_data, append_data, load, get_data and save of
\* elfio_section.hpp are, on undisturbed sections, the operations of a string
\* of bytes and a faithful copy of it.
Text == INSTANCE ByteString WITH
            Strings <- UNION {[1 .. n -> Byte] : n \in 0 .. MaxSize},
            text <- Content, copy <- written,
            asked <- IF Carries THEN op ELSE [call |-> "get"]

ImplementsText == Text!TextInit /\ [][seen' = {} => Text!TextNext]_(Text!textVars)

\* insert_data and save never leave the buffer on their own account: an
\* allocation has failed, a size was set from outside, a header has lied, the
\* section was changed before it was read, or the capacity has wrapped.
OverrunOnlyAfter == overrun => seen # {}

\* What the accessors for symbols and relocations compare: a section whose
\* size is above its stream_size counts as empty there.
StreamCovers == seen = {} /\ ~translated /\ type # "NOBITS" => size <= stream_size

\* A failed growth of insert_data leaves size, content and stream_size alone.
FailedGrowthKeeps ==
    [][op'.call = "insert" /\ "alloc" \in seen' \ seen
          => UNCHANGED <<header, data, stream_size>>]_vars

\* What both follow from: while nothing has happened that is no fault of these
\* functions, the text ends inside the believed capacity, the believed capacity
\* inside the real one, and a header not yet followed leads to bytes that exist.
Room ==
    seen = {} =>
        /\ data_size <= Len(Buffer)
        /\ type # "NOBITS" /\ ~Unread => size <= data_size
        /\ Unread /\ type # "NOBITS" =>
              IF type = "NULL" THEN size = 0
              ELSE size < stream_size /\ offset + size <= Len(File)

\* A section without bits never has a buffer of its own, nor has a new one.
Bare ==
    /\ type = "NOBITS" => data_size = 0
    /\ op.call = "new" => data = NoData /\ data_size = 0 /\ size = 0 /\ ~is_lazy

IInv == TypeOK /\ Bare /\ Room /\ OverrunOnlyAfter /\ StreamCovers
=============================================================================
