------------------------------ MODULE ElfLayout ------------------------------
(***************************************************************************)
(* Where elfio::save puts everything, elfio.hpp: the segments are ordered, *)
(* each is laid out with its sections, then the sections of no segment and *)
(* the section header table follow.  A run of save is followed step by     *)
(* step; the file it wrote may be loaded again, and saved again, which     *)
(* starts from the addresses and offsets the first save has left.          *)
(***************************************************************************)
EXTENDS Integers, Sequences, SequencesExt, FiniteSetsExt

CONSTANTS
    EhSize, PhSize, ShSize,   \* header_size and the two entry sizes
    Word,                     \* number of values of an Elf_Xword
    MaxRounds,                \* bound: calls of save
    Images                    \* [secs, segs] as the callers set them up

ASSUME LayoutAssumption ==
    /\ EhSize \in Nat /\ PhSize \in Nat /\ ShSize \in Nat
    /\ Word \in Nat \ {0} /\ MaxRounds \in Nat

Number(ss) == Cardinality(DOMAIN ss)
SectionHeaders ==
    [type : STRING, alloc : BOOLEAN, tls : BOOLEAN, size : Nat, align : Nat,
     addr : Nat, set : BOOLEAN, offset : Nat]
SegmentHeaders(n) ==
    [type : STRING, align : Nat, vaddr : Nat, filesz : Nat, memsz : Nat,
     offset : Nat, set : BOOLEAN, members : Seq(0 .. n - 1)]

\* Sections are numbered from 0, the null section, which create makes, and
\* segments refer to them by number.
ASSUME ImagesAssumption ==
    \A m \in Images : LET n == Number(m.secs) IN
        /\ n \in Nat \ {0} /\ m.secs \in [0 .. n - 1 -> SectionHeaders] /\ m.secs[0].type = "NULL"
        /\ m.segs \in Seq(SegmentHeaders(n))

VARIABLES
    secs,         \* 0 .. n-1 -> section header, with `set' for is_address_set
    segs,         \* sequence of segments, with `set' for is_offset_set
    pos,          \* current_file_pos
    pc,           \* where save stands
    queue,        \* segments still to be ordered, then those still to be laid out
    ordered,      \* res of get_ordered_segments
    generated,    \* section_generated, and the sections without segment done
    cur,          \* the segment at hand: its start, sizes and next section
    shoff,        \* sections_offset of the header
    file,         \* the headers of the last save, and how it came about
    rounds        \* calls of save so far

vars == <<secs, segs, pos, pc, queue, ordered, generated, cur, shoff, file, rounds>>

Minus(a, b) == (a - b) % Word
Plus(a, b) == (a + b) % Word
Padding(p, align) == IF align > 1 THEN (align - (p % align)) % align ELSE 0

NoBits(i) == secs[i].type = "NOBITS"
Null(i) == secs[i].type = "NULL"

Generated(i) == generated \cup {i}

\* Mutant: only sections that are in memory take room in the file.
AfterAllocated(i, at) == IF NoBits(i) \/ ~secs[i].alloc THEN at ELSE Plus(at, secs[i].size)

\* The position behind section i when it is put at `at'.
After(i, at) == IF NoBits(i) \/ Null(i) THEN at ELSE Plus(at, secs[i].size)

Idle == [seg |-> 0, next |-> 1, start |-> 0, filesz |-> 0, memsz |-> 0]

Init ==
    /\ \E m \in Images : secs = m.secs /\ segs = m.segs
    /\ pos = 0 /\ pc = "built" /\ queue = <<>> /\ ordered = <<>>
    /\ generated = {} /\ cur = Idle /\ shoff = 0
    /\ file = <<>> /\ rounds = 0

\* std::includes, which merges and so expects both in ascending order: the
\* element of part to be found next, none when one has been passed over.
Merged(part, next, x) ==
    IF next \notin DOMAIN part \/ x < part[next] THEN next
    ELSE IF x = part[next] THEN next + 1 ELSE 0

Includes(whole, part) ==
    LET next[i \in 0 .. Len(whole)] ==
            IF i = 0 THEN 1 ELSE Merged(part, next[i - 1], whole[i])
    IN  next[Len(whole)] > Len(part)

\* Mutant: two segments with the same sections wait for each other.
IsSubsequenceOrSame(a, b) == Includes(segs[b].members, segs[a].members)

IsSubsequenceOf(a, b) ==
    /\ Len(segs[a].members) < Len(segs[b].members)
    /\ Includes(segs[b].members, segs[a].members)

\* A round of the first loop of get_ordered_segments, slot counted from 1.
Moved(acc, i) ==
    LET w    == acc.list
        slot == IF segs[w[acc.slot]].offset = 0 THEN acc.slot + 1 ELSE acc.slot
    IN  IF i # acc.slot /\ segs[w[i]].set /\ segs[w[i]].offset = 0
        THEN [list |-> [w EXCEPT ![i] = w[slot], ![slot] = w[i]], slot |-> slot + 1]
        ELSE acc

ZeroToFront(q) ==
    LET after[i \in 0 .. Len(q)] ==
            IF i = 0 THEN [list |-> q, slot |-> 1] ELSE Moved(after[i - 1], i)
    IN  after[Len(q)].list

\* calc_segment_alignment.
Raised(g, ss) ==
    [g EXCEPT !.align = Max({@} \cup {ss[g.members[k]].align : k \in DOMAIN g.members})]

\* Mutant: a second save goes on behind the first one.
HeadersEndKept == IF rounds = 0 THEN EhSize + PhSize * Len(segs) ELSE pos

HeadersEnd == EhSize + PhSize * Len(segs)

BeginSave ==
    /\ pc = "built" /\ rounds < MaxRounds
    /\ rounds' = rounds + 1
    /\ pos' = HeadersEnd
    /\ segs' = [s \in DOMAIN segs |-> Raised(segs[s], secs)]
    /\ queue' = ZeroToFront([s \in 1 .. Len(segs) |-> s])
    /\ ordered' = <<>> /\ generated' = {} /\ cur' = Idle /\ shoff' = 0
    /\ pc' = "order"
    /\ UNCHANGED <<secs, file>>

\* The second loop: a segment waits as long as a larger one that includes its
\* sections is still in the queue.
OrderSegment ==
    /\ pc = "order" /\ queue # <<>>
    /\ LET rest    == Tail(queue)
           waiting == \E k \in DOMAIN rest : IsSubsequenceOf(Head(queue), rest[k])
       IN  /\ queue' = IF waiting THEN Append(rest, Head(queue)) ELSE rest
           /\ ordered' = IF waiting THEN ordered ELSE Append(ordered, Head(queue))
    /\ UNCHANGED <<secs, segs, pos, pc, generated, cur, shoff, file, rounds>>

EndOrder ==
    /\ pc = "order" /\ queue = <<>>
    /\ queue' = ordered
    /\ pc' = "segments"
    /\ UNCHANGED <<secs, segs, pos, ordered, generated, cur, shoff, file, rounds>>

\* How far a new segment has to be moved to be congruent to its address.
Gap(g) ==
    LET align == IF g.align > 0 THEN g.align ELSE 1
    IN  ((g.vaddr % align) - (pos % align)) % align

\* Where the segment at hand starts and what it holds before its sections.
Start(g) ==
    LET some  == g.members # <<>>
        fresh == some /\ g.members[1] \notin generated
        table == PhSize * Len(segs)
    IN  IF g.type = "PHDR" /\ ~some THEN [at |-> EhSize, holds |-> table, move |-> 0]
        ELSE IF g.set /\ g.offset = 0
             THEN [at |-> 0, holds |-> IF some THEN pos ELSE 0, move |-> 0]
        ELSE IF fresh THEN [at |-> pos + Gap(g), holds |-> 0, move |-> Gap(g)]
        ELSE [at |-> IF some THEN secs[g.members[1]].offset ELSE pos,
              holds |-> 0, move |-> 0]

StartSegment ==
    /\ pc = "segments" /\ queue # <<>>
    /\ LET st == Start(segs[Head(queue)])
       IN  /\ cur' = [seg |-> Head(queue), next |-> 1, start |-> st.at,
                      filesz |-> st.holds, memsz |-> st.holds]
           /\ pos' = pos + st.move
    /\ queue' = Tail(queue)
    /\ pc' = "sections"
    /\ UNCHANGED <<secs, segs, ordered, generated, shoff, file, rounds>>

Seg == segs[cur.seg]
Member == Seg.members[cur.next]

\* section_align of write_segment_data; the subtractions are unsigned.
ByAddress(i) == secs[i].set /\ ~NoBits(i) /\ secs[i].size # 0

\* Mutant: an address right at the position is refused.
BehindOrAt(i) ==
    i \notin generated /\ ByAddress(i)
        /\ Minus(secs[i].addr, Seg.vaddr) <= Minus(pos, cur.start)

Behind(i) ==
    i \notin generated /\ ByAddress(i)
        /\ Minus(secs[i].addr, Seg.vaddr) < Minus(pos, cur.start)

\* Mutant: an address that was set is not looked at.
SectionAlignPadded(i) ==
    IF i \in generated THEN Minus(Minus(secs[i].offset, cur.start), cur.filesz)
    ELSE Padding(pos, secs[i].align)

SectionAlign(i) ==
    IF i \in generated THEN Minus(Minus(secs[i].offset, cur.start), cur.filesz)
    ELSE IF ByAddress(i)
         THEN Minus(Minus(secs[i].addr, Seg.vaddr), Minus(pos, cur.start))
    ELSE IF ~secs[i].set THEN Padding(pos, secs[i].align)
    ELSE 0

InMemory(i) == secs[i].alloc /\ ~(secs[i].tls /\ Seg.type # "TLS" /\ NoBits(i))

\* One round of write_segment_data.
WriteSection ==
    /\ pc = "sections" /\ cur.next <= Len(Seg.members)
    /\ LET i    == Member
           gap  == SectionAlign(i)
           grow == Plus(secs[i].size, gap)
           at   == Plus(pos, gap)
       IN  \/ /\ Null(i)
              /\ generated' = Generated(i)
              /\ cur' = [cur EXCEPT !.next = @ + 1]
              /\ UNCHANGED <<secs, pos, pc>>
           \/ /\ ~Null(i) /\ Behind(i)
              /\ pc' = "failed"
              /\ UNCHANGED <<secs, pos, generated, cur>>
           \/ /\ ~Null(i) /\ ~Behind(i)
              /\ cur' = [cur EXCEPT
                            !.next = @ + 1,
                            !.memsz = IF InMemory(i) THEN Plus(@, grow) ELSE @,
                            !.filesz = IF NoBits(i) THEN @ ELSE Plus(@, grow)]
              /\ IF i \in generated THEN UNCHANGED <<secs, pos>>
                 ELSE /\ pos' = After(i, at)
                      /\ secs' = [secs EXCEPT
                           ![i].addr = IF secs[i].set THEN @
                                       ELSE Plus(Seg.vaddr, Minus(at, cur.start)),
                           ![i].set = TRUE,
                           ![i].offset = IF i = 0 THEN @ ELSE at]
              /\ generated' = Generated(i)
              /\ UNCHANGED pc
    /\ UNCHANGED <<segs, queue, ordered, shoff, file, rounds>>

\* A segment may have been given more memory than its sections take.
MemorySize(given) == IF given < cur.memsz THEN cur.memsz ELSE given

EndSegment ==
    /\ pc = "sections" /\ cur.next > Len(Seg.members)
    /\ segs' = [segs EXCEPT ![cur.seg].filesz = cur.filesz,
                            ![cur.seg].memsz = MemorySize(@),
                            ![cur.seg].offset = cur.start,
                            ![cur.seg].set = TRUE]
    /\ cur' = Idle
    /\ pc' = "segments"
    /\ UNCHANGED <<secs, pos, queue, ordered, generated, shoff, file, rounds>>

EndSegments ==
    /\ pc = "segments" /\ queue = <<>>
    /\ pc' = "loose"
    /\ UNCHANGED <<secs, segs, pos, queue, ordered, generated, cur, shoff, file, rounds>>

\* layout_sections_without_segments, one section a step.
InSegment(i) == \E s \in DOMAIN segs : i \in ToSet(segs[s].members)
Loose == {i \in DOMAIN secs : ~InSegment(i)} \ generated

PlaceLoose ==
    /\ pc = "loose" /\ Loose # {}
    /\ LET i  == Min(Loose)
           at == pos + Padding(pos, secs[i].align)
       IN  /\ secs' = [secs EXCEPT ![i].offset = IF i = 0 THEN @ ELSE at]
           /\ pos' = After(i, at)
           /\ generated' = Generated(i)
    /\ UNCHANGED <<segs, pc, queue, ordered, cur, shoff, file, rounds>>

\* layout_section_table, and the three functions that write the headers.
WriteFile ==
    /\ pc = "loose" /\ Loose = {}
    /\ pos' = pos + Padding(pos, 4)
    /\ shoff' = pos'
    /\ file' = [secs |-> secs, segs |-> segs, shoff |-> shoff', before |-> file]
    /\ pc' = "saved"
    /\ UNCHANGED <<secs, segs, queue, ordered, generated, cur, rounds>>

\* Mutant: a section that reaches to the end of the segment is left out.
IsSectInSegShort(begin, n, from, to) == from <= begin /\ begin + n < to /\ begin < to

\* load: every section keeps its address from here on, and a segment gets the
\* sections that lie in it, in memory or else in the file.
IsSectInSeg(begin, n, from, to) == from <= begin /\ begin + n <= to /\ begin < to

Holds(g, s) ==
    IF s.alloc THEN IsSectInSeg(s.addr, s.size, g.vaddr, g.vaddr + g.memsz)
               ELSE IsSectInSeg(s.offset, s.size, g.offset, g.offset + g.filesz)

Found(g, ss) ==
    LET among[n \in 0 .. Number(ss)] ==
            IF n = 0 THEN <<>>
            ELSE IF Holds(g, ss[n - 1]) THEN Append(among[n - 1], n - 1) ELSE among[n - 1]
    IN  among[Number(ss)]

Load ==
    /\ pc = "saved" /\ rounds < MaxRounds
    /\ secs' = [i \in DOMAIN file.secs |-> [file.secs[i] EXCEPT !.set = TRUE]]
    /\ segs' = [s \in DOMAIN file.segs |->
                   [file.segs[s] EXCEPT !.set = TRUE, !.members = Found(file.segs[s], file.secs)]]
    /\ pc' = "built"
    /\ shoff' = file.shoff
    /\ UNCHANGED <<pos, queue, ordered, generated, cur, file, rounds>>

\* The object is kept and saved once more.
Keep ==
    /\ pc = "saved" /\ rounds < MaxRounds
    /\ pc' = "built"
    /\ UNCHANGED <<secs, segs, pos, queue, ordered, generated, cur, shoff, file, rounds>>

Done == pc \in {"saved", "failed"} /\ UNCHANGED vars

Save ==
    \/ OrderSegment \/ EndOrder \/ StartSegment \/ WriteSection
    \/ EndSegment \/ EndSegments \/ PlaceLoose \/ WriteFile

Next == BeginSave \/ Save \/ Load \/ Keep \/ Done

Spec == Init /\ [][Next]_vars /\ WF_vars(Save)
=============================================================================
