------------------------ MODULE ElfLayoutProperties ------------------------
(***************************************************************************)
(* What can be relied on in a file that elfio::save has written, and what  *)
(* the caller owes for it.                                                 *)
(***************************************************************************)
EXTENDS ElfLayout

Validate == INSTANCE ElfValidate

MemberSet(g) == ToSet(g.members)

\* The caller's part.  A section with an address is not below its segment ...
AboveBase(m) ==
    \A s \in DOMAIN m.segs : \A i \in MemberSet(m.segs[s]) :
        m.secs[i].set => m.secs[i].addr >= m.segs[s].vaddr

\* ... sections are added in order, one without bits at most and that last: a
\* section behind it would share its address ...
InOrder(m) ==
    \A s \in DOMAIN m.segs : LET ms == m.segs[s].members IN
        \A j, k \in DOMAIN ms : j < k =>
            /\ ms[j] < ms[k]
            /\ m.secs[ms[j]].type # "NOBITS"

\* ... and segments are nested or apart, a nested one being aligned no
\* stricter and starting where its first section will be.
Inside(m, s, t) == MemberSet(m.segs[s]) \subseteq MemberSet(m.segs[t])

NestedOrApart(m) ==
    \A s, t \in DOMAIN m.segs :
        \/ MemberSet(m.segs[s]) \cap MemberSet(m.segs[t]) = {}
        \/ \E p, q \in {s, t} :
              LET a == m.segs[p]  first == m.secs[a.members[1]]  b == m.segs[q]
              IN  /\ {p, q} = {s, t} /\ Inside(m, p, q)
                  /\ Raised(a, m.secs).align <= Raised(b, m.secs).align
                  /\ IF first.set THEN first.addr = a.vaddr
                     ELSE a.members[1] = b.members[1] /\ a.vaddr = b.vaddr

WellFormed(m) == AboveBase(m) /\ InOrder(m) /\ NestedOrApart(m)
-----------------------------------------------------------------------------
Saved == pc = "saved"

\* load will give each segment the sections it had, and perhaps the null one.
Reloadable(f) ==
    \A s \in DOMAIN f.segs :
        ToSet(Found(f.segs[s], f.secs)) \ {0} = MemberSet(f.segs[s]) \ {0}

\* The object that was saved is the caller's, or what load has made of its file
\* without giving a segment sections that are not its own.
Own == rounds = 1 \/ Reloadable(file.before)

Block(what, from, n) == [what |-> what, from |-> from, to |-> from + n]
Blocks ==
    {Block(-1, 0, EhSize + PhSize * Len(segs)),
     Block(-2, shoff, ShSize * Cardinality(DOMAIN secs))}
    \cup {Block(i, secs[i].offset, secs[i].size) :
             i \in {i \in DOMAIN secs : ~NoBits(i) /\ ~Null(i) /\ secs[i].size > 0}}

\* No byte of the file belongs to two of: the headers, the section table and
\* the sections with bits, wherever write_segment_data, the loop over the loose
\* sections and layout_section_table have put them.
NoOverlap ==
    Saved => \A a, b \in Blocks : a = b \/ a.to <= b.from \/ b.to <= a.from

\* The position never goes back during a save, and no section is put before it:
\* the comment in write_segment_data says one that would be is refused.
Forward ==
    [][pc = "built"
         \/ /\ pos' >= pos
            /\ \A i \in DOMAIN secs :
                  secs'[i].offset # secs[i].offset => secs'[i].offset >= pos]_vars

Members == {p \in (DOMAIN segs) \X (DOMAIN secs) :
               p[2] \in MemberSet(segs[p[1]]) /\ ~Null(p[2])}

\* What a loader maps of a segment contains its sections: their bits within
\* its file size, their addresses within its memory size.
Covers(g, i) ==
    /\ i.type # "NOBITS" /\ i.size > 0 =>
           g.offset <= i.offset /\ i.offset + i.size <= g.offset + g.filesz
    /\ i.alloc /\ ~i.tls /\ i.size > 0 =>
           g.vaddr <= i.addr /\ i.addr + i.size <= g.vaddr + g.memsz

\* A section with bits is as far from the start of its segment in the file as
\* in memory, so that mapping the segment puts it at its address.
SameDistance(g, i) ==
    i.type # "NOBITS" /\ i.size > 0 => i.addr - g.vaddr = i.offset - g.offset

\* A segment starts in the file where its alignment allows it to be mapped.
Congruent(g) == (g.offset - g.vaddr) % Max({1, g.align}) = 0

\* A loader that maps the segments of the file finds every section of theirs at
\* its address, the sections of nested segments included.
Loadable ==
    Saved /\ Own =>
        /\ \A p \in Members : LET g == segs[p[1]]  i == secs[p[2]]
                              IN  Covers(g, i) /\ SameDistance(g, i)
        /\ \A s \in DOMAIN segs : MemberSet(segs[s]) # {} => Congruent(segs[s])

\* The library passes its own test: of a file save has just written, whatever
\* addresses the caller had set, validate has nothing to say.
AsProgBits == [i \in DOMAIN secs |->
                  IF secs[i].type = "BITS" THEN [secs[i] EXCEPT !.type = "PROGBITS"] ELSE secs[i]]
PassesValidation == Saved => Validate!Silent(AsProgBits, segs)

\* save refuses only what it could not place: an address that an earlier
\* section of the same segment reaches past.
RefusesOnlyOverlaps ==
    pc = "failed" => \E s \in DOMAIN segs : \E j, k \in DOMAIN segs[s].members :
        LET a == secs[segs[s].members[j]]  b == secs[segs[s].members[k]]
        IN  j < k /\ b.set /\ a.set /\ b.addr < a.addr + a.size

\* get_ordered_segments comes to its end: no two segments wait for each other
\* for ever, whatever they share.
OrderingEnds == (pc = "order") ~> (pc = "segments")

\* Of a second save, of what was just saved or of what load has made of it.
SavedAgain == Saved /\ rounds = 2

SameMemory(f, g) ==
    /\ \A i \in DOMAIN secs : g.secs[i].addr = f.secs[i].addr
    /\ \A s \in DOMAIN segs : g.segs[s].memsz = f.segs[s].memsz /\ g.segs[s].filesz = f.segs[s].filesz

SameOffsets(f, g) ==
    /\ \A i \in DOMAIN secs : g.secs[i].offset = f.secs[i].offset
    /\ \A s \in DOMAIN segs : g.segs[s].offset = f.segs[s].offset
    /\ g.shoff = f.shoff

PaddedForNothing(f) ==
    \E s \in DOMAIN segs : \E i \in MemberSet(f.segs[s]) : NoBits(i) /\ f.secs[i].align > 1

\* Saving again, with or without a load in between, leaves the memory image what
\* it was, and every offset, unless the first save has padded the file for a
\* section without bits: the second one, by address, no longer does.
SavesAlike ==
    SavedAgain /\ Own =>
        /\ SameMemory(file.before, file)
        /\ PaddedForNothing(file.before) \/ SameOffsets(file.before, file)

\* load finds every section of a segment again, but for those of no size and
\* for thread-local ones without bits, which take no memory.
MembersFound ==
    SavedAgain => \A s \in DOMAIN segs :
        \A i \in MemberSet(file.before.segs[s]) :
            \/ i \in MemberSet(file.segs[s])
            \/ secs[i].size = 0 \/ (secs[i].tls /\ NoBits(i))
=============================================================================
