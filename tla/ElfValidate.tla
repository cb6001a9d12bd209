---------------------------- MODULE ElfValidate ----------------------------
(***************************************************************************)
(* elfio::validate, elfio.hpp, over section headers (0 .. n-1 -> record)   *)
(* and segment headers (a sequence of records): which pairs of sections    *)
(* and which segments it has an error for.                                 *)
(***************************************************************************)
EXTENDS Integers, FiniteSets, FiniteSetsExt

\* The numbers of elf_types.hpp; SHT_NOBITS is one bit, and others have it too.
SHT == [NULL |-> 0, PROGBITS |-> 1, SYMTAB |-> 2, NOBITS |-> 8, REL |-> 9, DYNSYM |-> 11]

\* a->get_type() & SHT_NOBITS
TakenForNoBits(sec) == (SHT[sec.type] \div SHT["NOBITS"]) % 2 = 1

IsOffsetInSection(at, sec) == sec.offset <= at /\ at < sec.offset + sec.size

GetVirtualAddr(at, sec) == sec.addr + at - sec.offset

\* An end of the one is in the other.
Meets(a, b) ==
    \/ IsOffsetInSection(a.offset, b) \/ IsOffsetInSection(a.offset + a.size - 1, b)
    \/ IsOffsetInSection(b.offset, a) \/ IsOffsetInSection(b.offset + b.size - 1, a)

InFile(sec) == ~TakenForNoBits(sec) /\ sec.size > 0 /\ sec.offset > 0

OverlapErrors(secs) ==
    {p \in (DOMAIN secs) \X (DOMAIN secs) : LET a == secs[p[1]]  b == secs[p[2]] IN
        p[1] < p[2] /\ InFile(a) /\ InFile(b) /\ Meets(a, b)}

\* find_prog_section_for_offset: the first one, as a set of at most one index.
ProgSectionForOffset(secs, at) ==
    LET homes == {i \in DOMAIN secs : secs[i].type = "PROGBITS" /\ IsOffsetInSection(at, secs[i])}
    IN  IF homes = {} THEN {} ELSE {Min(homes)}

AddressErrors(secs, segs) ==
    {h \in DOMAIN segs :
        /\ segs[h].type = "LOAD" /\ segs[h].filesz > 0
        /\ \E i \in ProgSectionForOffset(secs, segs[h].offset) :
              GetVirtualAddr(segs[h].offset, secs[i]) # segs[h].vaddr}

\* The string validate returns is empty.
Silent(secs, segs) == OverlapErrors(secs) = {} /\ AddressErrors(secs, segs) = {}
=============================================================================
