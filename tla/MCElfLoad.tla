----------------------------- MODULE MCElfLoad -----------------------------
(* Files of up to three sections and two segments, whole and damaged. *)
EXTENDS ElfLoad, TLC

Hdr(type, offset, size) == [type |-> type, offset |-> offset, size |-> size]

\* Within the file of length 3, past its end, as long as it, and without bits.
SectionHeaders ==
    {Hdr("BITS", 0, 0), Hdr("BITS", 1, 2), Hdr("BITS", 2, 2), Hdr("BITS", 0, 3),
     Hdr("NOBITS", 3, 2), Hdr("NULL", 0, 0)}
SegmentHeaders ==
    {Hdr("LOAD", 0, 3), Hdr("LOAD", 2, 2), Hdr("LOAD", 0, 4), Hdr("NULL", 0, 2)}

Tables(S, n) == UNION {[0 .. k - 1 -> S] : k \in 0 .. n}
Lists(S, n) == UNION {[1 .. k -> S] : k \in 0 .. n}

\* What may come of the section header the file ends in.
CutOf(ss, slots, c) ==
    IF slots \notin DOMAIN ss THEN Blank
    ELSE LET hdr == ss[slots]
         IN  CASE c = "nothing" -> Blank
               [] c = "type"    -> [hdr EXCEPT !.offset = 0, !.size = 0]
               [] c = "offset"  -> [hdr EXCEPT !.size = 0]
               [] c = "half"    -> [hdr EXCEPT !.size = @ \div 2]
               [] c = "size"    -> hdr
Cuts == {"nothing", "type", "offset", "half", "size"}

MCFiles ==
    {[secs |-> ss, segs |-> gs, shstrndx |-> at, secSlots |-> ns, segSlots |-> ng,
      cut |-> CutOf(ss, ns, c), secEntryOk |-> TRUE, segEntryOk |-> TRUE] :
        ss \in Tables(SectionHeaders, 3), gs \in Lists(SegmentHeaders, 1),
        at \in {0, 2}, ns \in {2, 3}, ng \in {0, 1}, c \in Cuts}
    \cup
    {[secs |-> ss, segs |-> gs, shstrndx |-> 1, secSlots |-> ns, segSlots |-> 2,
      cut |-> CutOf(ss, ns, c), secEntryOk |-> eo, segEntryOk |-> go] :
        ss \in Tables(SectionHeaders, 2), gs \in Lists(SegmentHeaders, 2),
        ns \in {1, 2}, c \in Cuts, eo \in BOOLEAN, go \in BOOLEAN}
=============================================================================
