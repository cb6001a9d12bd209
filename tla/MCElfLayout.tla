---------------------------- MODULE MCElfLayout ----------------------------
(* Small images: three sections and up to three segments. *)
EXTENDS ElfLayoutProperties

Sec(type, alloc, tls, size, align, addr) ==
    [type |-> type, alloc |-> alloc, tls |-> tls, size |-> size, align |-> align,
     addr |-> Max({0, addr}), set |-> addr >= 0, offset |-> 0]
NullSec == Sec("NULL", FALSE, FALSE, 0, 0, -1)
Sections(S1, S2, S3) ==
    {(0 :> NullSec) @@ (1 :> a) @@ (2 :> b) @@ (3 :> c) : a \in S1, b \in S2, c \in S3}

Segm(type, align, vaddr, members) ==
    [type |-> type, align |-> align, vaddr |-> vaddr, filesz |-> 0, memsz |-> 0,
     offset |-> 0, set |-> FALSE, members |-> members]

Bits(n) == {Sec("BITS", TRUE, FALSE, n, al, -1) : al \in {1, 8}}
Bss  == {Sec("NOBITS", TRUE, FALSE, 6, al, -1) : al \in {1, 8}}
At(S) == {Sec("BITS", TRUE, FALSE, 5, 4, ad) : ad \in S}
Note == {Sec("BITS", FALSE, FALSE, 3, 1, -1)}
Tbss == {Sec("NOBITS", TRUE, TRUE, 4, 4, -1)}

Lists == {<<>>, <<1>>, <<1, 2>>, <<2>>, <<2, 3>>, <<1, 2, 3>>}

OneSegment ==
    {[secs |-> ss, segs |-> <<Segm("LOAD", al, va, ms)>>] :
        ss \in Sections(Bits(0) \cup Bits(5) \cup At({64, 68}),
                        Bits(5) \cup At({64, 96}) \cup Bss \cup Tbss, Bits(0) \cup Bss \cup Note),
        al \in {0, 16}, va \in {64, 72}, ms \in Lists}

TwoSegments ==
    {[secs |-> ss, segs |-> <<Segm("LOAD", 16, 64, m1), Segm(IF m2 = <<>> THEN "PHDR" ELSE ty, al, va, m2)>>] :
        ss \in Sections(Bits(5), Bits(5) \cup At({96}) \cup Tbss, Bss \cup Note),
        ty \in {"TLS", "LOAD"}, al \in {0, 4}, va \in {64, 96}, m1 \in Lists, m2 \in Lists}

\* As a linker leaves it: the first segment starts with the headers.
Loaded(s, off) == [s EXCEPT !.addr = 16 + off, !.set = TRUE, !.offset = off]
WithHeaders(to) ==
    [Segm("LOAD", 16, 16, <<1, 2>>) EXCEPT !.set = TRUE, !.filesz = to, !.memsz = to]
Linked(n) ==
    {[secs |-> (0 :> NullSec) @@ (1 :> Loaded(a, 52 + 32 * n))
                   @@ (2 :> Loaded(b, 60 + 32 * n)) @@ (3 :> c),
      segs |-> [k \in 1 .. n |-> IF k = 1 THEN WithHeaders(66 + 32 * n)
                                          ELSE Segm("LOAD", al, 256, <<3>>)]] :
        a \in Bits(5), b \in Bits(5) \cup Bss, c \in Bits(5) \cup Bss \cup Note, al \in {0, 16}}

\* Segments nested three deep, in every order.
Nested ==
    {[secs |-> ss, segs |-> <<Segm("LOAD", 4, 64, m1), Segm("LOAD", 4, 64, m2), Segm("LOAD", 4, 64, m3)>>] :
        ss \in Sections(Bits(5), Bits(5), Bits(3) \cup Bss \cup Note),
        m1 \in Lists \ {<<>>}, m2 \in Lists \ {<<>>}, m3 \in Lists \ {<<>>}}

MCImages == {m \in OneSegment \cup TwoSegments \cup Nested : WellFormed(m)} \cup Linked(1) \cup Linked(2)

MCAnyImages == {m \in OneSegment : InOrder(m)}
=============================================================================
