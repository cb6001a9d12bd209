------------------------------ MODULE ElfLoad ------------------------------
(***************************************************************************)
(* elfio::load of a file that may be damaged: cut off, or with headers     *)
(* that lead past its end.  What makes this hard to follow is the stream:  *)
(* a read that comes short leaves its failbit set, every later seekg and   *)
(* read is then without effect, and only some of the callers look.  With   *)
(* is_lazy the contents are read on the first get_data, from the same      *)
(* stream, in the order the user asks for them.                            *)
(***************************************************************************)
EXTENDS Integers, Sequences, FiniteSets

CONSTANTS
    FileLen,      \* length of the file
    Files         \* what the header of the file says: see MCElfLoad

\* A header: its type, where its bytes are, and how many.
Headers == [type : {"NULL", "NOBITS", "BITS", "LOAD"}, offset : Nat, size : Nat]

Blank == [type |-> "NULL", offset |-> 0, size |-> 0]

\* What a read that ends inside a section header leaves of it: the fields in
\* front are the file's, those behind are still 0, and the one it ends in may be
\* anything.
PartOf(part, whole) ==
    \/ part.offset = 0 /\ part.size = 0
    \/ part.type = whole.type /\ (part.size = 0 \/ part.offset = whole.offset)

\* secSlots headers of the section table lie wholly in the file, and cut is what
\* it has of the next one.
IsFile(f) ==
    /\ IsFiniteSet(DOMAIN f.secs)
    /\ f.secs \in [0 .. Cardinality(DOMAIN f.secs) - 1 -> Headers]
    /\ f.segs \in Seq(Headers)
    /\ f.secSlots \in Nat /\ f.segSlots \in Nat /\ f.shstrndx \in Nat
    /\ f.secEntryOk \in BOOLEAN /\ f.segEntryOk \in BOOLEAN
    /\ f.cut \in Headers
    /\ f.secSlots \in DOMAIN f.secs => PartOf(f.cut, f.secs[f.secSlots])

ASSUME LoadAssumption == FileLen \in Nat /\ \A f \in Files : IsFile(f)

VARIABLES
    file,         \* never changes
    lazy,         \* the argument of load, which never changes either
    stage,        \* where load stands
    fail,         \* failbit of the stream
    sections,     \* 0 .. k-1 -> what was read, whether it is held, is_lazy
    segments,     \* likewise, a sequence
    named,        \* the names of the sections were found
    result,       \* what load has returned
    asked         \* history: sections and segments whose get_data was called

vars == <<file, lazy, stage, fail, sections, segments, named, result, asked>>

Num == Cardinality(DOMAIN sections)

Init ==
    /\ file \in Files /\ lazy \in BOOLEAN
    /\ stage = "sections" /\ fail = FALSE
    /\ sections = [i \in {} |-> Blank] /\ segments = <<>>
    /\ named = FALSE /\ result = "none" /\ asked = {}

\* Mutant: the last byte of the file cannot be read.
ReadsBeforeEnd(good, at, n) == good /\ at + n < FileLen

\* seekg and read of n > 0 bytes, of a stream that is good or has failed: whether
\* all of them were there.
Reads(good, at, n) == good /\ at + n <= FileLen

\* load_data of a section goes to the stream only for these: not for one that is
\* as large as the file.
SectionWants(hdr) == hdr.type \notin {"NULL", "NOBITS"} /\ hdr.size < FileLen

SectionComes(good, hdr) == hdr.size = 0 \/ Reads(good, hdr.offset, hdr.size)
CutsSection(good, hdr) == SectionWants(hdr) /\ ~SectionComes(good, hdr)

\* The section with what load_data has made of it.
ReadSection(good, hdr) ==
    [hdr |-> hdr, held |-> SectionWants(hdr) /\ SectionComes(good, hdr), pending |-> FALSE]

\* Segments are compared with <=, and their data is kept where all of it came.
SegmentWants(hdr) == hdr.type # "NULL" /\ hdr.size # 0 /\ hdr.size <= FileLen
SegmentComes(good, hdr) == ~SegmentWants(hdr) \/ Reads(good, hdr.offset, hdr.size)
ReadSegment(good, hdr) ==
    [hdr |-> hdr, held |-> SegmentWants(hdr) /\ SegmentComes(good, hdr), pending |-> FALSE]

\* An entry size too small for the class matters where there are entries.
SectionsReadable == file.secEntryOk \/ DOMAIN file.secs = {}
SegmentsReadable == file.segEntryOk \/ file.segs = <<>>

\* load_sections, one round: neither the header's read nor the section's own
\* load is asked how it went.  A header that came in part is believed, and its
\* data asked from the stream that has just failed; from then on nothing comes.
LoadSection ==
    /\ stage = "sections" /\ SectionsReadable /\ Num < Cardinality(DOMAIN file.secs)
    /\ LET there == ~fail /\ Num < file.secSlots
           hdr   == CASE there -> file.secs[Num]
                      [] ~fail /\ Num = file.secSlots -> file.cut
                      [] OTHER -> Blank
           sec   == IF lazy THEN [hdr |-> hdr, held |-> FALSE, pending |-> TRUE]
                    ELSE ReadSection(there, hdr)
       IN  /\ sections' = [i \in DOMAIN sections \cup {Num} |->
                              IF i = Num THEN sec ELSE sections[i]]
           /\ fail' = (~there \/ (~lazy /\ CutsSection(there, hdr)))
    /\ UNCHANGED <<file, lazy, stage, segments, named, result, asked>>

\* The names, which need the data of the string section at once.
LoadNames ==
    /\ stage = "sections" /\ SectionsReadable /\ Num = Cardinality(DOMAIN file.secs)
    /\ LET at == file.shstrndx
       IN  IF at = 0 \/ at \notin DOMAIN sections THEN UNCHANGED <<sections, fail, named>>
           ELSE LET hdr == sections[at].hdr
                    sec == IF sections[at].pending THEN ReadSection(~fail, hdr) ELSE sections[at]
                IN  /\ sections' = [sections EXCEPT ![at] = sec]
                    /\ fail' = (fail \/ (sections[at].pending /\ CutsSection(~fail, hdr)))
                    /\ named' = (sec.held /\ hdr.size > 0)
    /\ stage' = "segments"
    /\ UNCHANGED <<file, lazy, segments, result, asked>>

\* load_sections has returned false, and load goes on without sections.
SkipSections ==
    /\ stage = "sections" /\ ~SectionsReadable
    /\ stage' = "segments"
    /\ UNCHANGED <<file, lazy, fail, sections, segments, named, result, asked>>

\* Mutant: only the segment's own load is asked.
SegmentRefusedItself(hdr, there) == ~lazy /\ ~SegmentComes(there, hdr)

\* !seg->load(...) || stream.fail()
SegmentRefused(hdr, there) == ~there \/ (~lazy /\ ~SegmentComes(there, hdr))

Return(value) == stage' = "loaded" /\ result' = value

\* load_segments, one round; a segment that was refused is dropped again.
LoadSegment ==
    /\ stage = "segments" /\ SegmentsReadable /\ Len(segments) < Len(file.segs)
    /\ LET k     == Len(segments) + 1
           there == ~fail /\ k <= file.segSlots
           hdr   == IF there THEN file.segs[k] ELSE Blank
       IN  /\ fail' = (~there \/ (~lazy /\ ~SegmentComes(there, hdr)))
           /\ IF SegmentRefused(hdr, there)
              THEN /\ Return("false")
                   /\ UNCHANGED segments
              ELSE /\ segments' = Append(segments,
                          IF lazy THEN [hdr |-> hdr, held |-> FALSE, pending |-> TRUE]
                          ELSE ReadSegment(there, hdr))
                   /\ UNCHANGED <<stage, result>>
    /\ UNCHANGED <<file, lazy, sections, named, asked>>

EndSegments ==
    /\ stage = "segments"
    /\ \/ /\ SegmentsReadable /\ Len(segments) = Len(file.segs)
          /\ Return("true")
       \/ /\ ~SegmentsReadable
          /\ Return("false")
    /\ UNCHANGED <<file, lazy, fail, sections, segments, named, asked>>

\* The user asks for what load has left unread, or has already got.
GetSectionData(i) ==
    /\ stage = "loaded" /\ i \in DOMAIN sections /\ <<"sec", i>> \notin asked
    /\ asked' = asked \cup {<<"sec", i>>}
    /\ IF sections[i].pending
       THEN /\ sections' = [sections EXCEPT ![i] = ReadSection(~fail, @.hdr)]
            /\ fail' = (fail \/ CutsSection(~fail, sections[i].hdr))
       ELSE UNCHANGED <<sections, fail>>
    /\ UNCHANGED <<file, lazy, stage, segments, named, result>>

GetSegmentData(k) ==
    /\ stage = "loaded" /\ k \in DOMAIN segments /\ <<"seg", k>> \notin asked
    /\ asked' = asked \cup {<<"seg", k>>}
    /\ IF segments[k].pending
       THEN /\ segments' = [segments EXCEPT ![k] = ReadSegment(~fail, @.hdr)]
            /\ fail' = (fail \/ ~SegmentComes(~fail, segments[k].hdr))
       ELSE UNCHANGED <<segments, fail>>
    /\ UNCHANGED <<file, lazy, stage, sections, named, result>>

Done ==
    /\ stage = "loaded"
    /\ Cardinality(asked) = Num + Len(segments)
    /\ UNCHANGED vars

Next ==
    \/ LoadSection \/ LoadNames \/ SkipSections \/ LoadSegment \/ EndSegments
    \/ \E i \in DOMAIN sections : GetSectionData(i)
    \/ \E k \in DOMAIN segments : GetSegmentData(k)
    \/ Done

Spec == Init /\ [][Next]_vars
-----------------------------------------------------------------------------
\* load ignores what load_sections and each section's load return, and yet its
\* `true' can be relied on where there is a segment to be read behind them: the
\* failed stream is noticed there.  Either every header was read, and without
\* is_lazy the data of every section with bits but those as large as the file;
\* or load_sections gave up at the size of its entries, which nothing notices,
\* and there is no section at all.
TrueMeansWhole ==
    result = "true" /\ file.segs # <<>> =>
        IF SectionsReadable
        THEN /\ DOMAIN sections = DOMAIN file.secs
             /\ \A i \in DOMAIN sections :
                   /\ sections[i].hdr = file.secs[i]
                   /\ ~lazy => (sections[i].held <=> SectionWants(file.secs[i]))
        ELSE DOMAIN sections = {} /\ ~named

\* The segments of the object are the first ones of the file, and all of them
\* exactly when load has returned true: one that was refused is not kept.
SegmentsArePrefix ==
    /\ \A k \in DOMAIN segments : segments[k].hdr = file.segs[k]
    /\ stage = "loaded" => (result = "true" <=> Len(segments) = Len(file.segs))

\* The data a header promises is wanted and not in the file.
Intact(hdr) == hdr.offset + hdr.size <= FileLen
SectionDamaged(hdr) == SectionWants(hdr) /\ hdr.size # 0 /\ ~Intact(hdr)
SegmentDamaged(hdr) == SegmentWants(hdr) /\ ~Intact(hdr)

\* The segment behind the last one that was kept was refused, for its header or
\* for its data.
SegmentMissed ==
    /\ SegmentsReadable /\ result = "false"
    /\ \/ Len(segments) >= file.segSlots
       \/ ~lazy /\ SegmentDamaged(file.segs[Len(segments) + 1])

\* Damage has been met at a place that was read so far.
DamageMet ==
    \/ Num > file.secSlots
    \/ \E i \in DOMAIN sections : ~sections[i].pending /\ SectionDamaged(sections[i].hdr)
    \/ SegmentMissed
    \/ \E k \in DOMAIN segments : ~segments[k].pending /\ SegmentDamaged(segments[k].hdr)

\* Section headers are the file's up to some place, where a part of one may come
\* if the table ends there; behind it they are blank.
HeadersUpToDamage ==
    \A i \in DOMAIN sections : sections[i].hdr # file.secs[i] =>
        /\ \/ i = file.secSlots /\ PartOf(sections[i].hdr, file.secs[i])
           \/ sections[i].hdr = Blank
        /\ \A j \in DOMAIN sections : j > i => sections[j].hdr = Blank
        /\ \/ i >= file.secSlots
           \/ ~lazy /\ \E j \in 0 .. i - 1 : SectionDamaged(file.secs[j])

\* The names are found exactly where the section they are in has its data.
NamesFound ==
    stage # "sections" /\ SectionsReadable /\ file.shstrndx \in DOMAIN sections \ {0} =>
        LET at == sections[file.shstrndx]
        IN  at.hdr.size > 0 => (named <=> at.held)

\* Damage spreads forward only, and only through the stream that it leaves
\* failed.  A section or segment that was read for its data has it, but for one
\* that is damaged itself or was read when damage had been met: whatever is
\* wrong with the file elsewhere does not hurt it, with is_lazy or without.
DamageSpreadsForward ==
    /\ HeadersUpToDamage
    /\ NamesFound
    /\ fail <=> DamageMet
    /\ \A i \in DOMAIN sections :
          ~sections[i].pending /\ SectionWants(sections[i].hdr) => sections[i].held \/ DamageMet
    /\ \A k \in DOMAIN segments :
          ~segments[k].pending /\ SegmentWants(segments[k].hdr) => segments[k].held \/ DamageMet

\* From which TrueMeansWhole follows: while the sections are read, and behind
\* them, a stream that has not failed has given every header and every byte;
\* and a segment has only been kept while it had not failed.
Whole ==
    \A i \in DOMAIN sections :
        /\ sections[i].hdr = file.secs[i]
        /\ ~lazy => ~sections[i].pending /\ (sections[i].held <=> SectionWants(file.secs[i]))

LoadInv ==
    /\ IsFile(file) /\ DOMAIN sections = 0 .. Num - 1 /\ Num \in Nat
    /\ \A i \in DOMAIN sections : sections[i].hdr \in Headers
    /\ segments \in Seq([hdr : Headers, held : BOOLEAN, pending : BOOLEAN])
    /\ fail \in BOOLEAN /\ stage \in {"sections", "segments", "loaded"}
    /\ Num <= Cardinality(DOMAIN file.secs)
    /\ ~SectionsReadable => DOMAIN sections = {} /\ ~named
    /\ stage = "sections" => segments = <<>> /\ result = "none" /\ (~fail => Whole)
    /\ stage = "segments" =>
          /\ result = "none" /\ (segments # <<>> => ~fail)
          /\ SectionsReadable /\ ~fail => Whole /\ DOMAIN sections = DOMAIN file.secs
    /\ stage = "loaded" /\ result = "true" /\ file.segs # <<>> /\ SectionsReadable =>
          Whole /\ DOMAIN sections = DOMAIN file.secs

\* Likewise for SegmentsArePrefix.
PrefixInv ==
    /\ Len(segments) <= Len(file.segs)
    /\ ~SegmentsReadable => segments = <<>>
    /\ SegmentsArePrefix
=============================================================================
