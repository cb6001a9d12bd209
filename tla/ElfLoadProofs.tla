--------------------------- MODULE ElfLoadProofs ---------------------------
(***************************************************************************)
(* What the result of load can be relied on for, for every file of any     *)
(* length with any number of headers.                                      *)
(***************************************************************************)
EXTENDS ElfLoad, FiniteSetTheorems, SequenceTheorems, TLAPS

Entry == [hdr : Headers, held : BOOLEAN, pending : BOOLEAN]

\* The indices of a table and their number.
LEMMA Indices == \A n \in Nat : Cardinality(0 .. n - 1) = n
  <1>. TAKE n \in Nat
  <1>. QED  BY FS_Interval

LEMMA BlankIsHeader == Blank \in Headers
  BY DEF Blank, Headers

LEMMA Typed ==
    ASSUME IsFile(file), NEW fileSize, fileSize = Cardinality(DOMAIN file.secs)
    PROVE  /\ fileSize \in Nat /\ DOMAIN file.secs = 0 .. fileSize - 1
           /\ \A i \in 0 .. fileSize - 1 : file.secs[i] \in Headers
           /\ Len(file.segs) \in Nat
           /\ \A k \in 1 .. Len(file.segs) : file.segs[k] \in Headers
  BY FS_CardinalityType DEF IsFile

\* Reading changes what is held, never the header.
LEMMA ReadKeeps ==
    ASSUME NEW hdr \in Headers, NEW good \in BOOLEAN
    PROVE  /\ ReadSection(good, hdr) =
                 [hdr |-> hdr, held |-> ReadSection(good, hdr).held, pending |-> FALSE]
           /\ ReadSection(good, hdr).held \in BOOLEAN
           /\ ReadSegment(good, hdr) \in Entry /\ ReadSegment(good, hdr).hdr = hdr
           /\ CutsSection(good, hdr) \in BOOLEAN /\ SegmentComes(good, hdr) \in BOOLEAN
           /\ ~CutsSection(good, hdr) => (ReadSection(good, hdr).held <=> SectionWants(hdr))
  <1>1. /\ SectionWants(hdr) \in BOOLEAN /\ SectionComes(good, hdr) \in BOOLEAN
        /\ SegmentWants(hdr) \in BOOLEAN /\ SegmentComes(good, hdr) \in BOOLEAN
    BY DEF SectionWants, SectionComes, SegmentWants, SegmentComes, Reads
  <1>2. /\ ReadSection(good, hdr).hdr = hdr /\ ReadSection(good, hdr).pending = FALSE
        /\ ReadSection(good, hdr).held = (SectionWants(hdr) /\ SectionComes(good, hdr))
        /\ ReadSegment(good, hdr).hdr = hdr
    BY DEF ReadSection, ReadSegment
  <1>3. ReadSegment(good, hdr) \in Entry
    BY <1>1 DEF ReadSegment, Entry
  <1>4. ReadSection(good, hdr) =
            [hdr |-> hdr, held |-> ReadSection(good, hdr).held, pending |-> FALSE]
    BY DEF ReadSection
  <1>5. ReadSection(good, hdr).held \in BOOLEAN
    BY <1>1, <1>2, Zenon
  <1>6. CutsSection(good, hdr) \in BOOLEAN
    BY <1>1, Zenon DEF CutsSection
  <1>7. ~CutsSection(good, hdr) => (ReadSection(good, hdr).held <=> SectionWants(hdr))
    BY <1>1, <1>2, Zenon DEF CutsSection
  <1>. QED  BY <1>1, <1>2, <1>3, <1>4, <1>5, <1>6, <1>7, Zenon

LEMMA InitLoadInv == Init => LoadInv /\ PrefixInv
  <1>. SUFFICES ASSUME Init PROVE LoadInv /\ PrefixInv
    OBVIOUS
  <1>1. IsFile(file) /\ DOMAIN sections = {} /\ segments = <<>> /\ stage = "sections"
        /\ fail = FALSE /\ result = "none" /\ named = FALSE
    BY LoadAssumption DEF Init
  <1>2. Num = 0 /\ 0 .. Num - 1 = {}
    BY <1>1, FS_EmptySet DEF Num
  <1>3. Len(file.segs) \in Nat /\ Cardinality(DOMAIN file.secs) \in Nat
    BY <1>1, Typed
  <1>4. LoadInv
    <2>1. segments \in Seq(Entry)
      BY <1>1
    <2>2. DOMAIN sections = 0 .. Num - 1 /\ Num \in Nat /\ Num <= Cardinality(DOMAIN file.secs)
      BY <1>1, <1>2, <1>3
    <2>3. /\ \A i \in DOMAIN sections : sections[i].hdr \in Headers
          /\ Whole
      BY <1>1 DEF Whole
    <2>. QED  BY <1>1, <2>1, <2>2, <2>3, Zenon DEF LoadInv, Entry
  <1>5. PrefixInv
    BY <1>1, <1>3 DEF PrefixInv, SegmentsArePrefix
  <1>. QED  BY <1>4, <1>5

-----------------------------------------------------------------------------
\* One more section: the next index, a header of the file or a blank one.
LEMMA LoadSectionStep == LoadInv /\ PrefixInv /\ LoadSection => LoadInv' /\ PrefixInv'
  <1>. SUFFICES ASSUME LoadInv, PrefixInv, LoadSection PROVE LoadInv' /\ PrefixInv'
    OBVIOUS
  <1>. DEFINE there == ~fail /\ Num < file.secSlots
              hdr == CASE there -> file.secs[Num]
                       [] ~fail /\ Num = file.secSlots -> file.cut
                       [] OTHER -> Blank
              sec == IF lazy THEN [hdr |-> hdr, held |-> FALSE, pending |-> TRUE]
                     ELSE ReadSection(there, hdr)
  <1>1. /\ stage = "sections" /\ SectionsReadable /\ Num < Cardinality(DOMAIN file.secs)
        /\ sections' = [i \in DOMAIN sections \cup {Num} |->
                           IF i = Num THEN sec ELSE sections[i]]
        /\ fail' = (~there \/ (~lazy /\ CutsSection(there, hdr)))
        /\ UNCHANGED <<file, lazy, stage, segments, named, result>>
    BY DEF LoadSection
  <1>2. fail' \in BOOLEAN /\ (~fail' => there /\ (lazy \/ ~CutsSection(there, hdr)))
    <2>. HIDE DEF there, hdr
    <2>. QED  BY <1>1, Zenon
  <1>3. Num \in Nat /\ Cardinality(DOMAIN file.secs) \in Nat /\ DOMAIN sections = 0 .. Num - 1
        /\ IsFile(file) /\ file.secs[Num] \in Headers
    <2>1. IsFile(file) /\ Num \in Nat /\ DOMAIN sections = 0 .. Num - 1
      BY DEF LoadInv
    <2>. QED  BY <1>1, <2>1, Typed
  <1>4. hdr \in Headers /\ there \in BOOLEAN
    BY <1>3, BlankIsHeader DEF IsFile
  <1>5. sec.hdr = hdr /\ (~lazy /\ ~CutsSection(there, hdr) =>
                              ~sec.pending /\ (sec.held <=> SectionWants(hdr)))
    <2>. HIDE DEF hdr, there
    <2>. QED  BY <1>4, ReadKeeps
  <1>6. /\ DOMAIN sections' = 0 .. Num /\ sections'[Num] = sec
        /\ \A i \in 0 .. Num - 1 : sections'[i] = sections[i]
    <2>. HIDE DEF sec
    <2>. QED  BY <1>1, <1>3
  <1>7. Num' = Num + 1
    <2>1. DOMAIN sections' = 0 .. (Num + 1) - 1
      BY <1>3, <1>6
    <2>. QED  BY <1>3, <2>1, Indices DEF Num
  <1>8. \A i \in DOMAIN sections' : sections'[i].hdr \in Headers
    <2>. HIDE DEF hdr, sec
    <2>. QED  BY <1>3, <1>4, <1>5, <1>6 DEF LoadInv
  <1>9. ~fail' => Whole'
    <2>. SUFFICES ASSUME ~fail', NEW i \in DOMAIN sections'
                  PROVE  /\ sections'[i].hdr = file.secs[i]
                         /\ ~lazy => /\ ~sections'[i].pending
                                     /\ sections'[i].held <=> SectionWants(file.secs[i])
      BY <1>1 DEF Whole, SectionWants
    <2>1. ~fail /\ hdr = file.secs[Num]
      <3>1. there
        BY <1>2
      <3>. QED  BY <1>3, <3>1 DEF IsFile
    <2>2. CASE i = Num
      <3>. HIDE DEF hdr, sec
      <3>. QED  BY <1>2, <1>5, <1>6, <2>1, <2>2
    <2>3. CASE i # Num
      <3>1. i \in DOMAIN sections /\ sections'[i] = sections[i]
        BY <1>3, <1>6, <2>3
      <3>. QED  BY <1>1, <2>1, <3>1 DEF LoadInv, Whole
    <2>. QED  BY <2>2, <2>3
  <1>10. LoadInv'
    <2>1. DOMAIN sections' = 0 .. Num' - 1 /\ Num' \in Nat
          /\ Num' <= Cardinality(DOMAIN file.secs)
      BY <1>1, <1>3, <1>6, <1>7
    <2>2. SectionsReadable'
      BY <1>1 DEF SectionsReadable
    <2>. QED  BY <1>1, <1>2, <1>3, <1>8, <1>9, <2>1, <2>2 DEF LoadInv
  <1>11. PrefixInv'
    BY <1>1 DEF PrefixInv, SegmentsArePrefix, SegmentsReadable
  <1>. QED  BY <1>10, <1>11

-----------------------------------------------------------------------------
\* The names: the string section may be read, which keeps all headers.
LEMMA LoadNamesStep == LoadInv /\ PrefixInv /\ LoadNames => LoadInv' /\ PrefixInv'
  <1>. SUFFICES ASSUME LoadInv, PrefixInv, LoadNames PROVE LoadInv' /\ PrefixInv'
    OBVIOUS
  <1>. DEFINE at == file.shstrndx
              hdr == sections[at].hdr
              sec == IF sections[at].pending THEN ReadSection(~fail, hdr) ELSE sections[at]
              read == at # 0 /\ at \in DOMAIN sections
  <1>1. /\ stage = "sections" /\ SectionsReadable /\ Num = Cardinality(DOMAIN file.secs)
        /\ stage' = "segments"
        /\ UNCHANGED <<file, lazy, segments, result>>
        /\ ~read => UNCHANGED <<sections, fail>>
        /\ read => /\ sections' = [sections EXCEPT ![at] = sec]
                   /\ fail' = (fail \/ (sections[at].pending /\ CutsSection(~fail, hdr)))
    BY DEF LoadNames
  <1>2. /\ IsFile(file) /\ Num \in Nat /\ DOMAIN sections = 0 .. Num - 1
        /\ \A i \in DOMAIN sections : sections[i].hdr \in Headers
        /\ segments \in Seq(Entry) /\ segments = <<>> /\ result = "none" /\ fail \in BOOLEAN
        /\ ~fail => Whole
    BY <1>1 DEF LoadInv, Entry
  <1>3. DOMAIN sections = DOMAIN file.secs
    BY <1>1, <1>2, Typed
  <1>4. DOMAIN sections' = DOMAIN sections
    BY <1>1
  <1>5. fail' \in BOOLEAN /\ (~fail' => ~fail)
    <2>1. CASE read
      BY <1>1, <1>2, <2>1, Zenon
    <2>2. CASE ~read
      BY <1>1, <1>2, <2>2, Zenon
    <2>. QED  BY <2>1, <2>2
  <1>6. \A i \in DOMAIN sections : \/ sections'[i] = sections[i]
                                  \/ /\ i = at /\ read /\ sections[at].pending
                                     /\ sections'[i] = ReadSection(~fail, hdr)
    <2>. HIDE DEF hdr, at
    <2>. QED  BY <1>1
  <1>7. \A i \in DOMAIN sections : sections'[i].hdr = sections[i].hdr
    BY <1>6 DEF ReadSection
  <1>8. ~fail' => Whole'
    <2>. SUFFICES ASSUME ~fail', NEW i \in DOMAIN sections
                  PROVE  /\ sections'[i].hdr = file.secs[i]
                         /\ ~lazy => /\ ~sections'[i].pending
                                     /\ sections'[i].held <=> SectionWants(file.secs[i])
      BY <1>1, <1>4 DEF Whole, SectionWants
    <2>1. /\ sections[i].hdr = file.secs[i]
          /\ ~lazy => /\ ~sections[i].pending
                      /\ sections[i].held <=> SectionWants(file.secs[i])
      BY <1>2, <1>5 DEF Whole
    <2>. QED  BY <1>6, <1>7, <2>1
  <1>9. LoadInv'
    <2>1. Num' = Num
      BY <1>4 DEF Num
    <2>2. \A i \in DOMAIN sections' : sections'[i].hdr \in Headers
      BY <1>2, <1>4, <1>7
    <2>3. SectionsReadable' /\ IsFile(file')
      BY <1>1, <1>2 DEF SectionsReadable
    <2>. QED  BY <1>1, <1>2, <1>3, <1>4, <1>5, <1>8, <2>1, <2>2, <2>3 DEF LoadInv, Entry
  <1>10. PrefixInv'
    BY <1>1 DEF PrefixInv, SegmentsArePrefix, SegmentsReadable
  <1>. QED  BY <1>9, <1>10

LEMMA SkipSectionsStep == LoadInv /\ PrefixInv /\ SkipSections => LoadInv' /\ PrefixInv'
  <1>. SUFFICES ASSUME LoadInv, PrefixInv, SkipSections PROVE LoadInv' /\ PrefixInv'
    OBVIOUS
  <1>1. /\ stage = "sections" /\ ~SectionsReadable /\ stage' = "segments"
        /\ UNCHANGED <<file, lazy, fail, sections, segments, named, result>>
    BY DEF SkipSections
  <1>2. ~SectionsReadable' /\ Num' = Num /\ IsFile(file')
    BY <1>1 DEF LoadInv, SectionsReadable, Num
  <1>3. LoadInv'
    BY <1>1, <1>2 DEF LoadInv
  <1>4. PrefixInv'
    BY <1>1 DEF PrefixInv, SegmentsArePrefix, SegmentsReadable
  <1>. QED  BY <1>3, <1>4

\* One more segment, or the end: it is only kept from a stream that is good.
LEMMA LoadSegmentStep == LoadInv /\ PrefixInv /\ LoadSegment => LoadInv' /\ PrefixInv'
  <1>. SUFFICES ASSUME LoadInv, PrefixInv, LoadSegment PROVE LoadInv' /\ PrefixInv'
    OBVIOUS
  <1>. DEFINE k == Len(segments) + 1
              there == ~fail /\ k <= file.segSlots
              hdr == IF there THEN file.segs[k] ELSE Blank
              seg == IF lazy THEN [hdr |-> hdr, held |-> FALSE, pending |-> TRUE]
                     ELSE ReadSegment(there, hdr)
  <1>1. /\ stage = "segments" /\ SegmentsReadable /\ Len(segments) < Len(file.segs)
        /\ fail' = (~there \/ (~lazy /\ ~SegmentComes(there, hdr)))
        /\ UNCHANGED <<file, lazy, sections, named>>
    BY DEF LoadSegment
  <1>2. \/ stage' = "loaded" /\ result' = "false" /\ segments' = segments
        \/ /\ there /\ (lazy \/ SegmentComes(there, hdr))
           /\ segments' = Append(segments, seg) /\ stage' = stage /\ result' = result
    BY Zenon DEF LoadSegment, SegmentRefused, Return
  <1>3. /\ IsFile(file) /\ segments \in Seq(Entry) /\ result = "none" /\ fail \in BOOLEAN
        /\ SectionsReadable /\ ~fail => Whole /\ DOMAIN sections = DOMAIN file.secs
    BY <1>1 DEF LoadInv, Entry
  <1>4. Len(segments) \in Nat /\ Len(file.segs) \in Nat /\ k \in 1 .. Len(file.segs)
        /\ file.segs[k] \in Headers
    BY <1>1, <1>3, Typed
  <1>5. hdr \in Headers /\ there \in BOOLEAN
    BY <1>4, BlankIsHeader
  <1>6. seg \in Entry /\ seg.hdr = hdr
    <2>. HIDE DEF hdr, there
    <2>. QED  BY <1>5, ReadKeeps DEF Entry
  <1>7. fail' \in BOOLEAN
    BY <1>1, Zenon
  <1>8. /\ Num' = Num /\ IsFile(file') /\ (Whole' <=> Whole)
        /\ (SectionsReadable' <=> SectionsReadable) /\ (SegmentsReadable' <=> SegmentsReadable)
    BY <1>1 DEF LoadInv, Num, Whole, SectionsReadable, SegmentsReadable, SectionWants
  <1>9. CASE stage' = "loaded" /\ result' = "false" /\ segments' = segments
    <2>1. LoadInv'
      BY <1>1, <1>7, <1>8, <1>9 DEF LoadInv
    <2>2. PrefixInv'
      BY <1>1, <1>4, <1>8, <1>9 DEF PrefixInv, SegmentsArePrefix
    <2>. QED  BY <2>1, <2>2
  <1>10. CASE /\ there /\ (lazy \/ SegmentComes(there, hdr))
              /\ segments' = Append(segments, seg) /\ stage' = stage /\ result' = result
    <2>. HIDE DEF hdr, seg
    <2>1. /\ segments' \in Seq(Entry) /\ Len(segments') = Len(segments) + 1
          /\ segments'[k] = seg
          /\ \A j \in 1 .. Len(segments) : segments'[j] = segments[j]
      BY <1>3, <1>6, <1>10
    <2>2. ~fail'
      BY <1>1, <1>10, Zenon
    <2>3. ~fail /\ hdr = file.segs[k]
      BY <1>10 DEF hdr
    <2>4. LoadInv'
      <3>1. ~fail'
        BY <1>1, <1>10, Zenon
      <3>2. result' = "none" /\ stage' = "segments"
        BY <1>1, <1>3, <1>10
      <3>. QED  BY <1>1, <1>3, <1>7, <1>8, <2>1, <2>3, <3>1, <3>2 DEF LoadInv, Entry
    <2>5. PrefixInv'
      <3>1. \A j \in DOMAIN segments' : segments'[j].hdr = file.segs[j]
        BY <1>3, <1>4, <1>6, <2>1, <2>3 DEF PrefixInv, SegmentsArePrefix
      <3>2. Len(segments') <= Len(file.segs)
        BY <1>1, <1>4, <2>1
      <3>. QED  BY <1>1, <1>8, <1>10, <3>1, <3>2 DEF PrefixInv, SegmentsArePrefix
    <2>. QED  BY <2>4, <2>5
  <1>. QED  BY <1>2, <1>9, <1>10

\* `true' only with all segments of the file: with any at all, the stream was
\* still good behind the last one.
LEMMA EndSegmentsStep == LoadInv /\ PrefixInv /\ EndSegments => LoadInv' /\ PrefixInv'
  <1>. SUFFICES ASSUME LoadInv, PrefixInv, EndSegments PROVE LoadInv' /\ PrefixInv'
    OBVIOUS
  <1>1. /\ stage = "segments" /\ stage' = "loaded"
        /\ UNCHANGED <<file, lazy, fail, sections, segments, named>>
        /\ \/ SegmentsReadable /\ Len(segments) = Len(file.segs) /\ result' = "true"
           \/ ~SegmentsReadable /\ result' = "false"
    BY DEF EndSegments, Return
  <1>2. /\ Num' = Num /\ IsFile(file') /\ (Whole' <=> Whole)
        /\ (SectionsReadable' <=> SectionsReadable) /\ (SegmentsReadable' <=> SegmentsReadable)
    BY <1>1 DEF LoadInv, Num, Whole, SectionsReadable, SegmentsReadable, SectionWants
  <1>3. /\ IsFile(file) /\ segments \in Seq(Entry)
        /\ segments # <<>> => ~fail
        /\ SectionsReadable /\ ~fail => Whole /\ DOMAIN sections = DOMAIN file.secs
    BY <1>1 DEF LoadInv, Entry
  <1>4. result' = "true" /\ file.segs # <<>> => segments # <<>>
    BY <1>1, <1>3, Typed DEF IsFile
  <1>5. LoadInv'
    BY <1>1, <1>2, <1>3, <1>4 DEF LoadInv
  <1>6. PrefixInv'
    <2>1. ~SegmentsReadable => Len(segments) # Len(file.segs)
      BY <1>3 DEF PrefixInv, SegmentsReadable, IsFile
    <2>. QED  BY <1>1, <1>2, <2>1 DEF PrefixInv, SegmentsArePrefix
  <1>. QED  BY <1>5, <1>6

-----------------------------------------------------------------------------
\* get_data reads what was pending; without is_lazy nothing is.
LEMMA GetSectionDataStep ==
    ASSUME LoadInv, PrefixInv, NEW i \in DOMAIN sections, GetSectionData(i)
    PROVE  LoadInv' /\ PrefixInv'
  <1>1. /\ stage = "loaded" /\ UNCHANGED <<file, lazy, stage, segments, named, result>>
        /\ \/ /\ sections[i].pending
              /\ sections' = [sections EXCEPT ![i] = ReadSection(~fail, sections[i].hdr)]
              /\ fail' = (fail \/ CutsSection(~fail, sections[i].hdr))
           \/ UNCHANGED <<sections, fail>>
    BY DEF GetSectionData
  <1>2. fail' \in BOOLEAN
    <2>1. fail \in BOOLEAN
      BY DEF LoadInv
    <2>. QED  BY <1>1, <2>1, Zenon
  <1>3. /\ DOMAIN sections' = DOMAIN sections
        /\ \A j \in DOMAIN sections :
              \/ sections'[j] = sections[j]
              \/ /\ j = i /\ sections[j].pending
                 /\ sections'[j] = ReadSection(~fail, sections[i].hdr)
    BY <1>1
  <1>4. \A j \in DOMAIN sections : sections'[j].hdr = sections[j].hdr
    BY <1>3 DEF ReadSection
  <1>5. /\ Num' = Num /\ IsFile(file') /\ (SectionsReadable' <=> SectionsReadable)
        /\ (SegmentsReadable' <=> SegmentsReadable)
    BY <1>1, <1>3 DEF LoadInv, Num, SectionsReadable, SegmentsReadable
  <1>6. Whole => Whole'
    <2>. SUFFICES ASSUME Whole, NEW j \in DOMAIN sections
                  PROVE  /\ sections'[j].hdr = file.secs[j]
                         /\ ~lazy => /\ ~sections'[j].pending
                                     /\ sections'[j].held <=> SectionWants(file.secs[j])
      BY <1>1, <1>3 DEF Whole, SectionWants
    <2>. QED  BY <1>3, <1>4 DEF Whole
  <1>7. LoadInv'
    BY <1>1, <1>2, <1>3, <1>4, <1>5, <1>6 DEF LoadInv
  <1>8. PrefixInv'
    BY <1>1, <1>5 DEF PrefixInv, SegmentsArePrefix
  <1>. QED  BY <1>7, <1>8

LEMMA GetSegmentDataStep ==
    ASSUME LoadInv, PrefixInv, NEW k \in DOMAIN segments, GetSegmentData(k)
    PROVE  LoadInv' /\ PrefixInv'
  <1>1. /\ stage = "loaded" /\ UNCHANGED <<file, lazy, stage, sections, named, result>>
        /\ \/ /\ segments' = [segments EXCEPT ![k] = ReadSegment(~fail, segments[k].hdr)]
              /\ fail' = (fail \/ ~SegmentComes(~fail, segments[k].hdr))
           \/ UNCHANGED <<segments, fail>>
    BY DEF GetSegmentData
  <1>2. IsFile(file) /\ segments \in Seq(Entry) /\ fail \in BOOLEAN
    BY DEF LoadInv, Entry
  <1>3. fail' \in BOOLEAN
    BY <1>1, <1>2, Zenon
  <1>4. segments[k] \in Entry /\ segments[k].hdr \in Headers
    <2>1. segments[k] \in Entry
      BY <1>2
    <2>. QED  BY <2>1 DEF Entry
  <1>5. ReadSegment(~fail, segments[k].hdr) \in Entry
        /\ ReadSegment(~fail, segments[k].hdr).hdr = segments[k].hdr
    BY <1>4, ReadKeeps
  <1>6. /\ segments' \in Seq(Entry) /\ Len(segments') = Len(segments)
        /\ DOMAIN segments' = DOMAIN segments
        /\ \A j \in DOMAIN segments : segments'[j].hdr = segments[j].hdr
    BY <1>1, <1>2, <1>5
  <1>7. /\ Num' = Num /\ IsFile(file') /\ (Whole' <=> Whole)
        /\ (SectionsReadable' <=> SectionsReadable) /\ (SegmentsReadable' <=> SegmentsReadable)
    BY <1>1 DEF LoadInv, Num, Whole, SectionsReadable, SegmentsReadable, SectionWants
  <1>8. LoadInv'
    BY <1>1, <1>3, <1>6, <1>7 DEF LoadInv, Entry
  <1>9. PrefixInv'
    <2>1. ~SegmentsReadable => segments' = <<>>
      BY <1>2, <1>6 DEF PrefixInv
    <2>. QED  BY <1>1, <1>6, <1>7, <2>1 DEF PrefixInv, SegmentsArePrefix
  <1>. QED  BY <1>8, <1>9

LEMMA StepLoadInv == LoadInv /\ PrefixInv /\ [Next]_vars => LoadInv' /\ PrefixInv'
  <1>. SUFFICES ASSUME LoadInv, PrefixInv, [Next]_vars PROVE LoadInv' /\ PrefixInv'
    OBVIOUS
  <1>1. CASE UNCHANGED vars
    BY <1>1 DEF LoadInv, PrefixInv, vars, SegmentsArePrefix, SegmentsReadable,
                SectionsReadable, Whole, SectionWants, Num, IsFile
  <1>2. CASE Next
    BY <1>1, <1>2, LoadSectionStep, LoadNamesStep, SkipSectionsStep, LoadSegmentStep,
       EndSegmentsStep, GetSectionDataStep, GetSegmentDataStep DEF Next, Done
  <1>. QED  BY <1>1, <1>2

\* The invariant both theorems rest on: while load reads, a stream that is
\* still good has given everything so far (elfio.hpp load, load_sections,
\* load_segments).
THEOREM LoadInvariant == Spec => [](LoadInv /\ PrefixInv)
  <1>1. LoadInv /\ PrefixInv /\ [Next]_vars => (LoadInv /\ PrefixInv)'
    BY StepLoadInv
  <1>. QED  BY <1>1, InitLoadInv, PTL DEF Spec

\* A load that returns true for a file with a segment has read every header,
\* and without is_lazy all data of sections smaller than the file, even though
\* load looks at no result but that of load_segments (elfio.hpp:192).  The one
\* exception is stated with it: where load_sections itself gave up, at the size
\* of the entries, load says true of an object without a section.
THEOREM TrueIsReliable == Spec => []TrueMeansWhole
  <1>1. LoadInv => TrueMeansWhole
    <2>. SUFFICES ASSUME LoadInv, result = "true", file.segs # <<>>
                  PROVE  /\ SectionsReadable => Whole /\ DOMAIN sections = DOMAIN file.secs
                         /\ ~SectionsReadable => DOMAIN sections = {} /\ ~named
      BY DEF TrueMeansWhole, Whole
    <2>1. stage = "loaded"
      BY DEF LoadInv
    <2>. QED  BY <2>1 DEF LoadInv
  <1>. QED  BY <1>1, LoadInvariant, PTL

\* The segments that were kept are the first of the file, all of them exactly
\* when load says so (elfio.hpp load_segments).
THEOREM SegmentsKept == Spec => []SegmentsArePrefix
  <1>1. PrefixInv => SegmentsArePrefix
    BY DEF PrefixInv
  <1>. QED  BY <1>1, LoadInvariant, PTL
-----------------------------------------------------------------------------
(***************************************************************************)
(* DamageSpreadsForward.  The stream has failed exactly when damage was    *)
(* met, which for a header that is read on top of the others, or a content *)
(* that is read on demand, follows from how that one read ends.            *)
(***************************************************************************)
SpreadInv ==
    /\ lazy \in BOOLEAN
    /\ stage = "sections" /\ lazy => \A i \in DOMAIN sections : sections[i].pending
    /\ stage # "sections" /\ SectionsReadable /\ file.shstrndx \in DOMAIN sections \ {0} =>
          ~sections[file.shstrndx].pending
    /\ DamageSpreadsForward

\* The parts of DamageMet that are kept apart below.
SectionsHurt == \E i \in DOMAIN sections : ~sections[i].pending /\ SectionDamaged(sections[i].hdr)
SegmentsHurt == \E k \in DOMAIN segments : ~segments[k].pending /\ SegmentDamaged(segments[k].hdr)

LEMMA DamageParts ==
    DamageMet <=> Num > file.secSlots \/ SectionsHurt \/ SegmentMissed \/ SegmentsHurt
  BY DEF DamageMet, SectionsHurt, SegmentsHurt

\* What the typing of the file and of the sections gives, for every step.
LEMMA Ranges ==
    ASSUME LoadInv
    PROVE  /\ DOMAIN sections = 0 .. Num - 1 /\ Num \in Nat
           /\ file.secSlots \in Nat /\ file.segSlots \in Nat
           /\ Cardinality(DOMAIN file.secs) \in Nat
           /\ DOMAIN file.secs = 0 .. Cardinality(DOMAIN file.secs) - 1
           /\ Num <= Cardinality(DOMAIN file.secs)
           /\ DOMAIN sections \subseteq DOMAIN file.secs
           /\ \A i \in DOMAIN file.secs : file.secs[i] \in Headers
           /\ Len(file.segs) \in Nat /\ DOMAIN file.segs = 1 .. Len(file.segs)
           /\ \A k \in 1 .. Len(file.segs) : file.segs[k] \in Headers
           /\ file.cut \in Headers
           /\ file.secSlots \in DOMAIN file.secs => PartOf(file.cut, file.secs[file.secSlots])
           /\ fail \in BOOLEAN
           /\ Len(segments) \in Nat /\ DOMAIN segments = 1 .. Len(segments)
           /\ \A k \in 1 .. Len(segments) : segments[k].hdr \in Headers
  <1>1. IsFile(file) /\ DOMAIN sections = 0 .. Num - 1 /\ Num \in Nat
        /\ Num <= Cardinality(DOMAIN file.secs) /\ fail \in BOOLEAN /\ segments \in Seq(Entry)
    BY DEF LoadInv, Entry
  <1>2. /\ file.secSlots \in Nat /\ file.segSlots \in Nat
        /\ DOMAIN file.segs = 1 .. Len(file.segs)
        /\ file.cut \in Headers
        /\ file.secSlots \in DOMAIN file.secs => PartOf(file.cut, file.secs[file.secSlots])
    BY <1>1 DEF IsFile
  <1>3. \A k \in 1 .. Len(segments) : segments[k].hdr \in Headers
    <2>. TAKE k \in 1 .. Len(segments)
    <2>1. segments[k] \in Entry
      BY <1>1
    <2>. QED  BY <2>1 DEF Entry
  <1>4. Len(segments) \in Nat /\ DOMAIN segments = 1 .. Len(segments)
    BY <1>1
  <1>5. /\ Cardinality(DOMAIN file.secs) \in Nat
        /\ DOMAIN file.secs = 0 .. Cardinality(DOMAIN file.secs) - 1
        /\ \A i \in DOMAIN file.secs : file.secs[i] \in Headers
        /\ Len(file.segs) \in Nat
        /\ \A k \in 1 .. Len(file.segs) : file.segs[k] \in Headers
    BY <1>1, Typed
  <1>6. DOMAIN sections \subseteq DOMAIN file.secs
    BY <1>1, <1>5
  <1>. QED  BY <1>1, <1>2, <1>3, <1>4, <1>5, <1>6

\* How the read of a section's data ends: from a good stream it comes short
\* exactly where the header is damaged, and from a failed one nothing comes.
LEMMA SectionOutcome ==
    ASSUME NEW hdr \in Headers, NEW good \in BOOLEAN
    PROVE  /\ good => (CutsSection(good, hdr) <=> SectionDamaged(hdr))
           /\ SectionWants(hdr) => ReadSection(good, hdr).held \/ ~good \/ SectionDamaged(hdr)
           /\ ReadSection(good, hdr).hdr = hdr /\ ReadSection(good, hdr).pending = FALSE
  <1>1. SectionComes(good, hdr) <=> hdr.size = 0 \/ (good /\ Intact(hdr))
    BY DEF SectionComes, Reads, Intact
  <1>2. /\ ReadSection(good, hdr).held = (SectionWants(hdr) /\ SectionComes(good, hdr))
        /\ ReadSection(good, hdr).hdr = hdr /\ ReadSection(good, hdr).pending = FALSE
    BY DEF ReadSection
  <1>3. SectionWants(hdr) \in BOOLEAN /\ SectionComes(good, hdr) \in BOOLEAN
    BY DEF SectionWants, SectionComes, Reads
  <1>4. good => (CutsSection(good, hdr) <=> SectionDamaged(hdr))
    BY <1>1, <1>3 DEF CutsSection, SectionDamaged
  <1>5. SectionWants(hdr) => ReadSection(good, hdr).held \/ ~good \/ SectionDamaged(hdr)
    <2>1. SectionWants(hdr) => SectionComes(good, hdr) \/ ~good \/ SectionDamaged(hdr)
      BY <1>1 DEF SectionDamaged
    <2>. QED  BY <1>2, <1>3, <2>1, Zenon
  <1>. QED  BY <1>2, <1>4, <1>5

LEMMA SegmentOutcome ==
    ASSUME NEW hdr \in Headers, NEW good \in BOOLEAN
    PROVE  /\ good => (~SegmentComes(good, hdr) <=> SegmentDamaged(hdr))
           /\ SegmentWants(hdr) => ReadSegment(good, hdr).held \/ ~good \/ SegmentDamaged(hdr)
           /\ ReadSegment(good, hdr).hdr = hdr /\ ReadSegment(good, hdr).pending = FALSE
  <1>1. SegmentComes(good, hdr) <=> ~SegmentWants(hdr) \/ (good /\ Intact(hdr))
    BY DEF SegmentComes, Reads, Intact
  <1>2. /\ ReadSegment(good, hdr).held = (SegmentWants(hdr) /\ SegmentComes(good, hdr))
        /\ ReadSegment(good, hdr).hdr = hdr /\ ReadSegment(good, hdr).pending = FALSE
    BY DEF ReadSegment
  <1>3. SegmentWants(hdr) \in BOOLEAN /\ SegmentComes(good, hdr) \in BOOLEAN
    BY DEF SegmentWants, SegmentComes, Reads
  <1>4. good => (~SegmentComes(good, hdr) <=> SegmentDamaged(hdr))
    BY <1>1, <1>3 DEF SegmentDamaged
  <1>5. SegmentWants(hdr) => ReadSegment(good, hdr).held \/ ~good \/ SegmentDamaged(hdr)
    <2>1. SegmentWants(hdr) => SegmentComes(good, hdr) \/ ~good \/ SegmentDamaged(hdr)
      BY <1>1 DEF SegmentDamaged
    <2>. QED  BY <1>2, <1>3, <2>1, Zenon
  <1>. QED  BY <1>2, <1>4, <1>5

LEMMA InitSpread == Init => SpreadInv
  <1>. SUFFICES ASSUME Init PROVE SpreadInv
    OBVIOUS
  <1>1. /\ DOMAIN sections = {} /\ stage = "sections" /\ fail = FALSE /\ lazy \in BOOLEAN
        /\ segments = <<>> /\ result = "none" /\ IsFile(file)
    BY LoadAssumption DEF Init
  <1>2. Num = 0 /\ file.secSlots \in Nat
    BY <1>1, FS_EmptySet DEF Num, IsFile
  <1>3. ~DamageMet
    <2>1. ~SectionsHurt /\ ~SegmentsHurt /\ ~SegmentMissed
      BY <1>1 DEF SectionsHurt, SegmentsHurt, SegmentMissed
    <2>. QED  BY <1>2, <2>1, DamageParts
  <1>4. HeadersUpToDamage /\ NamesFound
    BY <1>1 DEF HeadersUpToDamage, NamesFound
  <1>5. DamageSpreadsForward
    BY <1>1, <1>3, <1>4 DEF DamageSpreadsForward
  <1>. QED  BY <1>1, <1>5 DEF SpreadInv

\* One more section: the end of the table, what was met before, or its own
\* bytes make the stream fail.
LEMMA LoadSectionSpread ==
    ASSUME LoadInv, PrefixInv, SpreadInv, LoadSection
    PROVE  SpreadInv'
  <1>. DEFINE there == ~fail /\ Num < file.secSlots
              hdr == CASE there -> file.secs[Num]
                       [] ~fail /\ Num = file.secSlots -> file.cut
                       [] OTHER -> Blank
              sec == IF lazy THEN [hdr |-> hdr, held |-> FALSE, pending |-> TRUE]
                     ELSE ReadSection(there, hdr)
  <1>1. /\ stage = "sections" /\ Num < Cardinality(DOMAIN file.secs)
        /\ sections' = [i \in DOMAIN sections \cup {Num} |->
                           IF i = Num THEN sec ELSE sections[i]]
        /\ fail' = (~there \/ (~lazy /\ CutsSection(there, hdr)))
        /\ UNCHANGED <<file, lazy, stage, segments, result>>
    BY DEF LoadSection
  <1>2. /\ Num \in Nat /\ DOMAIN sections = 0 .. Num - 1 /\ file.secSlots \in Nat
        /\ Num \in DOMAIN file.secs /\ file.secs[Num] \in Headers
        /\ lazy \in BOOLEAN /\ fail \in BOOLEAN /\ file.cut \in Headers
        /\ segments = <<>> /\ result = "none"
    <2>1. segments = <<>> /\ result = "none"
      BY <1>1 DEF LoadInv
    <2>. QED  BY <1>1, <2>1, Ranges DEF SpreadInv
  <1>3. /\ there => hdr = file.secs[Num]
        /\ ~there => hdr = Blank \/ (Num = file.secSlots /\ hdr = file.cut)
        /\ fail => hdr = Blank
    BY <1>2
  <1>4. hdr \in Headers /\ there \in BOOLEAN
    <2>. HIDE DEF hdr
    <2>1. hdr \in Headers
      <3>1. CASE there
        BY <1>2, <1>3, <3>1
      <3>2. CASE ~there
        BY <1>2, <1>3, <3>2, BlankIsHeader
      <3>. QED  BY <3>1, <3>2
    <2>. QED  BY <2>1
  <1>. HIDE DEF hdr
  <1>5. /\ sec.hdr = hdr /\ sec.pending = lazy
        /\ ~lazy /\ SectionWants(hdr) => sec.held \/ ~there \/ SectionDamaged(hdr)
    <2>. HIDE DEF there
    <2>1. CASE lazy
      BY <1>2, <2>1
    <2>2. CASE ~lazy
      <3>1. sec = ReadSection(there, hdr)
        BY <2>2
      <3>. HIDE DEF sec
      <3>. QED  BY <1>2, <1>4, <2>2, <3>1, SectionOutcome
    <2>. QED  BY <2>1, <2>2
  <1>. HIDE DEF sec
  <1>6. /\ DOMAIN sections' = 0 .. Num /\ sections'[Num] = sec
        /\ \A i \in 0 .. Num - 1 : sections'[i] = sections[i]
    BY <1>1, <1>2
  <1>7. Num' = Num + 1
    <2>1. DOMAIN sections' = 0 .. (Num + 1) - 1
      BY <1>2, <1>6
    <2>. QED  BY <1>2, <2>1, Indices DEF Num
  <1>8. fail <=> Num > file.secSlots \/ SectionsHurt
    <2>1. ~SegmentMissed /\ ~SegmentsHurt
      BY <1>2 DEF SegmentMissed, SegmentsHurt
    <2>. QED  BY <2>1, DamageParts DEF SpreadInv, DamageSpreadsForward
  <1>9. DamageMet' <=> Num + 1 > file.secSlots \/ SectionsHurt'
    <2>1. ~SegmentMissed' /\ ~SegmentsHurt'
      BY <1>1, <1>2 DEF SegmentMissed, SegmentsHurt
    <2>2. DamageMet' <=> (Num > file.secSlots)' \/ SectionsHurt' \/ SegmentMissed' \/ SegmentsHurt'
      BY DamageParts, PTL
    <2>. QED  BY <1>1, <1>7, <2>1, <2>2
  <1>10. SectionsHurt' <=> SectionsHurt \/ (~lazy /\ SectionDamaged(hdr))
    <2>1. SectionsHurt' <=> \E i \in 0 .. Num :
                               ~sections'[i].pending /\ SectionDamaged(sections'[i].hdr)
      BY <1>6 DEF SectionsHurt, SectionDamaged, SectionWants, Intact
    <2>2. 0 .. Num = (0 .. Num - 1) \cup {Num}
      BY <1>2
    <2>. QED  BY <1>2, <1>5, <1>6, <2>1, <2>2 DEF SectionsHurt
  <1>11. fail' <=> DamageMet'
    <2>1. CASE there
      <3>1. CutsSection(there, hdr) <=> SectionDamaged(hdr)
        BY <1>4, <2>1, SectionOutcome
      <3>2. ~SectionsHurt /\ ~(Num + 1 > file.secSlots)
        BY <1>2, <1>8, <2>1
      <3>. QED  BY <1>1, <1>2, <1>9, <1>10, <2>1, <3>1, <3>2
    <2>2. CASE ~there
      <3>1. fail'
        BY <1>1, <2>2
      <3>2. CASE fail
        <4>1. Num > file.secSlots => Num + 1 > file.secSlots
          BY <1>2
        <4>. QED  BY <1>8, <1>9, <1>10, <3>1, <3>2, <4>1
      <3>3. CASE ~fail
        <4>1. Num + 1 > file.secSlots
          BY <1>2, <2>2, <3>3
        <4>. QED  BY <1>9, <3>1, <4>1
      <3>. QED  BY <3>2, <3>3
    <2>. QED  BY <2>1, <2>2
  <1>12. lazy => \A i \in DOMAIN sections' : sections'[i].pending
    BY <1>1, <1>2, <1>5, <1>6 DEF SpreadInv
  <1>13. HeadersUpToDamage
    BY DEF SpreadInv, DamageSpreadsForward
  <1>14. ASSUME fail
         PROVE  \/ Num > file.secSlots
                \/ ~lazy /\ \E j \in 0 .. Num - 1 : SectionDamaged(file.secs[j])
    <2>. SUFFICES ASSUME ~(Num > file.secSlots), SectionsHurt
                  PROVE  ~lazy /\ \E j \in 0 .. Num - 1 : SectionDamaged(file.secs[j])
      BY <1>8, <1>14
    <2>1. PICK j \in 0 .. Num - 1 : ~sections[j].pending /\ SectionDamaged(sections[j].hdr)
      BY <1>2 DEF SectionsHurt
    <2>2. ~lazy
      BY <1>1, <1>2, <2>1 DEF SpreadInv
    <2>3. CASE sections[j].hdr = file.secs[j]
      BY <2>1, <2>2, <2>3
    <2>4. CASE sections[j].hdr # file.secs[j]
      <3>1. \E h \in 0 .. j - 1 : SectionDamaged(file.secs[h])
        BY <1>2, <1>13, <2>1, <2>4 DEF HeadersUpToDamage
      <3>. QED  BY <1>2, <2>1, <2>2, <3>1
    <2>. QED  BY <2>3, <2>4
  <1>15. HeadersUpToDamage'
    <2>. SUFFICES ASSUME NEW i \in 0 .. Num, sections'[i].hdr # file.secs[i]
                  PROVE  /\ \/ i = file.secSlots /\ PartOf(sections'[i].hdr, file.secs[i])
                            \/ sections'[i].hdr = Blank
                         /\ \A j \in 0 .. Num : j > i => sections'[j].hdr = Blank
                         /\ \/ i >= file.secSlots
                            \/ ~lazy /\ \E j \in 0 .. i - 1 : SectionDamaged(file.secs[j])
      <3>1. file' = file /\ lazy' = lazy /\ DOMAIN sections' = 0 .. Num
        BY <1>1, <1>6
      <3>. QED  BY <3>1 DEF HeadersUpToDamage, SectionDamaged, SectionWants, Intact, PartOf
    <2>1. CASE i = Num
      <3>1. sections'[i].hdr = hdr /\ ~there
        BY <1>3, <1>5, <1>6, <2>1
      <3>2. \/ i = file.secSlots /\ PartOf(sections'[i].hdr, file.secs[i])
            \/ sections'[i].hdr = Blank
        BY <1>2, <1>3, <2>1, <3>1, Ranges
      <3>3. \/ i >= file.secSlots
            \/ ~lazy /\ \E j \in 0 .. i - 1 : SectionDamaged(file.secs[j])
        BY <1>2, <1>14, <2>1, <3>1
      <3>4. \A j \in 0 .. Num : ~(j > i)
        BY <1>2, <2>1
      <3>. QED  BY <3>2, <3>3, <3>4
    <2>2. CASE i < Num
      <3>1. i \in 0 .. Num - 1 /\ sections'[i] = sections[i] /\ sections[i].hdr # file.secs[i]
        BY <1>2, <1>6, <2>2
      <3>2. ~Whole
        BY <1>2, <3>1 DEF Whole
      <3>3. fail /\ hdr = Blank
        BY <1>1, <1>3, <3>2 DEF LoadInv
      <3>4. \A j \in 0 .. Num : j > i => sections'[j].hdr = Blank
        <4>. SUFFICES ASSUME NEW j \in 0 .. Num, j > i PROVE sections'[j].hdr = Blank
          OBVIOUS
        <4>1. CASE j = Num
          BY <1>5, <1>6, <3>3, <4>1
        <4>2. CASE j # Num
          <5>1. j \in DOMAIN sections /\ sections'[j] = sections[j]
            BY <1>2, <1>6, <4>2
          <5>. QED  BY <1>2, <1>13, <3>1, <5>1 DEF HeadersUpToDamage
        <4>. QED  BY <4>1, <4>2
      <3>. QED  BY <1>2, <1>13, <3>1, <3>4 DEF HeadersUpToDamage
    <2>. QED  BY <1>2, <2>1, <2>2
  <1>16. \A i \in DOMAIN sections' :
            ~sections'[i].pending /\ SectionWants(sections'[i].hdr) => sections'[i].held \/ DamageMet'
    <2>. SUFFICES ASSUME NEW i \in 0 .. Num, ~sections'[i].pending, SectionWants(sections'[i].hdr),
                         ~DamageMet'
                  PROVE  sections'[i].held
      BY <1>6
    <2>1. there /\ ~fail /\ ~(~lazy /\ SectionDamaged(hdr))
      BY <1>1, <1>9, <1>10, <1>11
    <2>2. CASE i = Num
      BY <1>2, <1>5, <1>6, <2>1, <2>2
    <2>3. CASE i # Num
      <3>1. i \in DOMAIN sections /\ sections'[i] = sections[i]
        BY <1>2, <1>6, <2>3
      <3>. QED  BY <2>1, <3>1 DEF SpreadInv, DamageSpreadsForward
    <2>. QED  BY <2>2, <2>3
  <1>17. DamageSpreadsForward'
    <2>1. NamesFound'
      BY <1>1 DEF NamesFound
    <2>2. DOMAIN segments' = {}
      BY <1>1, <1>2
    <2>3. \A i \in DOMAIN sections' :
             (~sections[i].pending /\ SectionWants(sections[i].hdr) => sections[i].held \/ DamageMet)'
      BY <1>16 DEF SectionWants
    <2>. QED  BY <1>11, <1>15, <2>1, <2>2, <2>3 DEF DamageSpreadsForward
  <1>. QED  BY <1>1, <1>2, <1>12, <1>17 DEF SpreadInv

\* HeadersUpToDamage speaks of the headers alone.
LEMMA SameHeadersSpread ==
    ASSUME SpreadInv, UNCHANGED <<file, lazy>>, DOMAIN sections' = DOMAIN sections,
           \A i \in DOMAIN sections : sections'[i].hdr = sections[i].hdr
    PROVE  HeadersUpToDamage'
  BY DEF SpreadInv, DamageSpreadsForward, HeadersUpToDamage, SectionDamaged, SectionWants,
         Intact, PartOf

\* Steps that read nothing.
LEMMA QuietSpread ==
    ASSUME LoadInv, SpreadInv, UNCHANGED <<file, lazy, fail, segments>>,
           DOMAIN sections' = DOMAIN sections,
           \A j \in DOMAIN sections : sections'[j] = sections[j],
           SegmentMissed' <=> SegmentMissed, NamesFound'
    PROVE  DamageSpreadsForward'
  <1>1. HeadersUpToDamage'
    BY SameHeadersSpread
  <1>2. DamageMet' <=> DamageMet
    <2>1. DamageMet' <=> (Num > file.secSlots)' \/ SectionsHurt' \/ SegmentMissed' \/ SegmentsHurt'
      BY DamageParts, PTL
    <2>2. (SegmentsHurt' <=> SegmentsHurt) /\ (SectionsHurt' <=> SectionsHurt)
      BY DEF SegmentsHurt, SegmentDamaged, SegmentWants, Intact, SectionsHurt, SectionDamaged,
             SectionWants
    <2>3. Num' = Num
      BY DEF Num
    <2>. QED  BY <2>1, <2>2, <2>3, DamageParts
  <1>3. /\ fail' <=> DamageMet'
        /\ \A j \in DOMAIN sections' : (~sections[j].pending /\ SectionWants(sections[j].hdr)
              => sections[j].held \/ DamageMet)'
        /\ \A k \in DOMAIN segments' : (~segments[k].pending /\ SegmentWants(segments[k].hdr)
              => segments[k].held \/ DamageMet)'
    BY <1>2 DEF SpreadInv, DamageSpreadsForward, SectionWants, SegmentWants
  <1>. QED  BY <1>1, <1>3 DEF DamageSpreadsForward

\* A section that is read on demand.
LEMMA ReadSpread ==
    ASSUME LoadInv, SpreadInv, NEW i \in DOMAIN sections,
           UNCHANGED <<file, lazy, segments, result>>,
           sections' = [sections EXCEPT ![i] = ReadSection(~fail, sections[i].hdr)],
           fail' = (fail \/ CutsSection(~fail, sections[i].hdr)),
           sections[i].pending, NamesFound'
    PROVE  DamageSpreadsForward'
  <1>. DEFINE hdr == sections[i].hdr
  <1>1. hdr \in Headers /\ fail \in BOOLEAN
    BY DEF LoadInv
  <1>. DEFINE cut == CutsSection(~fail, hdr)
  <1>2. /\ DOMAIN sections' = DOMAIN sections
        /\ fail' = (fail \/ cut) /\ cut \in BOOLEAN
    BY <1>1, ReadKeeps
  <1>3. \A j \in DOMAIN sections : sections'[j].hdr = sections[j].hdr
    BY DEF ReadSection
  <1>4. HeadersUpToDamage'
    BY <1>2, <1>3, SameHeadersSpread
  <1>5. /\ DamageMet <=> Num > file.secSlots \/ SectionsHurt \/ SegmentMissed \/ SegmentsHurt
        /\ DamageMet' <=> Num > file.secSlots \/ SectionsHurt' \/ SegmentMissed \/ SegmentsHurt
    <2>1. DamageMet' <=> (Num > file.secSlots)' \/ SectionsHurt' \/ SegmentMissed' \/ SegmentsHurt'
      BY DamageParts, PTL
    <2>2. (SegmentMissed' <=> SegmentMissed) /\ (SegmentsHurt' <=> SegmentsHurt)
      BY DEF SegmentMissed, SegmentsHurt, SegmentDamaged, SegmentWants, Intact, SegmentsReadable
    <2>3. Num' = Num
      BY <1>2 DEF Num
    <2>. QED  BY <2>1, <2>2, <2>3, DamageParts
  <1>6. /\ sections'[i] = ReadSection(~fail, hdr)
        /\ \A j \in DOMAIN sections : j # i => sections'[j] = sections[j]
    OBVIOUS
  <1>7. /\ ~fail => (cut <=> SectionDamaged(hdr))
        /\ SectionWants(hdr) => sections'[i].held \/ fail \/ SectionDamaged(hdr)
        /\ sections'[i].hdr = hdr /\ sections'[i].pending = FALSE
    BY <1>1, <1>6, SectionOutcome
  <1>. HIDE DEF hdr, cut
  <1>8. SectionsHurt' <=> SectionsHurt \/ SectionDamaged(hdr)
    <2>1. SectionsHurt' <=> \E j \in DOMAIN sections :
                               ~sections'[j].pending /\ SectionDamaged(sections'[j].hdr)
      BY <1>2 DEF SectionsHurt, SectionDamaged, SectionWants, Intact
    <2>. QED  BY <1>6, <1>7, <2>1 DEF SectionsHurt
  <1>9. DamageMet' <=> DamageMet \/ SectionDamaged(hdr)
    BY <1>5, <1>8
  <1>10. fail <=> DamageMet
    BY DEF SpreadInv, DamageSpreadsForward
  <1>11. fail' <=> DamageMet'
    BY <1>1, <1>2, <1>7, <1>9, <1>10
  <1>12. ASSUME NEW j \in DOMAIN sections, ~sections'[j].pending, SectionWants(sections'[j].hdr),
               ~DamageMet'
        PROVE  sections'[j].held
    <2>1. ~fail /\ ~SectionDamaged(hdr) /\ ~DamageMet
      BY <1>9, <1>10, <1>12
    <2>2. CASE j = i
      BY <1>7, <1>12, <2>1, <2>2
    <2>3. CASE j # i
      BY <1>6, <1>12, <2>1, <2>3 DEF SpreadInv, DamageSpreadsForward
    <2>. QED  BY <2>2, <2>3
  <1>13. \A j \in DOMAIN sections' : (~sections[j].pending /\ SectionWants(sections[j].hdr)
              => sections[j].held \/ DamageMet)'
    BY <1>2, <1>12 DEF SectionWants
  <1>14. \A k \in DOMAIN segments' : (~segments[k].pending /\ SegmentWants(segments[k].hdr)
              => segments[k].held \/ DamageMet)'
    BY <1>9 DEF SpreadInv, DamageSpreadsForward, SegmentWants
  <1>. QED  BY <1>4, <1>11, <1>13, <1>14 DEF DamageSpreadsForward

LEMMA LoadNamesSpread ==
    ASSUME LoadInv, PrefixInv, SpreadInv, LoadNames
    PROVE  SpreadInv'
  <1>. DEFINE at == file.shstrndx
              hdr == sections[at].hdr
              sec == IF sections[at].pending THEN ReadSection(~fail, hdr) ELSE sections[at]
              read == at # 0 /\ at \in DOMAIN sections
  <1>1. /\ stage = "sections" /\ SectionsReadable /\ Num = Cardinality(DOMAIN file.secs)
        /\ stage' = "segments" /\ UNCHANGED <<file, lazy, segments, result>>
        /\ ~read => UNCHANGED <<sections, fail>>
        /\ read => /\ sections' = [sections EXCEPT ![at] = sec]
                   /\ fail' = (fail \/ (sections[at].pending /\ CutsSection(~fail, hdr)))
                   /\ named' = (sec.held /\ hdr.size > 0)
    BY DEF LoadNames
  <1>2. lazy \in BOOLEAN /\ fail \in BOOLEAN
    BY Ranges DEF SpreadInv
  <1>3. CASE read
    <2>1. hdr \in Headers
      BY <1>3 DEF LoadInv
    <2>2. /\ DOMAIN sections' = DOMAIN sections /\ sections'[at] = sec
          /\ sec.hdr = hdr /\ ~sec.pending
      <3>1. CASE sections[at].pending
        <4>1. sec = ReadSection(~fail, hdr)
          BY <3>1
        <4>2. sec.hdr = hdr /\ ~sec.pending
          BY <1>2, <2>1, <4>1, SectionOutcome
        <4>. HIDE DEF sec
        <4>. QED  BY <1>1, <1>3, <4>2
      <3>2. CASE ~sections[at].pending
        <4>1. sec = sections[at]
          BY <3>2
        <4>2. sec.hdr = hdr /\ ~sec.pending
          BY <3>2, <4>1
        <4>. HIDE DEF sec
        <4>. QED  BY <1>1, <1>3, <4>2
      <3>. QED  BY <3>1, <3>2
    <2>3. NamesFound'
      <3>1. named' = (sec.held /\ hdr.size > 0) /\ sections'[at].hdr.size = hdr.size
            /\ sections'[at].held = sec.held
        BY <1>1, <1>3, <2>2
      <3>2. hdr.size > 0 => (named' <=> sections'[at].held)
        <4>. HIDE DEF sec, hdr, at
        <4>. QED  BY <3>1
      <3>. QED  BY <1>1, <3>1, <3>2 DEF NamesFound
    <2>4. UNCHANGED <<file, lazy, segments, result>>
      BY <1>1
    <2>5. DamageSpreadsForward'
      <3>1. CASE sections[at].pending
        <4>1. /\ sections' = [sections EXCEPT ![at] = ReadSection(~fail, hdr)]
              /\ fail' = (fail \/ CutsSection(~fail, hdr))
          BY <1>1, <1>3, <3>1
        <4>. QED  BY <1>3, <2>3, <2>4, <3>1, <4>1, ReadSpread
      <3>2. CASE ~sections[at].pending
        <4>1. sections' = [sections EXCEPT ![at] = sections[at]] /\ fail' = fail
          BY <1>1, <1>2, <1>3, <3>2
        <4>2. \A j \in DOMAIN sections : sections'[j] = sections[j]
          BY <4>1
        <4>3. SegmentMissed' <=> SegmentMissed
          BY <2>4 DEF SegmentMissed, SegmentDamaged, SegmentWants, Intact, SegmentsReadable
        <4>. QED  BY <2>2, <2>3, <2>4, <4>1, <4>2, <4>3, QuietSpread
      <3>. QED  BY <3>1, <3>2
    <2>. QED  BY <1>1, <1>2, <2>2, <2>5 DEF SpreadInv
  <1>4. CASE ~read
    <2>1. UNCHANGED <<sections, fail>>
      BY <1>1, <1>4
    <2>2. at \notin DOMAIN sections' \ {0}
      BY <1>4, <2>1
    <2>3. NamesFound'
      BY <1>1, <2>2 DEF NamesFound
    <2>4. DamageSpreadsForward'
      <3>1. SegmentMissed' <=> SegmentMissed
        BY <1>1 DEF SegmentMissed, SegmentDamaged, SegmentWants, Intact, SegmentsReadable
      <3>. QED  BY <1>1, <2>1, <2>3, <3>1, QuietSpread
    <2>. QED  BY <1>1, <1>2, <2>2, <2>4 DEF SpreadInv
  <1>. QED  BY <1>3, <1>4

\* load goes on without the sections.
LEMMA SkipSectionsSpread ==
    ASSUME LoadInv, PrefixInv, SpreadInv, SkipSections
    PROVE  SpreadInv'
  <1>1. /\ ~SectionsReadable /\ stage' = "segments"
        /\ UNCHANGED <<file, lazy, fail, sections, segments, named, result>>
    BY DEF SkipSections
  <1>2. ~SectionsReadable'
    BY <1>1 DEF SectionsReadable
  <1>3. NamesFound'
    BY <1>2 DEF NamesFound
  <1>4. SegmentMissed' <=> SegmentMissed
    BY <1>1 DEF SegmentMissed, SegmentDamaged, SegmentWants, Intact, SegmentsReadable
  <1>5. DamageSpreadsForward'
    BY <1>1, <1>3, <1>4, QuietSpread
  <1>. QED  BY <1>1, <1>2, <1>5 DEF SpreadInv

\* The steps behind load_sections that leave the sections alone: what they do
\* with the segments and the stream has to agree.
LEMMA SectionsKeptSpread ==
    ASSUME LoadInv, SpreadInv, stage # "sections", stage' # "sections",
           UNCHANGED <<file, lazy, sections, named>>,
           NEW met \in BOOLEAN,
           SegmentMissed' \/ SegmentsHurt' <=> SegmentMissed \/ SegmentsHurt \/ met,
           fail' <=> fail \/ met,
           \A k \in DOMAIN segments' :
              ~segments'[k].pending /\ SegmentWants(segments'[k].hdr) => segments'[k].held \/ fail'
    PROVE  SpreadInv'
  <1>1. HeadersUpToDamage'
    BY SameHeadersSpread
  <1>2. NamesFound'
    BY DEF SpreadInv, DamageSpreadsForward, NamesFound, SectionsReadable
  <1>3. DamageMet' <=> DamageMet \/ met
    <2>1. DamageMet' <=> (Num > file.secSlots)' \/ SectionsHurt' \/ SegmentMissed' \/ SegmentsHurt'
      BY DamageParts, PTL
    <2>2. SectionsHurt' <=> SectionsHurt
      BY DEF SectionsHurt, SectionDamaged, SectionWants, Intact
    <2>3. Num' = Num
      BY DEF Num
    <2>. QED  BY <2>1, <2>2, <2>3, DamageParts
  <1>4. (fail' <=> DamageMet') /\ (DamageMet => DamageMet')
    BY <1>3 DEF SpreadInv, DamageSpreadsForward
  <1>5. \A i \in DOMAIN sections' : (~sections[i].pending /\ SectionWants(sections[i].hdr)
              => sections[i].held \/ DamageMet)'
    BY <1>4 DEF SpreadInv, DamageSpreadsForward, SectionWants
  <1>6. \A k \in DOMAIN segments' : (~segments[k].pending /\ SegmentWants(segments[k].hdr)
              => segments[k].held \/ DamageMet)'
    BY <1>4 DEF SegmentWants
  <1>7. DamageSpreadsForward'
    BY <1>1, <1>2, <1>4, <1>5, <1>6 DEF DamageSpreadsForward
  <1>. QED  BY <1>7 DEF SpreadInv, SectionsReadable

\* One more segment, or the one that was refused.
LEMMA LoadSegmentSpread ==
    ASSUME LoadInv, PrefixInv, SpreadInv, LoadSegment
    PROVE  SpreadInv'
  <1>. DEFINE k == Len(segments) + 1
              there == ~fail /\ k <= file.segSlots
              hdr == IF there THEN file.segs[k] ELSE Blank
              seg == IF lazy THEN [hdr |-> hdr, held |-> FALSE, pending |-> TRUE]
                     ELSE ReadSegment(there, hdr)
  <1>1. /\ stage = "segments" /\ SegmentsReadable /\ Len(segments) < Len(file.segs)
        /\ fail' = (~there \/ (~lazy /\ ~SegmentComes(there, hdr)))
        /\ UNCHANGED <<file, lazy, sections, named>>
    BY DEF LoadSegment
  <1>2. \/ /\ ~there \/ (~lazy /\ ~SegmentComes(there, hdr))
           /\ stage' = "loaded" /\ result' = "false" /\ segments' = segments
        \/ /\ ~(~there \/ (~lazy /\ ~SegmentComes(there, hdr)))
           /\ segments' = Append(segments, seg) /\ stage' = stage /\ result' = result
    BY Zenon DEF LoadSegment, SegmentRefused, Return
  <1>3. /\ fail \in BOOLEAN /\ lazy \in BOOLEAN /\ result = "none"
        /\ segments \in Seq(Entry) /\ Len(segments) \in Nat /\ file.segSlots \in Nat
        /\ k \in 1 .. Len(file.segs) /\ file.segs[k] \in Headers
        /\ \A j \in 1 .. Len(segments) : segments[j].hdr \in Headers
    <2>1. result = "none" /\ segments \in Seq(Entry)
      BY <1>1 DEF LoadInv, Entry
    <2>. QED  BY <1>1, <2>1, Ranges DEF SpreadInv
  <1>4. hdr \in Headers /\ there \in BOOLEAN
    BY <1>3, BlankIsHeader
  <1>5. there => hdr = file.segs[k]
    OBVIOUS
  <1>6. ~SegmentMissed
    BY <1>3 DEF SegmentMissed
  <1>7. /\ fail <=> DamageMet
        /\ \A j \in DOMAIN segments : ~segments[j].pending /\ SegmentWants(segments[j].hdr)
              => segments[j].held \/ fail
    BY DEF SpreadInv, DamageSpreadsForward
  <1>8. SegmentsReadable' /\ (stage' # "sections")
    BY <1>1, <1>2 DEF SegmentsReadable
  <1>. HIDE DEF hdr
  <1>9. there => (~SegmentComes(there, hdr) <=> SegmentDamaged(hdr))
    BY <1>4, SegmentOutcome
  <1>10. CASE /\ ~there \/ (~lazy /\ ~SegmentComes(there, hdr))
              /\ stage' = "loaded" /\ result' = "false" /\ segments' = segments
    <2>1. fail'
      BY <1>1, <1>10
    <2>2. SegmentsHurt' <=> SegmentsHurt
      BY <1>10 DEF SegmentsHurt, SegmentDamaged, SegmentWants, Intact
    <2>3. ~fail => SegmentMissed'
      <3>. SUFFICES ASSUME ~fail
                    PROVE  \/ Len(segments) >= file.segSlots
                           \/ ~lazy /\ SegmentDamaged(file.segs[Len(segments) + 1])
        BY <1>1, <1>8, <1>10 DEF SegmentMissed, SegmentDamaged, SegmentWants, Intact
      <3>1. CASE there
        BY <1>5, <1>9, <1>10, <3>1
      <3>2. CASE ~there
        BY <1>3, <3>2
      <3>. QED  BY <3>1, <3>2
    <2>. DEFINE met == SegmentMissed'
    <2>4. SegmentMissed' \/ SegmentsHurt' <=> SegmentMissed \/ SegmentsHurt \/ met
      BY <1>6, <2>2
    <2>5. fail' <=> fail \/ met
      BY <2>1, <2>3
    <2>6. met \in BOOLEAN
      BY DEF SegmentMissed
    <2>7. \A j \in DOMAIN segments' : ~segments'[j].pending /\ SegmentWants(segments'[j].hdr)
              => segments'[j].held \/ fail'
      BY <2>1
    <2>. HIDE DEF met
    <2>. QED  BY <1>1, <1>8, <2>4, <2>5, <2>6, <2>7, SectionsKeptSpread
  <1>11. CASE /\ ~(~there \/ (~lazy /\ ~SegmentComes(there, hdr)))
              /\ segments' = Append(segments, seg) /\ stage' = stage /\ result' = result
    <2>1. ~fail' /\ ~fail /\ there /\ (lazy \/ ~SegmentDamaged(hdr))
      BY <1>1, <1>9, <1>11
    <2>2. /\ seg.hdr = hdr /\ seg.pending = lazy /\ seg.held \in BOOLEAN
          /\ ~lazy /\ SegmentWants(hdr) => seg.held
      <3>. HIDE DEF there
      <3>1. CASE lazy
        BY <1>3, <3>1
      <3>2. CASE ~lazy
        <4>1. seg = ReadSegment(there, hdr)
          BY <3>2
        <4>2. ReadSegment(there, hdr).held \in BOOLEAN
          BY <1>4, ReadKeeps DEF Entry
        <4>. HIDE DEF seg
        <4>. QED  BY <1>3, <1>4, <2>1, <3>2, <4>1, <4>2, SegmentOutcome
      <3>. QED  BY <3>1, <3>2
    <2>. HIDE DEF seg
    <2>3. /\ DOMAIN segments' = 1 .. k /\ segments'[k] = seg
          /\ \A j \in 1 .. Len(segments) : segments'[j] = segments[j]
      <3>1. seg \in Entry
        BY <1>3, <1>4, <2>2, ReadKeeps DEF seg, Entry
      <3>. QED  BY <1>3, <1>11, <3>1
    <2>4. ~SegmentMissed'
      BY <1>3, <1>11 DEF SegmentMissed
    <2>5. ~SegmentsHurt
      BY <1>7, <2>1, DamageParts
    <2>6. ~SegmentsHurt'
      <3>. SUFFICES ASSUME NEW j \in 1 .. k, ~segments'[j].pending, SegmentDamaged(segments'[j].hdr)
                    PROVE  FALSE
        BY <2>3 DEF SegmentsHurt, SegmentDamaged, SegmentWants, Intact
      <3>1. CASE j = k
        BY <2>1, <2>2, <2>3, <3>1
      <3>2. CASE j # k
        BY <1>3, <2>3, <2>5, <3>2 DEF SegmentsHurt
      <3>. QED  BY <3>1, <3>2
    <2>7. \A j \in DOMAIN segments' : ~segments'[j].pending /\ SegmentWants(segments'[j].hdr)
              => segments'[j].held \/ fail'
      <3>. SUFFICES ASSUME NEW j \in 1 .. k, ~segments'[j].pending, SegmentWants(segments'[j].hdr)
                    PROVE  segments'[j].held
        BY <2>3
      <3>1. CASE j = k
        BY <2>2, <2>3, <3>1
      <3>2. CASE j # k
        BY <1>3, <1>7, <2>1, <2>3, <3>2
      <3>. QED  BY <3>1, <3>2
    <2>. QED  BY <1>1, <1>6, <1>8, <2>1, <2>4, <2>5, <2>6, <2>7, SectionsKeptSpread
  <1>. QED  BY <1>2, <1>10, <1>11

LEMMA EndSegmentsSpread ==
    ASSUME LoadInv, PrefixInv, SpreadInv, EndSegments
    PROVE  SpreadInv'
  <1>1. /\ stage = "segments" /\ stage' = "loaded"
        /\ UNCHANGED <<file, lazy, fail, sections, segments, named>>
        /\ result' = "true" \/ ~SegmentsReadable
    BY DEF EndSegments, Return
  <1>2. result = "none"
    BY <1>1 DEF LoadInv
  <1>3. ~SegmentMissed /\ ~SegmentMissed'
    BY <1>1, <1>2 DEF SegmentMissed, SegmentsReadable
  <1>4. SegmentsHurt' <=> SegmentsHurt
    BY <1>1 DEF SegmentsHurt, SegmentDamaged, SegmentWants, Intact
  <1>5. \A j \in DOMAIN segments' : ~segments'[j].pending /\ SegmentWants(segments'[j].hdr)
              => segments'[j].held \/ fail'
    BY <1>1 DEF SpreadInv, DamageSpreadsForward
  <1>6. fail' <=> fail \/ FALSE
    BY <1>1
  <1>. QED  BY <1>1, <1>3, <1>4, <1>5, <1>6, SectionsKeptSpread

LEMMA GetSectionDataSpread ==
    ASSUME LoadInv, PrefixInv, SpreadInv, NEW i \in DOMAIN sections, GetSectionData(i)
    PROVE  SpreadInv'
  <1>1. /\ stage = "loaded" /\ UNCHANGED <<file, lazy, stage, segments, named, result>>
        /\ \/ /\ sections[i].pending
              /\ sections' = [sections EXCEPT ![i] = ReadSection(~fail, sections[i].hdr)]
              /\ fail' = (fail \/ CutsSection(~fail, sections[i].hdr))
           \/ UNCHANGED <<sections, fail>>
    BY DEF GetSectionData
  <1>2. /\ DOMAIN sections' = DOMAIN sections
        /\ \A j \in DOMAIN sections :
              \/ sections'[j] = sections[j]
              \/ /\ j = i /\ sections[j].pending
                 /\ sections'[j] = ReadSection(~fail, sections[i].hdr)
    BY <1>1
  <1>3. SectionsReadable' <=> SectionsReadable
    BY <1>1 DEF SectionsReadable
  <1>4. SectionsReadable /\ file.shstrndx \in DOMAIN sections \ {0} =>
            ~sections[file.shstrndx].pending /\ sections'[file.shstrndx] = sections[file.shstrndx]
    BY <1>1, <1>2 DEF SpreadInv
  <1>5. NamesFound'
    BY <1>1, <1>2, <1>3, <1>4 DEF SpreadInv, DamageSpreadsForward, NamesFound
  <1>6. SegmentMissed' <=> SegmentMissed
    BY <1>1 DEF SegmentMissed, SegmentDamaged, SegmentWants, Intact, SegmentsReadable
  <1>7. DamageSpreadsForward'
    <2>1. CASE UNCHANGED <<sections, fail>>
      BY <1>1, <1>5, <1>6, <2>1, QuietSpread
    <2>2. CASE /\ sections[i].pending
               /\ sections' = [sections EXCEPT ![i] = ReadSection(~fail, sections[i].hdr)]
               /\ fail' = (fail \/ CutsSection(~fail, sections[i].hdr))
      BY <1>1, <1>5, <2>2, ReadSpread
    <2>. QED  BY <1>1, <2>1, <2>2
  <1>. QED  BY <1>1, <1>2, <1>3, <1>4, <1>7 DEF SpreadInv

LEMMA GetSegmentDataSpread ==
    ASSUME LoadInv, PrefixInv, SpreadInv, NEW k \in DOMAIN segments, GetSegmentData(k)
    PROVE  SpreadInv'
  <1>. DEFINE hdr == segments[k].hdr
  <1>1. /\ stage = "loaded" /\ UNCHANGED <<file, lazy, stage, sections, named, result>>
        /\ \/ /\ segments[k].pending
              /\ segments' = [segments EXCEPT ![k] = ReadSegment(~fail, hdr)]
              /\ fail' = (fail \/ ~SegmentComes(~fail, hdr))
           \/ UNCHANGED <<segments, fail>>
    BY DEF GetSegmentData
  <1>2. /\ fail \in BOOLEAN /\ segments \in Seq(Entry) /\ hdr \in Headers
        /\ DOMAIN segments = 1 .. Len(segments)
    BY Ranges DEF LoadInv, Entry
  <1>3. \A j \in DOMAIN segments : ~segments[j].pending /\ SegmentWants(segments[j].hdr)
              => segments[j].held \/ fail
    BY DEF SpreadInv, DamageSpreadsForward
  <1>4. CASE UNCHANGED <<segments, fail>>
    <2>1. /\ SegmentMissed' <=> SegmentMissed
          /\ SegmentsHurt' <=> SegmentsHurt
      BY <1>1, <1>4 DEF SegmentMissed, SegmentsHurt, SegmentDamaged, SegmentWants, Intact,
                        SegmentsReadable
    <2>2. fail' <=> fail \/ FALSE
      BY <1>4
    <2>. QED  BY <1>1, <1>3, <1>4, <2>1, <2>2, SectionsKeptSpread
  <1>5. CASE /\ segments[k].pending
             /\ segments' = [segments EXCEPT ![k] = ReadSegment(~fail, hdr)]
             /\ fail' = (fail \/ ~SegmentComes(~fail, hdr))
    <2>1. /\ DOMAIN segments' = DOMAIN segments /\ segments'[k] = ReadSegment(~fail, hdr)
          /\ \A j \in DOMAIN segments : j # k => segments'[j] = segments[j]
          /\ Len(segments') = Len(segments)
      <3>1. ReadSegment(~fail, hdr) \in Entry
        BY <1>2, ReadKeeps
      <3>. QED  BY <1>2, <1>5, <3>1
    <2>2. /\ ~fail => (~SegmentComes(~fail, hdr) <=> SegmentDamaged(hdr))
          /\ SegmentWants(hdr) => segments'[k].held \/ fail \/ SegmentDamaged(hdr)
          /\ segments'[k].hdr = hdr /\ segments'[k].pending = FALSE
      BY <1>2, <2>1, SegmentOutcome
    <2>. HIDE DEF hdr
    <2>3. SegmentMissed' <=> SegmentMissed
      BY <1>1, <2>1 DEF SegmentMissed, SegmentDamaged, SegmentWants, Intact, SegmentsReadable
    <2>4. SegmentsHurt' <=> SegmentsHurt \/ SegmentDamaged(hdr)
      <3>1. SegmentsHurt' <=> \E j \in DOMAIN segments :
                                 ~segments'[j].pending /\ SegmentDamaged(segments'[j].hdr)
        BY <2>1 DEF SegmentsHurt, SegmentDamaged, SegmentWants, Intact
      <3>. QED  BY <1>5, <2>1, <2>2, <3>1 DEF SegmentsHurt
    <2>. DEFINE met == SegmentDamaged(hdr)
    <2>5. met \in BOOLEAN
      BY DEF SegmentDamaged, SegmentWants, Intact
    <2>6. SegmentComes(~fail, hdr) \in BOOLEAN
      BY <1>2, ReadKeeps
    <2>7. fail' <=> fail \/ met
      <3>1. CASE fail
        <4>1. SegmentDamaged(hdr) => SegmentsHurt'
          BY <2>4
        <4>. QED  BY <1>5, <3>1
      <3>2. CASE ~fail
        BY <1>5, <2>2, <2>6, <3>2
      <3>. QED  BY <3>1, <3>2
    <2>8. SegmentMissed' \/ SegmentsHurt' <=> SegmentMissed \/ SegmentsHurt \/ met
      BY <2>3, <2>4
    <2>9. ASSUME NEW j \in DOMAIN segments, ~segments'[j].pending, SegmentWants(segments'[j].hdr)
          PROVE  segments'[j].held \/ fail'
      <3>1. CASE j = k
        BY <2>2, <2>7, <2>9, <3>1
      <3>2. CASE j # k
        BY <1>3, <2>1, <2>7, <2>9, <3>2
      <3>. QED  BY <3>1, <3>2
    <2>. HIDE DEF met
    <2>. QED  BY <1>1, <2>1, <2>5, <2>7, <2>8, <2>9, SectionsKeptSpread
  <1>. QED  BY <1>1, <1>4, <1>5

LEMMA StepSpread == LoadInv /\ PrefixInv /\ SpreadInv /\ [Next]_vars => SpreadInv'
  <1>. SUFFICES ASSUME LoadInv, PrefixInv, SpreadInv, [Next]_vars PROVE SpreadInv'
    OBVIOUS
  <1>1. CASE UNCHANGED vars
    <2>1. UNCHANGED <<file, lazy, stage, fail, sections, segments, named, result>>
      BY <1>1 DEF vars
    <2>2. SegmentMissed' <=> SegmentMissed
      BY <2>1 DEF SegmentMissed, SegmentDamaged, SegmentWants, Intact, SegmentsReadable
    <2>3. NamesFound'
      BY <2>1 DEF SpreadInv, DamageSpreadsForward, NamesFound, SectionsReadable
    <2>4. DamageSpreadsForward'
      BY <2>1, <2>2, <2>3, QuietSpread
    <2>. QED  BY <2>1, <2>4 DEF SpreadInv, SectionsReadable
  <1>2. CASE Next
    <2>1. CASE Done
      BY <1>1, <2>1 DEF Done
    <2>. QED  BY <1>2, <2>1, LoadSectionSpread, LoadNamesSpread, SkipSectionsSpread,
                 LoadSegmentSpread, EndSegmentsSpread, GetSectionDataSpread,
                 GetSegmentDataSpread DEF Next
  <1>. QED  BY <1>1, <1>2

\* Damage spreads forward only, and only through the stream, whatever file is
\* loaded, lazily or not, and in whatever order the data is asked for: section
\* headers are the file's up to a damaged place, where a part of one may come,
\* and blank behind it; the names are found where their section has its data;
\* and a section or segment that was read has what its header promises, but
\* where it is damaged itself or damage was met before (elfio.hpp load_sections
\* and load_segments, load_data in elfio_section.hpp and elfio_segment.hpp).
THEOREM DamageStaysBehind == Spec => []DamageSpreadsForward
  <1>1. SpreadInv => DamageSpreadsForward
    BY DEF SpreadInv
  <1>2. LoadInv /\ PrefixInv /\ SpreadInv /\ [Next]_vars => SpreadInv'
    BY StepSpread
  <1>. QED  BY <1>1, <1>2, InitSpread, LoadInvariant, PTL DEF Spec
=============================================================================
