---------------------------- MODULE LoaderProofs ----------------------------
(***************************************************************************)
(* The loader, for every set of files: a program that it loads is in       *)
(* memory exactly as its relocations, in file order, have it; and a load   *)
(* that fails leaves none half relocated.  Then a single relocation, for   *)
(* every site, word, symbol and addend: a 32-bit word has too many values  *)
(* for TLC, and the bits of a relocated instruction are scattered over     *)
(* both halves; that they come back together is shown for all of them, a   *)
(* half and a field at a time.                                             *)
(***************************************************************************)
EXTENDS Loader, Relocation, SequenceTheorems, TLAPS

-----------------------------------------------------------------------------
(* The invariant *)

\* The segment that a header turns into.
SegmentOf(h) ==
    IF h.type = "other" THEN Skipped
    ELSE [ data        |-> IF h.compressed THEN "file" ELSE "garbage",
           length      |-> IF h.compressed THEN h.inflated ELSE h.filesz,
           relocatable |-> h.type = "rela",
           can_load    |-> TRUE ]

AllRead == phase \in {"mapping", "relocating", "importing", "loaded"}

\* The segments are those of the headers read so far, in their order.
SegmentsFollowHeaders ==
    /\ Len(segments) <= Len(Headers)
    /\ AllRead => Len(segments) = Len(Headers)
    /\ \A i \in 1 .. Len(segments) : segments[i] = SegmentOf(Headers[i])

\* The loops' counters are within what they count; the last loop leaves the
\* next at its beginning, with nothing registered, and the tables of the file
\* name so many stubs.
CountersInBounds ==
    /\ phase = "decrypting" => cursor = Len(segments) + 1
    /\ phase \in {"mapping", "relocating"} => cursor \in 1 .. Len(segments) + 1
    /\ phase \in {"importing", "loaded"} => cursor = Len(segments) + 1
    /\ phase \in {"decrypting", "mapping"} => position = 0
    /\ phase \in {"decrypting", "mapping", "relocating"} => ~ registered
    /\ phase = "relocating" /\ cursor > Len(segments) => position = 0
    /\ Whole /\ phase = "importing" => position <= Len(file.stubs)
    /\ Whole /\ phase = "importing" /\ registered => position = Len(file.stubs)
    /\ Whole /\ phase = "loaded" => position = Len(file.stubs)

Loadable == { i \in 1 .. Len(Headers) : Headers[i].type = "load" }

\* The loadable segments before the cursor are mapped, then all of them.
MappedSoFar ==
    /\ phase = "decrypting" => Mapped = {}
    /\ phase = "mapping" => Mapped = { i \in Loadable : i < cursor }
    /\ phase \in {"relocating", "importing", "loaded"} => Mapped = Loadable

\* The relocations that have been applied.
Applied ==
    IF phase = "relocating"
    THEN { p \in Places : p[1] < cursor \/ (p[1] = cursor /\ p[2] <= position) }
    ELSE IF phase \in {"importing", "loaded"} THEN Places
    ELSE {}

ValueOf(p) ==
    [by |-> "file", symbol |-> SymbolHeader(RelocationAt(p)), addend |-> RelocationAt(p).addend]

HitsOf(places, s, c) == { p \in places : Reaches(RelocationAt(p), s, c) }

\* A cell holds the last of the applied relocations that patch it.
Holds(patch, hits) ==
    IF hits = {} THEN patch = NoPatch
    ELSE \E p \in hits : patch = ValueOf(p) /\ \A q \in hits : NotAfter(q, p)

\* The stubs that have been patched, and the cells of those.
StubsDone == IF phase \in {"importing", "loaded"} THEN 1 .. position ELSE {}

StubAt(s, c) ==
    \E k \in StubsDone :
      k \in 1 .. Len(file.stubs) /\ <<s, c>> \in Covers(file.stubs[k])

CellsAreExact ==
    Whole /\ phase \notin {"failed", "crashed"} =>
        \A i \in Mapped : \A c \in 0 .. Cells - 1 :
            /\ memory[i][c].origin = IF c < Headers[i].filesz THEN "file" ELSE "zero"
            /\ IF StubAt(i, c) THEN memory[i][c].patch = StubCode
               ELSE Holds(memory[i][c].patch, HitsOf(Applied, i, c))

LoaderInv ==
    /\ TypeOK
    /\ SegmentsFollowHeaders
    /\ CountersInBounds
    /\ MappedSoFar
    /\ CellsAreExact
    /\ NoHalfRelocatedProgram

-----------------------------------------------------------------------------
(* Files and cells *)

\* The headers and stubs of a file, and the relocations in it.
LEMMA FileFacts ==
    ASSUME file \in Files
    PROVE  /\ Cells \in Nat /\ StubLength \in Nat
           /\ Len(Headers) \in Nat
           /\ Headers \in Seq(Header)
           /\ \A i \in 1 .. Len(Headers) :
                /\ Headers[i] \in Header
                /\ Headers[i].filesz \in Nat /\ Headers[i].inflated \in Nat
                /\ Headers[i].type = "rela" =>
                     Len(Headers[i].relocations) = Headers[i].inflated
                /\ Len(Headers[i].relocations) \in Nat
                /\ \A k \in 1 .. Len(Headers[i].relocations) :
                     Headers[i].relocations[k] \in Relocation
           /\ Len(file.stubs) \in Nat
           /\ \A k \in 1 .. Len(file.stubs) :
                file.stubs[k].segment \in Nat /\ file.stubs[k].offset \in Nat
           /\ file.info \in Nat
<1>1. Cells \in Nat /\ StubLength \in Nat /\ file \in File
  BY FilesAssumption
<1>2. /\ Headers \in Seq(Header) /\ file.stubs \in Seq(Stub) /\ file.info \in Nat
  BY <1>1 DEF File, Headers
<1>3. ASSUME NEW i \in 1 .. Len(Headers)
      PROVE  /\ Headers[i] \in Header /\ Headers[i].filesz \in Nat
             /\ Headers[i].inflated \in Nat
             /\ Headers[i].relocations \in Seq(Relocation)
  <2>1. Headers[i] \in Header
    BY <1>2
  <2> QED
    BY <2>1 DEF Header
<1>4. \A i \in 1 .. Len(Headers) :
         Headers[i].type = "rela" => Len(Headers[i].relocations) = Headers[i].inflated
  BY FilesAssumption DEF Headers
<1>5. ASSUME NEW k \in 1 .. Len(file.stubs)
      PROVE  file.stubs[k].segment \in Nat /\ file.stubs[k].offset \in Nat
  <2>1. file.stubs[k] \in Stub
    BY <1>2
  <2> QED
    BY <2>1 DEF Stub
<1>6. Len(Headers) \in Nat /\ Len(file.stubs) \in Nat
  BY <1>2
<1>7. ASSUME NEW i \in 1 .. Len(Headers)
      PROVE  /\ Len(Headers[i].relocations) \in Nat
             /\ \A k \in 1 .. Len(Headers[i].relocations) :
                  Headers[i].relocations[k] \in Relocation
  <2>1. Headers[i].relocations \in Seq(Relocation)
    BY <1>3
  <2> QED
    BY <2>1
<1> QED
  BY <1>1, <1>2, <1>3, <1>4, <1>5, <1>6, <1>7

\* A write of a patch keeps the cells' type and origins.
LEMMA WriteType ==
    ASSUME memory \in [Mapped -> [0 .. Cells - 1 -> Cell]],
           NEW places, NEW patch \in Patch
    PROVE  LET w == Write(places, patch)
           IN  /\ w \in [Mapped -> [0 .. Cells - 1 -> Cell]]
               /\ DOMAIN w = Mapped
               /\ \A i \in Mapped : \A c \in 0 .. Cells - 1 :
                    /\ w[i][c].origin = memory[i][c].origin
                    /\ w[i][c].patch = IF <<i, c>> \in places THEN patch
                                       ELSE memory[i][c].patch
<1> DEFINE w == Write(places, patch)
<1>1. /\ w = [i \in Mapped |-> w[i]]
      /\ \A i \in Mapped : w[i] = [c \in 0 .. Cells - 1 |-> w[i][c]]
      /\ \A i \in Mapped : \A c \in 0 .. Cells - 1 :
           w[i][c] = IF <<i, c>> \in places THEN [memory[i][c] EXCEPT !.patch = patch]
                     ELSE memory[i][c]
  BY DEF Write
<1> HIDE DEF w
<1>2. ASSUME NEW i \in Mapped, NEW c \in 0 .. Cells - 1
      PROVE  /\ w[i][c] \in Cell
             /\ w[i][c].origin = memory[i][c].origin
             /\ w[i][c].patch = IF <<i, c>> \in places THEN patch ELSE memory[i][c].patch
  <2> DEFINE cell == memory[i][c]
  <2>1. cell \in Cell
    OBVIOUS
  <2>2. w[i][c] = IF <<i, c>> \in places THEN [cell EXCEPT !.patch = patch] ELSE cell
    BY <1>1
  <2> HIDE DEF cell
  <2>3. /\ [cell EXCEPT !.patch = patch] \in Cell
        /\ [cell EXCEPT !.patch = patch].origin = cell.origin
        /\ [cell EXCEPT !.patch = patch].patch = patch
    BY <2>1 DEF Cell
  <2>4. CASE <<i, c>> \in places
    BY <2>2, <2>3, <2>4 DEF cell
  <2>5. CASE <<i, c>> \notin places
    BY <2>1, <2>2, <2>5 DEF cell
  <2> QED
    BY <2>4, <2>5
<1>3. w \in [Mapped -> [0 .. Cells - 1 -> Cell]] /\ DOMAIN w = Mapped
  BY <1>1, <1>2
<1> QED
  BY <1>2, <1>3 DEF w

\* What the loader writes of its own is a patch.
LEMMA OwnPatches ==
    ASSUME file \in Files
    PROVE  NoPatch \in Patch /\ Garbage \in Patch /\ StubCode \in Patch
BY FileFacts DEF NoPatch, Garbage, StubCode, Patch

\* The empty function has no domain.
LEMMA NoCells ==
    DOMAIN << >> = {} /\ \A S : << >> \in [{} -> S]
OBVIOUS

-----------------------------------------------------------------------------
(* The steps *)

\* Before decryption nothing is decrypted, mapped or patched.
LEMMA LoaderInvInit ==
    Init => LoaderInv
<1> SUFFICES ASSUME Init
             PROVE  LoaderInv
  OBVIOUS
<1>1. file \in Files /\ segments = <<>> /\ memory = << >> /\ cursor = 1 /\ position = 0
      /\ phase = "decrypting" /\ registered = FALSE
  BY DEF Init
<1>2. Len(Headers) \in Nat /\ Len(segments) = 0 /\ Mapped = {}
  BY <1>1, FileFacts, NoCells DEF Mapped
<1>3. TypeOK
  <2>1. memory \in [DOMAIN memory -> [0 .. Cells - 1 -> Cell]] /\ DOMAIN memory = {}
    BY <1>1, NoCells
  <2>2. segments \in Seq(Segment)
    BY <1>1, EmptySeq
  <2>3. /\ phase \in {"decrypting", "mapping", "relocating", "importing",
                    "loaded", "failed", "crashed"}
        /\ cursor \in 1 .. Len(Headers) + 1 /\ position \in Nat
    BY <1>1, <1>2
  <2>4. registered \in BOOLEAN
    BY <1>1, Zenon
  <2> QED
    BY <1>1, <2>1, <2>2, <2>3, <2>4 DEF TypeOK, Mapped
<1>4. SegmentsFollowHeaders /\ CountersInBounds /\ MappedSoFar /\ NoHalfRelocatedProgram
  BY <1>1, <1>2 DEF SegmentsFollowHeaders, CountersInBounds, MappedSoFar,
                    NoHalfRelocatedProgram, AllRead
<1>5. CellsAreExact
  BY <1>2 DEF CellsAreExact
<1> QED
  BY <1>3, <1>4, <1>5 DEF LoaderInv

\* What is said of the file stays true of it.
LEMMA SameFile ==
    ASSUME file' = file
    PROVE  /\ Headers' = Headers /\ Whole' = Whole /\ Places' = Places
           /\ Loadable' = Loadable
           /\ Cell' = Cell /\ Segment' = Segment
<1>1. Headers' = Headers
  BY DEF Headers
<1>2. /\ Whole' = Whole /\ Places' = Places /\ Loadable' = Loadable
      /\ Cell' = Cell /\ Segment' = Segment
  BY <1>1 DEF Whole, Places, Loadable, Cell, Patch, Segment
<1> QED
  BY <1>1, <1>2

\* A step that leaves file and memory alone, and applies and patches nothing.
LEMMA SameCells ==
    ASSUME CellsAreExact, UNCHANGED <<file, memory>>,
           phase \notin {"failed", "crashed"}, Applied' = Applied, StubsDone' = StubsDone
    PROVE  CellsAreExact'
<1>1. /\ Headers' = Headers /\ Mapped' = Mapped /\ Whole' = Whole
      /\ \A s, c : HitsOf(Applied, s, c)' = HitsOf(Applied, s, c)
      /\ \A s, c : StubAt(s, c)' = StubAt(s, c)
  BY DEF Headers, Mapped, Whole, HitsOf, Reaches, RelocationAt, Second, StubAt, Covers
<1>2. \A p, h : Holds(p, h)' = Holds(p, h)
  BY DEF Holds, ValueOf, SymbolHeader, RelocationAt, Headers, NotAfter
<1> QED
  BY <1>1, <1>2 DEF CellsAreExact, Headers

\* A file refused during decryption leaves nothing mapped.
LEMMA RefuseFileStep ==
    ASSUME LoaderInv, RefuseFile
    PROVE  LoaderInv'
<1>1. /\ phase = "decrypting" /\ phase' = "failed"
      /\ UNCHANGED <<file, segments, cursor, position, memory, registered>>
  BY DEF RefuseFile, Fail
<1>2. TypeOK'
  BY <1>1 DEF LoaderInv, TypeOK, Headers, Cell, Patch, Segment
<1>3. Mapped' = {}
  BY <1>1 DEF LoaderInv, MappedSoFar, Mapped
<1>4. SegmentsFollowHeaders'
  BY <1>1 DEF LoaderInv, SegmentsFollowHeaders, AllRead, Headers, SegmentOf
<1> QED
  BY <1>1, <1>2, <1>3, <1>4
     DEF LoaderInv, CountersInBounds, MappedSoFar, CellsAreExact,
         NoHalfRelocatedProgram

\* One more header, one more segment.
LEMMA ReadHeaderStep ==
    ASSUME LoaderInv, ReadHeader
    PROVE  LoaderInv'
<1> DEFINE h == Headers[cursor]
<1>1. /\ phase = "decrypting" /\ phase' = phase /\ cursor' = cursor + 1
      /\ UNCHANGED <<file, position, memory, registered>>
      /\ cursor = Len(segments) + 1 /\ cursor <= Len(Headers)
      /\ Len(segments) \in Nat /\ Len(Headers) \in Nat
      /\ file \in Files /\ segments \in Seq(Segment)
  BY FileFacts DEF ReadHeader, LoaderInv, TypeOK, CountersInBounds
<1>2. segments' = Append(segments, SegmentOf(h))
  BY DEF ReadHeader, SegmentOf
<1>3. SegmentOf(h) \in Segment
  <2>1. h.filesz \in Nat /\ h.inflated \in Nat
    <3>1. cursor \in 1 .. Len(Headers)
      BY <1>1
    <3> QED
      BY <1>1, <3>1, FileFacts
  <2> HIDE DEF h
  <2> QED
    BY <2>1 DEF SegmentOf, Segment, Skipped, Origin
<1>4. /\ segments' \in Seq(Segment) /\ Len(segments') = cursor
      /\ \A i \in 1 .. cursor :
           segments'[i] = IF i = cursor THEN SegmentOf(h) ELSE segments[i]
  BY <1>1, <1>2, <1>3, AppendProperties
<1>5. Headers' = Headers /\ Mapped = {} /\ Mapped' = {}
  BY <1>1 DEF Headers, LoaderInv, MappedSoFar, Mapped
<1>6. TypeOK'
  BY <1>1, <1>4, <1>5, NoCells DEF LoaderInv, TypeOK, Cell, Patch, Segment, Mapped
<1>7. SegmentsFollowHeaders'
  <2>1. ASSUME NEW i \in 1 .. cursor
        PROVE  segments'[i] = SegmentOf(Headers[i])
    <3>1. CASE i = cursor
      BY <1>1, <1>4, <3>1
    <3>2. CASE i \in 1 .. Len(segments)
      BY <1>4, <1>1, <3>2 DEF LoaderInv, SegmentsFollowHeaders
    <3> QED
      BY <1>1, <3>1, <3>2
  <2> QED
    BY <1>1, <1>4, <1>5, <2>1 DEF SegmentsFollowHeaders, AllRead, SegmentOf
<1>8. CountersInBounds'
  BY <1>1, <1>4 DEF LoaderInv, CountersInBounds
<1>9. MappedSoFar' /\ CellsAreExact' /\ NoHalfRelocatedProgram'
  BY <1>1, <1>5 DEF MappedSoFar, CellsAreExact, NoHalfRelocatedProgram
<1> QED
  BY <1>6, <1>7, <1>8, <1>9 DEF LoaderInv

\* After the last header every segment of the file is known.
LEMMA FinishDecryptionStep ==
    ASSUME LoaderInv, FinishDecryption
    PROVE  LoaderInv'
<1>1. /\ phase = "decrypting" /\ phase' = "mapping" /\ cursor' = 1
      /\ UNCHANGED <<file, segments, position, memory, registered>>
      /\ cursor > Len(Headers) /\ cursor = Len(segments) + 1
      /\ Len(segments) \in Nat /\ Len(Headers) \in Nat
  BY FileFacts DEF FinishDecryption, LoaderInv, TypeOK, CountersInBounds
<1>2. Len(segments) = Len(Headers) /\ Headers' = Headers
  BY <1>1 DEF LoaderInv, SegmentsFollowHeaders, Headers
<1>3. Mapped = {} /\ Mapped' = {}
  BY <1>1 DEF LoaderInv, MappedSoFar, Mapped
<1>4. TypeOK'
  BY <1>1, <1>2 DEF LoaderInv, TypeOK, Cell, Patch, Segment
<1>5. SegmentsFollowHeaders' /\ CountersInBounds'
  BY <1>1, <1>2
     DEF LoaderInv, SegmentsFollowHeaders, CountersInBounds, AllRead, SegmentOf
<1>6. MappedSoFar'
  BY <1>1, <1>3 DEF MappedSoFar, Loadable
<1>7. CellsAreExact' /\ NoHalfRelocatedProgram'
  BY <1>1, <1>3 DEF CellsAreExact, NoHalfRelocatedProgram
<1> QED
  BY <1>4, <1>5, <1>6, <1>7 DEF LoaderInv

\* When all headers are read, a segment says of itself what its header says.
LEMMA SegmentFacts ==
    ASSUME LoaderInv, AllRead, NEW i \in 1 .. Len(segments)
    PROVE  /\ i \in 1 .. Len(Headers)
           /\ segments[i] = SegmentOf(Headers[i])
           /\ segments[i].relocatable <=> Headers[i].type = "rela"
           /\ segments[i].can_load /\ ~ segments[i].relocatable <=> i \in Loadable
           /\ Headers[i].type # "other" =>
                /\ segments[i].data = IF Headers[i].compressed THEN "file" ELSE "garbage"
                /\ segments[i].length = IF Headers[i].compressed
                                        THEN Headers[i].inflated ELSE Headers[i].filesz
           /\ Whole /\ Headers[i].type # "other" =>
                segments[i].data = "file" /\ segments[i].length = Headers[i].filesz
<1>1. Len(segments) = Len(Headers) /\ segments[i] = SegmentOf(Headers[i])
  BY DEF LoaderInv, SegmentsFollowHeaders
<1>2. Headers[i] \in Header
  BY <1>1, FileFacts DEF LoaderInv, TypeOK
<1>3. Headers[i].type \in {"load", "rela", "other"}
  BY <1>2 DEF Header
<1>4. CASE Headers[i].type = "other"
  BY <1>1, <1>4 DEF SegmentOf, Skipped, Loadable
<1>5. CASE Headers[i].type # "other"
  <2>1. /\ segments[i].relocatable <=> Headers[i].type = "rela"
        /\ segments[i].can_load
        /\ segments[i].data = IF Headers[i].compressed THEN "file" ELSE "garbage"
        /\ segments[i].length = IF Headers[i].compressed
                                THEN Headers[i].inflated ELSE Headers[i].filesz
    <3>1. segments[i] =
            [ data        |-> IF Headers[i].compressed THEN "file" ELSE "garbage",
              length      |-> IF Headers[i].compressed
                              THEN Headers[i].inflated ELSE Headers[i].filesz,
              relocatable |-> Headers[i].type = "rela",
              can_load    |-> TRUE ]
      BY <1>1, <1>5 DEF SegmentOf
    <3>2. CASE Headers[i].type = "rela"
      <4>1. (Headers[i].type = "rela") = TRUE
        BY <3>2, Zenon
      <4>2. segments[i] =
              [ data        |-> IF Headers[i].compressed THEN "file" ELSE "garbage",
                length      |-> IF Headers[i].compressed
                                THEN Headers[i].inflated ELSE Headers[i].filesz,
                relocatable |-> TRUE,
                can_load    |-> TRUE ]
        BY <3>1, <4>1, Zenon
      <4> QED
        BY <3>2, <4>2
    <3>3. CASE Headers[i].type # "rela"
      <4>1. (Headers[i].type = "rela") = FALSE
        BY <3>3, Zenon
      <4>2. segments[i] =
              [ data        |-> IF Headers[i].compressed THEN "file" ELSE "garbage",
                length      |-> IF Headers[i].compressed
                                THEN Headers[i].inflated ELSE Headers[i].filesz,
                relocatable |-> FALSE,
                can_load    |-> TRUE ]
        BY <3>1, <4>1, Zenon
      <4> QED
        BY <3>3, <4>2
    <3> QED
      BY <3>2, <3>3
  <2> QED
    BY <1>1, <1>3, <1>5, <2>1 DEF Loadable, Whole
<1> QED
  BY <1>4, <1>5

\* An image is made of cells.
LEMMA ImageType ==
    ASSUME file \in Files, NEW i \in 1 .. Len(segments), segments \in Seq(Segment)
    PROVE  /\ Image(i) \in [0 .. Cells - 1 -> Cell]
           /\ \A c \in 0 .. Cells - 1 :
                /\ Image(i)[c].origin =
                     IF c < segments[i].length THEN segments[i].data ELSE "zero"
                /\ Image(i)[c].patch = NoPatch
<1>1. segments[i] \in Segment
  OBVIOUS
<1>2. segments[i].data \in Origin
  BY <1>1 DEF Segment
<1>3. NoPatch \in Patch
  BY FileFacts DEF NoPatch, Patch
<1> QED
  BY <1>2, <1>3 DEF Image, Cell, Origin

\* A segment is mapped with its file bytes first and zeros behind them.
LEMMA MapSegmentStep ==
    ASSUME LoaderInv, MapSegment
    PROVE  LoaderInv'
<1> DEFINE load == segments[cursor].can_load /\ ~ segments[cursor].relocatable
<1>1. /\ phase = "mapping" /\ phase' = phase /\ cursor' = cursor + 1
      /\ UNCHANGED <<file, segments, position, registered>>
      /\ cursor \in 1 .. Len(segments) /\ position = 0
      /\ Len(segments) \in Nat /\ Len(segments) = Len(Headers)
      /\ file \in Files /\ segments \in Seq(Segment)
      /\ memory \in [Mapped -> [0 .. Cells - 1 -> Cell]]
      /\ Mapped = { i \in Loadable : i < cursor }
  BY DEF MapSegment, LoaderInv, TypeOK, CountersInBounds, MappedSoFar, Mapped,
         SegmentsFollowHeaders, AllRead
<1>2. Headers' = Headers
  BY <1>1 DEF Headers
<1>3. load <=> cursor \in Loadable
  BY <1>1, SegmentFacts DEF AllRead
<1>4. memory' = IF load THEN [ i \in Mapped \cup {cursor} |->
                                 IF i = cursor THEN Image(i) ELSE memory[i] ]
                ELSE memory
  BY DEF MapSegment
<1>5. Image(cursor) \in [0 .. Cells - 1 -> Cell]
  BY <1>1, ImageType
<1> HIDE DEF load
<1>6. /\ Mapped' = { i \in Loadable : i < cursor' }
      /\ memory' \in [Mapped' -> [0 .. Cells - 1 -> Cell]]
      /\ \A i \in Mapped' : memory'[i] = IF i = cursor THEN Image(i) ELSE memory[i]
  <2>1. \A i \in Loadable : i < cursor' <=> i < cursor \/ i = cursor
    BY <1>1 DEF Loadable
  <2>2. CASE load
    <3>1. Mapped' = Mapped \cup {cursor}
      BY <1>4, <2>2 DEF Mapped
    <3>2. cursor \notin Mapped
      BY <1>1
    <3>3. Mapped' = { i \in Loadable : i < cursor' }
      BY <1>1, <1>3, <2>1, <2>2, <3>1, Zenon
    <3>4. memory' = [ i \in Mapped' |-> IF i = cursor THEN Image(i) ELSE memory[i] ]
      BY <1>4, <2>2, <3>1
    <3>5. \A i \in Mapped' : i # cursor => memory[i] \in [0 .. Cells - 1 -> Cell]
      BY <1>1, <3>1
    <3> QED
      BY <1>5, <3>3, <3>4, <3>5
  <2>3. CASE ~ load
    <3>1. memory' = memory /\ Mapped' = Mapped
      BY <1>4, <2>3 DEF Mapped
    <3>2. Mapped = { i \in Loadable : i < cursor' }
      BY <1>1, <1>3, <2>1, <2>3, Zenon
    <3> QED
      BY <1>1, <3>1, <3>2
  <2> QED
    BY <2>2, <2>3
<1>7. TypeOK'
  <2>1. Mapped' \subseteq 1 .. Len(segments)
    BY <1>1, <1>6 DEF Loadable
  <2>2. Cell' = Cell
    BY <1>2 DEF Cell, Patch
  <2> QED
    BY <1>1, <1>2, <1>6, <2>1, <2>2 DEF LoaderInv, TypeOK, Mapped
<1>8. SegmentsFollowHeaders'
  BY <1>1, <1>2 DEF LoaderInv, SegmentsFollowHeaders, AllRead, SegmentOf
<1>9. CountersInBounds'
  <2>1. ~ registered' /\ cursor' \in 1 .. Len(segments) + 1
    BY <1>1 DEF LoaderInv, CountersInBounds
  <2> QED
    BY <1>1, <2>1 DEF CountersInBounds
<1>10. MappedSoFar'
  BY <1>1, <1>2, <1>6 DEF MappedSoFar, Loadable
<1>11. CellsAreExact'
  <2>1. ASSUME Whole, NEW i \in Mapped', NEW c \in 0 .. Cells - 1
        PROVE  /\ memory'[i][c].origin = IF c < Headers[i].filesz THEN "file" ELSE "zero"
               /\ memory'[i][c].patch = NoPatch
    <3>1. CASE i = cursor
      <4>1. /\ Headers[cursor].type = "load" /\ segments[cursor].data = "file"
            /\ segments[cursor].length = Headers[cursor].filesz
        BY <1>1, <1>6, <2>1, <3>1, SegmentFacts DEF AllRead, Loadable
      <4> QED
        BY <1>1, <1>6, <3>1, <4>1, ImageType
    <3>2. CASE i # cursor
      <4>1. i \in Mapped /\ memory'[i] = memory[i]
        BY <1>1, <1>6, <3>2 DEF Loadable
      <4>2. HitsOf(Applied, i, c) = {}
        BY <1>1 DEF Applied, HitsOf
      <4> QED
        BY <1>1, <2>1, <4>1, <4>2 DEF LoaderInv, CellsAreExact, Holds, StubAt, StubsDone
    <3> QED
      BY <3>1, <3>2
  <2>2. Whole' = Whole
    BY <1>1, SameFile
  <2>3. /\ \A i, c : HitsOf(Applied, i, c)' = {}
        /\ \A i, c : ~ StubAt(i, c)'
    BY <1>1 DEF Applied, HitsOf, StubAt, StubsDone
  <2> QED
    BY <1>2, <2>1, <2>2, <2>3 DEF CellsAreExact, Holds, NoPatch
<1> QED
  BY <1>1, <1>7, <1>8, <1>9, <1>10, <1>11 DEF LoaderInv, NoHalfRelocatedProgram

\* A file without module information fails after its segments were mapped, and
\* one whose module information is behind the segments may crash the host.
LEMMA NoModuleInfoStep ==
    ASSUME LoaderInv, MissModuleInfo \/ ReadBehindSegments
    PROVE  LoaderInv'
<1>1. /\ phase' \in {"failed", "crashed"} /\ cursor > Len(segments)
      /\ UNCHANGED <<file, segments, cursor, position, memory, registered>>
  BY DEF MissModuleInfo, ReadBehindSegments, Fail
<1> QED
  BY <1>1 DEF LoaderInv, TypeOK, Headers, Cell, Patch, Segment, SegmentsFollowHeaders,
              AllRead, SegmentOf, CountersInBounds, MappedSoFar, CellsAreExact,
              NoHalfRelocatedProgram

\* Places are pairs of numbers, in a linear order.
LEMMA PlaceFacts ==
    ASSUME file \in Files
    PROVE  /\ \A p \in Places :
                /\ p \in Nat \X Nat /\ p[2] >= 1
                /\ p[1] \in 1 .. Len(Headers) /\ Headers[p[1]].type = "rela"
                /\ p[2] \in 1 .. Len(Headers[p[1]].relocations)
                /\ RelocationAt(p) \in Relocation
           /\ \A p, q \in Places :
                NotAfter(p, q) /\ NotAfter(q, p) => p = q
<1>1. ASSUME NEW p \in Places
      PROVE  /\ p \in Nat \X Nat /\ p[2] >= 1
             /\ p[1] \in 1 .. Len(Headers) /\ Headers[p[1]].type = "rela"
             /\ p[2] \in 1 .. Len(Headers[p[1]].relocations)
  <2>1. PICK h \in 1 .. Len(Headers) :
          Headers[h].type = "rela" /\ p \in {h} \X (1 .. Len(Headers[h].relocations))
    BY DEF Places
  <2> QED
    BY <2>1, FileFacts
<1>2. ASSUME NEW p \in Places
      PROVE  RelocationAt(p) \in Relocation
  BY <1>1, FileFacts DEF RelocationAt
<1>3. ASSUME NEW p \in Places, NEW q \in Places, NotAfter(p, q), NotAfter(q, p)
      PROVE  p = q
  <2>1. p \in Nat \X Nat /\ q \in Nat \X Nat
    BY <1>1
  <2> QED
    BY <1>3, <2>1 DEF NotAfter
<1> QED
  BY <1>1, <1>2, <1>3

\* The relocations begin with the first segment and none applied.
LEMMA FindModuleInfoStep ==
    ASSUME LoaderInv, FindModuleInfo
    PROVE  LoaderInv'
<1>1. /\ phase = "mapping" /\ phase' = "relocating" /\ cursor' = 1 /\ position = 0
      /\ UNCHANGED <<file, segments, position, memory, registered>>
      /\ cursor = Len(segments) + 1 /\ Len(segments) \in Nat
      /\ Len(segments) = Len(Headers) /\ file \in Files
      /\ Mapped = { i \in Loadable : i < cursor }
  BY DEF FindModuleInfo, LoaderInv, TypeOK, CountersInBounds, MappedSoFar,
         SegmentsFollowHeaders, AllRead
<1>2. Headers' = Headers /\ Mapped' = Mapped /\ Loadable' = Loadable
  BY <1>1 DEF Headers, Mapped, Loadable
<1>3. Mapped = Loadable
  BY <1>1 DEF Loadable
<1>4. TypeOK'
  BY <1>1, <1>2 DEF LoaderInv, TypeOK, Cell, Patch, Segment
<1>5. SegmentsFollowHeaders' /\ CountersInBounds' /\ MappedSoFar'
  BY <1>1, <1>2, <1>3
     DEF LoaderInv, SegmentsFollowHeaders, CountersInBounds, AllRead, SegmentOf,
         MappedSoFar
<1>6. Applied' = Applied
  <2>1. Places' = Places
    BY <1>2 DEF Places
  <2>2. Applied = {}
    BY <1>1 DEF Applied
  <2>3. ASSUME NEW p \in Places
        PROVE  ~ (p[1] < 1 \/ (p[1] = 1 /\ p[2] <= 0))
    BY <1>1, PlaceFacts
  <2> QED
    BY <1>1, <2>1, <2>2, <2>3 DEF Applied
<1>7. CellsAreExact'
  BY <1>1, <1>6, SameCells DEF LoaderInv, StubsDone
<1> QED
  BY <1>1, <1>4, <1>5, <1>7 DEF LoaderInv, NoHalfRelocatedProgram

\* What holds while the loop over the relocations is inside a segment.
LEMMA AtRelocationFacts ==
    ASSUME LoaderInv, AtRelocation
    PROVE  /\ phase = "relocating" /\ AllRead /\ file \in Files
           /\ cursor \in 1 .. Len(segments) /\ cursor \in Nat /\ position \in Nat
           /\ Len(segments) \in Nat /\ Len(segments) = Len(Headers)
           /\ Mapped = Loadable
           /\ memory \in [Mapped -> [0 .. Cells - 1 -> Cell]]
           /\ Cells \in Nat
<1>1. /\ phase = "relocating" /\ file \in Files /\ segments \in Seq(Segment)
      /\ position \in Nat /\ cursor \in 1 .. Len(segments) + 1
      /\ cursor <= Len(segments)
      /\ memory \in [Mapped -> [0 .. Cells - 1 -> Cell]]
  BY DEF AtRelocation, LoaderInv, TypeOK, CountersInBounds, Mapped
<1>2. AllRead /\ Len(segments) = Len(Headers) /\ Mapped = Loadable
  BY <1>1 DEF AllRead, LoaderInv, SegmentsFollowHeaders, MappedSoFar
<1> QED
  BY <1>1, <1>2, FileFacts

\* A step of that loop keeps what does not speak of the cells' contents.
LEMMA RelocatingKeeps ==
    ASSUME LoaderInv, AtRelocation,
           UNCHANGED <<phase, file, segments, registered>>,
           \/ cursor' = cursor /\ position' \in Nat
           \/ cursor' = cursor + 1 /\ position' = 0,
           Mapped' = Mapped,
           memory' \in [Mapped -> [0 .. Cells - 1 -> Cell]],
           CellsAreExact'
    PROVE  LoaderInv'
<1>1. /\ phase = "relocating" /\ file \in Files
      /\ cursor \in 1 .. Len(segments) /\ Len(segments) \in Nat
      /\ Len(segments) = Len(Headers) /\ Mapped = Loadable
  BY AtRelocationFacts
<1>2. Headers' = Headers /\ Cell' = Cell
  BY DEF Headers, Cell, Patch
<1>3. cursor' \in 1 .. Len(segments) + 1 /\ position' \in Nat
  BY <1>1, AtRelocationFacts
<1>4. TypeOK'
  BY <1>1, <1>2, <1>3 DEF LoaderInv, TypeOK, Mapped
<1>5. SegmentsFollowHeaders' /\ CountersInBounds'
  BY <1>1, <1>2, <1>3
     DEF LoaderInv, SegmentsFollowHeaders, CountersInBounds, AllRead, SegmentOf
<1>6. MappedSoFar'
  BY <1>1, <1>2 DEF MappedSoFar, Loadable
<1>7. NoHalfRelocatedProgram'
  BY <1>1 DEF NoHalfRelocatedProgram
<1> QED
  BY <1>4, <1>5, <1>6, <1>7 DEF LoaderInv

\* The relocation that is applied is the last of those applied, and both its
\* patches are in the cells.
LEMMA ApplyRelocationStep ==
    ASSUME LoaderInv, ApplyRelocation
    PROVE  LoaderInv'
<1> DEFINE r == Headers[cursor].relocations[position + 1]
           s == r.patched + 1
           value == [by |-> "file", symbol |-> Symbol(r), addend |-> r.addend]
           cells == {<<s, r.offset>>}
                      \cup IF r.code2 = "none" THEN {} ELSE {<<s, Second(r)>>}
           place == <<cursor, position + 1>>
<1>1. /\ AtRelocation /\ Readable
      /\ s \in Mapped /\ r.offset < Cells
      /\ r.code2 # "none" => Second(r) < Cells
      /\ memory' = Write(cells, value)
      /\ position' = position + 1
      /\ UNCHANGED <<phase, file, segments, cursor, registered>>
  BY DEF ApplyRelocation, Applies
<1>2. /\ phase = "relocating" /\ file \in Files /\ Cells \in Nat
      /\ cursor \in 1 .. Len(segments) /\ cursor \in Nat /\ position \in Nat
      /\ Len(segments) \in Nat /\ Len(segments) = Len(Headers)
      /\ memory \in [Mapped -> [0 .. Cells - 1 -> Cell]]
  BY <1>1, AtRelocationFacts
<1>3. Headers[cursor].type = "rela" /\ position + 1 \in 1 .. Len(Headers[cursor].relocations)
  <2>1. segments[cursor].relocatable /\ segments[cursor].data = "file"
        /\ position < segments[cursor].length
    BY <1>1 DEF Readable
  <2>2. Headers[cursor].type = "rela"
    BY <1>1, <1>2, <2>1, SegmentFacts, AtRelocationFacts
  <2>3. segments[cursor].length = Headers[cursor].inflated
    BY <1>1, <1>2, <2>1, <2>2, SegmentFacts, AtRelocationFacts
  <2>4. /\ Len(Headers[cursor].relocations) = Headers[cursor].inflated
        /\ Len(Headers[cursor].relocations) \in Nat
    BY <1>2, <2>2, FileFacts
  <2> QED
    BY <1>1, <1>2, <2>1, <2>2, <2>3, <2>4
<1>4. r \in Relocation
  BY <1>2, <1>3, FileFacts
<1>6. value \in Patch
  <2>1. Symbol(r) \in 0 .. Len(Headers)
    BY <1>2, <1>4 DEF Symbol, Relocation
  <2> QED
    BY <1>4, <2>1 DEF Patch, Relocation
<1> HIDE DEF value, r, s
<1>7. /\ memory' \in [Mapped -> [0 .. Cells - 1 -> Cell]]
      /\ Mapped' = Mapped
      /\ \A i \in Mapped : \A c \in 0 .. Cells - 1 :
           /\ memory'[i][c].origin = memory[i][c].origin
           /\ memory'[i][c].patch = IF Reaches(r, i, c) THEN value
                                    ELSE memory[i][c].patch
  <2>1. \A i \in Mapped : \A c \in 0 .. Cells - 1 :
          <<i, c>> \in cells <=> Reaches(r, i, c)
    BY DEF Reaches, s
  <2> HIDE DEF cells
  <2>2. /\ memory' \in [Mapped -> [0 .. Cells - 1 -> Cell]]
        /\ DOMAIN memory' = Mapped
        /\ \A i \in Mapped : \A c \in 0 .. Cells - 1 :
             /\ memory'[i][c].origin = memory[i][c].origin
             /\ memory'[i][c].patch = IF <<i, c>> \in cells THEN value
                                      ELSE memory[i][c].patch
    BY <1>1, <1>2, <1>6, WriteType
  <2> QED
    BY <2>1, <2>2 DEF Mapped
<1>8. value = [by |-> "file", symbol |-> SymbolHeader(r), addend |-> r.addend]
  <2>1. r.symbol \in Nat /\ Len(Headers) \in Nat
    BY <1>2, <1>4, FileFacts DEF Relocation
  <2>2. Symbol(r) = SymbolHeader(r)
    BY <1>2, <2>1 DEF Symbol, SymbolHeader
  <2> QED
    BY <2>2 DEF value
<1>9. /\ Headers' = Headers /\ Whole' = Whole /\ Places' = Places
      /\ \A p : RelocationAt(p)' = RelocationAt(p) /\ ValueOf(p)' = ValueOf(p)
  BY <1>1 DEF Headers, Whole, Places, RelocationAt, ValueOf, SymbolHeader
<1>10. /\ place \in Places /\ RelocationAt(place) = r /\ ValueOf(place) = value
       /\ Applied' = Applied \cup {place}
       /\ \A p \in Applied : NotAfter(p, place)
  <2>1. place \in Places
    BY <1>2, <1>3 DEF Places
  <2>2. RelocationAt(place) = r /\ ValueOf(place) = value
    BY <1>8 DEF RelocationAt, ValueOf, r
  <2>3. \A p \in Places : p \in Nat \X Nat
    BY <1>2, PlaceFacts
  <2>4. Applied' = Applied \cup {place}
    <3>1. Applied = { p \in Places : p[1] < cursor \/ (p[1] = cursor /\ p[2] <= position) }
      BY <1>2 DEF Applied
    <3>2. Applied' =
            { p \in Places : p[1] < cursor \/ (p[1] = cursor /\ p[2] <= position + 1) }
      BY <1>1, <1>2, <1>9 DEF Applied
    <3>3. ASSUME NEW p \in Places
          PROVE  p[2] <= position + 1 /\ p[1] = cursor
                   <=> (p[2] <= position /\ p[1] = cursor) \/ p = place
      <4>1. p \in Nat \X Nat
        BY <2>3
      <4>2. p = <<p[1], p[2]>> /\ p[1] \in Nat /\ p[2] \in Nat
        BY <4>1
      <4> QED
        BY <1>2, <4>2
    <3> HIDE DEF place
    <3> QED
      BY <2>1, <2>3, <3>1, <3>2, <3>3
  <2>5. ASSUME NEW p \in Applied
        PROVE  NotAfter(p, place)
    <3>1. p \in Places /\ (p[1] < cursor \/ (p[1] = cursor /\ p[2] <= position))
      BY <1>2 DEF Applied
    <3>2. p[1] \in Nat /\ p[2] \in Nat
      BY <2>3, <3>1
    <3> QED
      BY <1>2, <3>1, <3>2 DEF NotAfter
  <2> QED
    BY <2>1, <2>2, <2>4, <2>5
<1> HIDE DEF place
<1>11. CellsAreExact'
  <2>0. \A i, c : ~ StubAt(i, c) /\ ~ StubAt(i, c)'
    BY <1>1, <1>2 DEF StubAt, StubsDone
  <2>1. SUFFICES ASSUME Whole, NEW i \in Mapped, NEW c \in 0 .. Cells - 1
                 PROVE  /\ memory'[i][c].origin =
                             IF c < Headers[i].filesz THEN "file" ELSE "zero"
                        /\ Holds(memory[i][c].patch, HitsOf(Applied, i, c))'
    BY <1>1, <1>2, <1>7, <1>9, <2>0 DEF CellsAreExact
  <2>2. /\ memory[i][c].origin = IF c < Headers[i].filesz THEN "file" ELSE "zero"
        /\ Holds(memory[i][c].patch, HitsOf(Applied, i, c))
    BY <1>2, <2>0, <2>1 DEF LoaderInv, CellsAreExact
  <2>3. HitsOf(Applied, i, c)' = { p \in Applied' : Reaches(RelocationAt(p), i, c) }
    BY <1>9 DEF HitsOf, Reaches, Second
  <2>4. CASE Reaches(r, i, c)
    <3>1. HitsOf(Applied, i, c)' = HitsOf(Applied, i, c) \cup {place}
      BY <1>10, <2>3, <2>4 DEF HitsOf
    <3>2. memory'[i][c].patch = ValueOf(place)
      BY <1>7, <1>10, <2>4
    <3>3. NotAfter(place, place)
      BY <1>2 DEF NotAfter, place
    <3>4. \A q \in HitsOf(Applied, i, c) \cup {place} : NotAfter(q, place)
      BY <1>10, <3>3 DEF HitsOf
    <3> QED
      BY <1>7, <1>9, <2>2, <3>1, <3>2, <3>4 DEF Holds, NotAfter
  <2>5. CASE ~ Reaches(r, i, c)
    <3>1. HitsOf(Applied, i, c)' = HitsOf(Applied, i, c)
      BY <1>10, <2>3, <2>5 DEF HitsOf
    <3>2. memory'[i][c].patch = memory[i][c].patch
      BY <1>7, <2>5
    <3> QED
      BY <1>7, <1>9, <2>2, <3>1, <3>2 DEF Holds, NotAfter, NoPatch
  <2> QED
    BY <2>4, <2>5
<1> QED
  <2>1. Mapped' = Mapped /\ memory' \in [Mapped -> [0 .. Cells - 1 -> Cell]]
    BY <1>7
  <2>2. /\ UNCHANGED <<phase, file, segments, registered>> /\ AtRelocation
        /\ cursor' = cursor /\ position' \in Nat
    BY <1>1, <1>2
  <2> QED
    BY <1>11, <2>1, <2>2, RelocatingKeeps

\* A relocation that fails unmaps everything.
LEMMA RelocationFailsStep ==
    ASSUME LoaderInv, RelocationFails
    PROVE  LoaderInv'
<1>1. /\ AtRelocation /\ phase' = "failed" /\ memory' = << >>
      /\ UNCHANGED <<file, segments, cursor, position, registered>>
  BY DEF RelocationFails, BadRelocation, Fail
<1>2. Mapped' = {} /\ Headers' = Headers
  BY <1>1, NoCells DEF Mapped, Headers
<1>3. memory' \in [Mapped' -> [0 .. Cells - 1 -> Cell']]
  BY <1>1, <1>2, NoCells
<1>4. TypeOK'
  BY <1>1, <1>2, <1>3 DEF LoaderInv, TypeOK, Mapped
<1>5. SegmentsFollowHeaders'
  BY <1>1, <1>2 DEF LoaderInv, SegmentsFollowHeaders, AllRead, SegmentOf
<1> QED
  BY <1>1, <1>2, <1>4, <1>5
     DEF LoaderInv, CountersInBounds, MappedSoFar, CellsAreExact, NoHalfRelocatedProgram

\* Relocations that are not those of the file come from a segment that did not
\* inflate in full.
LEMMA ApplyGarbageStep ==
    ASSUME LoaderInv, ApplyGarbage
    PROVE  LoaderInv'
<1>1. PICK p, q \in Mapped \X (0 .. Cells - 1) : memory' = Write({p, q}, Garbage)
  BY DEF ApplyGarbage
<1>2. /\ AtRelocation /\ position < EntryCount /\ ~ Readable /\ position' = position + 1
      /\ UNCHANGED <<phase, file, segments, cursor, registered>>
  BY DEF ApplyGarbage
<1>3. /\ file \in Files /\ memory \in [Mapped -> [0 .. Cells - 1 -> Cell]]
      /\ cursor \in 1 .. Len(segments) /\ position \in Nat /\ AllRead
      /\ Garbage \in Patch
  BY <1>2, AtRelocationFacts, OwnPatches
<1>4. memory' \in [Mapped -> [0 .. Cells - 1 -> Cell]] /\ DOMAIN memory' = Mapped
  BY <1>1, <1>3, WriteType
<1>5. Mapped' = Mapped
  BY <1>4 DEF Mapped
<1>6. ~ Whole
  <2>1. /\ segments[cursor].relocatable /\ position < Headers[cursor].filesz
        /\ segments[cursor].data # "file" \/ ~ (position < segments[cursor].length)
    BY <1>2, <1>3 DEF EntryCount, Readable
  <2>2. Headers[cursor].type = "rela"
    BY <1>3, <2>1, SegmentFacts
  <2> QED
    BY <1>3, <2>1, <2>2, SegmentFacts
<1>7. CellsAreExact'
  BY <1>2, <1>6, SameFile DEF CellsAreExact
<1> QED
  BY <1>2, <1>3, <1>4, <1>5, <1>7, RelocatingKeeps

\* At the end of a segment's relocations the loader goes on to the next segment.
LEMMA NextSegmentStep ==
    ASSUME LoaderInv, NextSegment
    PROVE  LoaderInv'
<1>1. /\ AtRelocation /\ position = EntryCount /\ cursor' = cursor + 1 /\ position' = 0
      /\ UNCHANGED <<phase, file, segments, memory, registered>>
  BY DEF NextSegment
<1>2. /\ phase = "relocating" /\ file \in Files /\ AllRead
      /\ memory \in [Mapped -> [0 .. Cells - 1 -> Cell]]
      /\ cursor \in 1 .. Len(segments) /\ cursor \in Nat /\ position \in Nat
  BY <1>1, AtRelocationFacts
<1>3. Mapped' = Mapped /\ Headers' = Headers /\ Places' = Places
  BY <1>1 DEF Mapped, Headers, Places
<1>4. CellsAreExact'
  <2>1. CASE ~ Whole
    BY <1>1, <2>1, SameFile DEF CellsAreExact
  <2>2. CASE Whole
    <3>1. ASSUME NEW p \in Places
          PROVE  (p[1] < cursor + 1 \/ (p[1] = cursor + 1 /\ p[2] <= 0))
                   <=> (p[1] < cursor \/ (p[1] = cursor /\ p[2] <= position))
      <4>1. /\ p[1] \in Nat /\ p[2] \in Nat /\ p[2] >= 1
            /\ Headers[p[1]].type = "rela"
            /\ p[2] <= Len(Headers[p[1]].relocations)
            /\ p[1] \in 1 .. Len(Headers)
        BY <1>2, PlaceFacts
      <4>2. CASE p[1] = cursor
        <5>1. segments[cursor].relocatable
          BY <1>2, <4>1, <4>2, SegmentFacts
        <5>2. position = Headers[cursor].filesz
          BY <1>1, <5>1 DEF EntryCount
        <5>3. Headers[cursor].filesz = Len(Headers[cursor].relocations)
          BY <1>2, <2>2, <4>1, <4>2, FileFacts DEF Whole
        <5> QED
          BY <1>2, <4>1, <4>2, <5>2, <5>3
      <4>3. CASE p[1] # cursor
        BY <1>2, <4>1, <4>3
      <4> QED
        BY <4>2, <4>3
    <3>2. Applied' = Applied
      BY <1>1, <1>2, <1>3, <3>1 DEF Applied
    <3> QED
      BY <1>1, <1>2, <3>2, SameCells DEF LoaderInv, StubsDone
  <2> QED
    BY <2>1, <2>2
<1> QED
  BY <1>1, <1>2, <1>3, <1>4, RelocatingKeeps

\* A step behind the relocations keeps what does not speak of the cells' contents.
LEMMA AfterRelocation ==
    ASSUME LoaderInv, phase \in {"relocating", "importing"},
           cursor = Len(segments) + 1,
           phase' \in {"importing", "loaded", "failed"}, registered' \in BOOLEAN,
           position' \in Nat, UNCHANGED <<file, segments, cursor>>,
           memory' \in [Mapped -> [0 .. Cells - 1 -> Cell]], Mapped' = Mapped,
           Whole /\ phase' = "importing" => position' <= Len(file.stubs),
           Whole /\ phase' = "importing" /\ registered' => position' = Len(file.stubs),
           Whole /\ phase' = "loaded" => position' = Len(file.stubs),
           CellsAreExact'
    PROVE  LoaderInv'
<1>1. /\ file \in Files /\ AllRead /\ Len(segments) \in Nat
      /\ Len(segments) = Len(Headers) /\ Mapped = Loadable
  BY DEF LoaderInv, TypeOK, AllRead, SegmentsFollowHeaders, MappedSoFar
<1>2. Headers' = Headers /\ Whole' = Whole /\ Cell' = Cell /\ Loadable' = Loadable
  BY SameFile
<1>3. TypeOK'
  BY <1>1, <1>2 DEF LoaderInv, TypeOK, Mapped, Segment
<1>4. SegmentsFollowHeaders' /\ CountersInBounds' /\ MappedSoFar'
  BY <1>1, <1>2
     DEF LoaderInv, SegmentsFollowHeaders, CountersInBounds, AllRead, SegmentOf,
         MappedSoFar
<1>5. NoHalfRelocatedProgram'
  BY <1>1 DEF NoHalfRelocatedProgram
<1> QED
  BY <1>3, <1>4, <1>5 DEF LoaderInv

\* With the last segment done, every relocation of the file is applied.
LEMMA FinishRelocationStep ==
    ASSUME LoaderInv, FinishRelocation
    PROVE  LoaderInv'
<1>1. /\ phase = "relocating" /\ phase' = "importing" /\ registered \in BOOLEAN
      /\ cursor = Len(segments) + 1 /\ position = 0 /\ ~ registered
      /\ UNCHANGED <<file, segments, cursor, position, memory, registered>>
      /\ file \in Files /\ Len(segments) = Len(Headers) /\ Len(segments) \in Nat
      /\ memory \in [Mapped -> [0 .. Cells - 1 -> Cell]]
  BY DEF FinishRelocation, LoaderInv, TypeOK, CountersInBounds, SegmentsFollowHeaders,
         AllRead, Mapped
<1>2. Applied' = Applied
  <2>1. \A p \in Places : p[1] < cursor
    BY <1>1, PlaceFacts
  <2>2. Places' = Places
    BY <1>1, SameFile
  <2> QED
    BY <1>1, <2>1, <2>2 DEF Applied
<1>3. StubsDone' = StubsDone
  BY <1>1 DEF StubsDone
<1>4. CellsAreExact'
  BY <1>1, <1>2, <1>3, SameCells DEF LoaderInv
<1>5. Len(file.stubs) \in Nat /\ Mapped' = Mapped
  BY <1>1, FileFacts DEF Mapped
<1> QED
  BY <1>1, <1>4, <1>5, AfterRelocation

\* The next stub is in its cells, and the others are as they were.
LEMMA PatchStubStep ==
    ASSUME LoaderInv, PatchStub
    PROVE  LoaderInv'
<1>1. /\ phase = "importing" /\ ~ registered
      /\ UNCHANGED <<phase, file, segments, cursor, registered>>
      /\ file \in Files /\ position \in Nat /\ registered \in BOOLEAN
      /\ cursor = Len(segments) + 1
      /\ memory \in [Mapped -> [0 .. Cells - 1 -> Cell]]
  BY DEF PatchStub, LoaderInv, TypeOK, CountersInBounds, Mapped
<1>2. StubCode \in Patch /\ Len(file.stubs) \in Nat
  BY <1>1, OwnPatches, FileFacts
<1>3. CASE ~ Whole
  <2>1. PICK s \in Mapped, c \in 0 .. Cells - 1 :
          memory' = Write(Covers([segment |-> s, offset |-> c]), StubCode)
    BY <1>3 DEF PatchStub
  <2>2. memory' \in [Mapped -> [0 .. Cells - 1 -> Cell]] /\ DOMAIN memory' = Mapped
    BY <1>1, <1>2, <2>1, WriteType
  <2>3. CellsAreExact'
    BY <1>1, <1>3, SameFile DEF CellsAreExact
  <2>4. position' \in Nat /\ Mapped' = Mapped
    BY <1>1, <1>3, <2>2 DEF PatchStub, Mapped
  <2> QED
    BY <1>1, <1>3, <2>2, <2>3, <2>4, AfterRelocation
<1>4. CASE Whole
  <2> DEFINE stub == file.stubs[position + 1]
  <2>1. /\ position < Len(file.stubs) /\ position' = position + 1
        /\ memory' = Write(Covers(stub), StubCode)
    BY <1>4 DEF PatchStub
  <2>2. /\ memory' \in [Mapped -> [0 .. Cells - 1 -> Cell]] /\ DOMAIN memory' = Mapped
        /\ \A i \in Mapped : \A c \in 0 .. Cells - 1 :
             /\ memory'[i][c].origin = memory[i][c].origin
             /\ memory'[i][c].patch = IF <<i, c>> \in Covers(stub) THEN StubCode
                                      ELSE memory[i][c].patch
    BY <1>1, <1>2, <2>1, WriteType
  <2>3. \A i, c : StubAt(i, c)' <=> StubAt(i, c) \/ <<i, c>> \in Covers(stub)
    <3>1. StubsDone = 1 .. position /\ StubsDone' = StubsDone \cup {position + 1}
      BY <1>1, <2>1 DEF StubsDone
    <3>2. position + 1 \in 1 .. Len(file.stubs)
      BY <1>1, <1>2, <2>1
    <3> QED
      BY <1>1, <3>1, <3>2 DEF StubAt, Covers
  <2>4. CellsAreExact'
    <3>1. /\ Applied' = Applied /\ Headers' = Headers /\ Mapped' = Mapped /\ Whole' = Whole
      BY <1>1, <2>2, SameFile DEF Applied, Mapped
    <3>2. \A i, c : HitsOf(Applied, i, c)' = HitsOf(Applied, i, c)
      BY <1>1, <3>1 DEF HitsOf, Reaches, RelocationAt, Second
    <3>3. SUFFICES ASSUME NEW i \in Mapped, NEW c \in 0 .. Cells - 1
                   PROVE  /\ memory'[i][c].origin =
                               IF c < Headers[i].filesz THEN "file" ELSE "zero"
                          /\ IF StubAt(i, c)' THEN memory'[i][c].patch = StubCode
                             ELSE Holds(memory[i][c].patch, HitsOf(Applied, i, c))'
      BY <3>1 DEF CellsAreExact
    <3>4. /\ memory[i][c].origin = IF c < Headers[i].filesz THEN "file" ELSE "zero"
          /\ IF StubAt(i, c) THEN memory[i][c].patch = StubCode
             ELSE Holds(memory[i][c].patch, HitsOf(Applied, i, c))
      BY <1>1, <1>4 DEF LoaderInv, CellsAreExact
    <3>5. CASE <<i, c>> \in Covers(stub)
      BY <2>2, <2>3, <3>4, <3>5
    <3>6. CASE <<i, c>> \notin Covers(stub)
      <4>1. memory'[i][c].patch = memory[i][c].patch
        BY <2>2, <3>6
      <4>2. ASSUME ~ StubAt(i, c)
            PROVE  Holds(memory[i][c].patch, HitsOf(Applied, i, c))'
        BY <1>1, <3>2, <3>4, <4>1, <4>2
           DEF Holds, ValueOf, SymbolHeader, RelocationAt, Headers, NotAfter, NoPatch
      <4> QED
        BY <2>2, <2>3, <3>4, <3>6, <4>1, <4>2
    <3> QED
      BY <3>5, <3>6
  <2>5. position' \in Nat /\ Mapped' = Mapped /\ position' <= Len(file.stubs)
    BY <1>1, <1>2, <2>1, <2>2 DEF Mapped
  <2> QED
    BY <1>1, <2>2, <2>4, <2>5, AfterRelocation
<1> QED
  BY <1>3, <1>4

\* The ends of the two walks change no cell.
LEMMA TablesStep ==
    ASSUME LoaderInv, ImportsFail \/ AddModule \/ ExportsFail \/ FinishLoad
    PROVE  LoaderInv'
<1>1. /\ phase = "importing" /\ phase' \in {"importing", "failed", "loaded"}
      /\ UNCHANGED <<file, segments, cursor, position, memory>>
      /\ registered' = registered \/ registered' = TRUE
  BY DEF ImportsFail, AddModule, ExportsFail, FinishLoad, Fail
<1>2. /\ registered \in BOOLEAN /\ cursor = Len(segments) + 1
      /\ memory \in [Mapped -> [0 .. Cells - 1 -> Cell]]
      /\ file \in Files /\ position \in Nat
  BY <1>1 DEF LoaderInv, TypeOK, CountersInBounds, Mapped
<1>3. /\ registered' \in BOOLEAN /\ Mapped' = Mapped /\ Len(file.stubs) \in Nat
  BY <1>1, <1>2, FileFacts DEF Mapped
<1>4. Whole /\ phase' # "failed" => position = Len(file.stubs)
  BY <1>1 DEF LoaderInv, CountersInBounds, ImportsFail, AddModule, ExportsFail,
              FinishLoad, Fail
<1>5. CellsAreExact'
  <2>1. CASE phase' = "failed"
    BY <2>1 DEF CellsAreExact
  <2>2. CASE phase' # "failed"
    <3>1. Applied' = Applied /\ StubsDone' = StubsDone
      BY <1>1, <2>2, SameFile DEF Applied, StubsDone
    <3> QED
      BY <1>1, <3>1, SameCells DEF LoaderInv
  <2> QED
    BY <2>1, <2>2
<1> QED
  BY <1>1, <1>2, <1>3, <1>4, <1>5, AfterRelocation

\* Every step keeps the invariant.
LEMMA LoaderInvNext ==
    ASSUME LoaderInv, [Next]_vars
    PROVE  LoaderInv'
<1>1. CASE RefuseFile
  BY <1>1, RefuseFileStep
<1>2. CASE ReadHeader
  BY <1>2, ReadHeaderStep
<1>3. CASE FinishDecryption
  BY <1>3, FinishDecryptionStep
<1>4. CASE MapSegment
  BY <1>4, MapSegmentStep
<1>5. CASE MissModuleInfo \/ ReadBehindSegments
  BY <1>5, NoModuleInfoStep
<1>6. CASE FindModuleInfo
  BY <1>6, FindModuleInfoStep
<1>7. CASE ApplyRelocation
  BY <1>7, ApplyRelocationStep
<1>8. CASE RelocationFails
  BY <1>8, RelocationFailsStep
<1>9. CASE ApplyGarbage
  BY <1>9, ApplyGarbageStep
<1>10. CASE NextSegment
  BY <1>10, NextSegmentStep
<1>11. CASE FinishRelocation
  BY <1>11, FinishRelocationStep
<1>12. CASE ImportsFail \/ AddModule \/ ExportsFail \/ FinishLoad
  BY <1>12, TablesStep
<1>13. CASE PatchStub
  BY <1>13, PatchStubStep
<1>14. CASE UNCHANGED vars
  <2>1. UNCHANGED <<phase, file, segments, cursor, position, memory, registered>>
    BY <1>14 DEF vars
  <2>2. /\ Headers' = Headers /\ Mapped' = Mapped /\ Places' = Places
        /\ Whole' = Whole
    BY <2>1, SameFile DEF Mapped
  <2>3. TypeOK' /\ SegmentsFollowHeaders' /\ CountersInBounds' /\ MappedSoFar'
    BY <2>1, <2>2
       DEF LoaderInv, TypeOK, Cell, Patch, Segment, SegmentsFollowHeaders, AllRead,
           SegmentOf, CountersInBounds, MappedSoFar, Loadable
  <2>4. CellsAreExact'
    <3>1. Applied' = Applied /\ StubsDone' = StubsDone
      BY <2>1, <2>2 DEF Applied, StubsDone
    <3>2. CASE phase \in {"failed", "crashed"}
      BY <2>1, <3>2 DEF CellsAreExact
    <3>3. CASE phase \notin {"failed", "crashed"}
      BY <2>1, <3>1, <3>3, SameCells DEF LoaderInv
    <3> QED
      BY <3>2, <3>3
  <2>5. NoHalfRelocatedProgram'
    BY <2>1, <2>2 DEF LoaderInv, NoHalfRelocatedProgram, NoPatch
  <2> QED
    BY <2>3, <2>4, <2>5 DEF LoaderInv
<1> QED
  BY <1>1, <1>2, <1>3, <1>4, <1>5, <1>6, <1>7, <1>8, <1>9, <1>10, <1>11, <1>12,
     <1>13, <1>14 DEF Next

-----------------------------------------------------------------------------
(* The theorems *)

\* The loader is always in a state of LoaderInv, with any file.
THEOREM LoaderInvAlways == Spec => []LoaderInv
<1>1. LoaderInv /\ [Next]_vars => LoaderInv'
  BY LoaderInvNext
<1> QED
  BY <1>1, LoaderInvInit, PTL DEF Spec

\* Type correctness: every segment, counter and cell of the loader stays in its
\* range, whatever indices the relocations name.
THEOREM LoaderTypeCorrect == Spec => []TypeOK
<1>1. LoaderInv => TypeOK
  BY DEF LoaderInv
<1> QED
  BY <1>1, LoaderInvAlways, PTL

\* A failed load leaves no program half relocated in guest memory.
THEOREM NoHalfRelocatedAlways == Spec => []NoHalfRelocatedProgram
<1>1. LoaderInv => NoHalfRelocatedProgram
  BY DEF LoaderInv
<1> QED
  BY <1>1, LoaderInvAlways, PTL

\* The last patch there is to a cell is the one LastPatch takes.
LEMMA HeldIsLast ==
    ASSUME file \in Files, NEW patch, NEW s, NEW c,
           Holds(patch, HitsOf(Places, s, c))
    PROVE  patch = LastPatch(s, c)
<1> DEFINE hits   == HitsOf(Places, s, c)
           latest == CHOOSE p \in hits : \A q \in hits : NotAfter(q, p)
<1>1. hits \subseteq Places
  BY DEF HitsOf
<1>2. LastPatch(s, c) = IF hits = {} THEN NoPatch ELSE ValueOf(latest)
  BY DEF LastPatch, HitsOf, ValueOf
<1> HIDE DEF hits
<1>3. CASE hits = {}
  BY <1>2, <1>3 DEF Holds, hits
<1>4. CASE hits # {}
  <2>1. PICK p \in hits : patch = ValueOf(p) /\ \A q \in hits : NotAfter(q, p)
    BY <1>4 DEF Holds, hits
  <2>2. latest \in hits /\ \A q \in hits : NotAfter(q, latest)
    BY <2>1
  <2> HIDE DEF latest
  <2>3. p = latest
    BY <1>1, <2>1, <2>2, PlaceFacts
  <2> QED
    BY <1>2, <1>4, <2>1, <2>3
<1> QED
  BY <1>3, <1>4

\* The stubs patched when a whole file is loaded are all that it names.
LEMMA AllStubbed ==
    ASSUME LoaderInv, phase = "loaded", Whole, NEW s, NEW c \in Int
    PROVE  StubAt(s, c) <=> Stubbed(s, c)
<1>1. file \in Files /\ StubsDone = 1 .. Len(file.stubs)
  BY DEF LoaderInv, TypeOK, CountersInBounds, StubsDone
<1>2. ASSUME NEW k \in 1 .. Len(file.stubs)
      PROVE  <<s, c>> \in Covers(file.stubs[k])
               <=> /\ s = file.stubs[k].segment
                   /\ c >= file.stubs[k].offset
                   /\ c < file.stubs[k].offset + StubLength
  <2>1. file.stubs[k].offset \in Nat /\ StubLength \in Nat
    BY <1>1, FileFacts
  <2> QED
    BY <2>1 DEF Covers
<1> QED
  BY <1>1, <1>2 DEF StubAt, Stubbed

\* A loaded program that inflated in full is in memory exactly as the file has
\* it: all of its loadable segments, in each cell of a stub the stub's code,
\* and in every other the last of the file's relocations.
THEOREM LoadedImageAlways == Spec => []LoadedImageIsExact
<1>1. ASSUME LoaderInv
      PROVE  LoadedImageIsExact
  <2>1. SUFFICES ASSUME phase = "loaded", Whole
                 PROVE  /\ Mapped = Loadable
                        /\ \A i \in Mapped : \A c \in 0 .. Cells - 1 :
                             memory[i][c] =
                               [ origin |-> IF c < Headers[i].filesz THEN "file" ELSE "zero",
                                 patch  |-> IF Stubbed(i, c) THEN StubCode
                                            ELSE LastPatch(i, c) ]
    BY DEF LoadedImageIsExact, Loadable
  <2>2. Mapped = Loadable /\ file \in Files /\ Applied = Places
        /\ memory \in [Mapped -> [0 .. Cells - 1 -> Cell]]
    BY <1>1, <2>1 DEF LoaderInv, MappedSoFar, TypeOK, Mapped, Applied
  <2>3. ASSUME NEW i \in Mapped, NEW c \in 0 .. Cells - 1
        PROVE  memory[i][c] =
                 [ origin |-> IF c < Headers[i].filesz THEN "file" ELSE "zero",
                   patch  |-> IF Stubbed(i, c) THEN StubCode ELSE LastPatch(i, c) ]
    <3>1. /\ memory[i][c].origin = IF c < Headers[i].filesz THEN "file" ELSE "zero"
          /\ IF StubAt(i, c) THEN memory[i][c].patch = StubCode
             ELSE Holds(memory[i][c].patch, HitsOf(Places, i, c))
      BY <1>1, <2>1, <2>2 DEF LoaderInv, CellsAreExact
    <3>2. StubAt(i, c) <=> Stubbed(i, c)
      BY <1>1, <2>1, <2>2, FileFacts, AllStubbed
    <3>3. memory[i][c].patch = IF Stubbed(i, c) THEN StubCode ELSE LastPatch(i, c)
      BY <2>2, <3>1, <3>2, HeldIsLast
    <3>4. memory[i][c] \in Cell
      BY <2>2
    <3> QED
      BY <3>1, <3>3, <3>4 DEF Cell
  <2> QED
    BY <2>2, <2>3
<1> QED
  BY <1>1, LoaderInvAlways, PTL

-----------------------------------------------------------------------------
(* A relocation: uint32_t arithmetic *)

\* Sums and differences are again words.
LEMMA PlusWord ==
    ASSUME NEW a \in Word, NEW b \in Word
    PROVE  Plus(a, b) \in Word
BY SMT DEF Plus, Word, Half

\* A difference of words is a word.
LEMMA MinusWord ==
    ASSUME NEW a \in Word, NEW b \in Word
    PROVE  Minus(a, b) \in Word
BY SMT DEF Minus, Word, Half

\* Two words with the same halves are the same word.
LEMMA SameHalves ==
    ASSUME NEW a \in Word, NEW b \in Word, a.hi = b.hi, a.lo = b.lo
    PROVE  a = b
BY DEF Word

\* A remainder may be taken early.
LEMMA ModAdd ==
    ASSUME NEW x \in Int, NEW y \in Int
    PROVE  ((x % 65536) + y) % 65536 = (x + y) % 65536
BY SMT

\* The carries of taking p away from a and adding it again, with s between,
\* are the carry of a and s.
LEMMA CarriesAdd ==
    ASSUME NEW s \in Int, NEW a \in Int, NEW p \in Int
    PROVE  LET c1 == (a - p) \div 65536
               e1 == (a - p) % 65536
               c2 == (e1 + s) \div 65536
               e2 == (e1 + s) % 65536
               c3 == (e2 + p) \div 65536
               e3 == (e2 + p) % 65536
           IN  /\ c1 \in Int /\ c2 \in Int /\ c3 \in Int
               /\ e3 = (s + a) % 65536
               /\ c1 + c2 + c3 = (s + a) \div 65536
BY SMT

\* The displacement leads from the site to the target, modulo 2^32.
LEMMA DisplacementReaches ==
    ASSUME NEW S \in Word, NEW A \in Word, NEW P \in Word
    PROVE  Plus(Displacement(S, A, P), P) = Target(S, A)
<1> DEFINE sl == S.lo  sh == S.hi
           al == A.lo  ah == A.hi
           pl == P.lo  ph == P.hi
           c1 == (al - pl) \div 65536
           e1 == (al - pl) % 65536
           c2 == (e1 + sl) \div 65536
           e2 == (e1 + sl) % 65536
           c3 == (e2 + pl) \div 65536
           e3 == (e2 + pl) % 65536
           h1 == ((ah - ph) + c1) % 65536
           h2 == (h1 + sh + c2) % 65536
           h3 == (h2 + ph + c3) % 65536
<1>1. /\ sl \in Int /\ sh \in Int /\ al \in Int /\ ah \in Int
      /\ pl \in Int /\ ph \in Int
  BY DEF Word, Half
<1>2. Plus(Displacement(S, A, P), P) = [hi |-> h3, lo |-> e3]
  BY DEF Plus, Minus, Displacement
<1>3. Target(S, A) = [hi |-> (sh + ah + ((sl + al) \div 65536)) % 65536,
                      lo |-> (sl + al) % 65536]
  BY DEF Plus, Target
<1> HIDE DEF sl, sh, al, ah, pl, ph
<1>4. /\ c1 \in Int /\ c2 \in Int /\ c3 \in Int
      /\ e3 = (sl + al) % 65536
      /\ c1 + c2 + c3 = (sl + al) \div 65536
  BY <1>1, CarriesAdd
<1>5. h3 = (sh + ah + (c1 + c2 + c3)) % 65536
  <2> HIDE DEF c1, c2, c3
  <2>1. h2 = (((ah - ph) + c1) + (sh + c2)) % 65536
    BY <1>1, <1>4, ModAdd
  <2>2. h3 = ((((ah - ph) + c1) + (sh + c2)) + (ph + c3)) % 65536
    BY <1>1, <1>4, <2>1, ModAdd
  <2> QED
    BY <1>1, <1>4, <2>2
<1> QED
  BY <1>2, <1>3, <1>4, <1>5

-----------------------------------------------------------------------------
(* The halves of a MOVW or MOVT *)

\* imm4 and imm1 in the lower half hold what was put there, and leave the bits
\* around them alone.
LEMMA MovLow ==
    ASSUME NEW h \in Half, NEW x \in Nat, x < 16, NEW y \in Nat, y < 2
    PROVE  LET g == Put(Put(h, 1, 16, x), 1024, 2, y)
           IN  /\ g \in Half
               /\ Field(g, 1, 16) = x
               /\ Field(g, 1024, 2) = y
               /\ g \div 2048 = h \div 2048
               /\ Field(g, 16, 64) = Field(h, 16, 64)
BY SMTT(60) DEF Put, Field, Half

\* So do imm8 and imm3 in the upper half.
LEMMA MovHigh ==
    ASSUME NEW h \in Half, NEW x \in Nat, x < 256, NEW y \in Nat, y < 8
    PROVE  LET g == Put(Put(h, 1, 256, x), 4096, 8, y)
           IN  /\ g \in Half
               /\ Field(g, 1, 256) = x
               /\ Field(g, 4096, 8) = y
               /\ g \div 32768 = h \div 32768
               /\ Field(g, 256, 16) = Field(h, 256, 16)
BY SMTT(60) DEF Put, Field, Half

\* The four fields are all of the 16 bits.
LEMMA MovFields ==
    ASSUME NEW t \in Half
    PROVE  /\ Field(t, 4096, 16) \in Nat /\ Field(t, 4096, 16) < 16
           /\ Field(t, 2048, 2) \in Nat /\ Field(t, 2048, 2) < 2
           /\ Field(t, 256, 8) \in Nat /\ Field(t, 256, 8) < 8
           /\ Field(t, 1, 256) \in Nat /\ Field(t, 1, 256) < 256
           /\ t = 4096 * Field(t, 4096, 16) + 2048 * Field(t, 2048, 2)
                    + 256 * Field(t, 256, 8) + Field(t, 1, 256)
BY SMTT(60) DEF Field, Half

\* A relocated MOVW or MOVT holds the 16 bits, and is the same instruction.
LEMMA ThmMovReads ==
    ASSUME NEW w \in Word, NEW t \in Half, NEW type,
           type # "THM_CALL"
    PROVE  /\ ThmMov(w, t) \in Word
           /\ MovImmediate(ThmMov(w, t)) = t
           /\ OpcodeOf(type, ThmMov(w, t)) = OpcodeOf(type, w)
<1> DEFINE first  == w.lo
           second == w.hi
           imm4 == Field(t, 4096, 16)
           imm1 == Field(t, 2048, 2)
           imm3 == Field(t, 256, 8)
           imm8 == Field(t, 1, 256)
           g    == Put(Put(first, 1, 16, imm4), 1024, 2, imm1)
           k    == Put(Put(second, 1, 256, imm8), 4096, 8, imm3)
<1>1. first \in Half /\ second \in Half
  BY DEF Word
<1>2. ThmMov(w, t).lo = g /\ ThmMov(w, t).hi = k /\ ThmMov(w, t) = [lo |-> g, hi |-> k]
  BY DEF ThmMov
<1>0. /\ imm4 \in Nat /\ imm4 < 16 /\ imm1 \in Nat /\ imm1 < 2
      /\ imm3 \in Nat /\ imm3 < 8 /\ imm8 \in Nat /\ imm8 < 256
      /\ t = 4096 * imm4 + 2048 * imm1 + 256 * imm3 + imm8
  BY MovFields
<1> HIDE DEF first, second, imm4, imm1, imm3, imm8
<1>3. /\ g \in Half
      /\ Field(g, 1, 16) = imm4
      /\ Field(g, 1024, 2) = imm1
      /\ g \div 2048 = first \div 2048
      /\ Field(g, 16, 64) = Field(first, 16, 64)
  BY <1>0, <1>1, MovLow
<1>4. /\ k \in Half
      /\ Field(k, 1, 256) = imm8
      /\ Field(k, 4096, 8) = imm3
      /\ k \div 32768 = second \div 32768
      /\ Field(k, 256, 16) = Field(second, 256, 16)
  BY <1>0, <1>1, MovHigh
<1> HIDE DEF g, k
<1>5. ThmMov(w, t) \in Word
  BY <1>2, <1>3, <1>4 DEF Word
<1>6. MovImmediate(ThmMov(w, t)) = t
  BY <1>0, <1>2, <1>3, <1>4 DEF MovImmediate
<1>7. OpcodeOf(type, ThmMov(w, t)) = OpcodeOf(type, w)
  BY <1>2, <1>3, <1>4 DEF OpcodeOf, first, second
<1> QED
  BY <1>5, <1>6, <1>7

-----------------------------------------------------------------------------
(* The halves of a BL *)

\* imm10 and the sign in the lower half.
LEMMA CallLow ==
    ASSUME NEW h \in Half, NEW x \in Nat, x < 1024, NEW s \in Nat, s < 2
    PROVE  LET g == Put(Put(h, 1, 1024, x), 1024, 2, s)
           IN  /\ g \in Half
               /\ Field(g, 1, 1024) = x
               /\ Field(g, 1024, 2) = s
               /\ g \div 2048 = h \div 2048
BY SMTT(60) DEF Put, Field, Half

\* imm11 and the J bits in the upper half.
LEMMA CallHigh ==
    ASSUME NEW h \in Half, NEW x \in Nat, x < 2048,
           NEW j2 \in Nat, j2 < 2, NEW j1 \in Nat, j1 < 2
    PROVE  LET g == Put(Put(Put(h, 1, 2048, x), 2048, 2, j2), 8192, 2, j1)
           IN  /\ g \in Half
               /\ Field(g, 1, 2048) = x
               /\ Field(g, 2048, 2) = j2
               /\ Field(g, 8192, 2) = j1
               /\ Field(g, 4096, 2) = Field(h, 4096, 2)
               /\ g \div 16384 = h \div 16384
BY SMTT(60) DEF Put, Field, Half

\* Inverting a bit and combining it with the sign is undone by doing it again.
LEMMA JBit ==
    ASSUME NEW s \in Nat, s < 2, NEW i \in Nat, i < 2
    PROVE  /\ Xor(s, 1 - i) \in Nat /\ Xor(s, 1 - i) < 2
           /\ 1 - Xor(Xor(s, 1 - i), s) = i
BY SMT DEF Xor

\* The fields of a displacement are numbers of their width.
LEMMA CallFields ==
    ASSUME NEW d \in Word
    PROVE  /\ Field(d.hi, 256, 2) \in Nat /\ Field(d.hi, 256, 2) < 2
           /\ Field(d.hi, 128, 2) \in Nat /\ Field(d.hi, 128, 2) < 2
           /\ Field(d.hi, 64, 2) \in Nat /\ Field(d.hi, 64, 2) < 2
           /\ Field(d.hi, 1, 64) \in Nat /\ Field(d.hi, 1, 64) < 64
           /\ Field(d.lo, 2, 2048) \in Nat /\ Field(d.lo, 2, 2048) < 2048
           /\ Field(d.lo, 4096, 16) \in Nat /\ Field(d.lo, 4096, 16) < 16
BY SMTT(60) DEF Field, Half, Word

\* An even displacement within 16 MiB is its fields and its sign.
LEMMA CallRange ==
    ASSUME NEW d \in Word, InBranchRange(d)
    PROVE  /\ d.lo = 2 * Field(d.lo, 2, 2048) + 4096 * Field(d.lo, 4096, 16)
           /\ d.hi = Field(d.hi, 1, 64) + 64 * Field(d.hi, 64, 2)
                       + 128 * Field(d.hi, 128, 2) + 65280 * Field(d.hi, 256, 2)
<1>1. d.lo \in Half /\ d.hi \in Half /\ d.lo % 2 = 0
  BY DEF Word, InBranchRange
<1>2. \A h \in Half : h % 2 = 0 => h = 2 * Field(h, 2, 2048) + 4096 * Field(h, 4096, 16)
  BY SMTT(30) DEF Field, Half
<1>3. \A h \in Half : h \div 256 = 0 =>
         h = Field(h, 1, 64) + 64 * Field(h, 64, 2) + 128 * Field(h, 128, 2)
               + 65280 * Field(h, 256, 2)
  BY SMTT(30) DEF Field, Half
<1>4. \A h \in Half : h \div 256 = 255 =>
         h = Field(h, 1, 64) + 64 * Field(h, 64, 2) + 128 * Field(h, 128, 2)
               + 65280 * Field(h, 256, 2)
  BY SMTT(30) DEF Field, Half
<1>5. d.hi \div 256 = 0 \/ d.hi \div 256 = 255
  BY DEF InBranchRange
<1> QED
  BY <1>1, <1>2, <1>3, <1>4, <1>5

\* A relocated BL is the same instruction, and when its displacement is in
\* range the processor reads that displacement back.
LEMMA ThmCallReads ==
    ASSUME NEW w \in Word, NEW d \in Word
    PROVE  /\ ThmCall(w, d) \in Word
           /\ InBranchRange(d) => BranchOffset(ThmCall(w, d)) = d
           /\ OpcodeOf("THM_CALL", ThmCall(w, d)) = OpcodeOf("THM_CALL", w)
<1> DEFINE first  == w.lo
           second == w.hi
           sign  == Field(d.hi, 256, 2)
           imm10 == Field(d.lo, 4096, 16) + 16 * Field(d.hi, 1, 64)
           imm11 == Field(d.lo, 2, 2048)
           i2    == Field(d.hi, 64, 2)
           i1    == Field(d.hi, 128, 2)
           j2    == Xor(sign, 1 - i2)
           j1    == Xor(sign, 1 - i1)
           g     == Put(Put(first, 1, 1024, imm10), 1024, 2, sign)
           k     == Put(Put(Put(second, 1, 2048, imm11), 2048, 2, j2), 8192, 2, j1)
<1>1. first \in Half /\ second \in Half /\ d.lo \in Half /\ d.hi \in Half
  BY DEF Word
<1>2. ThmCall(w, d).lo = g /\ ThmCall(w, d).hi = k /\ ThmCall(w, d) = [lo |-> g, hi |-> k]
  BY DEF ThmCall
<1>0. /\ sign \in Nat /\ sign < 2
      /\ i2 \in Nat /\ i2 < 2
      /\ i1 \in Nat /\ i1 < 2
  BY CallFields
<1>4. imm10 \in Nat /\ imm10 < 1024
  BY CallFields
<1>5. sign \in Nat /\ sign < 2 /\ imm11 \in Nat /\ imm11 < 2048
  BY CallFields
<1>6. imm10 % 16 = Field(d.lo, 4096, 16) /\ imm10 \div 16 = Field(d.hi, 1, 64)
  BY CallFields
<1> HIDE DEF first, second, imm10, imm11, sign, i1, i2
<1>3. /\ j2 \in Nat /\ j2 < 2 /\ 1 - Xor(j2, sign) = i2
      /\ j1 \in Nat /\ j1 < 2 /\ 1 - Xor(j1, sign) = i1
  BY <1>0, JBit
<1> HIDE DEF j1, j2
<1>7. /\ g \in Half
      /\ Field(g, 1, 1024) = imm10
      /\ Field(g, 1024, 2) = sign
      /\ g \div 2048 = first \div 2048
  BY <1>1, <1>4, <1>5, CallLow
<1>8. /\ k \in Half
      /\ Field(k, 1, 2048) = imm11
      /\ Field(k, 2048, 2) = j2
      /\ Field(k, 8192, 2) = j1
      /\ Field(k, 4096, 2) = Field(second, 4096, 2)
      /\ k \div 16384 = second \div 16384
  <2>1. imm11 \in Nat /\ imm11 < 2048 /\ j2 \in Nat /\ j2 < 2 /\ j1 \in Nat /\ j1 < 2
    BY <1>3, <1>5
  <2> QED
    BY <1>1, <2>1, CallHigh
<1> HIDE DEF g, k
<1>9. ThmCall(w, d) \in Word
  BY <1>2, <1>7, <1>8 DEF Word
<1>10. ASSUME InBranchRange(d)
       PROVE  BranchOffset(ThmCall(w, d)) = d
  <2> DEFINE offset == [ lo |-> 2 * imm11 + 4096 * (imm10 % 16),
                         hi |-> (imm10 \div 16) + 64 * (1 - Xor(j2, sign))
                                  + 128 * (1 - Xor(j1, sign)) + 65280 * sign ]
  <2>1. BranchOffset(ThmCall(w, d)) = offset
    BY <1>2, <1>7, <1>8 DEF BranchOffset
  <2>2. offset.lo = d.lo
    BY <1>6, <1>10, CallRange DEF imm11
  <2>3. offset.hi = d.hi
    BY <1>3, <1>6, <1>10, CallRange DEF sign, i1, i2
  <2> QED
    BY <2>1, <2>2, <2>3 DEF Word
<1>11. OpcodeOf("THM_CALL", ThmCall(w, d)) = OpcodeOf("THM_CALL", w)
  BY <1>2, <1>7, <1>8 DEF OpcodeOf, first, second
<1> QED
  BY <1>9, <1>10, <1>11

-----------------------------------------------------------------------------
(* The relocations of Relocation *)

\* Targets and displacements are words.
LEMMA TargetWord ==
    ASSUME NEW S \in Word, NEW A \in Word, NEW P \in Word
    PROVE  /\ Target(S, A) \in Word
           /\ Displacement(S, A, P) \in Word
BY PlusWord, MinusWord DEF Target, Displacement

\* PREL31 is the displacement without its highest bit.
LEMMA Prel31 ==
    ASSUME NEW d \in Word
    PROVE  /\ Low31(d) \in Word
           /\ Low31(d).lo = d.lo
           /\ Low31(d).hi \in {d.hi, d.hi - 32768}
           /\ Low31(d).hi < 32768
<1>1. \A h \in Half : h % 32768 \in Half /\ h % 32768 \in {h, h - 32768} /\ h % 32768 < 32768
  BY SMT DEF Half
<1>2. d.hi \in Half /\ d.lo \in Half
  BY DEF Word
<1> QED
  BY <1>1, <1>2 DEF Low31, Word

\* A patched word is a word.
LEMMA PatchedWord ==
    ASSUME NEW type \in Types, NEW w \in Word,
           NEW S \in Word, NEW A \in Word, NEW P \in Word
    PROVE  Patched(type, w, S, A, P) \in Word
<1>1. /\ Target(S, A) \in Word /\ Displacement(S, A, P) \in Word
      /\ Target(S, A).lo \in Half /\ Target(S, A).hi \in Half
  BY TargetWord DEF Word
<1>2. CASE type = "ABS32" \/ type = "TARGET1"
  BY <1>1, <1>2 DEF Patched
<1>3. CASE type = "PREL31"
  BY <1>1, <1>3, Prel31 DEF Patched
<1>4. CASE type = "THM_CALL"
  BY <1>1, <1>4, ThmCallReads DEF Patched
<1>5. CASE type = "THM_MOVW_ABS_NC"
  BY <1>1, <1>5, ThmMovReads DEF Patched
<1>6. CASE type = "THM_MOVT_ABS"
  BY <1>1, <1>6, ThmMovReads DEF Patched
<1> QED
  BY <1>2, <1>3, <1>4, <1>5, <1>6 DEF Types

\* The parts of a relocation are words.
LEMMA RelocationParts ==
    ASSUME NEW r \in Relocations
    PROVE  /\ r.type \in Types /\ r.P \in Sites
           /\ r.S \in Word /\ r.A \in Word /\ r.P \in Word
BY RelocationAssumption DEF Relocations

\* Every word in memory is a word of 32 bits after any sequence of
\* relocations: no carry leaves a half (apply_one_relocation).
THEOREM RelocationTypeCorrect == PatchSpec => []WordsOK
<1>1. InitWords => WordsOK
  BY RelocationAssumption DEF InitWords, WordsOK
<1>2. ASSUME WordsOK, [NextPatch]_patch_vars PROVE WordsOK'
  <2>1. ASSUME NEW r \in Relocations, Apply(r) PROVE WordsOK'
    <3>1. Patched(r.type, words[r.P], r.S, r.A, r.P) \in Word
      BY <1>2, RelocationParts, PatchedWord DEF WordsOK
    <3>2. words' \in [Sites -> Word]
      BY <1>2, <2>1, <3>1, RelocationParts DEF WordsOK, Apply
    <3> QED
      BY <1>2, <2>1, <3>2 DEF WordsOK, Apply
  <2>2. CASE Refuse
    <3>1. patches' \in Nat
      BY <1>2, <2>2 DEF WordsOK, Refuse
    <3>2. words' = words /\ last' = last /\ result' \in BOOLEAN
      BY <2>2, Zenon DEF Refuse
    <3> QED
      BY <1>2, <3>1, <3>2, Zenon DEF WordsOK
  <2>3. CASE UNCHANGED patch_vars
    BY <1>2, <2>3 DEF WordsOK, patch_vars
  <2> QED
    BY <1>2, <2>1, <2>2, <2>3 DEF NextPatch
<1> QED
  BY <1>1, <1>2, PTL DEF PatchSpec

\* What ReachesSymbol says of one relocation and the word it leaves.
LEMMA PatchedReaches ==
    ASSUME NEW r \in Relocations, NEW old \in Word,
           NEW w, w = Patched(r.type, old, r.S, r.A, r.P)
    PROVE  LET t == Target(r.S, r.A)
               d == Displacement(r.S, r.A, r.P)
           IN  /\ r.type \in {"ABS32", "TARGET1"} => w = t
               /\ r.type = "PREL31" =>
                    w.lo = d.lo /\ w.hi \in {d.hi, d.hi - 32768} /\ w.hi < 32768
               /\ r.type = "THM_CALL" /\ InBranchRange(d) =>
                    BranchOffset(w) = d /\ Plus(BranchOffset(w), r.P) = t
               /\ r.type = "THM_MOVW_ABS_NC" => MovImmediate(w) = t.lo
               /\ r.type = "THM_MOVT_ABS" => MovImmediate(w) = t.hi
<1> DEFINE t == Target(r.S, r.A)
           d == Displacement(r.S, r.A, r.P)
<1>1. /\ t \in Word /\ d \in Word /\ t.lo \in Half /\ t.hi \in Half
      /\ Plus(d, r.P) = t
  BY RelocationParts, TargetWord, DisplacementReaches DEF Word
<1> HIDE DEF t, d
<1>2. r.type \in {"ABS32", "TARGET1"} => w = t
  BY DEF Patched, t
<1>3. ASSUME r.type = "PREL31"
      PROVE  w.lo = d.lo /\ w.hi \in {d.hi, d.hi - 32768} /\ w.hi < 32768
  <2>1. w = Low31(d)
    BY <1>3 DEF Patched, d
  <2> QED
    BY <1>1, <2>1, Prel31
<1>4. ASSUME r.type = "THM_CALL", InBranchRange(d)
      PROVE  BranchOffset(w) = d /\ Plus(BranchOffset(w), r.P) = t
  <2>1. w = ThmCall(old, d)
    BY <1>4 DEF Patched, d
  <2> QED
    BY <1>1, <1>4, <2>1, ThmCallReads
<1>5. ASSUME r.type = "THM_MOVW_ABS_NC"
      PROVE  MovImmediate(w) = t.lo
  <2>1. w = ThmMov(old, t.lo)
    BY <1>5 DEF Patched, t
  <2> QED
    BY <1>1, <1>5, <2>1, ThmMovReads
<1>6. ASSUME r.type = "THM_MOVT_ABS"
      PROVE  MovImmediate(w) = t.hi
  <2>1. w = ThmMov(old, t.hi)
    BY <1>6 DEF Patched, t
  <2> QED
    BY <1>1, <1>6, <2>1, ThmMovReads
<1> QED
  BY <1>2, <1>3, <1>4, <1>5, <1>6 DEF t, d

\* The processor gets from the word last patched what its relocation asked
\* for, for every symbol, addend, site and word that stood there
\* (apply_one_relocation).
THEOREM RelocationReaches == PatchSpec => []ReachesSymbol
<1>1. InitWords => ReachesSymbol
  BY DEF InitWords, ReachesSymbol
<1>2. ASSUME WordsOK, ReachesSymbol, [NextPatch]_patch_vars PROVE ReachesSymbol'
  <2>1. ASSUME NEW r \in Relocations, Apply(r) PROVE ReachesSymbol'
    <3>1. words[r.P] \in Word /\ r.P \in Sites
      BY <1>2, RelocationParts DEF WordsOK
    <3>2. /\ last' = r
          /\ words'[r.P] = Patched(r.type, words[r.P], r.S, r.A, r.P)
      BY <1>2, <2>1, <3>1 DEF WordsOK, Apply
    <3>3. words'[last'.P] = Patched(last'.type, words[r.P], last'.S, last'.A, last'.P)
      BY <3>2
    <3>4. last' \in Relocations
      BY <3>2
    <3> QED
      BY <3>1, <3>3, <3>4, PatchedReaches DEF ReachesSymbol
  <2>2. CASE Refuse
    BY <1>2, <2>2 DEF ReachesSymbol, Refuse
  <2>3. CASE UNCHANGED patch_vars
    BY <1>2, <2>3 DEF ReachesSymbol, patch_vars
  <2> QED
    BY <1>2, <2>1, <2>2, <2>3 DEF NextPatch
<1> QED
  BY <1>1, <1>2, RelocationTypeCorrect, PTL DEF PatchSpec

\* No relocation turns a Thumb instruction into another one or changes its
\* register, whatever its fields held, and none touches another word
\* (apply_one_relocation).
THEOREM InstructionsKept == PatchSpec => InstructionsSurvive
<1> DEFINE Survives ==
      \A p \in Sites :
        words'[p] # words[p] =>
          /\ p = last'.P
          /\ last'.type \in {"THM_CALL", "THM_MOVW_ABS_NC", "THM_MOVT_ABS"} =>
               OpcodeOf(last'.type, words'[p]) = OpcodeOf(last'.type, words[p])
<1>1. ASSUME WordsOK, [NextPatch]_patch_vars PROVE [Survives]_patch_vars
  <2>1. ASSUME NEW r \in Relocations, Apply(r) PROVE Survives
    <3> SUFFICES ASSUME NEW p \in Sites, words'[p] # words[p]
                 PROVE  /\ p = last'.P
                        /\ last'.type \in {"THM_CALL", "THM_MOVW_ABS_NC", "THM_MOVT_ABS"} =>
                             OpcodeOf(last'.type, words'[p]) = OpcodeOf(last'.type, words[p])
      OBVIOUS
    <3>1. last' = r /\ p = r.P
      BY <1>1, <2>1 DEF WordsOK, Apply
    <3>2. words[p] \in Word /\ words'[p] = Patched(r.type, words[p], r.S, r.A, r.P)
      BY <1>1, <2>1, <3>1, RelocationParts DEF WordsOK, Apply
    <3>3. /\ Target(r.S, r.A).lo \in Half /\ Target(r.S, r.A).hi \in Half
          /\ Displacement(r.S, r.A, r.P) \in Word
      BY RelocationParts, TargetWord DEF Word
    <3>4. CASE r.type = "THM_CALL"
      BY <3>1, <3>2, <3>3, <3>4, ThmCallReads DEF Patched
    <3>5. CASE r.type = "THM_MOVW_ABS_NC"
      BY <3>1, <3>2, <3>3, <3>5, ThmMovReads DEF Patched
    <3>6. CASE r.type = "THM_MOVT_ABS"
      BY <3>1, <3>2, <3>3, <3>6, ThmMovReads DEF Patched
    <3> QED
      BY <3>1, <3>4, <3>5, <3>6
  <2>2. CASE Refuse
    BY <2>2 DEF Refuse
  <2>3. CASE UNCHANGED patch_vars
    BY <2>3
  <2> QED
    BY <1>1, <2>1, <2>2, <2>3 DEF NextPatch
<1> QED
  BY <1>1, RelocationTypeCorrect, PTL DEF PatchSpec, InstructionsSurvive
=============================================================================
