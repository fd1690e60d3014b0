------------------------- MODULE AddressSpaceProofs -------------------------
(***************************************************************************)
(* The address space, for every size of it, every executable and every     *)
(* sequence of requests: no page is handed out twice, blocks keep a page   *)
(* of clearance, and host and guest see the same memory.                   *)
(***************************************************************************)
EXTENDS AddressSpace, MemoryMapTheorems

-----------------------------------------------------------------------------
(* Types *)

\* What mapping pages in the engine leaves of its map.
LEMMA UcMapType ==
    ASSUME NEW eng \in [Page -> Backing \cup {Unbacked}], NEW m \in Map
    PROVE  UcMap(eng, m) \in [Page -> Backing \cup {Unbacked}]
<1> DEFINE new   == [first |-> m.start, last |-> m.end, protection |-> m.protection]
           range == UcRange(m.start, m.end)
<1>1. new \in Backing
  BY DEF Map, Backing
<1>2. CASE \E p \in range \cap Page : eng[p] # Unbacked
  BY <1>2 DEF UcMap
<1>3. CASE ~ \E p \in range \cap Page : eng[p] # Unbacked
  <2>1. UcMap(eng, m) = [p \in Page |-> IF p \in range THEN new ELSE eng[p]]
    BY <1>3 DEF UcMap
  <2> HIDE DEF new, range
  <2> QED
    BY <1>1, <2>1
<1> QED
  BY <1>2, <1>3

\* What protecting pages in the engine leaves of its map.
LEMMA UcProtectType ==
    ASSUME NEW eng \in [Page -> Backing \cup {Unbacked}],
           NEW first \in Page, NEW last \in Page, NEW a \in SUBSET Access
    PROVE  UcProtect(eng, first, last, a) \in [Page -> Backing \cup {Unbacked}]
<1> DEFINE range  == UcRange(first, last)
           New(p) == [eng[p] EXCEPT !.protection = a]
<1>1. CASE \E p \in range \cap Page : eng[p] = Unbacked
  BY <1>1 DEF UcProtect
<1>2. CASE ~ \E p \in range \cap Page : eng[p] = Unbacked
  <2>1. ASSUME NEW p \in Page, p \in range
        PROVE  New(p) \in Backing
    <3>1. eng[p] \in Backing
      BY <1>2, <2>1
    <3> QED
      BY <3>1 DEF Backing
  <2>2. UcProtect(eng, first, last, a)
          = [p \in Page |-> IF p \in range THEN New(p) ELSE eng[p]]
    BY <1>2 DEF UcProtect
  <2> HIDE DEF New, range
  <2> QED
    BY <2>1, <2>2
<1> QED
  BY <1>1, <1>2

\* Changing protections changes nothing else of the list.
LEMMA ChangeProtectionProperties ==
    ASSUME NEW list \in Seq(Map), NEW p \in Page, NEW q \in Page,
           NEW a \in SUBSET Access
    PROVE  /\ ChangeProtection(list, p, q, a) \in Seq(Map)
           /\ Len(ChangeProtection(list, p, q, a)) = Len(list)
           /\ \A i \in 1 .. Len(list) :
                /\ ChangeProtection(list, p, q, a)[i].start = list[i].start
                /\ ChangeProtection(list, p, q, a)[i].end = list[i].end
                /\ ChangeProtection(list, p, q, a)[i].kind = list[i].kind
<1> DEFINE New(i) == IF Covers(list[i], p) /\ Covers(list[i], q)
                     THEN [list[i] EXCEPT !.protection = a]
                     ELSE list[i]
<1>1. ASSUME NEW i \in 1 .. Len(list)
      PROVE  /\ New(i) \in Map /\ New(i).start = list[i].start
             /\ New(i).end = list[i].end /\ New(i).kind = list[i].kind
  <2>1. list[i] \in Map
    BY ElementOfSeq
  <2> QED
    BY <2>1 DEF Map
<1>2. ChangeProtection(list, p, q, a) = [i \in 1 .. Len(list) |-> New(i)]
  BY DEF ChangeProtection
<1> HIDE DEF New
<1>3. [i \in 1 .. Len(list) |-> New(i)] \in Seq(Map)
  BY <1>1, LenProperties, IsASeq
<1>4. Len([i \in 1 .. Len(list) |-> New(i)]) = Len(list)
  BY LenProperties
<1> QED
  BY <1>1, <1>2, <1>3, <1>4

\* The state keeps its type.
THEOREM TypeCorrect == Spec => []TypeOK
<1>1. Init => TypeOK
  <2> SUFFICES ASSUME Init
               PROVE  TypeOK
    OBVIOUS
  <2>1. maps \in Seq(Map)
    BY EmptySeq DEF Init
  <2> QED
    BY <2>1 DEF Init, TypeOK
<1>2. TypeOK /\ [Next]_vars => TypeOK'
  <2> SUFFICES ASSUME TypeOK, [Next]_vars
               PROVE  TypeOK'
    OBVIOUS
  <2> USE DEF TypeOK
  <2>1. CASE LoadSegment
    <3>1. segments \in Seq(Map) /\ cursor + 1 \in 1 .. Len(segments)
      BY <2>1, LayoutsAssumption, LenProperties DEF LoadSegment
    <3>2. segments[cursor + 1] \in Map
      BY <3>1, ElementOfSeq
    <3>3. maps' \in Seq(Map)
      BY <2>1, <3>2, MapMemoryProperties DEF LoadSegment
    <3> QED
      BY <2>1, <3>3 DEF LoadSegment
  <2>2. CASE RelocationFails
    <3>1. maps' \in Seq(Map)
      BY <2>2, EmptySeq DEF RelocationFails
    <3> QED
      BY <2>2, <3>1 DEF RelocationFails
  <2>3. CASE LoadFails
    BY <2>3 DEF LoadFails
  <2>4. CASE OpenEngine
    BY <2>4 DEF OpenEngine
  <2>5. CASE ReplayMap
    <3>1. cursor + 1 \in 1 .. Len(maps)
      BY <2>5, LenProperties DEF ReplayMap
    <3>2. maps[cursor + 1] \in Map
      BY <3>1, ElementOfSeq
    <3>3. engine' \in [Page -> Backing \cup {Unbacked}]
      BY <2>5, <3>2, UcMapType DEF ReplayMap
    <3> QED
      BY <2>5, <3>3 DEF ReplayMap
  <2>6. CASE InstallBootCode
    <3> DEFINE n     == MemorySize(0)
               first == MoreMemory(maps, n)
               block == Block("heap", first, n)
    <3>1. n \in Nat
      BY Wrap DEF MemorySize, Page
    <3>2. CASE first = NoAddress
      BY <2>6, <3>2 DEF InstallBootCode
    <3>3. CASE first # NoAddress
      <4>1. first \in Page
        BY <3>1, <3>3, MoreMemoryType
      <4>2. block \in Map /\ Access \in SUBSET Access
        BY <3>1, <4>1, BlockType DEF Kind
      <4> HIDE DEF n, first, block
      <4>3. PICK list \in MapMemory(maps, block) :
              maps' = ChangeProtection(list, first, first, Access)
        BY <2>6, <3>3 DEF InstallBootCode, n, first, block
      <4>4. maps' \in Seq(Map)
        BY <4>1, <4>2, <4>3, MapMemoryProperties, ChangeProtectionProperties
      <4>5. engine' = UcProtect(UcMap(engine, block), first, first, Access)
        BY <2>6, <3>3 DEF InstallBootCode, n, first, block
      <4>6. engine' \in [Page -> Backing \cup {Unbacked}]
        BY <4>1, <4>2, <4>5, UcMapType, UcProtectType
      <4>7. phase' = "running" /\ UNCHANGED <<segments, cursor>>
        BY <2>6, <3>3 DEF InstallBootCode, n, first, block
      <4> QED
        BY <4>4, <4>6, <4>7
    <3> QED
      BY <3>2, <3>3
  <2>7. ASSUME NEW kind \in {"heap", "stack"}, NEW k \in Requests,
               Allocate(kind, k)
        PROVE  TypeOK'
    <3> DEFINE n     == MemorySize(k)
               first == MoreMemory(maps, n)
               block == Block(kind, first, n)
    <3>1. n \in Nat
      BY Wrap, RequestsAssumption DEF MemorySize, Page
    <3>2. CASE first = NoAddress
      BY <2>7, <3>2 DEF Allocate
    <3>3. CASE first # NoAddress
      <4>1. first \in Page
        BY <3>1, <3>3, MoreMemoryType
      <4>2. block \in Map
        BY <3>1, <4>1, BlockType DEF Kind
      <4> HIDE DEF n, first, block
      <4>3. MapBoth(block) /\ UNCHANGED <<phase, segments, cursor>>
        BY <2>7, <3>3 DEF Allocate, n, first, block
      <4>4. maps' \in Seq(Map)
        BY <4>2, <4>3, MapMemoryProperties DEF MapBoth
      <4>5. engine' \in [Page -> Backing \cup {Unbacked}]
        BY <4>2, <4>3, UcMapType DEF MapBoth
      <4> QED
        BY <4>3, <4>4, <4>5
    <3> QED
      BY <3>2, <3>3
  <2>8. CASE UNCHANGED vars
    BY <2>8 DEF vars
  <2> QED
    BY <2>1, <2>2, <2>3, <2>4, <2>5, <2>6, <2>7, <2>8
    DEF Next, AllocateHeap, AllocateStack
<1> QED
  BY <1>1, <1>2, PTL DEF Spec

-----------------------------------------------------------------------------
(* No page is handed out twice *)

\* Soundness of a list depends on the bounds of its maps only.
LEMMA SoundnessOfBounds ==
    ASSUME NEW list, NEW new, Len(new) = Len(list),
           \A i \in 1 .. Len(list) :
             new[i].start = list[i].start /\ new[i].end = list[i].end
    PROVE  /\ SortedByEnd(list) => SortedByEnd(new)
           /\ (WellPlaced(list) => Disjoint(list))
                => (WellPlaced(new) => Disjoint(new))
BY DEF SortedByEnd, WellPlaced, Disjoint

\* While requests are modest the list is sorted, disjoint as long as it is
\* well placed, and holds only segments until the engine opens.
LEMMA SoundListInductive ==
    ASSUME ModestRequests, TypeOK, SoundList, [Next]_vars
    PROVE  SoundList'
<1> USE DEF TypeOK
<1>1. /\ maps \in Seq(Map) /\ SortedByEnd(maps)
      /\ WellPlaced(maps) => Disjoint(maps)
  BY DEF SoundList, NoOverlap
<1>2. CASE LoadSegment
  <2> DEFINE m == segments[cursor + 1]
  <2>1. /\ segments \in Seq(Map) /\ cursor + 1 \in 1 .. Len(segments)
        /\ Disjoint(segments) /\ WellPlaced(segments)
    BY <1>2, LayoutsAssumption, LenProperties DEF LoadSegment
  <2>2. m \in Map /\ m.start <= m.end /\ m.end < Pages - 1
    BY <2>1, ElementOfSeq DEF WellPlaced
  <2>3. \A i \in 1 .. Len(maps) : \E c \in 1 .. cursor : maps[i] = segments[c]
    BY <1>2 DEF SoundList, OnlyVisitedSegments, LoadSegment
  <2>4. ASSUME NEW i \in 1 .. Len(maps)
        PROVE  /\ maps[i].start <= maps[i].end /\ maps[i].end < Pages - 1
               /\ maps[i].end < m.start \/ m.end < maps[i].start
    <3>1. PICK c \in 1 .. cursor : maps[i] = segments[c]
      BY <2>3
    <3>2. c \in 1 .. Len(segments) /\ c # cursor + 1
      BY <2>1, LenProperties
    <3> QED
      BY <2>1, <3>1, <3>2 DEF Disjoint, WellPlaced
  <2>5. Disjoint(maps)
    BY <1>1, <2>4 DEF WellPlaced
  <2>6. maps' \in MapMemory(maps, m)
    BY <1>2 DEF LoadSegment
  <2> HIDE DEF m
  <2>7. SortedByEnd(maps') /\ Disjoint(maps')
    BY <1>1, <2>2, <2>4, <2>5, <2>6, MapMemorySorted, MapMemoryDisjoint
  <2>8. ASSUME NEW j \in 1 .. Len(maps')
        PROVE  \E c \in 1 .. cursor' : maps'[j] = segments'[c]
    <3>1. cursor' = cursor + 1 /\ segments' = segments
      BY <1>2 DEF LoadSegment
    <3>2. maps'[j] = m \/ \E i \in 1 .. Len(maps) : maps'[j] = maps[i]
      BY <1>1, <2>2, <2>6, MapMemoryElements
    <3>3. CASE maps'[j] = m
      BY <3>1, <3>3 DEF m
    <3>4. CASE \E i \in 1 .. Len(maps) : maps'[j] = maps[i]
      BY <2>3, <3>1, <3>4
    <3> QED
      BY <3>2, <3>3, <3>4
  <2> QED
    BY <2>7, <2>8 DEF SoundList, NoOverlap, OnlyVisitedSegments
<1>3. CASE RelocationFails
  <2>1. maps' = <<>> /\ phase' = "failed"
    BY <1>3 DEF RelocationFails
  <2> QED
    BY <2>1
    DEF SoundList, NoOverlap, OnlyVisitedSegments, SortedByEnd, Disjoint
<1>4. CASE UNCHANGED maps /\ phase' # "loading"
  BY <1>1, <1>4 DEF SoundList, NoOverlap, OnlyVisitedSegments
<1>5. CASE InstallBootCode
  <2> DEFINE n     == MemorySize(0)
             first == MoreMemory(maps, n)
             block == Block("heap", first, n)
  <2>1. n \in Nat /\ n <= Pages \div 2 - 2
    BY PagesAssumption DEF MemorySize
  <2>2. CASE first = NoAddress
    BY <1>4, <1>5, <2>2 DEF InstallBootCode
  <2>3. CASE first # NoAddress
    <3>1. first \in Page /\ Access \in SUBSET Access
      BY <2>1, <2>3, MoreMemoryType
    <3>2. phase' = "running"
      BY <1>5, <2>3 DEF InstallBootCode
    <3>3. PICK list \in MapMemory(maps, block) :
            maps' = ChangeProtection(list, first, first, Access)
      BY <1>5, <2>3 DEF InstallBootCode
    <3>4. /\ list \in Seq(Map) /\ SortedByEnd(list)
          /\ WellPlaced(list) => Disjoint(list)
      BY <1>1, <2>1, <2>3, <3>3, MapBlockSound DEF Kind
    <3> HIDE DEF first
    <3>5. SortedByEnd(maps') /\ (WellPlaced(maps') => Disjoint(maps'))
      BY <3>1, <3>3, <3>4, ChangeProtectionProperties, SoundnessOfBounds
    <3> QED
      BY <3>2, <3>5 DEF SoundList, NoOverlap, OnlyVisitedSegments
  <2> QED
    BY <2>2, <2>3
<1>6. ASSUME NEW kind \in {"heap", "stack"}, NEW k \in Requests, Allocate(kind, k)
      PROVE  SoundList'
  <2> DEFINE n     == MemorySize(k)
             first == MoreMemory(maps, n)
  <2>1. n \in Nat /\ n <= Pages \div 2 - 2
    BY Wrap, RequestsAssumption DEF ModestRequests, MemorySize, Page
  <2>2. phase' = "running"
    BY <1>6 DEF Allocate
  <2>3. CASE first = NoAddress
    BY <1>4, <1>6, <2>2, <2>3 DEF Allocate
  <2>4. CASE first # NoAddress
    <3>1. maps' \in MapMemory(maps, Block(kind, first, n))
      BY <1>6, <2>4 DEF Allocate, MapBoth
    <3>2. SortedByEnd(maps') /\ (WellPlaced(maps') => Disjoint(maps'))
      BY <1>1, <2>1, <2>4, <3>1, MapBlockSound DEF Kind
    <3> QED
      BY <2>2, <3>2 DEF SoundList, NoOverlap, OnlyVisitedSegments
  <2> QED
    BY <2>3, <2>4
<1>7. CASE UNCHANGED vars
  BY <1>7
  DEF vars, SoundList, NoOverlap, OnlyVisitedSegments
<1> QED
  BY <1>2, <1>3, <1>4, <1>5, <1>6, <1>7
  DEF Next, AllocateHeap, AllocateStack, LoadFails, OpenEngine, ReplayMap

\* While requests stay modest, the list stays in the order that more_memory's
\* scan depends on, and disjoint unless a block has run over the end.
THEOREM SoundListAlways == ModestRequests => (Spec => []SoundList)
<1> SUFFICES ASSUME ModestRequests
             PROVE  Spec => []SoundList
  OBVIOUS
<1>1. Init => SoundList
  BY DEF Init, SoundList, NoOverlap, OnlyVisitedSegments, SortedByEnd, Disjoint
<1>2. TypeOK /\ SoundList /\ [Next]_vars => SoundList'
  BY SoundListInductive
<1> QED
  BY <1>1, <1>2, TypeCorrect, PTL DEF Spec

\* While requests stay modest, no two maps ever share a page unless a block
\* has run over the end of the space, whatever the executable and the order
\* and sizes of the requests.
THEOREM NoOverlapAlways == ModestRequests => (Spec => []NoOverlap)
<1> SUFFICES ASSUME ModestRequests
             PROVE  Spec => []NoOverlap
  OBVIOUS
<1>1. SoundList => NoOverlap
  BY DEF SoundList
<1> QED
  BY <1>1, SoundListAlways, PTL

-----------------------------------------------------------------------------
(* No block touches another *)

\* BlocksGuarded with what makes it inductive: no two maps of a list touch,
\* segments included, when those of the executable do not.
MapsGuarded == SegmentsApart /\ WellPlaced(maps) => AllApart(maps)

\* Whether maps are apart depends on their bounds only.
LEMMA ApartnessOfBounds ==
    ASSUME NEW list, NEW new, Len(new) = Len(list),
           \A i \in 1 .. Len(list) :
             new[i].start = list[i].start /\ new[i].end = list[i].end
    PROVE  /\ WellPlaced(new) => WellPlaced(list)
           /\ AllApart(list) => AllApart(new)
BY DEF WellPlaced, AllApart, Apart

\* While requests are modest every step keeps the maps apart: a segment is
\* apart from those already loaded, a block from everything in the list.
LEMMA MapsGuardedInductive ==
    ASSUME ModestRequests, TypeOK, SoundList, MapsGuarded, [Next]_vars
    PROVE  MapsGuarded'
<1> USE DEF TypeOK
<1>1. maps \in Seq(Map) /\ SortedByEnd(maps)
  BY DEF SoundList
<1>2. CASE LoadSegment
  <2> DEFINE m == segments[cursor + 1]
  <2> SUFFICES ASSUME SegmentsApart', WellPlaced(maps')
               PROVE  AllApart(maps')
    BY DEF MapsGuarded
  <2>1. SegmentsApart /\ maps' \in MapMemory(maps, m)
    BY <1>2 DEF LoadSegment, SegmentsApart, Apart
  <2>2. /\ segments \in Seq(Map) /\ cursor + 1 \in 1 .. Len(segments)
        /\ \A i \in 1 .. Len(maps) : \E c \in 1 .. cursor : maps[i] = segments[c]
    BY <1>2, LayoutsAssumption, LenProperties
    DEF LoadSegment, SoundList, OnlyVisitedSegments
  <2>3. m \in Map
    BY <2>2, ElementOfSeq
  <2>4. ASSUME NEW i \in 1 .. Len(maps)
        PROVE  maps[i].end + 1 < m.start \/ m.end + 1 < maps[i].start
    <3>1. PICK c \in 1 .. cursor : maps[i] = segments[c]
      BY <2>2
    <3>2. c \in 1 .. Len(segments) /\ c # cursor + 1
      BY <2>2, LenProperties
    <3> QED
      BY <2>1, <2>2, <3>1, <3>2 DEF SegmentsApart, Apart
  <2> HIDE DEF m
  <2>5. WellPlaced(maps)
    BY <1>1, <2>1, <2>3, MapMemoryProperties, WellPlacedBefore
  <2>6. AllApart(maps)
    BY <2>1, <2>5 DEF MapsGuarded
  <2> QED
    BY <1>1, <2>1, <2>3, <2>4, <2>6, MapMemoryApart
<1>3. CASE RelocationFails
  <2>1. maps' = <<>>
    BY <1>3 DEF RelocationFails
  <2> QED
    BY <2>1 DEF MapsGuarded, AllApart
<1>4. CASE UNCHANGED <<segments, maps>>
  BY <1>4 DEF MapsGuarded, SegmentsApart, Apart
<1>5. CASE InstallBootCode
  <2> DEFINE n     == MemorySize(0)
             first == MoreMemory(maps, n)
             block == Block("heap", first, n)
  <2>1. n \in Nat /\ n <= Pages \div 2 - 2
    BY PagesAssumption DEF MemorySize
  <2>2. CASE first = NoAddress
    BY <1>4, <1>5, <2>2 DEF InstallBootCode
  <2>3. CASE first # NoAddress
    <3> SUFFICES ASSUME SegmentsApart', WellPlaced(maps')
                 PROVE  AllApart(maps')
      BY DEF MapsGuarded
    <3>1. first \in Page /\ Access \in SUBSET Access
      BY <2>1, <2>3, MoreMemoryType
    <3>2. SegmentsApart
      BY <1>5 DEF InstallBootCode, SegmentsApart, Apart
    <3>3. PICK list \in MapMemory(maps, block) :
            maps' = ChangeProtection(list, first, first, Access)
      BY <1>5, <2>3 DEF InstallBootCode
    <3>4. list \in Seq(Map) /\ (WellPlaced(list) => AllApart(list))
      <4>1. list \in Seq(Map)
        BY <2>1, <3>1, <3>3, BlockType, MapMemoryProperties DEF Kind
      <4>2. WellPlaced(maps) => AllApart(maps)
        BY <3>2 DEF MapsGuarded
      <4> QED
        BY <1>1, <2>1, <2>3, <3>3, <4>1, <4>2, MapBlockApart DEF Kind
    <3> HIDE DEF first
    <3> QED
      BY <3>1, <3>3, <3>4, ChangeProtectionProperties, ApartnessOfBounds
  <2> QED
    BY <2>2, <2>3
<1>6. ASSUME NEW kind \in {"heap", "stack"}, NEW k \in Requests, Allocate(kind, k)
      PROVE  MapsGuarded'
  <2> DEFINE n     == MemorySize(k)
             first == MoreMemory(maps, n)
  <2>1. n \in Nat /\ n <= Pages \div 2 - 2
    BY Wrap, RequestsAssumption DEF ModestRequests, MemorySize, Page
  <2>2. CASE first = NoAddress
    BY <1>4, <1>6, <2>2 DEF Allocate
  <2>3. CASE first # NoAddress
    <3> SUFFICES ASSUME SegmentsApart', WellPlaced(maps')
                 PROVE  AllApart(maps')
      BY DEF MapsGuarded
    <3>1. maps' \in MapMemory(maps, Block(kind, first, n))
      BY <1>6, <2>3 DEF Allocate, MapBoth
    <3>2. WellPlaced(maps) => AllApart(maps)
      BY <1>6 DEF MapsGuarded, Allocate, SegmentsApart, Apart
    <3> QED
      BY <1>1, <2>1, <2>3, <3>1, <3>2, MapBlockApart DEF Kind
  <2> QED
    BY <2>2, <2>3
<1>7. CASE UNCHANGED vars
  BY <1>4, <1>7 DEF vars
<1> QED
  BY <1>2, <1>3, <1>4, <1>5, <1>6, <1>7
  DEF Next, AllocateHeap, AllocateStack, LoadFails, OpenEngine, ReplayMap

\* While requests stay modest, every stack and heap block keeps an unmapped
\* page on either side of it, whatever the order and sizes of the requests,
\* unless the executable's own segments touch or a block has run over the end.
THEOREM BlocksGuardedAlways == ModestRequests => (Spec => []BlocksGuarded)
<1> SUFFICES ASSUME ModestRequests
             PROVE  Spec => []BlocksGuarded
  OBVIOUS
<1>1. Init => MapsGuarded
  BY DEF Init, MapsGuarded, AllApart
<1>2. TypeOK /\ SoundList /\ MapsGuarded /\ [Next]_vars => MapsGuarded'
  BY MapsGuardedInductive
<1>3. MapsGuarded => BlocksGuarded
  BY DEF MapsGuarded, BlocksGuarded, AllApart
<1> QED
  BY <1>1, <1>2, <1>3, TypeCorrect, SoundListAlways, PTL DEF Spec

-----------------------------------------------------------------------------
(* The engine backs what the list holds *)

\* What the engine should back a page of the map with.
BackingOf(m) == [first |-> m.start, last |-> m.end, protection |-> m.protection]

\* The engine backs the pages of the first n maps of the list, as they are
\* listed, and no other page.
Backed(eng, list, n) ==
    \A p \in Page :
        /\ \A i \in 1 .. n : Covers(list[i], p) => eng[p] = BackingOf(list[i])
        /\ (\A i \in 1 .. n : ~ Covers(list[i], p)) => eng[p] = Unbacked

\* HostAndGuestAgree with what makes it inductive: the engine is empty until it
\* opens, backs what the loop of main has replayed while it opens, and then
\* the whole list, for as long as no block has run over the end of the space.
EngineFollows ==
    /\ phase = "loading" => engine = [p \in Page |-> Unbacked]
    /\ phase = "opening" =>
         /\ cursor <= Len(maps)
         /\ WellPlaced(maps) => Backed(engine, maps, cursor)
    /\ phase = "running" /\ WellPlaced(maps) => Backed(engine, maps, Len(maps))

\* Every page of a map that does not run over the end is in the range that
\* uc_mem_map_ptr is given, and no other page.
LEMMA UcRangeProperties ==
    ASSUME NEW first \in Page, NEW last \in Page, first <= last, last < Pages - 1
    PROVE  UcRange(first, last) = first .. last
<1>1. last - first + 1 \in Page /\ first \in Nat /\ last \in Nat
  BY PagesAssumption DEF Page
<1>2. Size(first, last) = last - first + 1
  BY <1>1, Wrap DEF Size
<1>3. first + Size(first, last) - 1 = last
  BY <1>1, <1>2
<1> QED
  BY <1>3 DEF UcRange

\* Mapping unbacked pages backs the pages of the map and changes no other.
LEMMA UcMapProperties ==
    ASSUME NEW eng, NEW m \in Map, m.start <= m.end, m.end < Pages - 1,
           \A p \in Page : Covers(m, p) => eng[p] = Unbacked
    PROVE  \A p \in Page :
             UcMap(eng, m)[p] = IF Covers(m, p) THEN BackingOf(m) ELSE eng[p]
<1> DEFINE range == UcRange(m.start, m.end)
<1>1. m.start \in Page /\ m.end \in Page
  BY DEF Map
<1>2. range = m.start .. m.end
  BY <1>1, UcRangeProperties
<1>3. \A p \in Page : p \in range <=> Covers(m, p)
  BY <1>1, <1>2 DEF Covers, Page
<1> HIDE DEF range
<1>4. ~ \E p \in range \cap Page : eng[p] # Unbacked
  BY <1>3
<1>5. UcMap(eng, m) = [p \in Page |-> IF p \in range THEN BackingOf(m) ELSE eng[p]]
  BY <1>4 DEF UcMap, BackingOf, range
<1> QED
  BY <1>3, <1>5

\* Protecting one page that is backed changes its access and no other page.
LEMMA UcProtectProperties ==
    ASSUME NEW eng, NEW first \in Page, first < Pages - 1,
           NEW a, eng[first] # Unbacked
    PROVE  \A p \in Page :
             UcProtect(eng, first, first, a)[p]
               = IF p = first THEN [eng[p] EXCEPT !.protection = a] ELSE eng[p]
<1> DEFINE range == UcRange(first, first)
<1>1. first \in Int
  BY DEF Page
<1>2. range = first .. first
  BY <1>1, UcRangeProperties
<1>3. \A p \in Page : p \in range <=> p = first
  BY <1>1, <1>2 DEF Page
<1> HIDE DEF range
<1>4. ~ \E p \in range \cap Page : eng[p] = Unbacked
  BY <1>3
<1>5. UcProtect(eng, first, first, a)
        = [p \in Page |-> IF p \in range
                          THEN [eng[p] EXCEPT !.protection = a] ELSE eng[p]]
  BY <1>4 DEF UcProtect, range
<1> QED
  BY <1>3, <1>5

\* Backed pages are never unbacked.
LEMMA BackingOfMap ==
    ASSUME NEW m \in Map
    PROVE  BackingOf(m) # Unbacked
<1>1. m.end \in Page /\ BackingOf(m).last = m.end /\ Unbacked.last = Pages
  BY DEF Map, BackingOf, Unbacked
<1> QED
  BY <1>1, PagesAssumption DEF Page

\* A map disjoint from the others of a sound list is replayed in full.
LEMMA ReplayBacks ==
    ASSUME NEW list \in Seq(Map), Disjoint(list), WellPlaced(list),
           NEW n \in Nat, n + 1 <= Len(list),
           NEW eng, Backed(eng, list, n)
    PROVE  Backed(UcMap(eng, list[n + 1]), list, n + 1)
<1> DEFINE m == list[n + 1]
<1>1. n + 1 \in 1 .. Len(list) /\ \A i \in 1 .. n : i \in 1 .. Len(list) /\ i # n + 1
  BY LenProperties
<1>2. /\ m \in Map /\ m.start \in Nat /\ m.end \in Nat
      /\ m.start <= m.end /\ m.end < Pages - 1
  BY <1>1, MapBounds DEF WellPlaced, Page
<1>3. ASSUME NEW i \in 1 .. n
      PROVE  /\ list[i].end < m.start \/ m.end < list[i].start
             /\ list[i].start \in Nat /\ list[i].end \in Nat
  BY <1>1, MapBounds DEF Disjoint, Page
<1>4. \A p \in Page : Covers(m, p) => \A i \in 1 .. n : ~ Covers(list[i], p)
  BY <1>2, <1>3, SMTT(30) DEF Covers, Page
<1> HIDE DEF m
<1>5. \A p \in Page :
        UcMap(eng, m)[p] = IF Covers(m, p) THEN BackingOf(m) ELSE eng[p]
  <2>1. \A p \in Page : Covers(m, p) => eng[p] = Unbacked
    BY <1>4 DEF Backed
  <2> QED
    BY <1>2, <2>1, UcMapProperties
<1>6. ASSUME NEW p \in Page
      PROVE  /\ \A i \in 1 .. n + 1 :
                  Covers(list[i], p) => UcMap(eng, m)[p] = BackingOf(list[i])
             /\ (\A i \in 1 .. n + 1 : ~ Covers(list[i], p))
                  => UcMap(eng, m)[p] = Unbacked
  <2>1. \A i \in 1 .. n + 1 : i \in 1 .. n \/ list[i] = m
    BY DEF m
  <2>2. n + 1 \in 1 .. n + 1 /\ list[n + 1] = m /\ \A i \in 1 .. n : i \in 1 .. n + 1
    BY DEF m
  <2>3. UcMap(eng, m)[p] = IF Covers(m, p) THEN BackingOf(m) ELSE eng[p]
    BY <1>5
  <2>4. /\ \A i \in 1 .. n : Covers(list[i], p) => eng[p] = BackingOf(list[i])
        /\ (\A i \in 1 .. n : ~ Covers(list[i], p)) => eng[p] = Unbacked
    BY DEF Backed
  <2> QED
    BY <1>4, <2>1, <2>2, <2>3, <2>4, Zenon
<1> QED
  BY <1>6 DEF Backed, m

\* Mapping a disjoint map in both worlds keeps the engine to the list.
LEMMA MapBothBacks ==
    ASSUME NEW list \in Seq(Map), NEW m \in Map, NEW new \in MapMemory(list, m),
           Disjoint(new), WellPlaced(new),
           \A i \in 1 .. Len(list) : list[i].end < m.start \/ m.end < list[i].start,
           NEW eng, Backed(eng, list, Len(list))
    PROVE  Backed(UcMap(eng, m), new, Len(new))
<1>1. /\ m.start \in Nat /\ m.end \in Nat
      /\ m.start <= m.end /\ m.end < Pages - 1
  <2>1. new \in Seq(Map)
    BY MapMemoryProperties
  <2>2. m.start <= m.end /\ m.end < Pages - 1
    BY <2>1, WellPlacedBefore
  <2> QED
    BY <2>2 DEF Map, Page
<1>2. \A i \in 1 .. Len(list) :
        /\ list[i].end < m.start \/ m.end < list[i].start
        /\ list[i].start \in Nat /\ list[i].end \in Nat
  BY MapBounds DEF Page
<1>3. \A p \in Page : Covers(m, p) => \A i \in 1 .. Len(list) : ~ Covers(list[i], p)
  BY <1>1, <1>2 DEF Covers, Page
<1>4. \A p \in Page :
        UcMap(eng, m)[p] = IF Covers(m, p) THEN BackingOf(m) ELSE eng[p]
  <2>1. \A p \in Page : Covers(m, p) => eng[p] = Unbacked
    BY <1>3 DEF Backed
  <2> QED
    BY <1>1, <2>1, UcMapProperties
<1>5. /\ \A i \in 1 .. Len(list) : \E j \in 1 .. Len(new) : new[j] = list[i]
      /\ \E j \in 1 .. Len(new) : new[j] = m
      /\ \A j \in 1 .. Len(new) :
           new[j] = m \/ \E i \in 1 .. Len(list) : new[j] = list[i]
  BY MapMemoryElements
<1>6. ASSUME NEW p \in Page
      PROVE  /\ \A j \in 1 .. Len(new) :
                  Covers(new[j], p) => UcMap(eng, m)[p] = BackingOf(new[j])
             /\ (\A j \in 1 .. Len(new) : ~ Covers(new[j], p))
                  => UcMap(eng, m)[p] = Unbacked
  <2>1. UcMap(eng, m)[p] = IF Covers(m, p) THEN BackingOf(m) ELSE eng[p]
    BY <1>4
  <2>2. /\ \A i \in 1 .. Len(list) : Covers(list[i], p) => eng[p] = BackingOf(list[i])
        /\ (\A i \in 1 .. Len(list) : ~ Covers(list[i], p)) => eng[p] = Unbacked
    BY DEF Backed
  <2>3. ASSUME NEW j \in 1 .. Len(new), Covers(new[j], p)
        PROVE  UcMap(eng, m)[p] = BackingOf(new[j])
    <3>1. CASE new[j] = m
      BY <2>1, <2>3, <3>1
    <3>2. CASE \E i \in 1 .. Len(list) : new[j] = list[i]
      <4>1. PICK i \in 1 .. Len(list) : new[j] = list[i]
        BY <3>2
      <4>2. Covers(list[i], p) /\ ~ Covers(m, p)
        BY <1>3, <2>3, <4>1
      <4> QED
        BY <2>1, <2>2, <4>1, <4>2
    <3> QED
      BY <1>5, <3>1, <3>2
  <2>4. ASSUME \A j \in 1 .. Len(new) : ~ Covers(new[j], p)
        PROVE  UcMap(eng, m)[p] = Unbacked
    <3>1. ~ Covers(m, p) /\ \A i \in 1 .. Len(list) : ~ Covers(list[i], p)
      BY <1>5, <2>4
    <3> QED
      BY <2>1, <2>2, <3>1
  <2> QED
    BY <2>3, <2>4
<1> QED
  BY <1>6 DEF Backed

\* Protecting the one page of a map in both worlds keeps the engine to the list.
LEMMA ProtectBothBacks ==
    ASSUME NEW list \in Seq(Map), Disjoint(list), WellPlaced(list),
           NEW first \in Page, NEW a \in SUBSET Access,
           NEW k \in 1 .. Len(list), list[k].start = first, list[k].end = first,
           NEW eng, Backed(eng, list, Len(list))
    PROVE  Backed(UcProtect(eng, first, first, a),
                  ChangeProtection(list, first, first, a), Len(list))
<1> DEFINE new == ChangeProtection(list, first, first, a)
           prot == UcProtect(eng, first, first, a)
<1>1. \A i \in 1 .. Len(list) :
        /\ list[i] \in Map /\ list[i].start \in Nat /\ list[i].end \in Nat
        /\ list[i].start <= list[i].end /\ list[i].end < Pages - 1
  BY MapBounds DEF WellPlaced, Page
<1>2. first \in Nat /\ first < Pages - 1 /\ Covers(list[k], first)
  BY <1>1 DEF Covers
<1>3. ASSUME NEW i \in 1 .. Len(list), Covers(list[i], first)
      PROVE  i = k
  BY <1>1, <1>2, <1>3 DEF Covers, Disjoint
<1>4. eng[first] = BackingOf(list[k]) /\ eng[first] # Unbacked
  BY <1>1, <1>2, BackingOfMap DEF Backed
<1>5. \A p \in Page :
        prot[p] = IF p = first THEN [eng[p] EXCEPT !.protection = a] ELSE eng[p]
  BY <1>2, <1>4, UcProtectProperties
<1>6. ASSUME NEW i \in 1 .. Len(list)
      PROVE  new[i] = IF i = k THEN [list[i] EXCEPT !.protection = a] ELSE list[i]
  BY <1>2, <1>3 DEF ChangeProtection
<1>7. new[k] = [list[k] EXCEPT !.protection = a]
  BY <1>6
<1>8. prot[first] = BackingOf(new[k])
  <2>1. prot[first] = [BackingOf(list[k]) EXCEPT !.protection = a]
    BY <1>4, <1>5
  <2>2. /\ new[k].start = list[k].start /\ new[k].end = list[k].end
        /\ new[k].protection = a
    BY <1>1, <1>7 DEF Map
  <2> HIDE DEF new, prot
  <2> QED
    BY <2>1, <2>2 DEF BackingOf
<1>9. /\ \A p \in Page : Covers(new[k], p) <=> p = first
      /\ \A i \in 1 .. Len(list) : \A p \in Page : Covers(new[i], p) <=> Covers(list[i], p)
  <2>1. \A i \in 1 .. Len(list) :
          new[i].start = list[i].start /\ new[i].end = list[i].end
    BY ChangeProtectionProperties
  <2> HIDE DEF new
  <2> QED
    BY <1>1, <2>1 DEF Covers, Page
<1> HIDE DEF new, prot
<1>10. ASSUME NEW p \in Page
       PROVE  /\ \A i \in 1 .. Len(list) :
                   Covers(new[i], p) => prot[p] = BackingOf(new[i])
              /\ (\A i \in 1 .. Len(list) : ~ Covers(new[i], p)) => prot[p] = Unbacked
  <2>1. CASE p = first
    BY <1>3, <1>8, <1>9, <2>1
  <2>2. CASE p # first
    <3>1. prot[p] = eng[p]
      BY <1>5, <2>2
    <3>2. /\ \A i \in 1 .. Len(list) : Covers(list[i], p) => eng[p] = BackingOf(list[i])
          /\ (\A i \in 1 .. Len(list) : ~ Covers(list[i], p)) => eng[p] = Unbacked
      BY DEF Backed
    <3>3. ASSUME NEW i \in 1 .. Len(list), Covers(new[i], p)
          PROVE  prot[p] = BackingOf(new[i])
      <4>1. i # k
        BY <1>9, <2>2, <3>3
      <4>2. new[i] = list[i] /\ Covers(list[i], p)
        BY <1>6, <1>9, <3>3, <4>1
      <4> QED
        BY <3>1, <3>2, <4>2
    <3> QED
      BY <1>9, <3>1, <3>2, <3>3
  <2> QED
    BY <2>1, <2>2
<1> QED
  BY <1>10 DEF Backed, new, prot

\* While requests are modest the engine follows the list in every step.
LEMMA EngineFollowsInductive ==
    ASSUME ModestRequests, TypeOK, SoundList, SoundList', EngineFollows, [Next]_vars
    PROVE  EngineFollows'
<1> USE DEF TypeOK
<1>1. /\ maps \in Seq(Map) /\ SortedByEnd(maps) /\ Len(maps) \in Nat
      /\ WellPlaced(maps) => Disjoint(maps)
      /\ WellPlaced(maps') => Disjoint(maps')
  BY LenProperties DEF SoundList, NoOverlap
<1>2. CASE LoadSegment
  BY <1>2 DEF LoadSegment, EngineFollows
<1>3. CASE RelocationFails \/ LoadFails
  BY <1>3 DEF RelocationFails, LoadFails, EngineFollows
<1>4. CASE OpenEngine
  <2>1. Backed([p \in Page |-> Unbacked], maps, 0)
    BY DEF Backed
  <2>2. /\ engine' = [p \in Page |-> Unbacked] /\ maps' = maps
        /\ cursor' = 0 /\ phase' = "opening"
    BY <1>4 DEF OpenEngine, Loaded, EngineFollows
  <2> QED
    BY <1>1, <2>1, <2>2 DEF EngineFollows
<1>5. CASE ReplayMap
  <2>1. /\ engine' = UcMap(engine, maps[cursor + 1]) /\ maps' = maps
        /\ cursor' = cursor + 1 /\ phase' = "opening" /\ cursor + 1 <= Len(maps)
    BY <1>1, <1>5 DEF ReplayMap
  <2>2. ASSUME WellPlaced(maps)
        PROVE  Backed(engine', maps, cursor + 1)
    <3>1. Backed(engine, maps, cursor)
      BY <1>5, <2>2 DEF ReplayMap, EngineFollows
    <3> QED
      BY <1>1, <2>1, <2>2, <3>1, ReplayBacks
  <2> QED
    BY <2>1, <2>2 DEF EngineFollows
<1>6. CASE InstallBootCode
  <2> DEFINE n     == MemorySize(0)
             first == MoreMemory(maps, n)
             block == Block("heap", first, n)
  <2>1. n = 1 /\ n \in Nat /\ n <= Pages \div 2 - 2
    BY PagesAssumption DEF MemorySize
  <2>2. CASE first = NoAddress
    BY <1>6, <2>2 DEF InstallBootCode, EngineFollows
  <2>3. CASE first # NoAddress
    <3>1. first \in Page \ {0} /\ Access \in SUBSET Access
      BY <2>1, <2>3, MoreMemoryType
    <3>2. PICK list \in MapMemory(maps, block) :
            maps' = ChangeProtection(list, first, first, Access)
      BY <1>6, <2>3 DEF InstallBootCode
    <3>3. /\ phase' = "running" /\ phase = "opening" /\ cursor = Len(maps)
          /\ engine' = UcProtect(UcMap(engine, block), first, first, Access)
      BY <1>6, <2>3 DEF InstallBootCode
    <3> SUFFICES ASSUME WellPlaced(maps')
                 PROVE  Backed(engine', maps', Len(maps'))
      BY <3>3 DEF EngineFollows
    <3>4. block \in Map /\ list \in Seq(Map)
      BY <2>1, <3>1, <3>2, BlockType, MapMemoryProperties DEF Kind
    <3>5. Len(maps') = Len(list) /\ WellPlaced(list)
      <4> HIDE DEF first
      <4> QED
        BY <3>1, <3>2, <3>4, ChangeProtectionProperties, ApartnessOfBounds
    <3>6. Disjoint(list)
      BY <1>1, <2>1, <2>3, <3>2, <3>5, MapBlockSound DEF Kind
    <3>7. /\ WellPlaced(maps)
          /\ \A i \in 1 .. Len(maps) :
               maps[i].end < block.start \/ block.end < maps[i].start
      BY <1>1, <2>1, <2>3, <3>2, <3>5, BlockMeetsNone DEF Kind
    <3>8. Backed(engine, maps, Len(maps))
      BY <3>3, <3>7 DEF EngineFollows
    <3> HIDE DEF block
    <3>9. Backed(UcMap(engine, block), list, Len(list))
      BY <1>1, <3>2, <3>4, <3>5, <3>6, <3>7, <3>8, MapBothBacks
    <3>10. PICK k \in 1 .. Len(list) : list[k] = block
      BY <1>1, <3>2, <3>4, MapMemoryElements
    <3>11. list[k].start = first /\ list[k].end = first
      <4>1. block.start <= block.end
        BY <3>5, <3>10 DEF WellPlaced
      <4> HIDE DEF n, first
      <4> QED
        BY <2>1, <3>1, <3>10, <4>1, BlockBounds DEF block, Block, Page
    <3> HIDE DEF first
    <3> QED
      BY <3>1, <3>2, <3>3, <3>4, <3>5, <3>6, <3>9, <3>11, ProtectBothBacks
  <2> QED
    BY <2>2, <2>3
<1>7. ASSUME NEW kind \in {"heap", "stack"}, NEW k \in Requests, Allocate(kind, k)
      PROVE  EngineFollows'
  <2> DEFINE n     == MemorySize(k)
             first == MoreMemory(maps, n)
             block == Block(kind, first, n)
  <2>1. n \in Nat /\ n <= Pages \div 2 - 2
    BY Wrap, RequestsAssumption DEF ModestRequests, MemorySize, Page
  <2>2. CASE first = NoAddress
    BY <1>7, <2>2 DEF Allocate, EngineFollows
  <2>3. CASE first # NoAddress
    <3>1. /\ maps' \in MapMemory(maps, block) /\ engine' = UcMap(engine, block)
          /\ phase = "running" /\ phase' = "running"
      BY <1>7, <2>3 DEF Allocate, MapBoth
    <3> SUFFICES ASSUME WellPlaced(maps')
                 PROVE  Backed(engine', maps', Len(maps'))
      BY <3>1 DEF EngineFollows
    <3>2. block \in Map
      BY <2>1, <2>3, MoreMemoryType, BlockType DEF Kind
    <3>3. /\ WellPlaced(maps)
          /\ \A i \in 1 .. Len(maps) :
               maps[i].end < block.start \/ block.end < maps[i].start
      BY <1>1, <2>1, <2>3, <3>1, BlockMeetsNone DEF Kind
    <3>4. Backed(engine, maps, Len(maps))
      BY <3>1, <3>3 DEF EngineFollows
    <3> HIDE DEF block
    <3> QED
      BY <1>1, <3>1, <3>2, <3>3, <3>4, MapBothBacks
  <2> QED
    BY <2>2, <2>3
<1>8. CASE UNCHANGED vars
  BY <1>8 DEF vars, EngineFollows
<1> QED
  BY <1>2, <1>3, <1>4, <1>5, <1>6, <1>7, <1>8
  DEF Next, AllocateHeap, AllocateStack

\* While requests stay modest, the host's list and the engine resolve every
\* page to the same block and access rights for as long as the guest runs,
\* unless a block has run over the end of the space.
THEOREM HostAndGuestAgreeAlways == ModestRequests => (Spec => []HostAndGuestAgree)
<1> SUFFICES ASSUME ModestRequests
             PROVE  Spec => []HostAndGuestAgree
  OBVIOUS
<1>1. Init => EngineFollows
  BY DEF Init, EngineFollows
<1>2. TypeOK /\ SoundList /\ SoundList' /\ EngineFollows /\ [Next]_vars
        => EngineFollows'
  BY EngineFollowsInductive
<1>3. EngineFollows => HostAndGuestAgree
  <2> SUFFICES ASSUME Backed(engine, maps, Len(maps)), NEW p \in Page
               PROVE  engine[p] = HostBacking(p)
    BY DEF EngineFollows, HostAndGuestAgree
  <2> DEFINE hits == Hits(maps, p)
             i    == CHOOSE h \in hits : \A j \in hits : h <= j
  <2>1. CASE hits = {}
    BY <2>1 DEF Backed, Hits, HostBacking
  <2>2. CASE hits # {}
    <3>1. hits \in SUBSET Nat
      BY LenProperties DEF Hits
    <3>2. \E h \in hits : \A j \in hits : h <= j
      <4> HIDE DEF hits
      <4> QED
        BY <2>2, <3>1, LeastNat
    <3>3. i \in hits
      BY <3>2, Zenon
    <3>4. Lookup(maps, p) = maps[i]
      BY DEF Lookup
    <3> HIDE DEF i
    <3>5. engine[p] = BackingOf(maps[i])
      BY <3>3 DEF Hits, Backed
    <3> QED
      BY <2>2, <3>4, <3>5 DEF HostBacking, BackingOf
  <2> QED
    BY <2>1, <2>2
<1> QED
  BY <1>1, <1>2, <1>3, TypeCorrect, SoundListAlways, PTL DEF Spec
=============================================================================
