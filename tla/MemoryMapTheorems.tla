------------------------- MODULE MemoryMapTheorems -------------------------
(***************************************************************************)
(* What the operators of MemoryMap return, for every size of the address   *)
(* space and every list of maps: the facts the invariants of the modules   *)
(* that allocate from the list rest on.                                    *)
(***************************************************************************)
EXTENDS MemoryMap, SequenceTheorems, NaturalsInduction, WellFoundedInduction,
        TLAPS

-----------------------------------------------------------------------------
(* Numbers *)

\* A nonempty set of natural numbers has a least element.
LEMMA LeastNat ==
    ASSUME NEW S \in SUBSET Nat, S # {}
    PROVE  \E n \in S : \A m \in S : n <= m
<1> DEFINE R == {ss \in Nat \X Nat : ss[1] < ss[2]}
<1>1. R = OpToRel(<, Nat)
  BY DEF OpToRel
<1>2. IsWellFoundedOn(R, Nat)
  BY <1>1, NatLessThanWellFounded, Zenon
<1>3. PICK x \in S : \A y \in S : ~ (<<y, x>> \in R)
  BY <1>2, WFMin, Zenon
<1>4. ASSUME NEW m \in S
      PROVE  x <= m
  <2>1. <<m, x>> \notin R
    BY <1>3, Zenon
  <2>2. <<m, x>> \in Nat \X Nat
    OBVIOUS
  <2>3. ~ (m < x)
    BY <2>1, <2>2
  <2> QED
    BY <2>3
<1> QED
  BY <1>4

\* uint32_t arithmetic: a number reduced modulo Pages is a page, and is the
\* number itself, or one turn away from it.
LEMMA Wrap ==
    /\ \A x \in Int : x % Pages \in Page
    /\ \A x \in Page : x % Pages = x
    /\ \A x \in Pages .. 2 * Pages - 1 : x % Pages = x - Pages
    /\ \A x \in -Pages .. -1 : x % Pages = x + Pages
BY PagesAssumption DEF Page

\* The bounds of the maps of a list are pages.
LEMMA MapBounds ==
    ASSUME NEW maps \in Seq(Map), NEW i \in 1 .. Len(maps)
    PROVE  maps[i] \in Map /\ maps[i].start \in Page /\ maps[i].end \in Page
<1>1. maps[i] \in Map
  BY ElementOfSeq
<1> QED
  BY <1>1 DEF Map

-----------------------------------------------------------------------------
(* map_memory *)

\* Inserting an element shifts the ones behind it by one place.
LEMMA InsertAtProperties ==
    ASSUME NEW S, NEW s \in Seq(S), NEW e \in S, NEW k \in 1 .. Len(s) + 1
    PROVE  /\ InsertAt(s, k, e) \in Seq(S)
           /\ Len(InsertAt(s, k, e)) = Len(s) + 1
           /\ \A i \in 1 .. Len(s) + 1 :
                InsertAt(s, k, e)[i] =
                    IF i < k THEN s[i] ELSE IF i = k THEN e ELSE s[i - 1]
<1> DEFINE front == SubSeq(s, 1, k - 1)
           back  == SubSeq(s, k, Len(s))
           list  == front \o <<e>> \o back
<1>1. /\ front \in Seq(S)
      /\ Len(front) = k - 1
      /\ \A i \in 1 .. k - 1 : front[i] = s[i]
  BY SubSeqProperties
<1>2. /\ back \in Seq(S)
      /\ Len(back) = Len(s) + 1 - k
      /\ \A i \in 1 .. Len(s) + 1 - k : back[i] = s[k + i - 1]
  BY SubSeqProperties
<1>3. InsertAt(s, k, e) = list
  BY DEF InsertAt
<1>4. /\ list \in Seq(S)
      /\ Len(list) = Len(s) + 1
      /\ \A i \in 1 .. Len(s) + 1 :
           list[i] = IF i < k THEN s[i] ELSE IF i = k THEN e ELSE s[i - 1]
  <2> HIDE DEF front, back
  <2>1. /\ front \o <<e>> \in Seq(S)
        /\ Len(front \o <<e>>) = k
        /\ \A i \in 1 .. k :
             (front \o <<e>>)[i] = IF i < k THEN s[i] ELSE e
    BY <1>1, ConcatProperties
  <2>2. list \in Seq(S) /\ Len(list) = Len(s) + 1
    BY <1>2, <2>1
  <2>3. ASSUME NEW i \in 1 .. k
        PROVE  list[i] = IF i < k THEN s[i] ELSE e
    BY <1>2, <2>1
  <2>4. ASSUME NEW i \in k + 1 .. Len(s) + 1
        PROVE  list[i] = s[i - 1]
    <3>1. list[i] = back[i - k]
      BY <1>2, <2>1
    <3>2. i - k \in 1 .. Len(s) + 1 - k /\ k + (i - k) - 1 = i - 1
      OBVIOUS
    <3>3. back[i - k] = s[k + (i - k) - 1]
      BY <1>2, <3>2
    <3> HIDE DEF list
    <3> QED
      BY <3>1, <3>2, <3>3
  <2> HIDE DEF list
  <2> QED
    BY <2>2, <2>3, <2>4
<1> HIDE DEF list
<1> QED
  BY <1>3, <1>4, Zenon

\* The list after map_memory is the old one with the map at some place, behind
\* every map that ends before it and before every map that ends behind it.
LEMMA MapMemoryProperties ==
    ASSUME NEW maps \in Seq(Map), NEW m \in Map, NEW list \in MapMemory(maps, m)
    PROVE  /\ list \in Seq(Map)
           /\ Len(list) = Len(maps) + 1
           /\ \E k \in 1 .. Len(maps) + 1 :
                /\ \A i \in 1 .. k - 1 : maps[i].end <= m.end
                /\ \A i \in k .. Len(maps) : m.end <= maps[i].end
                /\ \A i \in 1 .. Len(list) :
                     list[i] = IF i < k THEN maps[i]
                               ELSE IF i = k THEN m
                               ELSE maps[i - 1]
<1>1. PICK k \in 1 .. Len(maps) + 1 :
        /\ \A i \in 1 .. k - 1 : maps[i].end <= m.end
        /\ \A i \in k .. Len(maps) : m.end <= maps[i].end
        /\ list = InsertAt(maps, k, m)
  BY DEF MapMemory
<1>2. /\ list \in Seq(Map)
      /\ Len(list) = Len(maps) + 1
      /\ \A i \in 1 .. Len(maps) + 1 :
           list[i] = IF i < k THEN maps[i] ELSE IF i = k THEN m ELSE maps[i - 1]
  <2> DEFINE new == InsertAt(maps, k, m)
  <2>1. /\ new \in Seq(Map)
        /\ Len(new) = Len(maps) + 1
        /\ \A i \in 1 .. Len(maps) + 1 :
             new[i] = IF i < k THEN maps[i] ELSE IF i = k THEN m ELSE maps[i - 1]
    BY InsertAtProperties
  <2>2. list = new
    BY <1>1
  <2> HIDE DEF new
  <2> QED
    BY <2>1, <2>2
<1>3. \A i \in 1 .. Len(list) :
        list[i] = IF i < k THEN maps[i] ELSE IF i = k THEN m ELSE maps[i - 1]
  BY <1>2
<1> QED
  BY <1>1, <1>2, <1>3, Zenon

\* Nothing is lost and nothing but the new map is added.
LEMMA MapMemoryElements ==
    ASSUME NEW maps \in Seq(Map), NEW m \in Map, NEW list \in MapMemory(maps, m)
    PROVE  /\ \A i \in 1 .. Len(maps) : \E j \in 1 .. Len(list) : list[j] = maps[i]
           /\ \E j \in 1 .. Len(list) : list[j] = m
           /\ \A j \in 1 .. Len(list) :
                list[j] = m \/ \E i \in 1 .. Len(maps) : list[j] = maps[i]
<1>1. /\ list \in Seq(Map)
      /\ Len(list) = Len(maps) + 1
  BY MapMemoryProperties
<1>2. PICK k \in 1 .. Len(maps) + 1 :
        \A i \in 1 .. Len(list) :
          list[i] = IF i < k THEN maps[i] ELSE IF i = k THEN m ELSE maps[i - 1]
  BY MapMemoryProperties
<1>3. ASSUME NEW i \in 1 .. Len(maps)
      PROVE  \E j \in 1 .. Len(list) : list[j] = maps[i]
  <2>1. CASE i < k
    <3>1. i \in 1 .. Len(list)
      BY <1>1
    <3>2. list[i] = maps[i]
      BY <1>2, <2>1, <3>1
    <3> QED
      BY <3>1, <3>2, Zenon
  <2>2. CASE i >= k
    <3>1. i + 1 \in 1 .. Len(list) /\ i + 1 > k /\ i + 1 - 1 = i
      BY <1>1, <2>2
    <3>2. list[i + 1] = maps[i]
      BY <1>2, <3>1
    <3> QED
      BY <3>1, <3>2
  <2> QED
    BY <2>1, <2>2
<1>4. list[k] = m
  BY <1>1, <1>2
<1>5. ASSUME NEW j \in 1 .. Len(list)
      PROVE  list[j] = m \/ \E i \in 1 .. Len(maps) : list[j] = maps[i]
  <2>1. CASE j < k
    <3>1. j \in 1 .. Len(maps) /\ list[j] = maps[j]
      BY <1>1, <1>2, <2>1
    <3> QED
      BY <3>1, Zenon
  <2>2. CASE j > k
    <3>1. j - 1 \in 1 .. Len(maps) /\ list[j] = maps[j - 1]
      BY <1>1, <1>2, <2>2
    <3> QED
      BY <3>1
  <2> QED
    BY <1>4, <2>1, <2>2
<1> QED
  BY <1>1, <1>3, <1>4, <1>5

\* The list stays sorted by last page.
LEMMA MapMemorySorted ==
    ASSUME NEW maps \in Seq(Map), NEW m \in Map, NEW list \in MapMemory(maps, m),
           SortedByEnd(maps)
    PROVE  SortedByEnd(list)
<1>1. /\ list \in Seq(Map)
      /\ Len(list) = Len(maps) + 1
  BY MapMemoryProperties
<1>2. PICK k \in 1 .. Len(maps) + 1 :
        /\ \A i \in 1 .. k - 1 : maps[i].end <= m.end
        /\ \A i \in k .. Len(maps) : m.end <= maps[i].end
        /\ \A i \in 1 .. Len(list) :
             list[i] = IF i < k THEN maps[i] ELSE IF i = k THEN m ELSE maps[i - 1]
  BY MapMemoryProperties
<1>3. \A i \in 1 .. Len(maps) : maps[i].end \in Int
  BY MapBounds DEF Page
<1>4. m.end \in Int
  BY DEF Map, Page
<1>5. \A i, j \in 1 .. Len(maps) : i <= j => maps[i].end <= maps[j].end
  BY DEF SortedByEnd
<1>6. ASSUME NEW i \in 1 .. Len(list), NEW j \in 1 .. Len(list), i <= j
      PROVE  list[i].end <= list[j].end
  <2>1. CASE j < k
    BY <1>1, <1>2, <1>5, <1>6, <2>1
  <2>2. CASE j = k
    <3>1. CASE i < k
      BY <1>1, <1>2, <2>2, <3>1
    <3>2. CASE i = k
      BY <1>2, <1>4, <2>2, <3>2
    <3> QED
      BY <1>6, <2>2, <3>1, <3>2
  <2>3. CASE j > k
    <3>1. j - 1 \in k .. Len(maps) /\ list[j] = maps[j - 1]
      <4>1. j - 1 \in k .. Len(maps) /\ ~ (j < k) /\ j # k
        BY <1>1, <2>3
      <4> QED
        BY <1>2, <4>1
    <3>2. CASE i < k
      <4>1. i \in 1 .. Len(maps) /\ j - 1 \in 1 .. Len(maps) /\ i <= j - 1
        BY <1>1, <3>1, <3>2
      <4>2. list[i] = maps[i]
        BY <1>2, <3>2
      <4> QED
        BY <1>5, <3>1, <4>1, <4>2
    <3>3. CASE i = k
      BY <1>2, <3>1, <3>3
    <3>4. CASE i > k
      <4>1. i - 1 \in k .. Len(maps) /\ list[i] = maps[i - 1] /\ i - 1 <= j - 1
        BY <1>1, <1>2, <1>6, <3>4
      <4> QED
        BY <1>5, <3>1, <4>1
    <3> QED
      BY <3>2, <3>3, <3>4
  <2> QED
    BY <2>1, <2>2, <2>3
<1> QED
  BY <1>6 DEF SortedByEnd

\* A map that shares no page with any other leaves the list disjoint.
LEMMA MapMemoryDisjoint ==
    ASSUME NEW maps \in Seq(Map), NEW m \in Map, NEW list \in MapMemory(maps, m),
           Disjoint(maps),
           \A i \in 1 .. Len(maps) : maps[i].end < m.start \/ m.end < maps[i].start
    PROVE  Disjoint(list)
<1>1. /\ list \in Seq(Map)
      /\ Len(list) = Len(maps) + 1
  BY MapMemoryProperties
<1>2. PICK k \in 1 .. Len(maps) + 1 :
        \A i \in 1 .. Len(list) :
          list[i] = IF i < k THEN maps[i] ELSE IF i = k THEN m ELSE maps[i - 1]
  BY MapMemoryProperties
<1> DEFINE Old(i) == IF i < k THEN i ELSE i - 1
<1>3. ASSUME NEW i \in 1 .. Len(list), i # k
      PROVE  Old(i) \in 1 .. Len(maps) /\ list[i] = maps[Old(i)]
  BY <1>1, <1>2, <1>3
<1>4. ASSUME NEW i \in 1 .. Len(list), NEW j \in 1 .. Len(list), i # j
      PROVE  list[i].end < list[j].start \/ list[j].end < list[i].start
  <2>1. CASE i = k
    <3>1. list[i] = m /\ j # k
      BY <1>2, <1>4, <2>1
    <3> QED
      BY <1>3, <3>1
  <2>2. CASE j = k
    <3>1. list[j] = m /\ i # k
      BY <1>2, <1>4, <2>2
    <3> QED
      BY <1>3, <3>1
  <2>3. CASE i # k /\ j # k
    <3>1. Old(i) # Old(j)
      BY <1>4, <2>3
    <3> QED
      BY <1>3, <2>3, <3>1 DEF Disjoint
  <2> QED
    BY <2>1, <2>2, <2>3
<1> QED
  BY <1>4 DEF Disjoint

-----------------------------------------------------------------------------
(* more_memory *)

\* The page skipped to is the second behind the map, or the bottom of the space.
LEMMA PagedAfterProperties ==
    ASSUME NEW m \in Map
    PROVE  /\ PagedAfter(m) \in Page
           /\ m.end < Pages - 2 => PagedAfter(m) = m.end + 2
           /\ m.end = Pages - 2 => PagedAfter(m) = 0
<1>1. m.end \in Page
  BY DEF Map
<1> QED
  BY <1>1, Wrap, PagesAssumption DEF PagedAfter, Page

\* The running value of top_address is defined and is a page after every
\* iteration of its loop.
LEMMA TopAddressTrace ==
    ASSUME NEW maps \in Seq(Map), maps # <<>>
    PROVE  \E f \in [0 .. Len(maps) -> Page] :
             /\ f[0] = 0
             /\ \A i \in 1 .. Len(maps) : f[i] = Raise(maps[i], f[i - 1])
             /\ TopAddress(maps) = f[Len(maps)]
<1> DEFINE Step(f, i) == IF i = 0 THEN 0 ELSE Raise(maps[i], f[i - 1])
           Trace(f, n) == f \in [0 .. n -> Page] /\ \A i \in 0 .. n : f[i] = Step(f, i)
           top == CHOOSE f : f = [i \in 0 .. Len(maps) |-> Step(f, i)]
           Without == { n \in Nat : n <= Len(maps) /\ ~ \E f : Trace(f, n) }
<1>1. Len(maps) \in Nat /\ Len(maps) >= 1
  BY EmptySeq, LenProperties
<1>2. \A i \in 1 .. Len(maps) : \A t \in Page : Raise(maps[i], t) \in Page
  BY MapBounds, PagedAfterProperties DEF Raise
<1>3. Without = {}
  <2> SUFFICES ASSUME Without # {}
               PROVE  FALSE
    OBVIOUS
  <2>1. PICK n \in Without : \A m \in Without : n <= m
    <3>1. Without \in SUBSET Nat
      OBVIOUS
    <3> HIDE DEF Without
    <3> QED
      BY <3>1, LeastNat
  <2>2. n \in Nat /\ n <= Len(maps)
    OBVIOUS
  <2>3. CASE n = 0
    <3> DEFINE f == [i \in 0 .. 0 |-> 0]
    <3>1. Trace(f, 0)
      BY PagesAssumption DEF Page
    <3> QED
      BY <2>3, <3>1
  <2>4. CASE n # 0
    <3>1. n - 1 \in Nat /\ n - 1 <= Len(maps) /\ n - 1 \notin Without
      <4>1. n - 1 \in Nat /\ n - 1 <= Len(maps) /\ ~ (n <= n - 1)
        BY <1>1, <2>2, <2>4
      <4> HIDE DEF Without
      <4> QED
        BY <2>1, <4>1
    <3>2. PICK g : Trace(g, n - 1)
      BY <3>1
    <3> DEFINE f == [i \in 0 .. n |-> IF i < n THEN g[i] ELSE Raise(maps[n], g[n - 1])]
    <3>3. n \in 1 .. Len(maps) /\ n - 1 \in 0 .. n - 1
      BY <2>2, <2>4
    <3>4. f \in [0 .. n -> Page]
      <4>1. g[n - 1] \in Page
        BY <3>2, <3>3
      <4>2. Raise(maps[n], g[n - 1]) \in Page
        BY <1>2, <3>3, <4>1
      <4> QED
        BY <2>2, <3>2, <4>2
    <3>5. ASSUME NEW i \in 0 .. n
          PROVE  f[i] = Step(f, i)
      <4>1. CASE i = n
        BY <2>2, <2>4, <4>1
      <4>2. CASE i < n
        <5>1. i \in 0 .. n - 1
          BY <2>2, <4>2
        <5>2. g[i] = Step(g, i)
          BY <3>2, <5>1
        <5>3. i # 0 => i - 1 \in 0 .. n - 1
          BY <2>2, <5>1
        <5> QED
          BY <2>2, <4>2, <5>2, <5>3
      <4> QED
        BY <2>2, <4>1, <4>2
    <3>6. Trace(f, n)
      BY <3>4, <3>5
    <3> QED
      BY <3>6
  <2> QED
    BY <2>3, <2>4
<1>4. PICK f : Trace(f, Len(maps))
  BY <1>1, <1>3
<1>5. f = [i \in 0 .. Len(maps) |-> Step(f, i)]
  BY <1>4
<1>6. top = [i \in 0 .. Len(maps) |-> Step(top, i)]
  BY <1>5
<1>7. TopAddress(maps) = top[Len(maps)]
  BY DEF TopAddress
<1> HIDE DEF top
<1>8. \A i \in 0 .. Len(maps) : top[i] = Step(top, i)
  BY <1>6
<1> DEFINE Outside == { n \in Nat : n <= Len(maps) /\ top[n] \notin Page }
<1>9. Outside = {}
  <2> SUFFICES ASSUME Outside # {}
               PROVE  FALSE
    OBVIOUS
  <2>1. PICK n \in Outside : \A m \in Outside : n <= m
    <3>1. Outside \in SUBSET Nat
      OBVIOUS
    <3> HIDE DEF Outside
    <3> QED
      BY <3>1, LeastNat
  <2>2. n \in Nat /\ n <= Len(maps) /\ top[n] \notin Page
    OBVIOUS
  <2>3. n # 0
    BY <1>1, <1>8, <2>2, PagesAssumption DEF Page
  <2>4. top[n - 1] \in Page
    BY <1>1, <2>1, <2>2, <2>3
  <2>5. top[n] = Raise(maps[n], top[n - 1])
    BY <1>1, <1>8, <2>2, <2>3
  <2> QED
    BY <1>1, <1>2, <2>2, <2>3, <2>4, <2>5
<1>10. top \in [0 .. Len(maps) -> Page]
  <2>1. \A i \in 0 .. Len(maps) : i \in Nat /\ i <= Len(maps)
    BY <1>1
  <2>2. \A i \in 0 .. Len(maps) : top[i] \in Page
    BY <1>9, <2>1
  <2>3. top = [i \in 0 .. Len(maps) |-> top[i]]
    BY <1>6, <1>8
  <2> QED
    BY <2>2, <2>3
<1>11. top[0] = 0 /\ \A i \in 1 .. Len(maps) : top[i] = Raise(maps[i], top[i - 1])
  BY <1>1, <1>8
<1> QED
  BY <1>7, <1>10, <1>11

\* Its last step is the update for the last map.
LEMMA TopAddressProperties ==
    ASSUME NEW maps \in Seq(Map), maps # <<>>
    PROVE  /\ TopAddress(maps) \in Page
           /\ \E top \in Page : TopAddress(maps) = Raise(maps[Len(maps)], top)
<1>1. PICK f \in [0 .. Len(maps) -> Page] :
        /\ \A i \in 1 .. Len(maps) : f[i] = Raise(maps[i], f[i - 1])
        /\ TopAddress(maps) = f[Len(maps)]
  BY TopAddressTrace
<1>2. Len(maps) \in Nat /\ Len(maps) >= 1
  BY EmptySeq, LenProperties
<1>3. f[Len(maps)] \in Page /\ f[Len(maps) - 1] \in Page
  BY <1>1, <1>2
<1> QED
  BY <1>1, <1>2, <1>3

\* A gap the loop breaks at exists if any index passes its test.
LEMMA FirstGapProperties ==
    ASSUME NEW maps \in Seq(Map), NEW n \in Nat, Gaps(maps, n) # {}
    PROVE  /\ FirstGap(maps, n) \in 1 .. Len(maps) - 1
           /\ Remaining(maps, FirstGap(maps, n), n) < Pages \div 2
<1>1. Gaps(maps, n) \in SUBSET Nat
  BY LenProperties DEF Gaps
<1>2. \E i \in Gaps(maps, n) : \A j \in Gaps(maps, n) : i <= j
  BY <1>1, LeastNat
<1>3. FirstGap(maps, n) \in Gaps(maps, n)
  BY <1>2, Zenon DEF FirstGap
<1> QED
  BY <1>3 DEF Gaps

\* more_memory returns a page, never page 0, or reports that it found none.
LEMMA MoreMemoryType ==
    ASSUME NEW maps \in Seq(Map), NEW n \in Nat
    PROVE  MoreMemory(maps, n) \in (Page \ {0}) \cup {NoAddress}
<1>1. CASE maps = <<>>
  BY <1>1, PagesAssumption DEF MoreMemory, Page
<1>2. CASE maps # <<>>
  <2>1. Found(maps, n) \in Page
    <3>1. CASE Gaps(maps, n) # {}
      <4>1. FirstGap(maps, n) \in 1 .. Len(maps)
        BY <3>1, FirstGapProperties, LenProperties
      <4>2. maps[FirstGap(maps, n)] \in Map
        BY <4>1, ElementOfSeq
      <4> QED
        BY <3>1, <4>2, PagedAfterProperties DEF Found
    <3>2. CASE Gaps(maps, n) = {}
      BY <1>2, <3>2, TopAddressProperties DEF Found
    <3> QED
      BY <3>1, <3>2
  <2> QED
    BY <1>2, <2>1 DEF MoreMemory
<1> QED
  BY <1>1, <1>2

\* The block made of the pages found is a map.
LEMMA BlockType ==
    ASSUME NEW kind \in Kind, NEW first \in Page, NEW n \in Nat
    PROVE  Block(kind, first, n) \in Map
<1>1. first + n - 1 \in Int
  BY DEF Page
<1>2. (first + n - 1) % Pages \in Page
  BY <1>1, Wrap
<1>3. ReadWrite \in SUBSET Access
  BY DEF ReadWrite, Access
<1> QED
  BY <1>2, <1>3 DEF Block, Map

\* A block that does not wrap has a page at least, and ends where it should.
LEMMA BlockBounds ==
    ASSUME NEW first \in Page \ {0}, NEW n \in Nat, n <= Pages \div 2 - 2,
           NEW kind, Block(kind, first, n).start <= Block(kind, first, n).end
    PROVE  n >= 1 /\ Block(kind, first, n).end = first + n - 1
<1> DEFINE end == (first + n - 1) % Pages
<1>1. first <= end
  BY DEF Block
<1>2. 2 * (Pages \div 2) = Pages /\ Pages \div 2 \in Nat
  BY PagesAssumption
<1>3. first + n - 1 \in 0 .. 2 * Pages - 1 /\ first \in 1 .. Pages - 1
  BY <1>2, PagesAssumption DEF Page
<1>4. CASE first + n - 1 < Pages
  <2>1. first + n - 1 \in Page
    BY <1>3, <1>4, PagesAssumption DEF Page
  <2>2. end = first + n - 1
    BY <2>1, Wrap
  <2> QED
    BY <1>1, <1>3, <2>2 DEF Block
<1>5. CASE first + n - 1 >= Pages
  <2> DEFINE x == first + n - 1
  <2>1. x \in Pages .. 2 * Pages - 1 /\ end = x % Pages
    BY <1>3, <1>5, PagesAssumption
  <2> HIDE DEF x, end
  <2>2. end = x - Pages
    BY <2>1, Wrap
  <2> QED
    BY <1>1, <1>2, <1>3, <2>2, PagesAssumption DEF x
<1> QED
  BY <1>3, <1>4, <1>5, PagesAssumption

\* The gap the loop breaks at begins two pages behind a map and holds the
\* request with a page to spare: the unsigned subtraction of the gap test
\* cannot be fooled by a request for less than half of the space.
LEMMA GapFits ==
    ASSUME NEW maps \in Seq(Map),
           SortedByEnd(maps), Disjoint(maps), WellPlaced(maps),
           NEW n \in Nat, n <= Pages \div 2 - 2,
           Gaps(maps, n) # {}, Found(maps, n) # 0
    PROVE  \E g \in 1 .. Len(maps) - 1 :
             /\ Found(maps, n) = maps[g].end + 2
             /\ Found(maps, n) + n < maps[g + 1].start
<1> DEFINE a == Found(maps, n)
           g == FirstGap(maps, n)
<1>1. g \in 1 .. Len(maps) - 1 /\ Remaining(maps, g, n) < Pages \div 2
  BY FirstGapProperties
<1>2. a = PagedAfter(maps[g]) /\ a # 0
  BY DEF Found
<1> HIDE DEF a, g
<1>3. g \in 1 .. Len(maps) /\ g + 1 \in 1 .. Len(maps) /\ g # g + 1
  BY <1>1, LenProperties
<1>4. \A i \in {g, g + 1} :
        /\ maps[i] \in Map /\ maps[i].start \in Nat /\ maps[i].end \in Nat
        /\ maps[i].start <= maps[i].end /\ maps[i].end < Pages - 1
  BY <1>3, MapBounds DEF WellPlaced, Page
<1>5. a = maps[g].end + 2 /\ a \in Nat
  BY <1>2, <1>4, PagedAfterProperties, PagesAssumption
<1>6. maps[g].end < maps[g + 1].start
  <2>1. maps[g].end <= maps[g + 1].end
    BY <1>3 DEF SortedByEnd
  <2>2. maps[g].end < maps[g + 1].start \/ maps[g + 1].end < maps[g].start
    BY <1>3 DEF Disjoint
  <2> QED
    BY <1>4, <2>1, <2>2
<1> DEFINE s    == maps[g + 1].start
           left == s - 1 - a - n
<1>7. s \in Nat /\ s >= a - 1
  BY <1>4, <1>5, <1>6, SMTT(30)
<1>8. left % Pages < Pages \div 2
  BY <1>1, <1>2 DEF Remaining
<1>9. 2 * (Pages \div 2) = Pages /\ Pages \div 2 \in Nat
  BY PagesAssumption
<1>10. left \in Int /\ left + (Pages \div 2) >= 0 /\ left = s - 1 - a - n
  <2> HIDE DEF s
  <2>1. a \in Nat /\ n \in Nat /\ n <= Pages \div 2 - 2
    BY <1>5
  <2> QED
    BY <1>7, <1>9, <2>1
<1> HIDE DEF s, left
<1>11. left >= 0
  <2>1. CASE left < 0
    <3>1. left \in -Pages .. -1
      BY <1>9, <1>10, <2>1, PagesAssumption
    <3>2. left % Pages = left + Pages
      BY <3>1, Wrap
    <3> QED
      BY <1>8, <1>9, <1>10, <3>2
  <2> QED
    BY <1>10, <2>1
<1>12. a + n < s
  BY <1>5, <1>7, <1>10, <1>11
<1> QED
  BY <1>1, <1>5, <1>12 DEF a, s

\* A request for less than half of the space, found a place in a sound list,
\* gets pages that no map holds, unless it runs over the end of the space.
LEMMA MoreMemoryIsFree ==
    ASSUME NEW maps \in Seq(Map), maps # <<>>,
           SortedByEnd(maps), Disjoint(maps), WellPlaced(maps),
           NEW n \in Nat, n <= Pages \div 2 - 2,
           NEW kind \in Kind, NEW m,
           MoreMemory(maps, n) # NoAddress,
           m = Block(kind, MoreMemory(maps, n), n),
           m.start <= m.end, m.end < Pages - 1
    PROVE  \A i \in 1 .. Len(maps) : maps[i].end < m.start \/ m.end < maps[i].start
<1> DEFINE a == Found(maps, n)
<1>1. MoreMemory(maps, n) = a /\ a # 0
  BY DEF MoreMemory
<1>2. a \in Nat /\ m.start = a /\ n >= 1 /\ m.end = a + n - 1
  <2>1. a \in Page \ {0}
    BY <1>1, MoreMemoryType DEF NoAddress
  <2> HIDE DEF a
  <2> QED
    BY <1>1, <2>1, BlockBounds DEF Block, Page
<1> HIDE DEF a
<1>3. Len(maps) \in Nat /\ Len(maps) >= 1
  BY EmptySeq, LenProperties
<1>4. \A i \in 1 .. Len(maps) :
        /\ maps[i] \in Map /\ maps[i].start \in Nat /\ maps[i].end \in Nat
        /\ maps[i].start <= maps[i].end /\ maps[i].end < Pages - 1
  BY MapBounds DEF WellPlaced, Page
<1>5. \A i, j \in 1 .. Len(maps) : i <= j => maps[i].end <= maps[j].end
  BY DEF SortedByEnd
<1>6. CASE Gaps(maps, n) # {}
  <2>1. PICK g \in 1 .. Len(maps) - 1 :
          a = maps[g].end + 2 /\ a + n < maps[g + 1].start
    BY <1>1, <1>6, GapFits DEF a
  <2>2. g \in 1 .. Len(maps) /\ g + 1 \in 1 .. Len(maps)
    BY <1>3
  <2>3. ASSUME NEW i \in 1 .. Len(maps)
        PROVE  maps[i].end < a \/ m.end < maps[i].start
    <3>1. CASE i <= g
      <4>1. maps[i].end <= maps[g].end
        BY <1>5, <2>2, <3>1
      <4> QED
        BY <1>4, <2>1, <2>2, <4>1, SMTT(30)
    <3>2. CASE i = g + 1
      BY <1>2, <1>4, <2>1, <3>2
    <3>3. CASE i > g + 1
      <4>1. maps[g + 1].end <= maps[i].end
        BY <1>5, <2>2, <3>3
      <4>2. maps[g + 1].end < maps[i].start \/ maps[i].end < maps[g + 1].start
        <5>1. i # g + 1
          BY <2>2, <3>3
        <5> QED
          BY <2>2, <5>1 DEF Disjoint
      <4>3. maps[g + 1].end < maps[i].start
        BY <1>4, <2>2, <4>1, <4>2
      <4>4. /\ maps[g + 1].start <= maps[g + 1].end
            /\ maps[g + 1].start \in Nat /\ maps[g + 1].end \in Nat
            /\ maps[i].start \in Nat
        BY <1>4, <2>2
      <4>5. m.end + 1 < maps[g + 1].start /\ m.end \in Nat
        BY <1>2, <2>1, <4>4, SMTT(30)
      <4> QED
        BY <4>3, <4>4, <4>5, SMTT(30)
    <3> QED
      BY <2>2, <3>1, <3>2, <3>3
  <2> QED
    BY <1>2, <2>3
<1>7. CASE Gaps(maps, n) = {}
  <2>1. PICK top \in Page : a = Raise(maps[Len(maps)], top)
    BY <1>7, TopAddressProperties DEF Found, a
  <2>2. Len(maps) \in 1 .. Len(maps)
    BY <1>3
  <2>3. maps[Len(maps)].end < a
    <3>1. CASE top <= maps[Len(maps)].end
      <4>1. a = PagedAfter(maps[Len(maps)])
        BY <2>1, <3>1 DEF Raise
      <4> QED
        BY <1>1, <1>4, <2>2, <4>1, PagedAfterProperties, PagesAssumption
    <3>2. CASE ~ (top <= maps[Len(maps)].end)
      BY <1>4, <2>1, <2>2, <3>2 DEF Raise, Page
    <3> QED
      BY <3>1, <3>2
  <2>4. \A i \in 1 .. Len(maps) : maps[i].end < a
    BY <1>2, <1>3, <1>4, <1>5, <2>2, <2>3
  <2> QED
    BY <1>2, <2>4
<1> QED
  BY <1>6, <1>7

\* Every two maps of a list have an unmapped page between them.
AllApart(maps) == \A i, j \in 1 .. Len(maps) : i # j => Apart(maps, i, j)

\* When they have, top_address is two pages behind the last map: it is never
\* left where the map before the last put it.
LEMMA TopAddressOfApart ==
    ASSUME NEW maps \in Seq(Map), maps # <<>>,
           SortedByEnd(maps), AllApart(maps), WellPlaced(maps)
    PROVE  TopAddress(maps) = PagedAfter(maps[Len(maps)])
<1>1. PICK f \in [0 .. Len(maps) -> Page] :
        /\ f[0] = 0
        /\ \A i \in 1 .. Len(maps) : f[i] = Raise(maps[i], f[i - 1])
        /\ TopAddress(maps) = f[Len(maps)]
  BY TopAddressTrace
<1>2. Len(maps) \in Nat /\ Len(maps) >= 1
  BY EmptySeq, LenProperties
<1>3. \A i \in 1 .. Len(maps) :
        /\ maps[i] \in Map /\ maps[i].start \in Nat /\ maps[i].end \in Nat
        /\ maps[i].start <= maps[i].end /\ maps[i].end < Pages - 1
  BY MapBounds DEF WellPlaced, Page
<1> DEFINE Elsewhere == { i \in Nat : i \in 1 .. Len(maps) /\ f[i] # PagedAfter(maps[i]) }
<1>4. Elsewhere = {}
  <2> SUFFICES ASSUME Elsewhere # {}
               PROVE  FALSE
    OBVIOUS
  <2>1. PICK i \in Elsewhere : \A j \in Elsewhere : i <= j
    <3>1. Elsewhere \in SUBSET Nat
      OBVIOUS
    <3> HIDE DEF Elsewhere
    <3> QED
      BY <3>1, LeastNat
  <2>2. i \in 1 .. Len(maps) /\ i \in Nat /\ f[i] # PagedAfter(maps[i])
    OBVIOUS
  <2>3. f[i] = Raise(maps[i], f[i - 1])
    BY <1>1, <2>2
  <2>4. f[i - 1] <= maps[i].end
    <3>1. CASE i = 1
      <4>1. f[i - 1] = 0
        BY <1>1, <3>1
      <4> QED
        BY <1>3, <2>2, <4>1
    <3>2. CASE i # 1
      <4>1. i - 1 \in 1 .. Len(maps) /\ i - 1 \in Nat /\ ~ (i <= i - 1)
        BY <2>2, <3>2
      <4>2. f[i - 1] = PagedAfter(maps[i - 1])
        <5>1. i - 1 \notin Elsewhere
          BY <2>1, <4>1
        <5> QED
          BY <4>1, <5>1
      <4>3. maps[i - 1].end <= maps[i].end
        BY <2>2, <4>1 DEF SortedByEnd
      <4>4. Apart(maps, i - 1, i)
        BY <2>2, <4>1 DEF AllApart
      <4>5. maps[i - 1].end + 1 < maps[i].start
        <5> DEFINE x == maps[i - 1].end
                   y == maps[i].end
        <5>1. x \in Nat /\ y \in Nat /\ x <= y /\ maps[i].start \in Nat
              /\ maps[i - 1].start \in Nat /\ maps[i - 1].start <= x
              /\ maps[i].start <= y
              /\ (x + 1 < maps[i].start \/ y + 1 < maps[i - 1].start)
          BY <1>3, <2>2, <4>1, <4>3, <4>4 DEF Apart
        <5> HIDE DEF x, y
        <5>2. x + 1 < maps[i].start
          BY <5>1
        <5> QED
          BY <5>2 DEF x
      <4>6. maps[i - 1].end < Pages - 2 /\ maps[i - 1] \in Map
        BY <1>3, <2>2, <4>1, <4>5, PagesAssumption, SMTT(30)
      <4>7. PagedAfter(maps[i - 1]) = maps[i - 1].end + 2
        BY <4>6, PagedAfterProperties
      <4> QED
        BY <1>3, <2>2, <4>1, <4>2, <4>5, <4>7
    <3> QED
      BY <3>1, <3>2
  <2> QED
    BY <2>2, <2>3, <2>4 DEF Raise
<1>5. Len(maps) \notin Elsewhere /\ Len(maps) \in 1 .. Len(maps)
  BY <1>2, <1>4
<1> QED
  BY <1>1, <1>2, <1>5

\* In such a list a modest request gets a block with an unmapped page on both
\* sides of it, unless it runs over the end of the space.
LEMMA MoreMemoryIsApart ==
    ASSUME NEW maps \in Seq(Map), maps # <<>>,
           SortedByEnd(maps), AllApart(maps), WellPlaced(maps),
           NEW n \in Nat, n <= Pages \div 2 - 2,
           NEW kind \in Kind, NEW m,
           MoreMemory(maps, n) # NoAddress,
           m = Block(kind, MoreMemory(maps, n), n),
           m.start <= m.end, m.end < Pages - 1
    PROVE  \A i \in 1 .. Len(maps) :
             maps[i].end + 1 < m.start \/ m.end + 1 < maps[i].start
<1> DEFINE a == Found(maps, n)
<1>1. MoreMemory(maps, n) = a /\ a # 0
  BY DEF MoreMemory
<1>2. a \in Nat /\ m.start = a /\ n >= 1 /\ m.end = a + n - 1
  <2>1. a \in Page \ {0}
    BY <1>1, MoreMemoryType DEF NoAddress
  <2> HIDE DEF a
  <2> QED
    BY <1>1, <2>1, BlockBounds DEF Block, Page
<1> HIDE DEF a
<1>3. Len(maps) \in Nat /\ Len(maps) >= 1
  BY EmptySeq, LenProperties
<1>4. \A i \in 1 .. Len(maps) :
        /\ maps[i] \in Map /\ maps[i].start \in Nat /\ maps[i].end \in Nat
        /\ maps[i].start <= maps[i].end /\ maps[i].end < Pages - 1
  BY MapBounds DEF WellPlaced, Page
<1>5. \A i, j \in 1 .. Len(maps) : i <= j => maps[i].end <= maps[j].end
  BY DEF SortedByEnd
<1>6. Disjoint(maps)
  <2>1. ASSUME NEW i \in 1 .. Len(maps), NEW j \in 1 .. Len(maps), i # j
        PROVE  maps[i].end < maps[j].start \/ maps[j].end < maps[i].start
    BY <1>4, <2>1 DEF AllApart, Apart
  <2> QED
    BY <2>1 DEF Disjoint
<1>7. CASE Gaps(maps, n) # {}
  <2>1. PICK g \in 1 .. Len(maps) - 1 :
          a = maps[g].end + 2 /\ a + n < maps[g + 1].start
    BY <1>1, <1>6, <1>7, GapFits DEF a
  <2>2. g \in 1 .. Len(maps) /\ g + 1 \in 1 .. Len(maps)
    BY <1>3
  <2>3. ASSUME NEW i \in 1 .. Len(maps)
        PROVE  maps[i].end + 1 < a \/ m.end + 1 < maps[i].start
    <3>1. CASE i <= g
      <4>1. maps[i].end <= maps[g].end
        BY <1>5, <2>2, <3>1
      <4> QED
        BY <1>4, <2>1, <2>2, <4>1, SMTT(30)
    <3>2. CASE i = g + 1
      BY <1>2, <1>4, <2>1, <3>2
    <3>3. CASE i > g + 1
      <4>1. maps[g + 1].end <= maps[i].end
        BY <1>5, <2>2, <3>3
      <4>2. maps[g + 1].end < maps[i].start \/ maps[i].end < maps[g + 1].start
        <5>1. i # g + 1
          BY <2>2, <3>3
        <5> QED
          BY <1>6, <2>2, <5>1 DEF Disjoint
      <4>3. maps[g + 1].end < maps[i].start
        BY <1>4, <2>2, <4>1, <4>2
      <4>4. /\ maps[g + 1].start <= maps[g + 1].end
            /\ maps[g + 1].start \in Nat /\ maps[g + 1].end \in Nat
            /\ maps[i].start \in Nat
        BY <1>4, <2>2
      <4>5. m.end + 1 < maps[g + 1].start /\ m.end \in Nat
        BY <1>2, <2>1, <4>4, SMTT(30)
      <4> QED
        BY <4>3, <4>4, <4>5
    <3> QED
      BY <2>2, <3>1, <3>2, <3>3
  <2> QED
    BY <1>2, <2>3
<1>8. CASE Gaps(maps, n) = {}
  <2>1. a = PagedAfter(maps[Len(maps)])
    BY <1>8, TopAddressOfApart DEF Found, a
  <2>2. Len(maps) \in 1 .. Len(maps)
    BY <1>3
  <2>3. a = maps[Len(maps)].end + 2
    BY <1>1, <1>4, <2>1, <2>2, PagedAfterProperties, PagesAssumption
  <2>4. \A i \in 1 .. Len(maps) : maps[i].end + 1 < a
    <3>1. ASSUME NEW i \in 1 .. Len(maps)
          PROVE  maps[i].end + 1 < a
      <4>1. maps[i].end <= maps[Len(maps)].end
        BY <1>3, <1>5, <2>2
      <4> QED
        BY <1>4, <2>2, <2>3, <4>1
    <3> QED
      BY <3>1
  <2> QED
    BY <1>2, <2>4
<1> QED
  BY <1>7, <1>8

\* A map with an unmapped page on both sides of it leaves the maps apart.
LEMMA MapMemoryApart ==
    ASSUME NEW maps \in Seq(Map), NEW m \in Map, NEW list \in MapMemory(maps, m),
           AllApart(maps),
           \A i \in 1 .. Len(maps) :
             maps[i].end + 1 < m.start \/ m.end + 1 < maps[i].start
    PROVE  AllApart(list)
<1>1. /\ list \in Seq(Map)
      /\ Len(list) = Len(maps) + 1
  BY MapMemoryProperties
<1>2. PICK k \in 1 .. Len(maps) + 1 :
        \A i \in 1 .. Len(list) :
          list[i] = IF i < k THEN maps[i] ELSE IF i = k THEN m ELSE maps[i - 1]
  BY MapMemoryProperties
<1> DEFINE Old(i) == IF i < k THEN i ELSE i - 1
<1>3. ASSUME NEW i \in 1 .. Len(list), i # k
      PROVE  Old(i) \in 1 .. Len(maps) /\ list[i] = maps[Old(i)]
  BY <1>1, <1>2, <1>3
<1>4. ASSUME NEW i \in 1 .. Len(list), NEW j \in 1 .. Len(list), i # j
      PROVE  Apart(list, i, j)
  <2>1. CASE i = k
    <3>1. list[i] = m /\ j # k
      BY <1>2, <1>4, <2>1
    <3> QED
      BY <1>3, <3>1 DEF Apart
  <2>2. CASE j = k
    <3>1. list[j] = m /\ i # k
      BY <1>2, <1>4, <2>2
    <3> QED
      BY <1>3, <3>1 DEF Apart
  <2>3. CASE i # k /\ j # k
    <3>1. Old(i) # Old(j)
      BY <1>4, <2>3
    <3>2. Apart(maps, Old(i), Old(j))
      BY <1>3, <2>3, <3>1 DEF AllApart
    <3> QED
      BY <1>3, <2>3, <3>2 DEF Apart
  <2> QED
    BY <2>1, <2>2, <2>3
<1> QED
  BY <1>4 DEF AllApart

\* If a list is well placed after map_memory then it was before, and the new
\* map is well placed itself.
LEMMA WellPlacedBefore ==
    ASSUME NEW list \in Seq(Map), NEW m \in Map, NEW new \in MapMemory(list, m),
           WellPlaced(new)
    PROVE  /\ WellPlaced(list)
           /\ m.start <= m.end /\ m.end < Pages - 1
<1>1. \A i \in 1 .. Len(list) : \E j \in 1 .. Len(new) : new[j] = list[i]
  BY MapMemoryElements
<1>2. \E j \in 1 .. Len(new) : new[j] = m
  BY MapMemoryElements
<1> QED
  BY <1>1, <1>2 DEF WellPlaced

\* The block of a modest request meets no map of a sound list, if the list is
\* well placed with it.
LEMMA BlockMeetsNone ==
    ASSUME NEW list \in Seq(Map), SortedByEnd(list),
           WellPlaced(list) => Disjoint(list),
           NEW n \in Nat, n <= Pages \div 2 - 2, NEW kind \in Kind,
           MoreMemory(list, n) # NoAddress,
           NEW new \in MapMemory(list, Block(kind, MoreMemory(list, n), n)),
           WellPlaced(new)
    PROVE  /\ WellPlaced(list)
           /\ \A i \in 1 .. Len(list) :
                \/ list[i].end < Block(kind, MoreMemory(list, n), n).start
                \/ Block(kind, MoreMemory(list, n), n).end < list[i].start
<1> DEFINE m == Block(kind, MoreMemory(list, n), n)
<1>1. m \in Map
  BY MoreMemoryType, BlockType
<1>2. new \in Seq(Map)
  BY <1>1, MapMemoryProperties
<1>3. WellPlaced(list) /\ m.start <= m.end /\ m.end < Pages - 1
  BY <1>1, <1>2, WellPlacedBefore
<1>4. CASE list = <<>>
  BY <1>3, <1>4
<1>5. CASE list # <<>>
  BY <1>3, <1>5, MoreMemoryIsFree
<1> QED
  BY <1>4, <1>5

\* Mapping the block that more_memory finds for a modest request keeps the
\* list sorted, and disjoint as long as it is well placed.
LEMMA MapBlockSound ==
    ASSUME NEW list \in Seq(Map), SortedByEnd(list),
           WellPlaced(list) => Disjoint(list),
           NEW n \in Nat, n <= Pages \div 2 - 2, NEW kind \in Kind,
           MoreMemory(list, n) # NoAddress,
           NEW new \in MapMemory(list, Block(kind, MoreMemory(list, n), n))
    PROVE  /\ new \in Seq(Map)
           /\ SortedByEnd(new)
           /\ WellPlaced(new) => Disjoint(new)
<1> DEFINE m == Block(kind, MoreMemory(list, n), n)
<1>1. m \in Map
  BY MoreMemoryType, BlockType
<1>2. new \in Seq(Map) /\ SortedByEnd(new)
  BY <1>1, MapMemoryProperties, MapMemorySorted
<1>3. ASSUME WellPlaced(new)
      PROVE  Disjoint(new)
  <2>1. /\ WellPlaced(list)
        /\ \A i \in 1 .. Len(list) : list[i].end < m.start \/ m.end < list[i].start
    BY <1>3, BlockMeetsNone
  <2> HIDE DEF m
  <2> QED
    BY <1>1, <2>1, MapMemoryDisjoint DEF m
<1> QED
  BY <1>2, <1>3

\* Mapping the block that more_memory finds for a modest request keeps the
\* maps apart as long as the list is well placed.
LEMMA MapBlockApart ==
    ASSUME NEW list \in Seq(Map), SortedByEnd(list),
           WellPlaced(list) => AllApart(list),
           NEW n \in Nat, n <= Pages \div 2 - 2, NEW kind \in Kind,
           MoreMemory(list, n) # NoAddress,
           NEW new \in MapMemory(list, Block(kind, MoreMemory(list, n), n)),
           WellPlaced(new)
    PROVE  AllApart(new)
<1> DEFINE m == Block(kind, MoreMemory(list, n), n)
<1>1. m \in Map
  BY MoreMemoryType, BlockType
<1>2. WellPlaced(list) /\ m.start <= m.end /\ m.end < Pages - 1
  BY <1>1, WellPlacedBefore
<1>3. \A i \in 1 .. Len(list) :
        list[i].end + 1 < m.start \/ m.end + 1 < list[i].start
  <2>1. CASE list = <<>>
    BY <2>1
  <2>2. CASE list # <<>>
    BY <1>2, <2>2, MoreMemoryIsApart
  <2> QED
    BY <2>1, <2>2
<1> HIDE DEF m
<1> QED
  BY <1>1, <1>2, <1>3, MapMemoryApart DEF m
=============================================================================
