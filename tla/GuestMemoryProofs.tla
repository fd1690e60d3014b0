-------------------------- MODULE GuestMemoryProofs --------------------------
(***************************************************************************)
(* Guest memory, for every image, every size of the space and every call:  *)
(* as long as no block runs over the end of the address space, each map    *)
(* has a host block of its own, the range tests let nothing through but    *)
(* ranges that wrap, and the HLE functions give the program flat memory.   *)
(***************************************************************************)
EXTENDS GuestMemory, MemoryMapTheorems

-----------------------------------------------------------------------------
(* Bytes and pages *)

\* Scaling by the bytes of a page keeps the order.
LEMMA Scale ==
    ASSUME NEW x \in Int, NEW y \in Int
    PROVE  /\ x * PageBytes \in Int
           /\ x <= y => x * PageBytes <= y * PageBytes
           /\ x < y => x * PageBytes + PageBytes <= y * PageBytes
<1>1. PageBytes \in Int /\ PageBytes > 0
  BY SizesAssumption
<1>2. ASSUME x <= y PROVE x * PageBytes <= y * PageBytes
  BY <1>1, <1>2
<1>3. ASSUME x < y PROVE x * PageBytes + PageBytes <= y * PageBytes
  BY <1>1, <1>3
<1> QED
  BY <1>1, <1>2, <1>3

\* An address lies in its page.
LEMMA PageOfByte ==
    ASSUME NEW a \in Nat
    PROVE  /\ a \div PageBytes \in Nat
           /\ (a \div PageBytes) * PageBytes <= a
           /\ a < (a \div PageBytes) * PageBytes + PageBytes
BY SizesAssumption

\* What is stored in a byte is one.
LEMMA BytesAreBytes ==
    /\ 0 \in ByteSet /\ ByteSet \subseteq Nat
    /\ \A x \in Nat : x % ByteValues \in ByteSet
    /\ \A x \in Nat, i \in 0 .. WordBytes - 1 : (x \div ByteValues ^ i) % ByteValues \in ByteSet
BY SizesAssumption DEF ByteSet

\* The address is one of the map's.
Within(m, a) == FirstByte(m) <= a /\ a <= LastByte(m)

\* The bounds of a map in bytes: whole pages within the space.
LEMMA ByteBounds ==
    ASSUME NEW m \in Map
    PROVE  /\ FirstByte(m) \in Address /\ LastByte(m) \in Int
           /\ SizeOf(m) = LastByte(m) - FirstByte(m) + 1
           /\ SizeOf(m) = (m.end - m.start + 1) * PageBytes
           /\ m.start <= m.end => SizeOf(m) \in Nat \ {0} /\ FirstByte(m) <= LastByte(m)
           /\ m.end < Pages - 1 => LastByte(m) < Bytes - 1
<1>1. m.start \in Int /\ m.end \in Int /\ 0 <= m.start /\ m.start < Pages /\ Pages \in Int
  BY PagesAssumption DEF Map, Page
<1>2. PageBytes \in Int /\ PageBytes > 0
  BY SizesAssumption
<1>3. /\ 0 * PageBytes <= m.start * PageBytes
      /\ m.start * PageBytes + PageBytes <= Pages * PageBytes
      /\ m.start * PageBytes \in Int /\ Pages * PageBytes \in Int
  BY <1>1, Scale
<1>4. FirstByte(m) \in Address
  BY <1>2, <1>3 DEF FirstByte, Address, Bytes
<1>5. (m.end + 1) * PageBytes \in Int
  BY <1>1, Scale
<1>6. LastByte(m) \in Int
  BY <1>5 DEF LastByte
<1>7. SizeOf(m) = (m.end - m.start + 1) * PageBytes
  BY <1>1, <1>2 DEF SizeOf, LastByte, FirstByte
<1>8. ASSUME m.start <= m.end
      PROVE  SizeOf(m) \in Nat \ {0} /\ FirstByte(m) <= LastByte(m)
  <2>1. m.start * PageBytes + PageBytes <= (m.end + 1) * PageBytes
    BY <1>1, <1>8, Scale
  <2> QED
    BY <1>2, <1>3, <1>5, <2>1 DEF SizeOf, LastByte, FirstByte
<1>9. ASSUME m.end < Pages - 1
      PROVE  LastByte(m) < Bytes - 1
  <2>1. (m.end + 1) * PageBytes + PageBytes <= Pages * PageBytes
    BY <1>1, <1>9, Scale
  <2> QED
    BY <1>2, <1>3, <1>5, <2>1 DEF LastByte, Bytes
<1> QED
  BY <1>4, <1>6, <1>7, <1>8, <1>9 DEF SizeOf

\* A map covers the page of an address if the address is one of its own.
LEMMA Covering ==
    ASSUME NEW m \in Map, NEW a \in Nat
    PROVE  Covers(m, a \div PageBytes) <=> Within(m, a)
<1> DEFINE p == a \div PageBytes
<1>1. m.start \in Int /\ m.end \in Int /\ p \in Int /\ p * PageBytes \in Int
  BY PageOfByte, Scale DEF Map, Page
<1>2. p * PageBytes <= a /\ a < p * PageBytes + PageBytes
  BY PageOfByte
<1> HIDE DEF p
<1>3. PageBytes \in Int /\ FirstByte(m) = m.start * PageBytes /\ FirstByte(m) \in Int
  BY <1>1, SizesAssumption, Scale DEF FirstByte
<1>4. LastByte(m) = (m.end + 1) * PageBytes - 1 /\ (m.end + 1) * PageBytes \in Int
  BY <1>1, Scale DEF LastByte
<1>5. ASSUME m.start <= p, p <= m.end
      PROVE  Within(m, a)
  <2>1. m.start * PageBytes <= p * PageBytes
    BY <1>1, <1>5, Scale
  <2>2. p < m.end + 1
    BY <1>1, <1>5
  <2>3. p * PageBytes + PageBytes <= (m.end + 1) * PageBytes
    BY <1>1, <2>2, Scale
  <2> QED
    BY <1>1, <1>2, <1>3, <1>4, <2>1, <2>3 DEF Within
<1>6. ASSUME p < m.start
      PROVE  ~ Within(m, a)
  <2>1. p * PageBytes + PageBytes <= m.start * PageBytes
    BY <1>1, <1>6, Scale
  <2> QED
    BY <1>1, <1>2, <1>3, <2>1 DEF Within
<1>7. ASSUME m.end < p
      PROVE  ~ Within(m, a)
  <2>1. m.end + 1 <= p
    BY <1>1, <1>7
  <2>2. (m.end + 1) * PageBytes <= p * PageBytes
    BY <1>1, <2>1, Scale
  <2> QED
    BY <1>1, <1>2, <1>4, <2>2 DEF Within
<1> QED
  BY <1>1, <1>5, <1>6, <1>7 DEF Covers, p

\* Maps without a page in common have no address in common.
LEMMA BytesApart ==
    ASSUME NEW m \in Map, NEW o \in Map, m.end < o.start
    PROVE  LastByte(m) < FirstByte(o)
<1>1. m.end \in Int /\ o.start \in Int /\ m.end + 1 <= o.start
  BY DEF Map, Page
<1>2. /\ (m.end + 1) * PageBytes <= o.start * PageBytes
      /\ (m.end + 1) * PageBytes \in Int /\ o.start * PageBytes \in Int
  BY <1>1, Scale
<1> QED
  BY <1>2 DEF LastByte, FirstByte

-----------------------------------------------------------------------------
(* Lists of maps *)

\* What the program's list is, as long as no block ran over the end.
Sound(list) == list \in Seq(Map) /\ WellPlaced(list) /\ Disjoint(list)

\* The maps of a sound list.
LEMMA SoundMaps ==
    ASSUME NEW list, Sound(list), NEW i \in 1 .. Len(list)
    PROVE  /\ list[i] \in Map
           /\ list[i].start <= list[i].end /\ list[i].end < Pages - 1
           /\ FirstByte(list[i]) \in Address /\ LastByte(list[i]) \in Address
           /\ FirstByte(list[i]) <= LastByte(list[i])
           /\ LastByte(list[i]) < Bytes - 1
           /\ SizeOf(list[i]) \in Nat \ {0}
           /\ SizeOf(list[i]) = LastByte(list[i]) - FirstByte(list[i]) + 1
<1>1. list[i] \in Map
  BY MapBounds DEF Sound
<1>2. list[i].start <= list[i].end /\ list[i].end < Pages - 1
  BY DEF Sound, WellPlaced
<1>3. Bytes \in Int
  BY PagesAssumption, Scale DEF Bytes
<1> QED
  BY <1>1, <1>2, <1>3, ByteBounds DEF Address

\* Two maps of a sound list have no address in common, and no start.
LEMMA SoundApart ==
    ASSUME NEW list, Sound(list), NEW i \in 1 .. Len(list), NEW j \in 1 .. Len(list),
           i # j
    PROVE  /\ \/ LastByte(list[i]) < FirstByte(list[j])
              \/ LastByte(list[j]) < FirstByte(list[i])
           /\ list[i].start # list[j].start
<1>1. list[i].end < list[j].start \/ list[j].end < list[i].start
  BY DEF Sound, Disjoint
<1>2. list[i] \in Map /\ list[j] \in Map
  BY SoundMaps
<1>3. list[i].start <= list[i].end /\ list[j].start <= list[j].end
  BY SoundMaps
<1>4. list[i].start # list[j].start
  BY <1>1, <1>2, <1>3 DEF Map, Page
<1> QED
  BY <1>1, <1>2, <1>4, BytesApart

\* An address is in at most one map.
LEMMA OneMap ==
    ASSUME NEW list, Sound(list), NEW a \in Nat,
           NEW i \in 1 .. Len(list), NEW j \in 1 .. Len(list),
           Within(list[i], a), Within(list[j], a)
    PROVE  i = j
<1> SUFFICES ASSUME i # j PROVE FALSE
  OBVIOUS
<1>1. \/ LastByte(list[i]) < FirstByte(list[j])
      \/ LastByte(list[j]) < FirstByte(list[i])
  BY SoundApart
<1>2. /\ FirstByte(list[i]) \in Int /\ LastByte(list[i]) \in Int
      /\ FirstByte(list[j]) \in Int /\ LastByte(list[j]) \in Int
  BY SoundMaps DEF Address
<1> QED
  BY <1>1, <1>2 DEF Within

\* The map that get_pointer_unchecked finds is the one the address is in.
LEMMA LookupFinds ==
    ASSUME NEW list, Sound(list), NEW a \in Nat, NEW i \in 1 .. Len(list),
           Within(list[i], a)
    PROVE  /\ Hits(list, a \div PageBytes) = {i}
           /\ Lookup(list, a \div PageBytes) = list[i]
<1>1. \A j \in 1 .. Len(list) : Covers(list[j], a \div PageBytes) <=> Within(list[j], a)
  BY SoundMaps, Covering
<1>2. Hits(list, a \div PageBytes) = {i}
  BY <1>1, OneMap DEF Hits
<1>3. (CHOOSE k \in {i} : \A j \in {i} : k <= j) = i
  OBVIOUS
<1> QED
  BY <1>2, <1>3 DEF Lookup

\* The pointer to an address of a map is to the byte of its block that is as
\* far from the front as the address is.
LEMMA PointerFinds ==
    ASSUME NEW list, Sound(list), NEW a \in Nat, NEW i \in 1 .. Len(list),
           Within(list[i], a)
    PROVE  /\ PointerIn(list, a) = [block |-> list[i].start, offset |-> a - FirstByte(list[i])]
           /\ PointerIn(list, a) # Null
<1>1. PointerIn(list, a) = [block |-> list[i].start, offset |-> a - FirstByte(list[i])]
  BY LookupFinds DEF PointerIn
<1>2. list[i].start # Pages
  BY SoundMaps, PagesAssumption DEF Map, Page
<1> QED
  BY <1>1, <1>2 DEF Null

\* There is a pointer to an address only if it is in some map.
LEMMA PointerNeedsMap ==
    ASSUME NEW list, Sound(list), NEW a \in Nat, PointerIn(list, a) # Null
    PROVE  \E i \in 1 .. Len(list) : Within(list[i], a)
<1>1. Hits(list, a \div PageBytes) # {}
  BY DEF PointerIn
<1> QED
  BY <1>1, SoundMaps, Covering DEF Hits

-----------------------------------------------------------------------------
(* Host blocks *)

\* Every map has a host block of its size, and there are no others.
DataTyped(list, d) ==
    /\ DOMAIN d = { list[i].start : i \in 1 .. Len(list) }
    /\ \A i \in 1 .. Len(list) : d[list[i].start] \in [0 .. SizeOf(list[i]) - 1 -> ByteSet]

\* A function on 1 .. n is a sequence of length n.
LEMMA BytesAreSeq ==
    ASSUME NEW n \in Nat, NEW bytes \in [1 .. n -> ByteSet]
    PROVE  bytes \in Seq(ByteSet) /\ Len(bytes) = n /\ DOMAIN bytes = 1 .. n
OBVIOUS

\* Writing bytes at a pointer leaves every block a block of its size.
LEMMA PokeTyped ==
    ASSUME NEW list, NEW d, DataTyped(list, d), NEW p, p.offset \in Int,
           NEW n \in Nat, NEW bytes \in [1 .. n -> ByteSet]
    PROVE  DataTyped(list, Poke(d, p, bytes))
<1>1. DOMAIN Poke(d, p, bytes) = DOMAIN d
  BY DEF Poke
<1>2. ASSUME NEW i \in 1 .. Len(list)
      PROVE  Poke(d, p, bytes)[list[i].start] \in [0 .. SizeOf(list[i]) - 1 -> ByteSet]
  <2> DEFINE b   == list[i].start
             old == d[b]
             new == [o \in DOMAIN old |-> IF o - p.offset + 1 \in DOMAIN bytes
                                          THEN bytes[o - p.offset + 1] ELSE old[o]]
  <2>1. b \in DOMAIN d /\ old \in [0 .. SizeOf(list[i]) - 1 -> ByteSet]
    BY DEF DataTyped
  <2>2. new \in [0 .. SizeOf(list[i]) - 1 -> ByteSet]
    <3> HIDE DEF old
    <3> QED
      BY <2>1
  <2>3. Poke(d, p, bytes)[b] = IF b = p.block THEN new ELSE old
    BY <2>1, Zenon DEF Poke
  <2> HIDE DEF old, new
  <2> QED
    BY <2>1, <2>2, <2>3
<1> QED
  BY <1>1, <1>2 DEF DataTyped

\* A new block of zeros beside those of the other maps.
LEMMA NewBlockTyped ==
    ASSUME NEW list, Sound(list), NEW m \in Map, NEW new \in MapMemory(list, m),
           Sound(new), NEW d, DataTyped(list, d),
           \A i \in 1 .. Len(list) : list[i].end < m.start \/ m.end < list[i].start
    PROVE  /\ DataTyped(new, WithBlock(d, m))
           /\ \A o \in 0 .. SizeOf(m) - 1 : WithBlock(d, m)[m.start][o] = 0
           /\ \A i \in 1 .. Len(list) :
                /\ list[i].start # m.start
                /\ WithBlock(d, m)[list[i].start] = d[list[i].start]
<1> DEFINE zeros == [o \in 0 .. SizeOf(m) - 1 |-> 0]
           e     == WithBlock(d, m)
<1>1. zeros \in [0 .. SizeOf(m) - 1 -> ByteSet]
  BY BytesAreBytes
<1> HIDE DEF zeros
<1>2. DOMAIN d = { list[i].start : i \in 1 .. Len(list) }
  BY DEF DataTyped
<1>3. \A i \in 1 .. Len(list) : list[i].start # m.start
  <2>1. \E j \in 1 .. Len(new) : new[j] = m
    BY MapMemoryElements DEF Sound
  <2>2. m.start <= m.end
    BY <2>1, SoundMaps
  <2>3. \A i \in 1 .. Len(list) : list[i] \in Map /\ list[i].start <= list[i].end
    BY SoundMaps
  <2> QED
    BY <2>2, <2>3 DEF Map, Page
<1>4. DOMAIN e = DOMAIN d \cup {m.start}
  BY DEF WithBlock
<1>5. e[m.start] = zeros
  BY <1>2, <1>3 DEF WithBlock, zeros
<1>6. \A i \in 1 .. Len(list) : e[list[i].start] = d[list[i].start]
  BY <1>2, <1>3 DEF WithBlock, zeros
<1> HIDE DEF e
<1>7. /\ \A i \in 1 .. Len(list) : \E j \in 1 .. Len(new) : new[j] = list[i]
      /\ \E j \in 1 .. Len(new) : new[j] = m
      /\ \A j \in 1 .. Len(new) : new[j] = m \/ \E i \in 1 .. Len(list) : new[j] = list[i]
  BY MapMemoryElements DEF Sound
<1>8. DOMAIN e = { new[j].start : j \in 1 .. Len(new) }
  <2>1. ASSUME NEW x \in DOMAIN e
        PROVE  \E j \in 1 .. Len(new) : x = new[j].start
    BY <1>2, <1>4, <1>7
  <2>2. ASSUME NEW j \in 1 .. Len(new)
        PROVE  new[j].start \in DOMAIN e
    BY <1>2, <1>4, <1>7
  <2> QED
    BY <2>1, <2>2
<1>9. ASSUME NEW j \in 1 .. Len(new)
      PROVE  e[new[j].start] \in [0 .. SizeOf(new[j]) - 1 -> ByteSet]
  <2>1. CASE new[j] = m
    BY <1>1, <1>5, <2>1
  <2>2. ASSUME NEW i \in 1 .. Len(list), new[j] = list[i]
        PROVE  e[new[j].start] \in [0 .. SizeOf(new[j]) - 1 -> ByteSet]
    BY <1>6, <2>2 DEF DataTyped
  <2> QED
    BY <1>7, <2>1, <2>2
<1>10. DataTyped(new, e)
  BY <1>8, <1>9 DEF DataTyped
<1> QED
  BY <1>3, <1>5, <1>6, <1>10 DEF e, zeros

\* How far the host may go from a pointer: to the end of the map.
LEMMA TouchableInMap ==
    ASSUME Sound(maps), DataTyped(maps, data), NEW a \in Nat,
           NEW i \in 1 .. Len(maps), Within(maps[i], a), NEW n \in Nat
    PROVE  Touchable(Pointer(a), n) <=> n = 0 \/ a + n - 1 <= LastByte(maps[i])
<1> DEFINE first == FirstByte(maps[i])
           last  == LastByte(maps[i])
<1>1. /\ Pointer(a) = [block |-> maps[i].start, offset |-> a - first]
      /\ Pointer(a) # Null
  BY PointerFinds DEF Pointer
<1>2. DOMAIN data[maps[i].start] = 0 .. SizeOf(maps[i]) - 1
  BY DEF DataTyped
<1>3. first \in Int /\ last \in Int /\ SizeOf(maps[i]) = last - first + 1
  BY SoundMaps DEF Address
<1>4. first <= a
  BY DEF Within
<1> HIDE DEF first, last
<1>5. Touchable(Pointer(a), n) <=> n = 0 \/ (a - first) + n - 1 \in 0 .. last - first
  BY <1>1, <1>2, <1>3 DEF Touchable
<1>6. ASSUME n # 0
      PROVE  (a - first) + n - 1 \in 0 .. last - first <=> a + n - 1 <= last
  BY <1>3, <1>4, <1>6
<1> QED
  BY <1>5, <1>6 DEF last

\* What the host reads at a pointer are bytes.
LEMMA PeekTyped ==
    ASSUME Sound(maps), DataTyped(maps, data), NEW a \in Nat,
           NEW i \in 1 .. Len(maps), Within(maps[i], a),
           NEW n \in Nat, a + n - 1 <= LastByte(maps[i])
    PROVE  Peek(Pointer(a), n) \in [1 .. n -> ByteSet]
<1> DEFINE first == FirstByte(maps[i])
           last  == LastByte(maps[i])
<1>1. Pointer(a) = [block |-> maps[i].start, offset |-> a - first]
  BY PointerFinds DEF Pointer
<1>2. data[maps[i].start] \in [0 .. SizeOf(maps[i]) - 1 -> ByteSet]
  BY DEF DataTyped
<1>3. first \in Int /\ last \in Int /\ SizeOf(maps[i]) = last - first + 1
  BY SoundMaps DEF Address
<1>4. first <= a
  BY DEF Within
<1> HIDE DEF first
<1>5. ASSUME NEW k \in 1 .. n
      PROVE  (a - first) + k - 1 \in 0 .. SizeOf(maps[i]) - 1
  <2> HIDE DEF last
  <2>1. a + n - 1 <= last
    BY DEF last
  <2> QED
    BY <1>3, <1>4, <2>1
<1>6. \A k \in 1 .. n :
        data[maps[i].start][(a - first) + k - 1] \in ByteSet
  BY <1>2, <1>5
<1>7. Peek(Pointer(a), n) =
        [k \in 1 .. n |-> data[maps[i].start][(a - first) + k - 1]]
  BY <1>1 DEF Peek
<1> QED
  BY <1>6, <1>7

\* A map holds n bytes from an address on.
Holds(a, n) == \E i \in 1 .. Len(maps) : Within(maps[i], a) /\ a + n - 1 <= LastByte(maps[i])

\* What a host pointer may touch: bytes that a map holds.
LEMMA TouchableHolds ==
    ASSUME Sound(maps), DataTyped(maps, data), NEW a \in Nat, NEW n \in Nat
    PROVE  Touchable(Pointer(a), n) <=> n = 0 \/ Holds(a, n)
<1>1. ASSUME NEW i \in 1 .. Len(maps), Within(maps[i], a)
      PROVE  Touchable(Pointer(a), n) <=> n = 0 \/ a + n - 1 <= LastByte(maps[i])
  BY <1>1, TouchableInMap
<1>2. ASSUME NEW i \in 1 .. Len(maps), Within(maps[i], a),
             NEW j \in 1 .. Len(maps), Within(maps[j], a)
      PROVE  i = j
  BY <1>2, OneMap
<1>3. n # 0 /\ Touchable(Pointer(a), n) => \E i \in 1 .. Len(maps) : Within(maps[i], a)
  BY PointerNeedsMap DEF Pointer, Touchable
<1>4. CASE \E i \in 1 .. Len(maps) : Within(maps[i], a)
  <2>1. PICK i \in 1 .. Len(maps) : Within(maps[i], a)
    BY <1>4
  <2>2. Holds(a, n) <=> a + n - 1 <= LastByte(maps[i])
    BY <1>2, <2>1, Zenon DEF Holds
  <2> QED
    BY <1>1, <2>1, <2>2, Zenon
<1>5. CASE ~ \E i \in 1 .. Len(maps) : Within(maps[i], a)
  <2>1. n = 0 => Touchable(Pointer(a), n)
    BY DEF Touchable
  <2> QED
    BY <1>3, <1>5, <2>1, Zenon DEF Holds
<1> QED
  BY <1>4, <1>5

\* There is a pointer to an address if it is mapped.
LEMMA PointerHolds ==
    ASSUME Sound(maps), NEW a \in Nat
    PROVE  Pointer(a) # Null <=> Holds(a, 1)
<1>1. \A i \in 1 .. Len(maps) : Within(maps[i], a) => a + 1 - 1 <= LastByte(maps[i])
  BY DEF Within
<1>2. Pointer(a) # Null => \E i \in 1 .. Len(maps) : Within(maps[i], a)
  BY PointerNeedsMap DEF Pointer
<1>3. ASSUME NEW i \in 1 .. Len(maps), Within(maps[i], a)
      PROVE  Pointer(a) # Null
  BY <1>3, PointerFinds DEF Pointer
<1> QED
  BY <1>1, <1>2, <1>3, Zenon DEF Holds

\* What the host writes, by what the maps hold.
LEMMA WrittenHolds ==
    ASSUME Sound(maps), DataTyped(maps, data), NEW a \in Nat,
           NEW n \in Nat, NEW bytes \in [1 .. n -> ByteSet],
           HostWrites(Pointer(a), bytes)
    PROVE  \/ n = 0 /\ UNCHANGED <<data, host>>
           \/ /\ n # 0 /\ Holds(a, n) /\ UNCHANGED host
              /\ data' = Poke(data, Pointer(a), bytes)
           \/ n # 0 /\ ~ Holds(a, n) /\ host' = "undefined" /\ UNCHANGED data
<1>1. Len(bytes) = n /\ (bytes = <<>> <=> n = 0)
  BY BytesAreSeq, EmptySeq
<1>2. /\ Touchable(Pointer(a), n) => UNCHANGED host /\ data' = IF n = 0 THEN data ELSE Poke(data, Pointer(a), bytes)
      /\ ~ Touchable(Pointer(a), n) => host' = "undefined" /\ UNCHANGED data
  BY <1>1 DEF HostWrites
<1>3. Touchable(Pointer(a), n) <=> n = 0 \/ Holds(a, n)
  BY TouchableHolds
<1> QED
  BY <1>2, <1>3, Zenon

\* Whatever the host writes, the blocks stay blocks of bytes.
LEMMA WrittenTyped ==
    ASSUME Sound(maps), DataTyped(maps, data), NEW a \in Nat,
           NEW n \in Nat, NEW bytes \in [1 .. n -> ByteSet],
           HostWrites(Pointer(a), bytes)
    PROVE  DataTyped(maps, data') /\ host' \in {host, "undefined"}
<1>1. ASSUME NEW i \in 1 .. Len(maps), Within(maps[i], a)
      PROVE  DataTyped(maps, Poke(data, Pointer(a), bytes))
  <2>1. Pointer(a).offset = a - FirstByte(maps[i])
    BY <1>1, PointerFinds DEF Pointer
  <2>2. Pointer(a).offset \in Int
    BY <2>1, SoundMaps DEF Address
  <2> QED
    BY <2>2, PokeTyped
<1> QED
  BY <1>1, WrittenHolds, Zenon DEF Holds

-----------------------------------------------------------------------------
(* The invariant *)

FramebufferTyped ==
    framebuffer \in [ params : {<<>>} \cup [1 .. FramebufferBytes -> ByteSet],
                      based  : BOOLEAN ]

\* What holds whatever becomes of the blocks.
Scalars ==
    /\ maps \in Seq(Map) /\ SortedByEnd(maps)
    /\ host \in {"loading", "running", "undefined", "terminated"}
    /\ loaded \in 0 .. Len(Image)
    /\ fake_address \in Address
    /\ r0 \in {-1} \cup Address
    /\ calls \in 0 .. MaxCalls

\* While the program is loaded, the maps are those of the segments so far.
MapsAreSegments ==
    host = "loading" =>
        \A i \in 1 .. Len(maps) : \E k \in 1 .. loaded : maps[i] = Image[k].map

\* As long as no block ran over the end of the space, the maps are disjoint
\* and each has a block of its own.
Blocks ==
    WellPlaced(maps) =>
        Disjoint(maps) /\ DataTyped(maps, data) /\ FramebufferTyped /\ RangeCheckHolds

GuestInv == Scalars /\ MapsAreSegments /\ Blocks

\* The sizes asked for are modest, and the addresses and lengths are words.
LEMMA Inputs ==
    /\ Bytes \in Nat /\ Bytes > 8
    /\ Addresses \subseteq Nat /\ \A a \in Addresses : a < Bytes
    /\ Lengths \subseteq Nat /\ \A n \in Lengths : n < Bytes
    /\ \A ch \in Characters : ch % ByteValues \in ByteSet
    /\ \A size \in BlockSizes :
         /\ size \in Nat
         /\ MemorySize(size \div PageBytes) = size \div PageBytes + 1
         /\ MemorySize(size \div PageBytes) <= Pages \div 2 - 2
<1>1. Bytes \in Nat /\ Bytes > 8
  <2>1. Pages \in Int /\ Pages > 8 /\ PageBytes \in Int /\ PageBytes > 0
    BY PagesAssumption, SizesAssumption
  <2>2. 8 * PageBytes + PageBytes <= Pages * PageBytes
    BY <2>1, Scale
  <2> QED
    BY <2>1, <2>2 DEF Bytes
<1>2. /\ Addresses \subseteq Nat /\ \A a \in Addresses : a < Bytes
      /\ Lengths \subseteq Nat /\ \A n \in Lengths : n < Bytes
  BY <1>1, GuestMemoryAssumption DEF Address
<1>3. \A ch \in Characters : ch % ByteValues \in ByteSet
  BY BytesAreBytes, GuestMemoryAssumption
<1>4. ASSUME NEW size \in BlockSizes
      PROVE  /\ size \in Nat
             /\ MemorySize(size \div PageBytes) = size \div PageBytes + 1
             /\ MemorySize(size \div PageBytes) <= Pages \div 2 - 2
  <2> DEFINE q == size \div PageBytes
  <2>1. size \in Nat /\ 4 * size <= Bytes
    BY <1>1, GuestMemoryAssumption
  <2>2. q \in Nat /\ q * PageBytes <= size /\ q * PageBytes \in Int
    BY <2>1, PageOfByte, Scale
  <2>3. PageBytes \in Int /\ PageBytes > 0 /\ Bytes = Pages * PageBytes /\ Pages \in Int
    BY PagesAssumption, SizesAssumption DEF Bytes
  <2> HIDE DEF q
  <2>4. (4 * q) * PageBytes = 4 * (q * PageBytes)
    BY <2>2, <2>3
  <2>5. 4 * q <= Pages
    <3> SUFFICES ASSUME Pages < 4 * q PROVE FALSE
      BY <2>2, <2>3
    <3>1. Pages * PageBytes + PageBytes <= (4 * q) * PageBytes
      BY <2>2, <2>3, Scale
    <3> QED
      BY <1>1, <2>1, <2>2, <2>3, <2>4, <3>1
  <2>6. q + 1 \in 0 .. Pages - 1 /\ q + 1 <= Pages \div 2 - 2
    BY <2>2, <2>5, PagesAssumption
  <2>7. (q + 1) % Pages = q + 1
    BY <2>6, Wrap DEF Page
  <2> QED
    BY <2>1, <2>6, <2>7 DEF MemorySize, q
<1> QED
  BY <1>1, <1>2, <1>3, <1>4

-----------------------------------------------------------------------------
(* Steps preserve the invariant *)

\* At first there are no maps and no blocks.
LEMMA GuestInit == Init => GuestInv
<1> SUFFICES ASSUME Init PROVE GuestInv
  OBVIOUS
<1>1. maps \in Seq(Map) /\ Len(maps) = 0
  BY DEF Init
<1>2. Scalars
  <2>1. 0 \in Address
    BY Inputs DEF Address
  <2>2. Len(Image) \in Nat
    BY GuestMemoryAssumption
  <2> QED
    BY <1>1, <2>1, <2>2, SizesAssumption DEF Init, Scalars, SortedByEnd
<1>3. MapsAreSegments
  BY <1>1 DEF MapsAreSegments
<1>4. Disjoint(maps) /\ DataTyped(maps, data)
  BY <1>1 DEF Init, Disjoint, DataTyped
<1>5. FramebufferTyped /\ RangeCheckHolds
  BY DEF Init, FramebufferTyped, RangeCheckHolds
<1> QED
  BY <1>2, <1>3, <1>4, <1>5 DEF GuestInv, Blocks

\* The segments of the executable.
LEMMA Segments ==
    ASSUME NEW k \in 1 .. Len(Image)
    PROVE  /\ Image[k].map \in Map
           /\ Image[k].map.start <= Image[k].map.end /\ Image[k].map.end < Pages - 1
           /\ Image[k].bytes \in Seq(ByteSet)
           /\ Len(Image[k].bytes) <= SizeOf(Image[k].map)
           /\ \A j \in 1 .. Len(Image) :
                j # k => \/ Image[j].map.end < Image[k].map.start
                         \/ Image[k].map.end < Image[j].map.start
<1> DEFINE list == [i \in 1 .. Len(Image) |-> Image[i].map]
<1>1. /\ Image \in Seq([map : Map, bytes : Seq(ByteSet)])
      /\ \A i \in 1 .. Len(Image) :
           Len(Image[i].bytes) <= (Image[i].map.end - Image[i].map.start + 1) * PageBytes
      /\ Disjoint(list) /\ WellPlaced(list)
  BY GuestMemoryAssumption
<1>2. Image[k] \in [map : Map, bytes : Seq(ByteSet)]
  BY <1>1, ElementOfSeq
<1>3. Image[k].map \in Map /\ Image[k].bytes \in Seq(ByteSet)
  BY <1>2
<1>4. Len(list) = Len(Image) /\ \A i \in 1 .. Len(Image) : list[i] = Image[i].map
  BY <1>1
<1> HIDE DEF list
<1>5. Image[k].map.start <= Image[k].map.end /\ Image[k].map.end < Pages - 1
  BY <1>1, <1>4 DEF WellPlaced
<1>6. \A j \in 1 .. Len(Image) :
        j # k => \/ Image[j].map.end < Image[k].map.start
                 \/ Image[k].map.end < Image[j].map.start
  BY <1>1, <1>4 DEF Disjoint
<1> QED
  BY <1>1, <1>3, <1>5, <1>6, ByteBounds

\* A map that is added leaves a list well placed only if it was.
LEMMA SoundBefore ==
    ASSUME NEW list \in Seq(Map), NEW m \in Map, NEW new \in MapMemory(list, m),
           WellPlaced(new), WellPlaced(list) => Disjoint(list),
           \A i \in 1 .. Len(list) : list[i].end < m.start \/ m.end < list[i].start
    PROVE  Sound(list) /\ Sound(new)
<1>1. new \in Seq(Map)
  BY MapMemoryProperties
<1>2. WellPlaced(list)
  BY <1>1, WellPlacedBefore
<1>3. Disjoint(new)
  BY <1>2, MapMemoryDisjoint
<1> QED
  BY <1>1, <1>2, <1>3 DEF Sound

\* What a load of a segment does to the blocks: one more, with the segment's
\* bytes at its front and zeros behind.
LEMMA LoadedBlocks ==
    ASSUME GuestInv, LoadSegment, WellPlaced(maps')
    PROVE  LET m     == Image[loaded + 1].map
               bytes == Image[loaded + 1].bytes
           IN  /\ m \in Map /\ maps' \in MapMemory(maps, m)
               /\ Sound(maps) /\ Sound(maps')
               /\ DataTyped(maps, data) /\ DataTyped(maps', data')
               /\ \A i \in 1 .. Len(maps) :
                    maps[i].end < m.start \/ m.end < maps[i].start
               /\ \A i \in 1 .. Len(maps) :
                    data'[maps[i].start] = data[maps[i].start]
<1> DEFINE m      == Image[loaded + 1].map
           bytes  == Image[loaded + 1].bytes
           blocks == WithBlock(data, m)
           p      == PointerIn(maps', FirstByte(m))
<1>1. maps \in Seq(Map) /\ loaded + 1 \in 1 .. Len(Image) /\ loaded \in Nat
      /\ host = "loading" /\ maps' \in MapMemory(maps, m)
  <2>1. Len(Image) \in Nat
    BY GuestMemoryAssumption
  <2> QED
    BY <2>1 DEF GuestInv, Scalars, LoadSegment
<1>2. /\ m \in Map /\ bytes \in Seq(ByteSet) /\ m.start <= m.end
      /\ \A j \in 1 .. Len(Image) :
           j # loaded + 1 => Image[j].map.end < m.start \/ m.end < Image[j].map.start
  BY <1>1, Segments
<1>3. data' = IF bytes = <<>> THEN blocks ELSE Poke(blocks, p, bytes)
  BY DEF LoadSegment
<1>4. \A i \in 1 .. Len(maps) : maps[i].end < m.start \/ m.end < maps[i].start
  <2>1. ASSUME NEW i \in 1 .. Len(maps)
        PROVE  maps[i].end < m.start \/ m.end < maps[i].start
    <3>1. PICK k \in 1 .. loaded : maps[i] = Image[k].map
      BY <1>1 DEF GuestInv, MapsAreSegments
    <3>2. k \in 1 .. Len(Image) /\ k # loaded + 1
      BY <1>1
    <3> QED
      BY <1>2, <3>1, <3>2
  <2> QED
    BY <2>1
<1> HIDE DEF m, bytes
<1>5. Sound(maps) /\ Sound(maps')
  <2>1. WellPlaced(maps) => Disjoint(maps)
    BY DEF GuestInv, Blocks
  <2> QED
    BY <1>1, <1>2, <1>4, <2>1, SoundBefore
<1>6. DataTyped(maps, data)
  BY <1>5 DEF GuestInv, Blocks, Sound
<1>7. /\ DataTyped(maps', blocks)
      /\ \A i \in 1 .. Len(maps) :
           maps[i].start # m.start /\ blocks[maps[i].start] = data[maps[i].start]
  BY <1>1, <1>2, <1>4, <1>5, <1>6, NewBlockTyped
<1>8. p.block = m.start /\ p.offset \in Int
  <2>1. PICK j \in 1 .. Len(maps') : maps'[j] = m
    BY <1>1, <1>2, MapMemoryElements
  <2>2. FirstByte(m) \in Nat /\ Within(maps'[j], FirstByte(m))
    BY <1>5, <2>1, SoundMaps DEF Within, Address
  <2>3. p = [block |-> maps'[j].start, offset |-> FirstByte(m) - FirstByte(maps'[j])]
    BY <1>5, <2>2, PointerFinds
  <2> QED
    BY <2>1, <2>2, <2>3
<1> HIDE DEF p
<1>9. DataTyped(maps', data')
  <2>1. CASE bytes = <<>>
    BY <1>3, <1>7, <2>1
  <2>2. CASE bytes # <<>>
    <3>1. Len(bytes) \in Nat /\ bytes \in [1 .. Len(bytes) -> ByteSet]
      BY <1>2
    <3>2. DataTyped(maps', Poke(blocks, p, bytes))
      <4> HIDE DEF blocks
      <4> QED
        BY <1>7, <1>8, <3>1, PokeTyped
    <3> QED
      BY <1>3, <2>2, <3>2
  <2> QED
    BY <2>1, <2>2
<1>10. ASSUME NEW i \in 1 .. Len(maps)
       PROVE  data'[maps[i].start] = data[maps[i].start]
  <2>1. Poke(blocks, p, bytes)[maps[i].start] = blocks[maps[i].start]
    <3>1. maps[i].start \in DOMAIN blocks
      BY <1>6 DEF DataTyped, WithBlock
    <3> HIDE DEF blocks
    <3> QED
      BY <1>7, <1>8, <3>1 DEF Poke
  <2> HIDE DEF blocks
  <2> QED
    BY <1>3, <1>7, <2>1
<1> QED
  BY <1>1, <1>2, <1>4, <1>5, <1>6, <1>9, <1>10 DEF m, bytes

\* Loading a segment.
LEMMA LoadSegmentKeeps == GuestInv /\ LoadSegment => GuestInv'
<1> SUFFICES ASSUME GuestInv, LoadSegment PROVE GuestInv'
  OBVIOUS
<1> DEFINE m == Image[loaded + 1].map
<1>1. /\ maps \in Seq(Map) /\ SortedByEnd(maps) /\ loaded \in Nat
      /\ loaded + 1 \in 1 .. Len(Image) /\ maps' \in MapMemory(maps, m)
  <2>1. Len(Image) \in Nat
    BY GuestMemoryAssumption
  <2> QED
    BY <2>1 DEF GuestInv, Scalars, LoadSegment
<1>2. m \in Map
  BY <1>1, Segments
<1>3. /\ maps' \in Seq(Map) /\ SortedByEnd(maps')
      /\ \A j \in 1 .. Len(maps') :
           maps'[j] = m \/ \E i \in 1 .. Len(maps) : maps'[j] = maps[i]
  <2> HIDE DEF m
  <2> QED
    BY <1>1, <1>2, MapMemoryProperties, MapMemorySorted, MapMemoryElements
<1>4. Scalars'
  BY <1>1, <1>3 DEF GuestInv, Scalars, LoadSegment
<1>5. MapsAreSegments'
  <2>1. host = "loading" /\ loaded' = loaded + 1
    BY DEF LoadSegment
  <2>2. \A i \in 1 .. Len(maps) : \E k \in 1 .. loaded : maps[i] = Image[k].map
    BY <2>1 DEF GuestInv, MapsAreSegments
  <2>3. ASSUME NEW j \in 1 .. Len(maps')
        PROVE  \E k \in 1 .. loaded + 1 : maps'[j] = Image[k].map
    <3>1. CASE maps'[j] = m
      BY <1>1, <3>1
    <3>2. ASSUME NEW i \in 1 .. Len(maps), maps'[j] = maps[i]
          PROVE  \E k \in 1 .. loaded + 1 : maps'[j] = Image[k].map
      BY <1>1, <2>2, <3>2
    <3> QED
      BY <1>3, <3>1, <3>2
  <2> QED
    BY <2>1, <2>3 DEF MapsAreSegments
<1>6. ASSUME WellPlaced(maps')
      PROVE  (Disjoint(maps) /\ DataTyped(maps, data) /\ FramebufferTyped /\ RangeCheckHolds)'
  <2>1. Sound(maps) /\ Disjoint(maps') /\ DataTyped(maps', data')
    BY <1>6, LoadedBlocks DEF Sound
  <2>2. FramebufferTyped
    BY <2>1 DEF GuestInv, Blocks, Sound
  <2>3. FramebufferTyped'
    BY <2>2 DEF FramebufferTyped, LoadSegment
  <2>4. RangeCheckHolds'
    BY DEF RangeCheckHolds, LoadSegment
  <2> QED
    BY <2>1, <2>3, <2>4
<1> QED
  BY <1>4, <1>5, <1>6 DEF GuestInv, Blocks

\* Starting the guest.
LEMMA RunGuestKeeps == GuestInv /\ RunGuest => GuestInv'
<1> SUFFICES ASSUME GuestInv, RunGuest PROVE GuestInv'
  OBVIOUS
<1>1. /\ host' = "running"
      /\ UNCHANGED <<maps, data, loaded, fake_address, framebuffer, call, r0, calls>>
  BY DEF RunGuest
<1>2. Scalars'
  BY <1>1 DEF GuestInv, Scalars
<1>3. MapsAreSegments'
  BY <1>1 DEF MapsAreSegments
<1>4. RangeCheckHolds'
  BY <1>1 DEF RangeCheckHolds
<1>5. Blocks'
  BY <1>1, <1>4 DEF GuestInv, Blocks, FramebufferTyped
<1> QED
  BY <1>2, <1>3, <1>5 DEF GuestInv

\* A step of the guest that maps nothing.
LEMMA GuestStepKeeps ==
    ASSUME GuestInv, host = "running", UNCHANGED <<maps, loaded>>,
           host' \in {"running", "undefined", "terminated"},
           calls < MaxCalls, calls' = calls + 1,
           fake_address' \in Address, r0' \in {-1} \cup Address,
           WellPlaced(maps) =>
             DataTyped(maps, data') /\ FramebufferTyped' /\ RangeCheckHolds'
    PROVE  GuestInv'
<1>1. Scalars'
  <2>1. calls' \in 0 .. MaxCalls
    BY SizesAssumption DEF GuestInv, Scalars
  <2> QED
    BY <2>1 DEF GuestInv, Scalars
<1>2. MapsAreSegments'
  BY DEF MapsAreSegments
<1>3. Blocks'
  BY DEF GuestInv, Blocks
<1> QED
  BY <1>1, <1>2, <1>3 DEF GuestInv

\* What a well placed list is in a state of the invariant.
LEMMA WhenPlaced ==
    ASSUME GuestInv, WellPlaced(maps)
    PROVE  Sound(maps) /\ DataTyped(maps, data) /\ FramebufferTyped
BY DEF GuestInv, Blocks, Scalars, Sound

\* A guest store.
LEMMA GuestStoreKeeps ==
    ASSUME GuestInv, NEW a \in Addresses, NEW byte \in ByteSet, GuestStore(a, byte)
    PROVE  GuestInv'
<1>1. /\ host = "running" /\ UNCHANGED <<maps, host, loaded, fake_address, framebuffer, call, r0>>
      /\ calls < MaxCalls /\ calls' = calls + 1
      /\ Pointer(a) # Null /\ data' = Poke(data, Pointer(a), <<byte>>)
  BY DEF GuestStore
<1>2. fake_address' \in Address /\ r0' \in {-1} \cup Address
  BY <1>1 DEF GuestInv, Scalars
<1>3. ASSUME WellPlaced(maps)
      PROVE  DataTyped(maps, data') /\ FramebufferTyped' /\ RangeCheckHolds'
  <2>1. Sound(maps) /\ DataTyped(maps, data) /\ FramebufferTyped /\ a \in Nat
    BY <1>3, WhenPlaced, Inputs
  <2>2. PICK i \in 1 .. Len(maps) : Within(maps[i], a)
    BY <1>1, <2>1, PointerNeedsMap DEF Pointer
  <2>3. Pointer(a).offset \in Int
    <3>1. Pointer(a).offset = a - FirstByte(maps[i])
      BY <2>1, <2>2, PointerFinds DEF Pointer
    <3> QED
      BY <2>1, <3>1, SoundMaps DEF Address
  <2>4. DataTyped(maps, data')
    <3>1. 1 \in Nat /\ <<byte>> \in [1 .. 1 -> ByteSet]
      OBVIOUS
    <3>2. DataTyped(maps, Poke(data, Pointer(a), <<byte>>))
      BY <2>1, <2>3, <3>1, PokeTyped
    <3> QED
      BY <1>1, <3>2
  <2>5. FramebufferTyped' /\ RangeCheckHolds'
    BY <1>1, <2>1 DEF FramebufferTyped, RangeCheckHolds
  <2> QED
    BY <2>4, <2>5
<1> QED
  BY <1>1, <1>2, <1>3, GuestStepKeeps

-----------------------------------------------------------------------------
(* Ranges *)

\* uint32_t arithmetic on addresses.
LEMMA ByteWrap ==
    /\ \A x \in Address : x % Bytes = x
    /\ \A x \in Bytes .. 2 * Bytes - 1 : x % Bytes = x - Bytes
    /\ (-1) % Bytes = Bytes - 1
    /\ \A x \in Int : x % Bytes \in Address
<1> DEFINE b == Bytes
<1>1. b \in Nat /\ b > 8
  BY Inputs
<1> HIDE DEF b
<1>2. \A x \in 0 .. b - 1 : x % b = x
  BY <1>1
<1>3. \A x \in b .. 2 * b - 1 : x % b = x - b
  <2> SUFFICES ASSUME NEW x \in b .. 2 * b - 1 PROVE x % b = x - b
    OBVIOUS
  <2>1. x = b * 1 + (x - b) /\ x - b \in 0 .. b - 1
    BY <1>1
  <2> QED
    BY <1>1, <2>1
<1>4. (-1) % b = b - 1
  <2>1. -1 = b * (-1) + (b - 1)
    BY <1>1
  <2> QED
    BY <1>1, <2>1
<1>5. \A x \in Int : x % b \in 0 .. b - 1
  BY <1>1
<1> QED
  BY <1>2, <1>3, <1>4, <1>5 DEF b, Address

\* A range that is_valid_address_range accepts, when it does not wrap, lies
\* within one map, its last address before the map's.
LEMMA ValidRange ==
    ASSUME Sound(maps), NEW a \in Nat, NEW e \in Nat, a <= e + 1
    PROVE  IsValidAddressRange(a, e) <=>
             \E i \in 1 .. Len(maps) : Within(maps[i], a) /\ e < LastByte(maps[i])
<1>1. \A i \in 1 .. Len(maps) :
        FirstByte(maps[i]) \in Int /\ LastByte(maps[i]) \in Int
  BY SoundMaps DEF Address
<1>2. ASSUME NEW i \in 1 .. Len(maps), e < LastByte(maps[i])
      PROVE  a <= LastByte(maps[i])
  BY <1>1, <1>2
<1> QED
  BY <1>1, <1>2 DEF IsValidAddressRange, Within

\* The range test of a range of n + 1 addresses: it wraps, or it is accepted
\* if a map holds it and one byte more.
LEMMA RangeTest ==
    ASSUME Sound(maps), NEW a \in Address, NEW n \in Nat, n < Bytes
    PROVE  /\ a + n >= Bytes =>
                ~ Holds(a, n) /\ ~ Holds(a, n + 1) /\ ~ Holds(a, n + 2)
           /\ a + n < Bytes =>
                (IsValidAddressRange(a, (a + n) % Bytes) <=> Holds(a, n + 2))
<1>1. \A i \in 1 .. Len(maps) : LastByte(maps[i]) \in Int /\ LastByte(maps[i]) < Bytes - 1
  BY SoundMaps DEF Address
<1>2. Bytes \in Nat /\ a \in Nat
  BY Inputs DEF Address
<1>3. ASSUME a + n >= Bytes
      PROVE  ~ Holds(a, n) /\ ~ Holds(a, n + 1) /\ ~ Holds(a, n + 2)
  BY <1>1, <1>2, <1>3 DEF Holds
<1>4. ASSUME a + n < Bytes
      PROVE  IsValidAddressRange(a, (a + n) % Bytes) <=> Holds(a, n + 2)
  <2>1. (a + n) % Bytes = a + n
    <3>1. a + n \in Address
      BY <1>2, <1>4 DEF Address
    <3> QED
      BY <3>1, ByteWrap
  <2>2. IsValidAddressRange(a, a + n) <=>
          \E i \in 1 .. Len(maps) : Within(maps[i], a) /\ a + n < LastByte(maps[i])
    <3>1. a + n \in Nat /\ a <= a + n + 1
      BY <1>2
    <3> QED
      BY <1>2, <3>1, ValidRange
  <2>3. \A i \in 1 .. Len(maps) :
          a + n < LastByte(maps[i]) <=> a + (n + 2) - 1 <= LastByte(maps[i])
    BY <1>1, <1>2
  <2> QED
    BY <2>1, <2>2, <2>3 DEF Holds
<1> QED
  BY <1>3, <1>4

\* A map that holds a range holds the front of it.
LEMMA HoldsLess ==
    ASSUME Sound(maps), NEW a \in Nat, NEW n \in Nat, NEW k \in 0 .. n, Holds(a, n)
    PROVE  Holds(a, k)
<1>1. \A i \in 1 .. Len(maps) : LastByte(maps[i]) \in Int
  BY SoundMaps DEF Address
<1>2. PICK i \in 1 .. Len(maps) : Within(maps[i], a) /\ a + n - 1 <= LastByte(maps[i])
  BY DEF Holds
<1>3. a + k - 1 <= LastByte(maps[i])
  BY <1>1, <1>2
<1> QED
  BY <1>2, <1>3 DEF Holds

\* What sceClibMemset does: nothing, unless the range and a byte more are
\* mapped together; and the host is lost only on a range that wraps.
LEMMA MemsetCases ==
    ASSUME Sound(maps), DataTyped(maps, data),
           NEW dst \in Addresses, NEW ch \in Characters, NEW len \in Lengths,
           Memset(dst, ch, len)
    PROVE  \/ (len = 0 \/ ~ Holds(dst, len + 1)) /\ UNCHANGED <<data, host>>
           \/ /\ len # 0 /\ Holds(dst, len + 1) /\ UNCHANGED host
              /\ data' = Poke(data, Pointer(dst), [i \in 1 .. len |-> ch % ByteValues])
           \/ dst + len > Bytes /\ host' = "undefined" /\ UNCHANGED data
<1> DEFINE bytes == [i \in 1 .. len |-> ch % ByteValues]
           valid == IsValidAddressRange(dst, (dst + len - 1) % Bytes)
<1>1. /\ dst \in Nat /\ dst \in Address /\ len \in Nat /\ len < Bytes /\ Bytes \in Nat
      /\ bytes \in [1 .. len -> ByteSet]
  BY Inputs DEF Address
<1>2. IF valid THEN HostWrites(Pointer(dst), bytes) ELSE UNCHANGED <<data, host>>
  BY DEF Memset
<1> HIDE DEF bytes
<1>3. valid =>
        \/ len = 0 /\ UNCHANGED <<data, host>>
        \/ /\ len # 0 /\ Holds(dst, len) /\ UNCHANGED host
           /\ data' = Poke(data, Pointer(dst), bytes)
        \/ len # 0 /\ ~ Holds(dst, len) /\ host' = "undefined" /\ UNCHANGED data
  BY <1>1, <1>2, WrittenHolds
<1>4. ASSUME len # 0
      PROVE  /\ dst + len > Bytes => ~ Holds(dst, len) /\ ~ Holds(dst, len + 1)
             /\ ~ (dst + len > Bytes) =>
                  (valid <=> Holds(dst, len + 1))
  <2> DEFINE n == len - 1
  <2>1. n \in Nat /\ n < Bytes /\ n + 1 = len /\ n + 2 = len + 1 /\ dst + n = dst + len - 1
        /\ (dst + len > Bytes <=> dst + n >= Bytes)
        /\ (~ (dst + len > Bytes) <=> dst + n < Bytes)
    BY <1>1, <1>4
  <2> HIDE DEF n
  <2>2. /\ dst + n >= Bytes => ~ Holds(dst, n + 2) /\ ~ Holds(dst, n + 1)
        /\ dst + n < Bytes =>
             (IsValidAddressRange(dst, (dst + n) % Bytes) <=> Holds(dst, n + 2))
    BY <1>1, <2>1, RangeTest
  <2> QED
    BY <2>1, <2>2
<1>5. Holds(dst, len + 1) => Holds(dst, len)
  BY <1>1, HoldsLess
<1> HIDE DEF valid
<1> QED
  BY <1>2, <1>3, <1>4, <1>5 DEF bytes

\* What sceClibMemmove does: nothing, unless both ranges and two bytes more
\* are mapped together; and the host is lost only on a range that wraps.
LEMMA MemmoveCases ==
    ASSUME Sound(maps), DataTyped(maps, data),
           NEW dst \in Addresses, NEW src \in Addresses, NEW len \in Lengths,
           Memmove(dst, src, len)
    PROVE  \/ /\ len = 0 \/ ~ Holds(dst, len + 2) \/ ~ Holds(src, len + 2)
              /\ UNCHANGED <<data, host>>
           \/ /\ len # 0 /\ Holds(dst, len + 2) /\ Holds(src, len + 2) /\ UNCHANGED host
              /\ Peek(Pointer(src), len) \in [1 .. len -> ByteSet]
              /\ data' = Poke(data, Pointer(dst), Peek(Pointer(src), len))
           \/ /\ dst + len >= Bytes \/ src + len >= Bytes
              /\ host' = "undefined" /\ UNCHANGED data
<1> DEFINE bytes  == Peek(Pointer(src), len)
           validD == IsValidAddressRange(dst, (dst + len) % Bytes)
           validS == IsValidAddressRange(src, (src + len) % Bytes)
<1>1. /\ dst \in Nat /\ dst \in Address /\ src \in Nat /\ src \in Address
      /\ len \in Nat /\ len < Bytes /\ Bytes \in Nat
  BY Inputs DEF Address
<1>2. IF validD /\ validS
      THEN IF Touchable(Pointer(src), len)
           THEN HostWrites(Pointer(dst), bytes)
           ELSE host' = "undefined" /\ UNCHANGED data
      ELSE UNCHANGED <<data, host>>
  BY DEF Memmove
<1>3. Touchable(Pointer(src), len) <=> len = 0 \/ Holds(src, len)
  BY <1>1, TouchableHolds
<1>4. /\ dst + len >= Bytes => ~ Holds(dst, len) /\ ~ Holds(dst, len + 2)
      /\ dst + len < Bytes => (validD <=> Holds(dst, len + 2))
  BY <1>1, RangeTest
<1>5. /\ src + len >= Bytes => ~ Holds(src, len) /\ ~ Holds(src, len + 2)
      /\ src + len < Bytes => (validS <=> Holds(src, len + 2))
  BY <1>1, RangeTest
<1>6. Holds(dst, len + 2) => Holds(dst, len)
  BY <1>1, HoldsLess
<1>7. Holds(src, len + 2) => Holds(src, len)
  BY <1>1, HoldsLess
<1>8. /\ ~ (dst + len >= Bytes) <=> dst + len < Bytes
      /\ ~ (src + len >= Bytes) <=> src + len < Bytes
  BY <1>1
<1>9. ASSUME len # 0, Holds(src, len)
      PROVE  bytes \in [1 .. len -> ByteSet]
  BY <1>1, <1>9, PeekTyped DEF Holds
<1>10. len = 0 => bytes \in [1 .. len -> ByteSet]
  BY DEF Peek
<1>11. ASSUME bytes \in [1 .. len -> ByteSet], HostWrites(Pointer(dst), bytes)
       PROVE  \/ len = 0 /\ UNCHANGED <<data, host>>
              \/ /\ len # 0 /\ Holds(dst, len) /\ UNCHANGED host
                 /\ data' = Poke(data, Pointer(dst), bytes)
              \/ len # 0 /\ ~ Holds(dst, len) /\ host' = "undefined" /\ UNCHANGED data
  <2> HIDE DEF bytes
  <2> QED
    BY <1>1, <1>11, WrittenHolds
<1> HIDE DEF bytes, validD, validS
<1>12. CASE ~ (validD /\ validS)
  BY <1>2, <1>4, <1>5, <1>8, <1>12, Zenon
<1>13. CASE validD /\ validS /\ ~ Touchable(Pointer(src), len)
  BY <1>2, <1>3, <1>5, <1>7, <1>8, <1>13, Zenon
<1>14. CASE validD /\ validS /\ Touchable(Pointer(src), len)
  <2>1. HostWrites(Pointer(dst), bytes)
    BY <1>2, <1>14, Zenon
  <2>2. len # 0 => Holds(src, len)
    BY <1>3, <1>14, Zenon
  <2>3. bytes \in [1 .. len -> ByteSet]
    BY <1>9, <1>10, <2>2, Zenon
  <2>4. \/ len = 0 /\ UNCHANGED <<data, host>>
        \/ /\ len # 0 /\ Holds(dst, len) /\ UNCHANGED host
           /\ data' = Poke(data, Pointer(dst), bytes)
        \/ len # 0 /\ ~ Holds(dst, len) /\ host' = "undefined" /\ UNCHANGED data
    BY <1>11, <2>1, <2>3, Zenon
  <2>5. len # 0 /\ Holds(dst, len) /\ ~ (dst + len >= Bytes) => Holds(dst, len + 2)
    BY <1>4, <1>8, <1>14, Zenon
  <2>6. ~ (src + len >= Bytes) => Holds(src, len + 2)
    BY <1>5, <1>8, <1>14, Zenon
  <2> QED
    <3>1. CASE len = 0
      BY <2>4, <3>1, Zenon
    <3>2. CASE len # 0 /\ ~ Holds(dst, len)
      <4>1. dst + len >= Bytes \/ src + len >= Bytes
        BY <1>4, <1>6, <1>8, <1>14, <3>2, Zenon
      <4> QED
        BY <2>4, <3>2, <4>1, Zenon
    <3>3. CASE len # 0 /\ Holds(dst, len)
      BY <1>4, <1>5, <2>2, <2>3, <2>4, <2>5, <2>6, <3>3, Zenon DEF bytes
    <3> QED
      BY <3>1, <3>2, <3>3, Zenon
<1> QED
  BY <1>12, <1>13, <1>14

-----------------------------------------------------------------------------
(* Calls preserve the invariant *)

\* A call that runs to its end and maps nothing.
LEMMA CallKeeps ==
    ASSUME GuestInv, NEW f, NEW args, Called(f, args), UNCHANGED maps,
           host' \in {host, "undefined", "terminated"},
           fake_address' \in Address,
           NEW value \in {-1} \cup Address, Returns(value),
           WellPlaced(maps) =>
             DataTyped(maps, data') /\ FramebufferTyped' /\ RangeCheckHolds'
    PROVE  GuestInv'
<1>1. host = "running" /\ UNCHANGED loaded /\ calls < MaxCalls /\ calls' = calls + 1
  BY DEF Called
<1>2. r0' \in {-1} \cup Address
  BY DEF Returns, GuestInv, Scalars
<1> QED
  BY <1>1, <1>2, GuestStepKeeps

\* RangeCheckHolds is about the two calls of a string's bytes only.
LEMMA OtherCalls ==
    ASSUME NEW f, NEW args, Called(f, args),
           f \notin {"sceClibMemset", "sceClibMemmove"}
    PROVE  RangeCheckHolds'
<1>1. call'.function = f
  BY DEF Called
<1> QED
  BY <1>1 DEF RangeCheckHolds

\* The call in hand is the last one entered.
LEMMA CalledIs ==
    ASSUME NEW f, NEW args, Called(f, args)
    PROVE  call'.function = f /\ call'.args = args /\ host = "running"
BY DEF Called

\* What the calls answer with.
LEMMA Answered ==
    /\ \A a \in Addresses : a \in {-1} \cup Address
    /\ -1 \in {-1} \cup Address /\ 0 \in {-1} \cup Address /\ 2 \in {-1} \cup Address
    /\ 0 \in Address
BY Inputs DEF Address

\* sceClibMemset keeps the blocks what they are, and loses the host only to a
\* range that wraps.
LEMMA MemsetKeeps ==
    ASSUME GuestInv, NEW dst \in Addresses, NEW ch \in Characters, NEW len \in Lengths,
           Memset(dst, ch, len)
    PROVE  GuestInv'
<1> DEFINE args  == <<dst, ch, len>>
           bytes == [i \in 1 .. len |-> ch % ByteValues]
<1>1. /\ Called("sceClibMemset", args) /\ Returns(dst)
      /\ UNCHANGED <<maps, fake_address, framebuffer>>
      /\ IF IsValidAddressRange(dst, (dst + len - 1) % Bytes)
         THEN HostWrites(Pointer(dst), bytes) ELSE UNCHANGED <<data, host>>
  BY DEF Memset
<1>2. host' \in {host, "undefined"}
  BY <1>1 DEF HostWrites
<1>3. fake_address' \in Address /\ dst \in {-1} \cup Address
  BY <1>1, Answered DEF GuestInv, Scalars
<1>4. ASSUME WellPlaced(maps)
      PROVE  DataTyped(maps, data') /\ FramebufferTyped' /\ RangeCheckHolds'
  <2>1. Sound(maps) /\ DataTyped(maps, data) /\ FramebufferTyped
    BY <1>4, WhenPlaced
  <2>2. dst \in Nat /\ len \in Nat /\ bytes \in [1 .. len -> ByteSet]
    BY Inputs
  <2>3. DataTyped(maps, data')
    <3> HIDE DEF bytes
    <3> QED
      BY <1>1, <2>1, <2>2, WrittenTyped
  <2>4. FramebufferTyped'
    BY <1>1, <2>1 DEF FramebufferTyped
  <2>5. ASSUME host' = "undefined"
        PROVE  dst + len >= Bytes
    <3>1. host # "undefined"
      BY <1>1, CalledIs
    <3>2. dst + len > Bytes
      BY <2>1, <2>5, <3>1, MemsetCases
    <3> QED
      BY <2>2, <3>2, Inputs
  <2>6. RangeCheckHolds'
    <3>1. call'.function = "sceClibMemset" /\ call'.args[1] = dst /\ call'.args[3] = len
      BY <1>1, CalledIs
    <3> QED
      BY <2>5, <3>1 DEF RangeCheckHolds
  <2> QED
    BY <2>3, <2>4, <2>6
<1> HIDE DEF args
<1> QED
  BY <1>1, <1>2, <1>3, <1>4, CallKeeps

\* So does sceClibMemmove.
LEMMA MemmoveKeeps ==
    ASSUME GuestInv, NEW dst \in Addresses, NEW src \in Addresses, NEW len \in Lengths,
           Memmove(dst, src, len)
    PROVE  GuestInv'
<1> DEFINE args  == <<dst, src, len>>
           bytes == Peek(Pointer(src), len)
<1>1. /\ Called("sceClibMemmove", args) /\ Returns(dst)
      /\ UNCHANGED <<maps, fake_address, framebuffer>>
      /\ host' \in {host, "undefined"}
  BY DEF Memmove, HostWrites
<1>3. fake_address' \in Address /\ dst \in {-1} \cup Address
  BY <1>1, Answered DEF GuestInv, Scalars
<1>4. ASSUME WellPlaced(maps)
      PROVE  DataTyped(maps, data') /\ FramebufferTyped' /\ RangeCheckHolds'
  <2>1. Sound(maps) /\ DataTyped(maps, data) /\ FramebufferTyped
    BY <1>4, WhenPlaced
  <2>2. dst \in Nat /\ len \in Nat
    BY Inputs
  <2>3. \/ UNCHANGED data
        \/ /\ Holds(dst, len + 2) /\ bytes \in [1 .. len -> ByteSet]
           /\ data' = Poke(data, Pointer(dst), bytes)
    BY <2>1, MemmoveCases
  <2>4. DataTyped(maps, data')
    <3>1. ASSUME Holds(dst, len + 2), bytes \in [1 .. len -> ByteSet]
          PROVE  DataTyped(maps, Poke(data, Pointer(dst), bytes))
      <4>1. PICK i \in 1 .. Len(maps) : Within(maps[i], dst)
        BY <3>1 DEF Holds
      <4>2. Pointer(dst).offset = dst - FirstByte(maps[i])
        BY <2>1, <2>2, <4>1, PointerFinds DEF Pointer
      <4>3. Pointer(dst).offset \in Int
        BY <2>1, <2>2, <4>2, SoundMaps DEF Address
      <4> HIDE DEF bytes
      <4> QED
        BY <2>1, <2>2, <3>1, <4>3, PokeTyped
    <3> QED
      BY <2>1, <2>3, <3>1, Zenon
  <2>5. FramebufferTyped'
    BY <1>1, <2>1 DEF FramebufferTyped
  <2>6. ASSUME host' = "undefined"
        PROVE  dst + len >= Bytes \/ src + len >= Bytes
    <3>1. host # "undefined"
      BY <1>1, CalledIs
    <3> QED
      BY <2>1, <2>6, <3>1, MemmoveCases
  <2>7. RangeCheckHolds'
    <3>1. /\ call'.function = "sceClibMemmove" /\ call'.args[1] = dst
          /\ call'.args[2] = src /\ call'.args[3] = len
      BY <1>1, CalledIs
    <3> QED
      BY <2>6, <3>1 DEF RangeCheckHolds
  <2> QED
    BY <2>4, <2>5, <2>7
<1> HIDE DEF args
<1> QED
  BY <1>1, <1>3, <1>4, CallKeeps

\* sceKernelCreateMutex writes nothing.
LEMMA CreateMutexKeeps ==
    ASSUME GuestInv, NEW name, CreateMutex(name)
    PROVE  GuestInv'
<1>1. /\ Called("sceKernelCreateMutex", <<name>>) /\ Returns(-1)
      /\ UNCHANGED <<maps, data, fake_address, framebuffer>>
      /\ host' \in {host, "undefined"}
  BY DEF CreateMutex
<1>2. fake_address' \in Address /\ -1 \in {-1} \cup Address
  BY <1>1 DEF GuestInv, Scalars
<1>3. RangeCheckHolds'
  BY <1>1, OtherCalls
<1>4. WellPlaced(maps) => DataTyped(maps, data') /\ FramebufferTyped'
  BY <1>1, WhenPlaced DEF FramebufferTyped
<1> QED
  BY <1>1, <1>2, <1>3, <1>4, CallKeeps

\* Nor do sceKernelLockMutex and sceKernelUnlockMutex.
LEMMA UseMutexKeeps ==
    ASSUME GuestInv, NEW f \in {"sceKernelLockMutex", "sceKernelUnlockMutex"}, NEW id,
           UseMutex(f, id)
    PROVE  GuestInv'
<1>1. /\ Called(f, <<id>>) /\ Returns(-1)
      /\ UNCHANGED <<maps, data, host, fake_address, framebuffer>>
  BY DEF UseMutex
<1>2. fake_address' \in Address /\ -1 \in {-1} \cup Address
  BY <1>1 DEF GuestInv, Scalars
<1>3. RangeCheckHolds'
  <2>1. f \notin {"sceClibMemset", "sceClibMemmove"}
    OBVIOUS
  <2> QED
    BY <1>1, <2>1, OtherCalls
<1>4. WellPlaced(maps) => DataTyped(maps, data') /\ FramebufferTyped'
  BY <1>1, WhenPlaced DEF FramebufferTyped
<1> QED
  BY <1>1, <1>2, <1>3, <1>4, CallKeeps

\* sceKernelGetMemBlockBase writes a word where there is one.
LEMMA GetMemBlockBaseKeeps ==
    ASSUME GuestInv, NEW uid, NEW addr \in Addresses, GetMemBlockBase(uid, addr)
    PROVE  GuestInv'
<1> DEFINE bytes == WordBytesOf(fake_address)
<1>1. /\ Called("sceKernelGetMemBlockBase", <<uid, addr>>) /\ Returns(0)
      /\ UNCHANGED <<maps, fake_address, framebuffer>>
      /\ IF Pointer(addr) = Null THEN UNCHANGED <<data, host>>
         ELSE HostWrites(Pointer(addr), bytes)
  BY DEF GetMemBlockBase
<1>2. host' \in {host, "undefined"}
  BY <1>1 DEF HostWrites
<1>3. fake_address \in Address /\ fake_address' \in Address /\ 0 \in {-1} \cup Address
  BY <1>1, Answered DEF GuestInv, Scalars
<1>4. RangeCheckHolds'
  BY <1>1, OtherCalls
<1>5. ASSUME WellPlaced(maps)
      PROVE  DataTyped(maps, data') /\ FramebufferTyped'
  <2>1. Sound(maps) /\ DataTyped(maps, data) /\ FramebufferTyped
    BY <1>5, WhenPlaced
  <2>2. addr \in Nat /\ WordBytes \in Nat
    BY Inputs, SizesAssumption
  <2>3. bytes \in [1 .. WordBytes -> ByteSet]
    <3>1. fake_address \in Nat
      BY <1>3 DEF Address
    <3>2. \A i \in 1 .. WordBytes : (fake_address \div ByteValues ^ (i - 1)) % ByteValues \in ByteSet
      <4>1. \A i \in 1 .. WordBytes : i - 1 \in 0 .. WordBytes - 1
        BY <2>2
      <4> QED
        BY <3>1, <4>1, BytesAreBytes
    <3> QED
      BY <3>2 DEF WordBytesOf
  <2>4. DataTyped(maps, data')
    <3> HIDE DEF bytes
    <3> QED
      BY <1>1, <2>1, <2>2, <2>3, WrittenTyped
  <2> QED
    BY <1>1, <2>1, <2>4 DEF FramebufferTyped
<1> QED
  BY <1>1, <1>2, <1>3, <1>4, <1>5, CallKeeps

\* The record that sceDisplaySetFramebuf keeps is a record of bytes.
LEMMA SetFramebufKeeps ==
    ASSUME GuestInv, NEW addr \in Addresses, NEW sync, SetFramebuf(addr, sync)
    PROVE  GuestInv'
<1> DEFINE p == Pointer(addr)
<1>1. /\ Called("sceDisplaySetFramebuf", <<addr, sync>>) /\ Returns(0)
      /\ UNCHANGED <<maps, data, fake_address>>
      /\ IF p = Null
         THEN framebuffer' = [framebuffer EXCEPT !.based = FALSE] /\ UNCHANGED host
         ELSE IF Touchable(p, FramebufferBytes)
         THEN /\ framebuffer' = [params |-> Peek(p, FramebufferBytes), based |-> TRUE]
              /\ UNCHANGED host
         ELSE host' = "undefined" /\ UNCHANGED framebuffer
  BY DEF SetFramebuf
<1> HIDE DEF p
<1>2. host' \in {host, "undefined"}
  BY <1>1
<1>3. fake_address' \in Address /\ 0 \in {-1} \cup Address
  BY <1>1, Answered DEF GuestInv, Scalars
<1>4. RangeCheckHolds'
  BY <1>1, OtherCalls
<1>5. ASSUME WellPlaced(maps)
      PROVE  DataTyped(maps, data') /\ FramebufferTyped'
  <2>1. Sound(maps) /\ DataTyped(maps, data) /\ FramebufferTyped
    BY <1>5, WhenPlaced
  <2>2. addr \in Nat /\ FramebufferBytes \in Nat
    BY Inputs, SizesAssumption
  <2>3. CASE p = Null
    BY <1>1, <2>1, <2>3 DEF FramebufferTyped
  <2>4. CASE p # Null /\ Touchable(p, FramebufferBytes)
    <3>1. FramebufferBytes = 0 \/ Holds(addr, FramebufferBytes)
      BY <2>1, <2>2, <2>4, TouchableHolds DEF p
    <3>2. Peek(p, FramebufferBytes) \in [1 .. FramebufferBytes -> ByteSet]
      <4>1. CASE FramebufferBytes = 0
        BY <4>1 DEF Peek
      <4>2. CASE Holds(addr, FramebufferBytes)
        BY <2>1, <2>2, <4>2, PeekTyped DEF Holds, p
      <4> QED
        BY <3>1, <4>1, <4>2
    <3>3. framebuffer' = [params |-> Peek(p, FramebufferBytes), based |-> TRUE]
      BY <1>1, <2>4
    <3>4. FramebufferTyped'
      <4> DEFINE record == Peek(p, FramebufferBytes)
      <4> HIDE DEF record
      <4>1. framebuffer' = [params |-> record, based |-> TRUE]
            /\ record \in [1 .. FramebufferBytes -> ByteSet]
        BY <3>2, <3>3 DEF record
      <4> QED
        BY <4>1 DEF FramebufferTyped
    <3> QED
      BY <1>1, <2>1, <3>4
  <2>5. CASE p # Null /\ ~ Touchable(p, FramebufferBytes)
    BY <1>1, <2>1, <2>5 DEF FramebufferTyped
  <2> QED
    BY <2>3, <2>4, <2>5
<1> QED
  BY <1>1, <1>2, <1>3, <1>4, <1>5, CallKeeps

\* The block that allocate_heap makes: it keeps the list sorted and, as long
\* as nothing runs over the end, disjoint; it is zero, large enough, and
\* leaves the other blocks alone.
LEMMA HeapBlockMapped ==
    ASSUME maps \in Seq(Map), SortedByEnd(maps), WellPlaced(maps) => Disjoint(maps),
           NEW size \in BlockSizes,
           MoreMemory(maps, MemorySize(size \div PageBytes)) # NoAddress,
           MapZeroed(HeapBlock(size))
    PROVE  /\ HeapBlock(size) \in Map
           /\ maps' \in Seq(Map) /\ SortedByEnd(maps')
           /\ maps' \in MapMemory(maps, HeapBlock(size))
           /\ WellPlaced(maps') =>
                /\ Sound(maps) /\ Sound(maps')
                /\ SizeOf(HeapBlock(size)) > size
                /\ \A i \in 1 .. Len(maps) :
                     \/ maps[i].end < HeapBlock(size).start
                     \/ HeapBlock(size).end < maps[i].start
                /\ DataTyped(maps, data) =>
                     /\ DataTyped(maps', data')
                     /\ \A o \in 0 .. SizeOf(HeapBlock(size)) - 1 :
                          data'[HeapBlock(size).start][o] = 0
                     /\ \A i \in 1 .. Len(maps) :
                          data'[maps[i].start] = data[maps[i].start]
<1> DEFINE n == MemorySize(size \div PageBytes)
           m == HeapBlock(size)
<1>1. /\ maps' \in MapMemory(maps, m) /\ data' = WithBlock(data, m)
  BY DEF MapZeroed
<1>2. /\ n \in Nat /\ n <= Pages \div 2 - 2 /\ "heap" \in Kind
      /\ MoreMemory(maps, n) # NoAddress
      /\ m = Block("heap", MoreMemory(maps, n), n)
  <2>1. n = size \div PageBytes + 1 /\ n <= Pages \div 2 - 2 /\ size \in Nat
    BY Inputs
  <2>2. size \div PageBytes \in Nat
    BY <2>1, PageOfByte
  <2> QED
    BY <2>1, <2>2 DEF Kind, HeapBlock
<1> HIDE DEF n, m
<1>3. m \in Map
  BY <1>2, MoreMemoryType, BlockType
<1>4. /\ maps' \in Seq(Map) /\ SortedByEnd(maps')
      /\ WellPlaced(maps') => Disjoint(maps')
  BY <1>1, <1>2, MapBlockSound
<1>5. ASSUME WellPlaced(maps')
      PROVE  /\ Sound(maps) /\ Sound(maps')
             /\ \A i \in 1 .. Len(maps) : maps[i].end < m.start \/ m.end < maps[i].start
             /\ m.start <= m.end
  <2>1. /\ WellPlaced(maps)
        /\ \A i \in 1 .. Len(maps) : maps[i].end < m.start \/ m.end < maps[i].start
    BY <1>1, <1>2, <1>5, BlockMeetsNone
  <2>2. m.start <= m.end
    BY <1>1, <1>3, <1>4, <1>5, WellPlacedBefore
  <2> QED
    BY <1>4, <1>5, <2>1, <2>2 DEF Sound
<1>6. ASSUME m.start <= m.end
      PROVE  SizeOf(m) > size
  <2>1. n = size \div PageBytes + 1 /\ size \in Nat
    BY Inputs DEF n
  <2>2. /\ size \div PageBytes \in Nat
        /\ size < (size \div PageBytes) * PageBytes + PageBytes
    BY <2>1, PageOfByte
  <2>3. m.end - m.start + 1 = n
    <3> DEFINE a == MoreMemory(maps, n)
    <3>1. a \in Page \ {0}
      BY <1>2, MoreMemoryType DEF NoAddress
    <3>2. m = Block("heap", a, n)
      BY <1>2
    <3> HIDE DEF a
    <3>3. m.start = a /\ m.end = a + n - 1
      BY <1>2, <1>6, <3>1, <3>2, BlockBounds DEF Block
    <3> QED
      BY <1>2, <3>1, <3>3 DEF Page
  <2>4. SizeOf(m) = n * PageBytes
    BY <1>3, <2>3, ByteBounds
  <2>5. n * PageBytes = (size \div PageBytes) * PageBytes + PageBytes
    BY <2>1, <2>2, SizesAssumption
  <2>6. (size \div PageBytes) * PageBytes \in Int /\ PageBytes \in Int
    BY <2>2, Scale, SizesAssumption
  <2> QED
    BY <2>1, <2>2, <2>4, <2>5, <2>6
<1>7. ASSUME WellPlaced(maps'), DataTyped(maps, data)
      PROVE  /\ DataTyped(maps', data')
             /\ \A o \in 0 .. SizeOf(m) - 1 : data'[m.start][o] = 0
             /\ \A i \in 1 .. Len(maps) : data'[maps[i].start] = data[maps[i].start]
  <2>1. /\ DataTyped(maps', WithBlock(data, m))
        /\ \A o \in 0 .. SizeOf(m) - 1 : WithBlock(data, m)[m.start][o] = 0
        /\ \A i \in 1 .. Len(maps) :
             WithBlock(data, m)[maps[i].start] = data[maps[i].start]
    BY <1>1, <1>3, <1>5, <1>7, NewBlockTyped
  <2> QED
    BY <1>1, <2>1
<1> QED
  BY <1>1, <1>3, <1>4, <1>5, <1>6, <1>7 DEF m, n

\* sceKernelAllocMemBlock gives its new map a block of its own.
LEMMA AllocMemBlockKeeps ==
    ASSUME GuestInv, NEW name, NEW type, NEW size \in BlockSizes,
           AllocMemBlock(name, type, size)
    PROVE  GuestInv'
<1> DEFINE n == MemorySize(size \div PageBytes)
           args == <<name, type, size>>
<1>1. /\ Called("sceKernelAllocMemBlock", args) /\ Returns(2)
      /\ UNCHANGED framebuffer
  BY DEF AllocMemBlock
<1> HIDE DEF args
<1>2. RangeCheckHolds'
  BY <1>1, OtherCalls
<1>3. 2 \in {-1} \cup Address
  BY Answered
<1>4. ASSUME host' \in {host, "undefined", "terminated"}, UNCHANGED <<maps, data>>,
             fake_address' \in {fake_address, 0}
      PROVE  GuestInv'
  <2>1. fake_address' \in Address
    BY <1>4, Answered DEF GuestInv, Scalars
  <2>2. WellPlaced(maps) => DataTyped(maps, data') /\ FramebufferTyped'
    BY <1>1, <1>4, WhenPlaced DEF FramebufferTyped
  <2> QED
    BY <1>1, <1>2, <1>3, <1>4, <2>1, <2>2, CallKeeps
<1>5. ASSUME MoreMemory(maps, n) # NoAddress, MapZeroed(HeapBlock(size)),
             fake_address' = FirstByte(HeapBlock(size)), UNCHANGED host
      PROVE  GuestInv'
  <2>1. maps \in Seq(Map) /\ SortedByEnd(maps) /\ (WellPlaced(maps) => Disjoint(maps))
    BY DEF GuestInv, Scalars, Blocks
  <2>2. /\ HeapBlock(size) \in Map
        /\ maps' \in Seq(Map) /\ SortedByEnd(maps')
        /\ WellPlaced(maps') =>
             /\ Sound(maps) /\ Sound(maps')
             /\ DataTyped(maps, data) => DataTyped(maps', data')
    BY <1>5, <2>1, HeapBlockMapped
  <2>3. Scalars'
    <3>1. fake_address' \in Address
      BY <1>5, <2>2, ByteBounds
    <3>2. r0' \in {-1} \cup Address
      BY <1>1, <1>3 DEF Returns, GuestInv, Scalars
    <3>3. calls' \in 0 .. MaxCalls /\ UNCHANGED loaded
      BY <1>1, SizesAssumption DEF Called, GuestInv, Scalars
    <3> QED
      BY <1>5, <2>2, <3>1, <3>2, <3>3 DEF GuestInv, Scalars
  <2>4. MapsAreSegments'
    BY <1>1, <1>5, CalledIs DEF MapsAreSegments
  <2>5. Blocks'
    <3>1. ASSUME WellPlaced(maps')
          PROVE  Disjoint(maps') /\ DataTyped(maps', data') /\ FramebufferTyped'
      <4>1. Sound(maps) /\ Sound(maps')
        BY <2>2, <3>1
      <4>2. DataTyped(maps, data) /\ FramebufferTyped
        BY <4>1, WhenPlaced DEF Sound
      <4> QED
        BY <1>1, <2>2, <3>1, <4>1, <4>2 DEF Sound, FramebufferTyped
    <3> QED
      BY <1>2, <3>1 DEF Blocks
  <2> QED
    BY <2>3, <2>4, <2>5 DEF GuestInv
<1>6. \/ host' \in {"terminated", "undefined"} /\ UNCHANGED <<maps, data, fake_address>>
      \/ /\ MoreMemory(maps, n) # NoAddress /\ MapZeroed(HeapBlock(size))
         /\ fake_address' = FirstByte(HeapBlock(size)) /\ UNCHANGED host
      \/ fake_address' = 0 /\ UNCHANGED <<maps, data, host>>
  BY DEF AllocMemBlock
<1> HIDE DEF n
<1> QED
  BY <1>4, <1>5, <1>6

\* Every step preserves the invariant.
LEMMA GuestNext == GuestInv /\ [Next]_vars => GuestInv'
<1> SUFFICES ASSUME GuestInv, [Next]_vars PROVE GuestInv'
  OBVIOUS
<1>1. CASE LoadSegment
  BY <1>1, LoadSegmentKeeps
<1>2. CASE RunGuest
  BY <1>2, RunGuestKeeps
<1>3. ASSUME NEW a \in Addresses, NEW ch \in Characters, GuestStore(a, ch % ByteValues)
      PROVE  GuestInv'
  BY <1>3, GuestStoreKeeps, Inputs
<1>4. ASSUME NEW dst \in Addresses, NEW ch \in Characters, NEW len \in Lengths,
             Memset(dst, ch, len)
      PROVE  GuestInv'
  BY <1>4, MemsetKeeps
<1>5. ASSUME NEW dst \in Addresses, NEW src \in Addresses, NEW len \in Lengths,
             Memmove(dst, src, len)
      PROVE  GuestInv'
  BY <1>5, MemmoveKeeps
<1>6. ASSUME NEW name \in Addresses, CreateMutex(name)
      PROVE  GuestInv'
  BY <1>6, CreateMutexKeeps
<1>7. ASSUME NEW f \in {"sceKernelLockMutex", "sceKernelUnlockMutex"}, UseMutex(f, -1)
      PROVE  GuestInv'
  BY <1>7, UseMutexKeeps
<1>8. ASSUME NEW name \in Addresses, NEW size \in BlockSizes, AllocMemBlock(name, 0, size)
      PROVE  GuestInv'
  BY <1>8, AllocMemBlockKeeps
<1>9. ASSUME NEW addr \in Addresses, GetMemBlockBase(2, addr)
      PROVE  GuestInv'
  BY <1>9, GetMemBlockBaseKeeps
<1>10. ASSUME NEW addr \in Addresses, SetFramebuf(addr, 1)
       PROVE  GuestInv'
  BY <1>10, SetFramebufKeeps
<1>11. CASE UNCHANGED vars
  BY <1>11 DEF vars, GuestInv, Scalars, MapsAreSegments, Blocks, FramebufferTyped,
               RangeCheckHolds
<1> QED
  BY <1>1, <1>2, <1>3, <1>4, <1>5, <1>6, <1>7, <1>8, <1>9, <1>10, <1>11 DEF Next

\* The invariant holds throughout.
THEOREM GuestInvariant == Spec => []GuestInv
BY GuestInit, GuestNext, PTL DEF Spec

\* As long as no block runs over the end of the space, the maps, the host
\* blocks behind them, the memory block's base, the display's record and the
\* registers are what their types say, however the maps touch one another and
\* whatever ranges the calls were given.
THEOREM GuestTypeCorrect == Spec => [](WellPlaced(maps) => TypeOK)
<1>1. GuestInv => (WellPlaced(maps) => TypeOK)
  BY DEF GuestInv, Scalars, Blocks, FramebufferTyped, DataTyped, TypeOK
<1> QED
  BY <1>1, GuestInvariant, PTL

\* The range test of sceClibMemset and sceClibMemmove never lets the host be
\* lost to a range that does not wrap (is_valid_address_range).
THEOREM RangeCheckAlways == Spec => [](WellPlaced(maps) => RangeCheckHolds)
<1>1. GuestInv => (WellPlaced(maps) => RangeCheckHolds)
  BY DEF GuestInv, Blocks
<1> QED
  BY <1>1, GuestInvariant, PTL

-----------------------------------------------------------------------------
(* Flat memory *)

\* Mem, of a list of maps and its blocks.
MemOf(list, d) ==
    [ a \in UNION { Reach(list[i]) : i \in 1 .. Len(list) } |->
        LET m == Lookup(list, a \div PageBytes)
        IN  d[m.start][a - FirstByte(m)] ]

\* The mapped addresses, and the byte at each of them.
LEMMA MemFacts ==
    ASSUME NEW list, Sound(list), NEW d
    PROVE  /\ DOMAIN MemOf(list, d) \subseteq Address
           /\ \A a \in Nat :
                a \in DOMAIN MemOf(list, d) <=> \E i \in 1 .. Len(list) : Within(list[i], a)
           /\ \A a \in Nat, i \in 1 .. Len(list) :
                Within(list[i], a) =>
                  MemOf(list, d)[a] = d[list[i].start][a - FirstByte(list[i])]
<1>1. DOMAIN MemOf(list, d) = UNION { Reach(list[i]) : i \in 1 .. Len(list) }
  BY DEF MemOf
<1>2. \A i \in 1 .. Len(list) :
        /\ FirstByte(list[i]) \in Address /\ LastByte(list[i]) \in Address
  BY SoundMaps
<1>3. DOMAIN MemOf(list, d) \subseteq Address
  <2>1. \A i \in 1 .. Len(list) : Reach(list[i]) \subseteq Address
    BY <1>2, Inputs DEF Address, Reach
  <2> QED
    BY <1>1, <2>1
<1>4. \A a \in Nat, i \in 1 .. Len(list) : a \in Reach(list[i]) <=> Within(list[i], a)
  BY <1>2 DEF Reach, Within, Address
<1>5. \A a \in Nat :
        a \in DOMAIN MemOf(list, d) <=> \E i \in 1 .. Len(list) : Within(list[i], a)
  BY <1>1, <1>4
<1>6. ASSUME NEW a \in Nat, NEW i \in 1 .. Len(list), Within(list[i], a)
      PROVE  MemOf(list, d)[a] = d[list[i].start][a - FirstByte(list[i])]
  <2>1. a \in UNION { Reach(list[k]) : k \in 1 .. Len(list) }
    BY <1>1, <1>5, <1>6
  <2>2. Lookup(list, a \div PageBytes) = list[i]
    BY <1>6, LookupFinds
  <2> QED
    BY <2>1, <2>2 DEF MemOf
<1> QED
  BY <1>3, <1>5, <1>6

\* Bytes written at a pointer are bytes written at its address.
LEMMA PokedMem ==
    ASSUME Sound(maps), NEW d, DataTyped(maps, d), NEW a \in Nat, NEW n \in Nat,
           Holds(a, n), NEW bytes \in [1 .. n -> ByteSet]
    PROVE  MemOf(maps, Poke(d, Pointer(a), bytes)) =
             [ b \in DOMAIN MemOf(maps, d) |->
                 IF b \in a .. a + n - 1 THEN bytes[b - a + 1] ELSE MemOf(maps, d)[b] ]
<1> DEFINE e == Poke(d, Pointer(a), bytes)
<1>1. DOMAIN MemOf(maps, e) = DOMAIN MemOf(maps, d)
  BY DEF MemOf
<1>2. PICK i \in 1 .. Len(maps) : Within(maps[i], a) /\ a + n - 1 <= LastByte(maps[i])
  BY DEF Holds
<1>3. Pointer(a) = [block |-> maps[i].start, offset |-> a - FirstByte(maps[i])]
  BY <1>2, PointerFinds DEF Pointer
<1>4. \A j \in 1 .. Len(maps) :
        /\ FirstByte(maps[j]) \in Nat /\ LastByte(maps[j]) \in Nat
        /\ SizeOf(maps[j]) = LastByte(maps[j]) - FirstByte(maps[j]) + 1
        /\ maps[j].start \in DOMAIN d
        /\ DOMAIN d[maps[j].start] = 0 .. SizeOf(maps[j]) - 1
  BY SoundMaps DEF Address, DataTyped
<1>5. DOMAIN bytes = 1 .. n
  BY BytesAreSeq
<1>6. ASSUME NEW b \in DOMAIN MemOf(maps, d)
      PROVE  MemOf(maps, e)[b] =
               IF b \in a .. a + n - 1 THEN bytes[b - a + 1] ELSE MemOf(maps, d)[b]
  <2>1. b \in Nat
    BY MemFacts DEF Address
  <2>2. PICK j \in 1 .. Len(maps) : Within(maps[j], b)
    BY <2>1, MemFacts
  <2> DEFINE o == b - FirstByte(maps[j])
  <2>3. /\ MemOf(maps, d)[b] = d[maps[j].start][o]
        /\ MemOf(maps, e)[b] = e[maps[j].start][o]
    BY <2>1, <2>2, MemFacts
  <2>4. o \in DOMAIN d[maps[j].start]
    BY <1>4, <2>1, <2>2 DEF Within
  <2>5. CASE j = i
    <3> DEFINE off == a - FirstByte(maps[i])
    <3>1. e[maps[j].start] =
            [x \in DOMAIN d[maps[j].start] |->
               IF x - off + 1 \in DOMAIN bytes THEN bytes[x - off + 1] ELSE d[maps[j].start][x]]
      BY <1>3, <1>4, <2>5 DEF Poke
    <3>2. o - off + 1 = b - a + 1
      BY <1>4, <2>1, <2>5
    <3> HIDE DEF o, off, e
    <3>3. e[maps[j].start][o] =
            IF b - a + 1 \in 1 .. n THEN bytes[b - a + 1] ELSE d[maps[j].start][o]
      BY <1>5, <2>4, <3>1, <3>2
    <3>4. b - a + 1 \in 1 .. n <=> b \in a .. a + n - 1
      BY <2>1
    <3> QED
      BY <2>3, <3>3, <3>4
  <2>6. CASE j # i
    <3>1. maps[j].start # maps[i].start
      BY <2>6, SoundApart
    <3>2. e[maps[j].start] = d[maps[j].start]
      BY <1>3, <1>4, <3>1 DEF Poke
    <3>3. b \notin a .. a + n - 1
      <4> SUFFICES ASSUME b \in a .. a + n - 1 PROVE FALSE
        OBVIOUS
      <4>1. Within(maps[i], b)
        BY <1>2, <1>4, <2>1 DEF Within
      <4> QED
        BY <2>1, <2>2, <2>6, <4>1, OneMap
    <3> HIDE DEF o, e
    <3> QED
      BY <2>3, <3>2, <3>3
  <2> QED
    BY <2>5, <2>6
<1> DEFINE f == MemOf(maps, e)
           g == MemOf(maps, d)
<1>7. f = [x \in DOMAIN f |-> f[x]]
  BY DEF MemOf
<1> HIDE DEF f, g
<1>8. f = [b \in DOMAIN g |-> IF b \in a .. a + n - 1 THEN bytes[b - a + 1] ELSE g[b]]
  <2>1. DOMAIN f = DOMAIN g
    BY <1>1 DEF f, g
  <2>2. \A b \in DOMAIN g : f[b] = IF b \in a .. a + n - 1 THEN bytes[b - a + 1] ELSE g[b]
    BY <1>6 DEF f, g
  <2> QED
    BY <1>7, <2>1, <2>2
<1> QED
  BY <1>8 DEF f, g

\* A span of addresses is whole if one map holds it: two maps that touch have
\* a border between them.
LEMMA WholeHolds ==
    ASSUME Sound(maps), NEW a \in Nat, NEW n \in Nat \ {0}
    PROVE  Flat!Whole(Flat!Span(a, n)) <=> Holds(a, n)
<1> DEFINE span == a .. a + n - 1
<1>1. Flat!Whole(Flat!Span(a, n)) <=>
        /\ \A b \in Borders : ~ {b - 1, b} \subseteq span
        /\ span \subseteq DOMAIN Mem
  BY DEF Flat!Whole, Flat!Span, Flat!Mapped
<1>2. Mem = MemOf(maps, data)
  BY DEF Mem, MemOf
<1>3. \A b \in Nat : b \in DOMAIN Mem <=> \E i \in 1 .. Len(maps) : Within(maps[i], b)
  BY <1>2, MemFacts
<1>4. \A i \in 1 .. Len(maps) :
        /\ FirstByte(maps[i]) \in Nat /\ LastByte(maps[i]) \in Nat
        /\ FirstByte(maps[i]) <= LastByte(maps[i])
  BY SoundMaps DEF Address
<1>5. a \in span /\ span \subseteq Nat
  OBVIOUS
<1>6. ASSUME Holds(a, n)
      PROVE  /\ \A b \in Borders : ~ {b - 1, b} \subseteq span
             /\ span \subseteq DOMAIN Mem
  <2>1. PICK i \in 1 .. Len(maps) : Within(maps[i], a) /\ a + n - 1 <= LastByte(maps[i])
    BY <1>6 DEF Holds
  <2>2. \A x \in span : Within(maps[i], x)
    BY <1>4, <2>1 DEF Within
  <2>3. span \subseteq DOMAIN Mem
    BY <1>3, <1>5, <2>2
  <2>4. ASSUME NEW b \in Borders, {b - 1, b} \subseteq span
        PROVE  FALSE
    <3>1. PICK j \in 1 .. Len(maps) : b = FirstByte(maps[j])
      BY DEF Borders
    <3>2. b \in Nat /\ b - 1 \in Nat /\ Within(maps[i], b) /\ Within(maps[i], b - 1)
      BY <1>5, <2>2, <2>4
    <3>3. Within(maps[j], b)
      BY <1>4, <3>1 DEF Within
    <3>4. i = j
      BY <3>2, <3>3, OneMap
    <3> QED
      BY <1>4, <3>1, <3>2, <3>4 DEF Within
  <2> QED
    BY <2>3, <2>4
<1>7. ASSUME span \subseteq DOMAIN Mem, ~ Holds(a, n)
      PROVE  \E b \in Borders : {b - 1, b} \subseteq span
  <2>1. PICK i \in 1 .. Len(maps) : Within(maps[i], a)
    BY <1>3, <1>5, <1>7
  <2>2. LastByte(maps[i]) < a + n - 1
    BY <1>4, <1>7, <2>1 DEF Holds
  <2> DEFINE b == LastByte(maps[i]) + 1
  <2>3. b \in span /\ b - 1 \in span /\ b \in Nat
    BY <1>4, <2>1, <2>2 DEF Within
  <2>4. PICK j \in 1 .. Len(maps) : Within(maps[j], b)
    BY <1>3, <1>7, <2>3
  <2>5. j # i
    BY <1>4, <2>4 DEF Within
  <2>6. \/ LastByte(maps[i]) < FirstByte(maps[j])
        \/ LastByte(maps[j]) < FirstByte(maps[i])
    BY <2>5, SoundApart
  <2>7. FirstByte(maps[j]) = b
    BY <1>4, <2>1, <2>4, <2>6 DEF Within
  <2>8. b \in Borders
    BY <2>7 DEF Borders
  <2> HIDE DEF b
  <2> QED
    BY <2>3, <2>8
<1> HIDE DEF span
<1> QED
  BY <1>1, <1>6, <1>7

\* What flat memory is before and after a step.
LEMMA FlatState ==
    /\ Mem = MemOf(maps, data)
    /\ Mem' = MemOf(maps', data')
    /\ UNCHANGED <<maps, data>> => Mem' = Mem
    /\ UNCHANGED maps => Borders' = Borders
BY DEF Mem, MemOf, Borders

\* A write of n bytes, in flat memory.
LEMMA FlatPoke ==
    ASSUME Sound(maps), DataTyped(maps, data), NEW a \in Nat, NEW n \in Nat, Holds(a, n),
           NEW bytes \in [1 .. n -> ByteSet], UNCHANGED maps,
           data' = Poke(data, Pointer(a), bytes)
    PROVE  Mem' = [ b \in DOMAIN Mem |->
                      IF b \in a .. a + n - 1 THEN bytes[b - a + 1] ELSE Mem[b] ]
<1>1. Mem' = MemOf(maps, Poke(data, Pointer(a), bytes))
  BY FlatState
<1>2. Mem = MemOf(maps, data)
  BY FlatState
<1> QED
  BY <1>1, <1>2, PokedMem

\* The answer of a call that leaves the host running.
LEMMA FlatAnswer ==
    ASSUME NEW f, NEW args, Called(f, args), UNCHANGED host, NEW value, Returns(value)
    PROVE  Flat!Answers(value)
BY DEF Called, Returns, Flat!Answers

\* sceClibMemset is a memset of flat memory, or a call on a range that wraps.
LEMMA MemsetFlat ==
    ASSUME GuestInv, WellPlaced(maps),
           NEW dst \in Addresses, NEW ch \in Characters, NEW len \in Lengths,
           Memset(dst, ch, len)
    PROVE  Flat!Next
<1> DEFINE args  == <<dst, ch, len>>
           bytes == [i \in 1 .. len |-> ch % ByteValues]
<1>1. Sound(maps) /\ DataTyped(maps, data)
  BY WhenPlaced
<1>2. dst \in Nat /\ len \in Nat /\ bytes \in [1 .. len -> ByteSet]
  BY Inputs
<1>3. /\ Called("sceClibMemset", args) /\ Returns(dst)
      /\ UNCHANGED <<maps, fake_address, framebuffer>>
  BY DEF Memset
<1>4. Borders' = Borders
  BY <1>3, FlatState
<1>5. call'.function = "sceClibMemset" /\ call'.args[1] = dst /\ call'.args[2] = ch
      /\ call'.args[3] = len
  BY <1>3, CalledIs
<1>6. Flat!Whole(Flat!Span(dst, len + 1)) <=> Holds(dst, len + 1)
  <2>1. len + 1 \in Nat \ {0}
    BY <1>2
  <2> QED
    BY <1>1, <1>2, <2>1, WholeHolds
<1> HIDE DEF args
<1>7. CASE (len = 0 \/ ~ Holds(dst, len + 1)) /\ UNCHANGED <<data, host>>
  <2>1. Mem' = Mem /\ Flat!Answers(dst)
    BY <1>3, <1>7, FlatState, FlatAnswer
  <2>2. len = 0 => Mem' = Flat!Filled(dst, len, LAMBDA i : ch % ByteValues)
    <3> SUFFICES ASSUME len = 0
                 PROVE  Mem' = Flat!Filled(dst, len, LAMBDA i : ch % ByteValues)
      OBVIOUS
    <3>1. dst .. dst + len - 1 = {}
      BY <1>2
    <3>2. Flat!Filled(dst, len, LAMBDA i : ch % ByteValues) = [b \in DOMAIN Mem |-> Mem[b]]
      BY <3>1 DEF Flat!Filled, Flat!Span, Flat!Mapped
    <3>3. Mem = [b \in DOMAIN Mem |-> Mem[b]]
      BY DEF Mem
    <3> QED
      BY <2>1, <3>2, <3>3
  <2>3. Flat!Memset(dst, ch, len)
    BY <1>3, <1>4, <1>6, <1>7, <2>1, <2>2 DEF Flat!Memset
  <2> QED
    BY <1>5, <2>3 DEF Flat!Next, Flat!Arg
<1>8. CASE /\ len # 0 /\ Holds(dst, len + 1) /\ UNCHANGED host
           /\ data' = Poke(data, Pointer(dst), bytes)
  <2>1. Holds(dst, len)
    BY <1>1, <1>2, <1>8, HoldsLess
  <2>2. Mem' = [ b \in DOMAIN Mem |->
                   IF b \in dst .. dst + len - 1 THEN bytes[b - dst + 1] ELSE Mem[b] ]
    <3> HIDE DEF bytes
    <3> QED
      BY <1>1, <1>2, <1>3, <1>8, <2>1, FlatPoke
  <2>3. \A b \in dst .. dst + len - 1 : bytes[b - dst + 1] = ch % ByteValues
    BY <1>2
  <2>4. Mem' = Flat!Filled(dst, len, LAMBDA i : ch % ByteValues)
    <3> HIDE DEF bytes
    <3> QED
      BY <2>2, <2>3 DEF Flat!Filled, Flat!Span, Flat!Mapped
  <2>5. Flat!Answers(dst)
    BY <1>3, <1>8, FlatAnswer
  <2>6. Flat!Memset(dst, ch, len)
    BY <1>3, <1>4, <1>6, <1>8, <2>4, <2>5 DEF Flat!Memset
  <2> QED
    BY <1>5, <2>6 DEF Flat!Next, Flat!Arg
<1>9. CASE dst + len > Bytes /\ UNCHANGED data
  <2>1. Mem' = Mem
    BY <1>3, <1>9, FlatState
  <2>2. Flat!Improper(call')
    BY <1>5, <1>9 DEF Flat!Improper
  <2>3. Flat!Unanswered
    BY <1>3, <1>4, <2>1, <2>2 DEF Flat!Unanswered
  <2> QED
    BY <2>3 DEF Flat!Next
<1> QED
  BY <1>1, <1>7, <1>8, <1>9, MemsetCases

\* What the host reads at a pointer is what flat memory has there.
LEMMA PeekMem ==
    ASSUME Sound(maps), NEW a \in Nat, NEW n \in Nat, Holds(a, n)
    PROVE  \A k \in 1 .. n :
             Peek(Pointer(a), n)[k] = Mem[a + k - 1] /\ a + k - 1 \in DOMAIN Mem
<1>1. PICK i \in 1 .. Len(maps) : Within(maps[i], a) /\ a + n - 1 <= LastByte(maps[i])
  BY DEF Holds
<1>2. Pointer(a) = [block |-> maps[i].start, offset |-> a - FirstByte(maps[i])]
  BY <1>1, PointerFinds DEF Pointer
<1>3. FirstByte(maps[i]) \in Nat /\ LastByte(maps[i]) \in Nat
  BY SoundMaps DEF Address
<1>4. ASSUME NEW k \in 1 .. n
      PROVE  Peek(Pointer(a), n)[k] = Mem[a + k - 1] /\ a + k - 1 \in DOMAIN Mem
  <2> DEFINE b == a + k - 1
  <2>1. b \in Nat /\ Within(maps[i], b)
    BY <1>1, <1>3 DEF Within
  <2>2. /\ MemOf(maps, data)[b] = data[maps[i].start][b - FirstByte(maps[i])]
        /\ b \in DOMAIN MemOf(maps, data)
    BY <2>1, MemFacts
  <2>3. Peek(Pointer(a), n)[k] = data[maps[i].start][a - FirstByte(maps[i]) + k - 1]
    BY <1>2 DEF Peek
  <2>4. a - FirstByte(maps[i]) + k - 1 = b - FirstByte(maps[i])
    BY <1>3
  <2> HIDE DEF b
  <2>5. Peek(Pointer(a), n)[k] = Mem[b] /\ b \in DOMAIN Mem
    BY <2>2, <2>3, <2>4, FlatState
  <2> QED
    BY <2>5 DEF b
<1> QED
  BY <1>4

\* sceClibMemmove is a copy in flat memory, also of ranges that overlap, or a
\* call on a range that wraps.
LEMMA MemmoveFlat ==
    ASSUME GuestInv, WellPlaced(maps),
           NEW dst \in Addresses, NEW src \in Addresses, NEW len \in Lengths,
           Memmove(dst, src, len)
    PROVE  Flat!Next
<1> DEFINE args  == <<dst, src, len>>
           bytes == Peek(Pointer(src), len)
           fill  == Flat!Filled(dst, len, LAMBDA i : Mem[src + i])
<1>1. Sound(maps) /\ DataTyped(maps, data)
  BY WhenPlaced
<1>2. dst \in Nat /\ src \in Nat /\ len \in Nat
  BY Inputs
<1>3. /\ Called("sceClibMemmove", args) /\ Returns(dst)
      /\ UNCHANGED <<maps, fake_address, framebuffer>>
  BY DEF Memmove
<1>4. Borders' = Borders
  BY <1>3, FlatState
<1>5. call'.function = "sceClibMemmove" /\ call'.args[1] = dst /\ call'.args[2] = src
      /\ call'.args[3] = len
  BY <1>3, CalledIs
<1>6. /\ Flat!Whole(Flat!Span(dst, len + 2)) <=> Holds(dst, len + 2)
      /\ Flat!Whole(Flat!Span(src, len + 2)) <=> Holds(src, len + 2)
  <2>1. len + 2 \in Nat \ {0}
    BY <1>2
  <2> QED
    BY <1>1, <1>2, <2>1, WholeHolds
<1> HIDE DEF args
<1>7. CASE /\ len = 0 \/ ~ Holds(dst, len + 2) \/ ~ Holds(src, len + 2)
           /\ UNCHANGED <<data, host>>
  <2>1. Mem' = Mem /\ Flat!Answers(dst)
    BY <1>3, <1>7, FlatState, FlatAnswer
  <2>2. len = 0 => Mem' = fill
    <3> SUFFICES ASSUME len = 0 PROVE Mem' = fill
      OBVIOUS
    <3>1. dst .. dst + len - 1 = {}
      BY <1>2
    <3>2. fill = [b \in DOMAIN Mem |-> Mem[b]]
      BY <3>1 DEF Flat!Filled, Flat!Span, Flat!Mapped
    <3>3. Mem = [b \in DOMAIN Mem |-> Mem[b]]
      BY DEF Mem
    <3> HIDE DEF fill
    <3> QED
      BY <2>1, <3>2, <3>3
  <2>3. Flat!Memmove(dst, src, len)
    BY <1>3, <1>4, <1>6, <1>7, <2>1, <2>2 DEF Flat!Memmove
  <2> QED
    BY <1>5, <2>3 DEF Flat!Next, Flat!Arg
<1>8. CASE /\ len # 0 /\ Holds(dst, len + 2) /\ Holds(src, len + 2) /\ UNCHANGED host
           /\ bytes \in [1 .. len -> ByteSet]
           /\ data' = Poke(data, Pointer(dst), bytes)
  <2>1. Holds(dst, len) /\ Holds(src, len)
    BY <1>1, <1>2, <1>8, HoldsLess
  <2>2. Mem' = [ b \in DOMAIN Mem |->
                   IF b \in dst .. dst + len - 1 THEN bytes[b - dst + 1] ELSE Mem[b] ]
    <3> HIDE DEF bytes
    <3> QED
      BY <1>1, <1>2, <1>3, <1>8, <2>1, FlatPoke
  <2>3. \A b \in dst .. dst + len - 1 : bytes[b - dst + 1] = Mem[src + (b - dst)]
    <3>1. \A k \in 1 .. len : bytes[k] = Mem[src + k - 1]
      BY <1>1, <1>2, <2>1, PeekMem
    <3> HIDE DEF bytes
    <3>2. ASSUME NEW b \in dst .. dst + len - 1
          PROVE  bytes[b - dst + 1] = Mem[src + (b - dst)]
      <4>1. b - dst + 1 \in 1 .. len /\ src + (b - dst + 1) - 1 = src + (b - dst)
        BY <1>2
      <4> QED
        BY <3>1, <4>1
    <3> QED
      BY <3>2
  <2>4. Mem' = fill
    <3> HIDE DEF bytes
    <3> QED
      BY <2>2, <2>3 DEF Flat!Filled, Flat!Span, Flat!Mapped
  <2>5. Flat!Answers(dst)
    BY <1>3, <1>8, FlatAnswer
  <2>6. Flat!Memmove(dst, src, len)
    BY <1>3, <1>4, <1>6, <1>8, <2>4, <2>5 DEF Flat!Memmove
  <2> QED
    BY <1>5, <2>6 DEF Flat!Next, Flat!Arg
<1>9. CASE (dst + len >= Bytes \/ src + len >= Bytes) /\ UNCHANGED data
  <2>1. Mem' = Mem
    BY <1>3, <1>9, FlatState
  <2>2. Flat!Improper(call')
    BY <1>5, <1>9 DEF Flat!Improper
  <2>3. Flat!Unanswered
    BY <1>3, <1>4, <2>1, <2>2 DEF Flat!Unanswered
  <2> QED
    BY <2>3 DEF Flat!Next
<1> QED
  BY <1>1, <1>7, <1>8, <1>9, MemmoveCases

\* A string that ends within its host block ends within its segment or block,
\* and the other way round.
LEMMA StringFlat ==
    ASSUME Sound(maps), DataTyped(maps, data), NEW a \in Nat, a < Bytes
    PROVE  /\ Pointer(a) # Null => (Terminated(Pointer(a)) <=> Flat!IsString(a))
           /\ Flat!IsString(a) => Pointer(a) # Null
<1>1. Bytes \in Nat
  BY Inputs
<1>2. ASSUME Flat!IsString(a)
      PROVE  Pointer(a) # Null /\ Terminated(Pointer(a))
  <2>1. PICK n \in 1 .. Bytes - a :
          Flat!Whole(Flat!Span(a, n)) /\ Mem[a + n - 1] = 0
    BY <1>2 DEF Flat!IsString
  <2>2. n \in Nat \ {0} /\ n \in Nat
    BY <1>1
  <2>3. Holds(a, n)
    BY <2>1, <2>2, WholeHolds
  <2>4. PICK i \in 1 .. Len(maps) : Within(maps[i], a) /\ a + n - 1 <= LastByte(maps[i])
    BY <2>3 DEF Holds
  <2>5. /\ Pointer(a) = [block |-> maps[i].start, offset |-> a - FirstByte(maps[i])]
        /\ Pointer(a) # Null
    BY <2>4, PointerFinds DEF Pointer
  <2> DEFINE b == a + n - 1
             o == b - FirstByte(maps[i])
  <2>6. /\ FirstByte(maps[i]) \in Nat /\ LastByte(maps[i]) \in Nat
        /\ DOMAIN data[maps[i].start] = 0 .. SizeOf(maps[i]) - 1
        /\ SizeOf(maps[i]) = LastByte(maps[i]) - FirstByte(maps[i]) + 1
    BY SoundMaps DEF Address, DataTyped
  <2>7. b \in Nat /\ Within(maps[i], b)
    BY <2>2, <2>4, <2>6 DEF Within
  <2>8. MemOf(maps, data)[b] = data[maps[i].start][o]
    BY <2>7, MemFacts
  <2>9. data[maps[i].start][o] = 0
    BY <2>1, <2>8, FlatState
  <2>10. o \in DOMAIN data[maps[i].start] /\ o >= a - FirstByte(maps[i])
    BY <2>2, <2>4, <2>6 DEF Within
  <2> HIDE DEF o
  <2>11. Terminated(Pointer(a))
    BY <2>5, <2>9, <2>10 DEF Terminated
  <2> QED
    BY <2>5, <2>11
<1>3. ASSUME Pointer(a) # Null, Terminated(Pointer(a))
      PROVE  Flat!IsString(a)
  <2>1. PICK i \in 1 .. Len(maps) : Within(maps[i], a)
    BY <1>3, PointerNeedsMap DEF Pointer
  <2>2. Pointer(a) = [block |-> maps[i].start, offset |-> a - FirstByte(maps[i])]
    BY <2>1, PointerFinds DEF Pointer
  <2>3. /\ FirstByte(maps[i]) \in Nat /\ LastByte(maps[i]) \in Nat
        /\ LastByte(maps[i]) < Bytes - 1
        /\ DOMAIN data[maps[i].start] = 0 .. SizeOf(maps[i]) - 1
        /\ SizeOf(maps[i]) = LastByte(maps[i]) - FirstByte(maps[i]) + 1
    BY SoundMaps DEF Address, DataTyped
  <2>4. PICK o \in DOMAIN data[maps[i].start] :
          o >= a - FirstByte(maps[i]) /\ data[maps[i].start][o] = 0
    BY <1>3, <2>2 DEF Terminated
  <2> DEFINE b == o + FirstByte(maps[i])
             n == b - a + 1
  <2>5. /\ o \in Int /\ b \in Nat /\ Within(maps[i], b) /\ b - FirstByte(maps[i]) = o
        /\ n \in 1 .. Bytes - a /\ n \in Nat \ {0} /\ a + n - 1 = b
        /\ b <= LastByte(maps[i])
    <3> DEFINE first == FirstByte(maps[i])
               last  == LastByte(maps[i])
    <3>1. /\ o \in Nat /\ o <= last - first /\ o >= a - first
          /\ first \in Nat /\ last \in Nat /\ last < Bytes - 1
          /\ first <= a /\ a <= last
      BY <2>1, <2>3, <2>4 DEF Within
    <3>2. Within(maps[i], b) <=> first <= b /\ b <= last
      BY DEF Within
    <3> HIDE DEF first, last
    <3>3. b = o + first
      BY DEF first
    <3> HIDE DEF b
    <3>4. b \in Nat /\ first <= b /\ b <= last /\ a <= b /\ b - first = o
      BY <3>1, <3>3
    <3>5. n \in 1 .. Bytes - a /\ n \in Nat \ {0} /\ a + n - 1 = b
      BY <1>1, <3>1, <3>4
    <3> QED
      BY <3>1, <3>2, <3>4, <3>5 DEF first, last
  <2>6. Mem[b] = 0
    <3>1. MemOf(maps, data)[b] = data[maps[i].start][b - FirstByte(maps[i])]
      BY <2>5, MemFacts
    <3> QED
      BY <2>4, <2>5, <3>1, FlatState
  <2> HIDE DEF b, n
  <2>7. Holds(a, n)
    BY <2>1, <2>5 DEF Holds
  <2>8. Flat!Whole(Flat!Span(a, n))
    BY <2>5, <2>7, WholeHolds
  <2> QED
    BY <2>5, <2>6, <2>8 DEF Flat!IsString
<1> QED
  BY <1>2, <1>3

\* The program has a pointer to the addresses that are mapped.
LEMMA MappedFlat ==
    ASSUME Sound(maps), NEW a \in Nat
    PROVE  a \in Flat!Mapped <=> Pointer(a) # Null
<1>1. a \in DOMAIN Mem <=> \E i \in 1 .. Len(maps) : Within(maps[i], a)
  BY MemFacts, FlatState
<1>2. (\E i \in 1 .. Len(maps) : Within(maps[i], a)) => Pointer(a) # Null
  BY PointerFinds DEF Pointer
<1>3. Pointer(a) # Null => \E i \in 1 .. Len(maps) : Within(maps[i], a)
  BY PointerNeedsMap DEF Pointer
<1> QED
  BY <1>1, <1>2, <1>3 DEF Flat!Mapped

\* sceKernelCreateMutex fails, or its name is no string.
LEMMA CreateMutexFlat ==
    ASSUME GuestInv, WellPlaced(maps), NEW name \in Addresses, CreateMutex(name)
    PROVE  Flat!Next
<1>1. Sound(maps) /\ DataTyped(maps, data) /\ name \in Nat /\ name < Bytes
  BY WhenPlaced, Inputs
<1>2. /\ Called("sceKernelCreateMutex", <<name>>) /\ Returns(-1)
      /\ UNCHANGED <<maps, data, fake_address, framebuffer>>
      /\ host' = IF Pointer(name) = Null \/ Terminated(Pointer(name))
                 THEN host ELSE "undefined"
  BY DEF CreateMutex
<1>3. Mem' = Mem /\ Borders' = Borders
  BY <1>2, FlatState
<1>4. call'.function = "sceKernelCreateMutex" /\ call'.args[1] = name
  BY <1>2, CalledIs
<1>5. /\ name \in Flat!Mapped <=> Pointer(name) # Null
      /\ Pointer(name) # Null => (Terminated(Pointer(name)) <=> Flat!IsString(name))
  BY <1>1, MappedFlat, StringFlat
<1>6. CASE Pointer(name) = Null \/ Terminated(Pointer(name))
  <2>1. Flat!Answers(-1)
    BY <1>2, <1>6, FlatAnswer
  <2>2. Flat!CreateMutex(name)
    BY <1>2, <1>3, <1>5, <1>6, <2>1 DEF Flat!CreateMutex
  <2> QED
    BY <1>4, <2>2 DEF Flat!Next, Flat!Arg
<1>7. CASE ~ (Pointer(name) = Null \/ Terminated(Pointer(name)))
  <2>1. Flat!Improper(call')
    BY <1>4, <1>5, <1>7 DEF Flat!Improper
  <2>2. Flat!Unanswered
    BY <1>2, <1>3, <2>1 DEF Flat!Unanswered
  <2> QED
    BY <2>2 DEF Flat!Next
<1> QED
  BY <1>6, <1>7

\* Nothing is locked or unlocked.
LEMMA UseMutexFlat ==
    ASSUME NEW f \in {"sceKernelLockMutex", "sceKernelUnlockMutex"}, NEW id,
           UseMutex(f, id)
    PROVE  Flat!Next
<1>1. /\ Called(f, <<id>>) /\ Returns(-1)
      /\ UNCHANGED <<maps, data, host, fake_address, framebuffer>>
  BY DEF UseMutex
<1>2. Mem' = Mem /\ Borders' = Borders /\ Flat!Answers(-1)
  BY <1>1, FlatState, FlatAnswer
<1>3. Flat!UseMutex
  BY <1>1, <1>2 DEF Flat!UseMutex
<1>4. call'.function \in {"sceKernelLockMutex", "sceKernelUnlockMutex"}
  BY <1>1, CalledIs
<1> QED
  BY <1>3, <1>4 DEF Flat!Next

\* sceKernelGetMemBlockBase writes the base into a word, or the word is torn.
LEMMA GetMemBlockBaseFlat ==
    ASSUME GuestInv, WellPlaced(maps), NEW uid, NEW addr \in Addresses,
           GetMemBlockBase(uid, addr)
    PROVE  Flat!Next
<1> DEFINE args  == <<uid, addr>>
           bytes == WordBytesOf(fake_address)
           fill  == Flat!Filled(addr, WordBytes, LAMBDA i : Flat!WordByte(fake_address, i))
<1>1. Sound(maps) /\ DataTyped(maps, data) /\ addr \in Nat
  BY WhenPlaced, Inputs
<1>2. WordBytes \in Nat \ {0} /\ fake_address \in Nat
  BY SizesAssumption DEF GuestInv, Scalars, Address
<1>3. /\ Called("sceKernelGetMemBlockBase", args) /\ Returns(0)
      /\ UNCHANGED <<maps, fake_address, framebuffer>>
      /\ IF Pointer(addr) = Null THEN UNCHANGED <<data, host>>
         ELSE HostWrites(Pointer(addr), bytes)
  BY DEF GetMemBlockBase
<1>4. Borders' = Borders
  BY <1>3, FlatState
<1>5. /\ call'.function = "sceKernelGetMemBlockBase"
      /\ call'.args[1] = uid /\ call'.args[2] = addr
  BY <1>3, CalledIs
<1>6. addr \in Flat!Mapped <=> Pointer(addr) # Null
  BY <1>1, MappedFlat
<1>7. Flat!Whole(Flat!Span(addr, WordBytes)) <=> Holds(addr, WordBytes)
  BY <1>1, <1>2, WholeHolds
<1>8. bytes \in [1 .. WordBytes -> ByteSet]
  <2>1. \A i \in 1 .. WordBytes : i - 1 \in 0 .. WordBytes - 1
    BY <1>2
  <2>2. \A i \in 1 .. WordBytes :
          (fake_address \div ByteValues ^ (i - 1)) % ByteValues \in ByteSet
    BY <1>2, <2>1, BytesAreBytes
  <2> QED
    BY <2>2 DEF WordBytesOf
<1> HIDE DEF args, bytes
<1>10. CASE Pointer(addr) = Null
  <2>1. Mem' = Mem /\ Flat!Answers(0)
    BY <1>3, <1>10, FlatState, FlatAnswer
  <2>2. Flat!GetMemBlockBase(uid, addr)
    BY <1>3, <1>4, <1>6, <1>10, <2>1 DEF Flat!GetMemBlockBase
  <2> QED
    BY <1>5, <2>2 DEF Flat!Next, Flat!Arg
<1>11. CASE /\ Pointer(addr) # Null /\ Holds(addr, WordBytes) /\ UNCHANGED host
            /\ data' = Poke(data, Pointer(addr), bytes)
  <2>1. Mem' = [ b \in DOMAIN Mem |->
                   IF b \in addr .. addr + WordBytes - 1
                   THEN bytes[b - addr + 1] ELSE Mem[b] ]
    BY <1>1, <1>2, <1>3, <1>8, <1>11, FlatPoke
  <2>2. \A b \in addr .. addr + WordBytes - 1 :
          bytes[b - addr + 1] = Flat!WordByte(fake_address, b - addr)
    <3>1. ASSUME NEW b \in addr .. addr + WordBytes - 1
          PROVE  bytes[b - addr + 1] = Flat!WordByte(fake_address, b - addr)
      <4> DEFINE k == b - addr + 1
                 j == b - addr
      <4>1. k \in 1 .. WordBytes /\ k - 1 = j
        BY <1>1, <1>2
      <4> HIDE DEF k
      <4>2. bytes[k] = (fake_address \div ByteValues ^ (k - 1)) % ByteValues
        BY <4>1, Zenon DEF bytes, WordBytesOf
      <4>3. bytes[k] = (fake_address \div ByteValues ^ j) % ByteValues
        BY <4>1, <4>2, Zenon
      <4> QED
        BY <4>3, Zenon DEF Flat!WordByte, k, j
    <3> QED
      BY <3>1
  <2>3. Mem' = fill
    BY <2>1, <2>2 DEF Flat!Filled, Flat!Span, Flat!Mapped
  <2>4. Flat!Answers(0)
    BY <1>3, <1>11, FlatAnswer
  <2>5. Flat!GetMemBlockBase(uid, addr)
    BY <1>3, <1>4, <1>6, <1>7, <1>11, <2>3, <2>4 DEF Flat!GetMemBlockBase
  <2> QED
    BY <1>5, <2>5 DEF Flat!Next, Flat!Arg
<1>12. CASE Pointer(addr) # Null /\ ~ Holds(addr, WordBytes) /\ UNCHANGED data
  <2>1. Mem' = Mem
    BY <1>3, <1>12, FlatState
  <2>2. Flat!Improper(call')
    BY <1>5, <1>6, <1>7, <1>12 DEF Flat!Improper
  <2>3. Flat!Unanswered
    BY <1>3, <1>4, <2>1, <2>2 DEF Flat!Unanswered
  <2> QED
    BY <2>3 DEF Flat!Next
<1>13. Pointer(addr) # Null =>
         \/ /\ Holds(addr, WordBytes) /\ UNCHANGED host
            /\ data' = Poke(data, Pointer(addr), bytes)
         \/ ~ Holds(addr, WordBytes) /\ UNCHANGED data
  BY <1>1, <1>2, <1>3, <1>8, WrittenHolds
<1> QED
  BY <1>10, <1>11, <1>12, <1>13

\* sceDisplaySetFramebuf keeps a copy of the record, or the record is torn.
LEMMA SetFramebufFlat ==
    ASSUME GuestInv, WellPlaced(maps), NEW addr \in Addresses, NEW sync,
           SetFramebuf(addr, sync)
    PROVE  Flat!Next
<1> DEFINE args == <<addr, sync>>
           n    == FramebufferBytes
           p    == Pointer(addr)
<1>1. Sound(maps) /\ DataTyped(maps, data) /\ addr \in Nat /\ n \in Nat \ {0}
  BY WhenPlaced, Inputs, SizesAssumption
<1>2. /\ Called("sceDisplaySetFramebuf", args) /\ Returns(0)
      /\ UNCHANGED <<maps, data, fake_address>>
      /\ IF p = Null
         THEN framebuffer' = [framebuffer EXCEPT !.based = FALSE] /\ UNCHANGED host
         ELSE IF Touchable(p, n)
         THEN framebuffer' = [params |-> Peek(p, n), based |-> TRUE] /\ UNCHANGED host
         ELSE host' = "undefined" /\ UNCHANGED framebuffer
  BY DEF SetFramebuf
<1>3. Mem' = Mem /\ Borders' = Borders
  BY <1>2, FlatState
<1>4. /\ call'.function = "sceDisplaySetFramebuf"
      /\ call'.args[1] = addr /\ call'.args[2] = sync
  BY <1>2, CalledIs
<1>5. addr \in Flat!Mapped <=> p # Null
  BY <1>1, MappedFlat
<1>6. Flat!Whole(Flat!Span(addr, n)) <=> Holds(addr, n)
  BY <1>1, WholeHolds
<1>7. Touchable(p, n) <=> Holds(addr, n)
  BY <1>1, TouchableHolds
<1>8. Holds(addr, n) => Peek(p, n) = [i \in 1 .. n |-> Mem[addr + i - 1]]
  <2>1. Holds(addr, n) => \A k \in 1 .. n : Peek(p, n)[k] = Mem[addr + k - 1]
    BY <1>1, PeekMem
  <2>2. Peek(p, n) = [k \in 1 .. n |-> Peek(p, n)[k]]
    BY DEF Peek
  <2> HIDE DEF p, n
  <2> QED
    BY <2>1, <2>2
<1> HIDE DEF args, p
<1>9. CASE p = Null
  <2>1. Flat!Answers(0)
    BY <1>2, <1>9, FlatAnswer
  <2>2. Flat!SetFramebuf(addr, sync)
    BY <1>2, <1>3, <1>5, <1>9, <2>1 DEF Flat!SetFramebuf
  <2> QED
    BY <1>4, <2>2 DEF Flat!Next, Flat!Arg
<1>10. CASE p # Null /\ Holds(addr, n)
  <2>1. framebuffer' = [params |-> Peek(p, n), based |-> TRUE] /\ UNCHANGED host
    BY <1>2, <1>7, <1>10
  <2>2. framebuffer' = [params |-> [i \in 1 .. n |-> Mem[addr + i - 1]], based |-> TRUE]
    BY <1>8, <1>10, <2>1
  <2>3. Flat!Answers(0)
    BY <1>2, <2>1, FlatAnswer
  <2>4. Flat!SetFramebuf(addr, sync)
    BY <1>2, <1>3, <1>5, <1>6, <1>10, <2>2, <2>3 DEF Flat!SetFramebuf
  <2> QED
    BY <1>4, <2>4 DEF Flat!Next, Flat!Arg
<1>11. CASE p # Null /\ ~ Holds(addr, n)
  <2>1. UNCHANGED framebuffer
    BY <1>2, <1>7, <1>11
  <2>2. Flat!Improper(call')
    BY <1>4, <1>5, <1>6, <1>11 DEF Flat!Improper
  <2>3. Flat!Unanswered
    BY <1>2, <1>3, <2>1, <2>2 DEF Flat!Unanswered
  <2> QED
    BY <2>3 DEF Flat!Next
<1> QED
  BY <1>9, <1>10, <1>11

\* A map that meets none of the others, in flat memory: its addresses are
\* added, the others keep their bytes, and there is one more border.
LEMMA GrowFlat ==
    ASSUME Sound(maps), Sound(maps'), NEW m \in Map, maps' \in MapMemory(maps, m),
           \A i \in 1 .. Len(maps) : maps[i].end < m.start \/ m.end < maps[i].start,
           \A i \in 1 .. Len(maps) : data'[maps[i].start] = data[maps[i].start]
    PROVE  /\ Flat!Grows
           /\ Flat!Added = Reach(m)
           /\ Borders' = Borders \cup {FirstByte(m)}
           /\ FirstByte(m) \in Nat /\ LastByte(m) \in Nat
           /\ FirstByte(m) <= LastByte(m)
           /\ SizeOf(m) = LastByte(m) - FirstByte(m) + 1
           /\ \A a \in Reach(m) : Mem'[a] = data'[m.start][a - FirstByte(m)]
<1> DEFINE old == MemOf(maps, data)
           new == MemOf(maps', data')
<1>1. Mem = old /\ Mem' = new
  BY FlatState
<1>2. /\ \A i \in 1 .. Len(maps) : \E j \in 1 .. Len(maps') : maps'[j] = maps[i]
      /\ \E j \in 1 .. Len(maps') : maps'[j] = m
      /\ \A j \in 1 .. Len(maps') :
           maps'[j] = m \/ \E i \in 1 .. Len(maps) : maps'[j] = maps[i]
  BY MapMemoryElements DEF Sound
<1>3. /\ DOMAIN old \subseteq Nat
      /\ \A a \in Nat : a \in DOMAIN old <=> \E i \in 1 .. Len(maps) : Within(maps[i], a)
      /\ \A a \in Nat, i \in 1 .. Len(maps) :
           Within(maps[i], a) => old[a] = data[maps[i].start][a - FirstByte(maps[i])]
  BY MemFacts DEF Address
<1>4. /\ DOMAIN new \subseteq Nat
      /\ \A a \in Nat : a \in DOMAIN new <=> \E j \in 1 .. Len(maps') : Within(maps'[j], a)
      /\ \A a \in Nat, j \in 1 .. Len(maps') :
           Within(maps'[j], a) =>
             new[a] = (data')[maps'[j].start][a - FirstByte(maps'[j])]
  BY MemFacts DEF Address
<1>5. /\ FirstByte(m) \in Nat /\ LastByte(m) \in Nat /\ FirstByte(m) <= LastByte(m)
      /\ SizeOf(m) = LastByte(m) - FirstByte(m) + 1
  BY <1>2, SoundMaps DEF Address
<1>6. \A a \in Nat : a \in Reach(m) <=> Within(m, a)
  BY <1>5 DEF Reach, Within
<1>7. ASSUME NEW i \in 1 .. Len(maps), NEW a \in Nat, Within(maps[i], a)
      PROVE  ~ Within(m, a)
  <2>1. /\ FirstByte(maps[i]) \in Nat /\ LastByte(maps[i]) \in Nat
        /\ maps[i] \in Map
    BY SoundMaps DEF Address
  <2>2. LastByte(maps[i]) < FirstByte(m) \/ LastByte(m) < FirstByte(maps[i])
    BY <2>1, BytesApart
  <2> QED
    BY <1>5, <1>7, <2>1, <2>2 DEF Within
<1> HIDE DEF old, new
<1>8. ASSUME NEW a \in DOMAIN old
      PROVE  a \in DOMAIN new /\ new[a] = old[a]
  <2>1. a \in Nat
    BY <1>3
  <2>2. PICK i \in 1 .. Len(maps) : Within(maps[i], a)
    BY <1>3, <2>1
  <2>3. PICK j \in 1 .. Len(maps') : maps'[j] = maps[i]
    BY <1>2
  <2>4. old[a] = data[maps[i].start][a - FirstByte(maps[i])]
    BY <1>3, <2>1, <2>2
  <2>5. a \in DOMAIN new /\ new[a] = (data')[maps[i].start][a - FirstByte(maps[i])]
    BY <1>4, <2>1, <2>2, <2>3
  <2> QED
    BY <2>4, <2>5
<1>9. DOMAIN new \ DOMAIN old = Reach(m)
  <2>1. ASSUME NEW a \in Nat
        PROVE  a \in DOMAIN new <=> a \in DOMAIN old \/ Within(m, a)
    BY <1>2, <1>3, <1>4
  <2>2. ASSUME NEW a \in Nat
        PROVE  Within(m, a) => a \notin DOMAIN old
    BY <1>3, <1>7
  <2>3. Reach(m) \subseteq Nat
    BY <1>5 DEF Reach
  <2> QED
    BY <1>3, <1>4, <1>6, <2>1, <2>2, <2>3
<1>10. Flat!Grows /\ Flat!Added = Reach(m)
  BY <1>1, <1>8, <1>9 DEF Flat!Grows, Flat!Added, Flat!Mapped
<1>11. Borders' = Borders \cup {FirstByte(m)}
  <2>1. Borders' = { FirstByte(maps'[j]) : j \in 1 .. Len(maps') }
    BY DEF Borders
  <2> QED
    BY <1>2, <2>1 DEF Borders
<1>12. ASSUME NEW a \in Reach(m)
       PROVE  new[a] = (data')[m.start][a - FirstByte(m)]
  <2>1. a \in Nat /\ Within(m, a)
    BY <1>5, <1>6 DEF Reach
  <2>2. PICK j \in 1 .. Len(maps') : maps'[j] = m
    BY <1>2
  <2> QED
    BY <1>4, <2>1, <2>2
<1> QED
  BY <1>1, <1>5, <1>10, <1>11, <1>12

\* Loading a segment.
LEMMA LoadSegmentFlat ==
    ASSUME GuestInv, LoadSegment, WellPlaced(maps')
    PROVE  Flat!Next
<1> DEFINE m == Image[loaded + 1].map
<1>1. /\ m \in Map /\ maps' \in MapMemory(maps, m)
      /\ Sound(maps) /\ Sound(maps')
      /\ \A i \in 1 .. Len(maps) : maps[i].end < m.start \/ m.end < maps[i].start
      /\ \A i \in 1 .. Len(maps) : data'[maps[i].start] = data[maps[i].start]
  BY LoadedBlocks
<1>2. UNCHANGED <<fake_address, framebuffer, call, r0>>
  BY DEF LoadSegment
<1> HIDE DEF m
<1>3. /\ Flat!Grows /\ Flat!Added = Reach(m)
      /\ Borders' = Borders \cup {FirstByte(m)}
      /\ FirstByte(m) \in Nat /\ LastByte(m) \in Nat
      /\ FirstByte(m) <= LastByte(m)
  BY <1>1, GrowFlat
<1>4. FirstByte(m) \in Reach(m) /\ \A a \in Reach(m) : FirstByte(m) <= a
  BY <1>3 DEF Reach
<1>5. Flat!Load
  BY <1>2, <1>3, <1>4 DEF Flat!Load
<1> QED
  BY <1>5 DEF Flat!Next

\* Starting the guest is nothing to flat memory.
LEMMA RunGuestFlat == RunGuest => UNCHANGED Flat!vars
BY FlatState DEF RunGuest, Flat!vars

\* A guest store changes one byte, or writes what was there.
LEMMA GuestStoreFlat ==
    ASSUME GuestInv, WellPlaced(maps), NEW a \in Addresses, NEW byte \in ByteSet,
           GuestStore(a, byte)
    PROVE  Flat!Next \/ UNCHANGED Flat!vars
<1>1. Sound(maps) /\ DataTyped(maps, data) /\ a \in Nat
  BY WhenPlaced, Inputs
<1>2. /\ UNCHANGED <<maps, fake_address, framebuffer, call, r0>>
      /\ Pointer(a) # Null /\ data' = Poke(data, Pointer(a), <<byte>>)
  BY DEF GuestStore
<1>3. Borders' = Borders
  BY <1>2, FlatState
<1>4. Holds(a, 1) /\ a \in DOMAIN Mem
  BY <1>1, <1>2, PointerHolds, MappedFlat DEF Flat!Mapped
<1>5. Mem' = [ b \in DOMAIN Mem |-> IF b = a THEN byte ELSE Mem[b] ]
  <2> DEFINE bytes == <<byte>>
  <2>1. 1 \in Nat /\ bytes \in [1 .. 1 -> ByteSet]
    OBVIOUS
  <2>2. data' = Poke(data, Pointer(a), bytes)
    BY <1>2
  <2>3. bytes[1] = byte
    OBVIOUS
  <2> HIDE DEF bytes
  <2>4. Mem' = [ b \in DOMAIN Mem |->
                   IF b \in a .. a + 1 - 1 THEN bytes[b - a + 1] ELSE Mem[b] ]
    BY <1>1, <1>2, <1>4, <2>1, <2>2, FlatPoke
  <2>5. a .. a + 1 - 1 = {a} /\ a - a + 1 = 1
    BY <1>1
  <2> QED
    BY <2>3, <2>4, <2>5
<1>6. CASE Mem[a] = byte
  <2>1. Mem = [ b \in DOMAIN Mem |-> Mem[b] ]
    BY FlatState DEF MemOf
  <2>2. Mem' = Mem
    BY <1>5, <1>6, <2>1
  <2> QED
    BY <1>2, <1>3, <2>2 DEF Flat!vars
<1>7. CASE Mem[a] # byte
  <2>1. /\ DOMAIN Mem' = DOMAIN Mem
        /\ \A b \in DOMAIN Mem : Mem'[b] # Mem[b] <=> b = a
    BY <1>5, <1>7
  <2>2. \E x \in DOMAIN Mem : \A b \in DOMAIN Mem : Mem'[b] # Mem[b] <=> b = x
    BY <1>4, <2>1
  <2>3. Flat!Store
    BY <1>2, <1>3, <2>1, <2>2 DEF Flat!Store
  <2> QED
    BY <2>3 DEF Flat!Next
<1> QED
  BY <1>6, <1>7

\* sceKernelAllocMemBlock hands out a zero block of new addresses, says that
\* there is none, or was given no string for a name.
LEMMA AllocMemBlockFlat ==
    ASSUME GuestInv, WellPlaced(maps), WellPlaced(maps'),
           NEW name \in Addresses, NEW type, NEW size \in BlockSizes,
           AllocMemBlock(name, type, size)
    PROVE  Flat!Next
<1> DEFINE p    == Pointer(name)
           n    == MemorySize(size \div PageBytes)
           m    == HeapBlock(size)
           args == <<name, type, size>>
<1>1. /\ Sound(maps) /\ DataTyped(maps, data) /\ SortedByEnd(maps)
      /\ name \in Nat /\ name < Bytes /\ size \in Nat
  BY WhenPlaced, Inputs DEF GuestInv, Scalars
<1>2. /\ Called("sceKernelAllocMemBlock", args) /\ Returns(2) /\ UNCHANGED framebuffer
  BY DEF AllocMemBlock
<1>3. /\ call'.function = "sceKernelAllocMemBlock"
      /\ call'.args[1] = name /\ call'.args[2] = type /\ call'.args[3] = size
  BY <1>2, CalledIs
<1>4. /\ p # Null => (Terminated(p) <=> Flat!IsString(name))
      /\ Flat!IsString(name) => p # Null
  BY <1>1, StringFlat
<1>5. \/ (p = Null \/ ~ Terminated(p)) /\ UNCHANGED <<maps, data, fake_address>>
      \/ /\ p # Null /\ Terminated(p)
         /\ MoreMemory(maps, n) # NoAddress /\ MapZeroed(m)
         /\ fake_address' = FirstByte(m) /\ UNCHANGED host
      \/ /\ p # Null /\ Terminated(p)
         /\ fake_address' = 0 /\ UNCHANGED <<maps, data, host>>
  BY DEF AllocMemBlock
<1>6. Flat!AllocMemBlock(name, type, size) => Flat!Next
  BY <1>3 DEF Flat!Next, Flat!Arg
<1> HIDE DEF p, args
<1>7. CASE (p = Null \/ ~ Terminated(p)) /\ UNCHANGED <<maps, data, fake_address>>
  <2>1. Mem' = Mem /\ Borders' = Borders
    BY <1>7, FlatState
  <2>2. Flat!Improper(call')
    BY <1>3, <1>4, <1>7 DEF Flat!Improper
  <2>3. Flat!Unanswered
    BY <1>2, <1>7, <2>1, <2>2 DEF Flat!Unanswered
  <2> QED
    BY <2>3 DEF Flat!Next
<1>8. CASE /\ p # Null /\ Terminated(p)
           /\ fake_address' = 0 /\ UNCHANGED <<maps, data, host>>
  <2>1. Mem' = Mem /\ Borders' = Borders /\ Flat!Answers(2)
    BY <1>2, <1>8, FlatState, FlatAnswer
  <2>2. Flat!Grows /\ Flat!Added = {}
    BY <2>1 DEF Flat!Grows, Flat!Added, Flat!Mapped
  <2>3. Flat!AllocMemBlock(name, type, size)
    BY <1>2, <1>4, <1>8, <2>1, <2>2 DEF Flat!AllocMemBlock
  <2> QED
    BY <1>6, <2>3
<1>9. CASE /\ p # Null /\ Terminated(p)
           /\ MoreMemory(maps, n) # NoAddress /\ MapZeroed(m)
           /\ fake_address' = FirstByte(m) /\ UNCHANGED host
  <2>1. maps \in Seq(Map) /\ SortedByEnd(maps) /\ (WellPlaced(maps) => Disjoint(maps))
    BY <1>1 DEF Sound
  <2>2. /\ m \in Map /\ maps' \in MapMemory(maps, m)
        /\ Sound(maps) /\ Sound(maps') /\ SizeOf(m) > size
        /\ \A i \in 1 .. Len(maps) : maps[i].end < m.start \/ m.end < maps[i].start
        /\ \A o \in 0 .. SizeOf(m) - 1 : data'[m.start][o] = 0
        /\ \A i \in 1 .. Len(maps) : data'[maps[i].start] = data[maps[i].start]
    BY <1>1, <1>9, <2>1, HeapBlockMapped
  <2> HIDE DEF m, n
  <2>3. /\ Flat!Grows /\ Flat!Added = Reach(m)
        /\ Borders' = Borders \cup {FirstByte(m)}
        /\ FirstByte(m) \in Nat /\ LastByte(m) \in Nat /\ FirstByte(m) <= LastByte(m)
        /\ SizeOf(m) = LastByte(m) - FirstByte(m) + 1
        /\ \A a \in Reach(m) : Mem'[a] = data'[m.start][a - FirstByte(m)]
    BY <2>2, GrowFlat
  <2>4. ASSUME NEW a \in Reach(m)
        PROVE  Mem'[a] = 0
    <3>1. a - FirstByte(m) \in 0 .. SizeOf(m) - 1
      BY <2>3 DEF Reach
    <3> QED
      BY <2>2, <2>3, <3>1
  <2>5. Flat!Span(fake_address', size + 1) \subseteq Reach(m)
    BY <1>1, <1>9, <2>2, <2>3 DEF Flat!Span, Reach
  <2>6. Reach(m) # {}
    <3>1. FirstByte(m) \in Reach(m)
      BY <2>3 DEF Reach
    <3> QED
      BY <3>1
  <2>7. Flat!Answers(2)
    BY <1>2, <1>9, FlatAnswer
  <2>8. Flat!IsString(name) /\ UNCHANGED framebuffer
    BY <1>2, <1>4, <1>9
  <2>9. \A a \in Flat!Added : Mem'[a] = 0
    BY <2>3, <2>4
  <2>10. /\ Flat!Added # {}
         /\ Flat!Span(fake_address', size + 1) \subseteq Flat!Added
         /\ Borders' = Borders \cup {fake_address'}
    BY <1>9, <2>3, <2>5, <2>6
  <2>11. Flat!AllocMemBlock(name, type, size)
    BY <2>3, <2>7, <2>8, <2>9, <2>10 DEF Flat!AllocMemBlock
  <2> QED
    BY <1>6, <2>11
<1> QED
  BY <1>5, <1>7, <1>8, <1>9

\* At first flat memory is empty.
LEMMA FlatInit == Init => Flat!Init
<1> SUFFICES ASSUME Init PROVE Flat!Init
  OBVIOUS
<1>1. Len(maps) = 0 /\ 1 .. Len(maps) = {}
  BY DEF Init
<1>2. Borders = {}
  BY <1>1 DEF Borders
<1>3. Mem = << >>
  <2>1. DOMAIN Mem = {}
    BY <1>1 DEF Mem
  <2>2. Mem = [ a \in {} |-> Mem[a] ]
    BY <2>1 DEF Mem
  <2> QED
    BY <2>2
<1> QED
  BY <1>2, <1>3 DEF Init, Flat!Init

\* Every step is one of flat memory, or nothing to it.
LEMMA FlatNext ==
    ASSUME GuestInv, WellPlaced(maps), WellPlaced(maps'), [Next]_vars
    PROVE  [Flat!Next]_(Flat!vars)
<1> SUFFICES Flat!Next \/ UNCHANGED Flat!vars
  OBVIOUS
<1>1. CASE LoadSegment
  BY <1>1, LoadSegmentFlat
<1>2. CASE RunGuest
  BY <1>2, RunGuestFlat
<1>3. ASSUME NEW a \in Addresses, NEW ch \in Characters, GuestStore(a, ch % ByteValues)
      PROVE  Flat!Next \/ UNCHANGED Flat!vars
  BY <1>3, GuestStoreFlat, Inputs
<1>4. ASSUME NEW dst \in Addresses, NEW ch \in Characters, NEW len \in Lengths,
             Memset(dst, ch, len)
      PROVE  Flat!Next
  BY <1>4, MemsetFlat
<1>5. ASSUME NEW dst \in Addresses, NEW src \in Addresses, NEW len \in Lengths,
             Memmove(dst, src, len)
      PROVE  Flat!Next
  BY <1>5, MemmoveFlat
<1>6. ASSUME NEW name \in Addresses, CreateMutex(name)
      PROVE  Flat!Next
  BY <1>6, CreateMutexFlat
<1>7. ASSUME NEW f \in {"sceKernelLockMutex", "sceKernelUnlockMutex"}, UseMutex(f, -1)
      PROVE  Flat!Next
  BY <1>7, UseMutexFlat
<1>8. ASSUME NEW name \in Addresses, NEW size \in BlockSizes, AllocMemBlock(name, 0, size)
      PROVE  Flat!Next
  BY <1>8, AllocMemBlockFlat
<1>9. ASSUME NEW addr \in Addresses, GetMemBlockBase(2, addr)
      PROVE  Flat!Next
  BY <1>9, GetMemBlockBaseFlat
<1>10. ASSUME NEW addr \in Addresses, SetFramebuf(addr, 1)
       PROVE  Flat!Next
  BY <1>10, SetFramebufFlat
<1>11. CASE UNCHANGED vars
  BY <1>11, FlatState DEF vars, Flat!vars
<1> QED
  BY <1>1, <1>2, <1>3, <1>4, <1>5, <1>6, <1>7, <1>8, <1>9, <1>10, <1>11 DEF Next

\* The HLE functions and their host pointers (SceLibKernel, SceSysmem and
\* Display over memory.cpp) give the program flat memory: every call is
\* answered as memory without blocks or pointers would answer it, and one that
\* is not changes nothing the program can see, as long as no block runs over
\* the end of the space.
THEOREM ImplementsFlatMemory == Spec /\ [](WellPlaced(maps)) => ImplementsFlat
<1>1. Init => Flat!Init
  BY FlatInit
<1>2. GuestInv /\ WellPlaced(maps) /\ WellPlaced(maps)' /\ [Next]_vars
        => [Flat!Next]_(Flat!vars)
  BY FlatNext
<1>3. Spec => []GuestInv
  BY GuestInvariant
<1> QED
  BY <1>1, <1>2, <1>3, PTL DEF Spec, ImplementsFlat, Flat!Spec

\* Also in a program that goes on until a block does run over the end, every
\* step before that one is a step of flat memory.
THEOREM FlatUpToTheEnd ==
    Spec => [][ WellPlaced(maps) /\ WellPlaced(maps') =>
                  Flat!Next \/ UNCHANGED Flat!vars ]_vars
<1> DEFINE FlatStep == WellPlaced(maps) /\ WellPlaced(maps') =>
                         Flat!Next \/ UNCHANGED Flat!vars
<1>1. GuestInv /\ [Next]_vars => FlatStep
  BY FlatNext
<1> HIDE DEF FlatStep
<1>2. Spec => [][FlatStep]_vars
  BY <1>1, GuestInvariant, PTL DEF Spec
<1> QED
  BY <1>2 DEF FlatStep
=============================================================================
