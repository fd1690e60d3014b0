----------------------------- MODULE MemoryMap -----------------------------
(***************************************************************************)
(* The guest address space as betavita::memory keeps it: memory_map_list,  *)
(* a vector of maps ordered by their last address, and the search that     *)
(* hle::more_memory makes in it for a free range.                          *)
(*                                                                         *)
(* Addresses are counted in 4 KiB pages: every caller of map_memory passes *)
(* a page-aligned start and the last byte of a page.  uint32_t arithmetic  *)
(* is arithmetic modulo Pages, and an int is negative from Pages \div 2    *)
(* on, so the code's overflows are kept.                                   *)
(***************************************************************************)
EXTENDS Naturals, Integers, Sequences, SequencesExt

CONSTANTS
    Pages,      \* pages of the address space (2^20 in the program)
    HeapBase    \* the page of address 0x60000000

ASSUME PagesAssumption ==
    /\ Pages \in Nat
    /\ Pages > 8
    /\ Pages % 2 = 0
    /\ HeapBase \in 1 .. Pages - 1

Page      == 0 .. Pages - 1
NoAddress == Pages          \* the 0xFFFFFFFF that more_memory returns
Kind      == {"segment", "stack", "heap"}
Access    == {"r", "w", "x"}
ReadWrite == {"r", "w"}

\* One map; both bounds belong to it, as in the C++ struct.
Map == [kind : Kind, start : Page, end : Page, protection : SUBSET Access]

Covers(m, p) == m.start <= p /\ p <= m.end

-----------------------------------------------------------------------------
(* memory.cpp *)

\* Fault: the list is not sorted after push_back.
MapMemoryUnsorted(maps, m) == { Append(maps, m) }

\* push_back then std::sort by end: where the new map lands among maps that
\* end on the same page is not specified, so the result is a set of lists.
MapMemory(maps, m) ==
    { InsertAt(maps, k, m) :
        k \in { c \in 1 .. Len(maps) + 1 :
                  /\ \A i \in 1 .. c - 1 : maps[i].end <= m.end
                  /\ \A i \in c .. Len(maps) : m.end <= maps[i].end } }

\* get_pointer_unchecked: the first map of the list that covers the page.
Hits(maps, p) == { i \in 1 .. Len(maps) : Covers(maps[i], p) }

Lookup(maps, p) ==
    LET hits == Hits(maps, p)
    IN  maps[CHOOSE i \in hits : \A j \in hits : i <= j]

\* The list half of change_protection: only maps holding both ends change.
ChangeProtection(maps, first, last, protection) ==
    [ i \in 1 .. Len(maps) |->
        IF Covers(maps[i], first) /\ Covers(maps[i], last)
        THEN [maps[i] EXCEPT !.protection = protection]
        ELSE maps[i] ]

-----------------------------------------------------------------------------
(* memory_manager.cpp *)

\* (size + 0x1000) & ~0xFFF for a request of k whole pages and a remainder.
MemorySize(k) == (k + 1) % Pages

\* Fault: no page is skipped.
PagedAfterTight(m) == (m.end + 1) % Pages

\* Fault: the sum does not wrap.
PagedAfterUnwrapped(m) == m.end + 2

\* (end + 1 + 0x1000) & ~0xFFF: one page is skipped after the map.
PagedAfter(m) == (m.end + 2) % Pages

\* Fault: the hole is measured to the end of the next map.
RemainingToEnd(maps, i, n) ==
    (maps[i + 1].end - 1 - PagedAfter(maps[i]) - n) % Pages

\* empty_paged_block: the pages left of the hole behind map i once n pages
\* and a page of clearance are taken, in unsigned arithmetic.
Remaining(maps, i, n) ==
    (maps[i + 1].start - 1 - PagedAfter(maps[i]) - n) % Pages

\* The indices at which the loop would break: empty_paged_block >= 0 as an int.
Gaps(maps, n) ==
    { i \in 1 .. Len(maps) - 1 : Remaining(maps, i, n) < Pages \div 2 }

FirstGap(maps, n) ==
    CHOOSE i \in Gaps(maps, n) : \A j \in Gaps(maps, n) : i <= j

\* One iteration's update of top_address.
Raise(m, top) == IF top <= m.end THEN PagedAfter(m) ELSE top

\* top_address after a loop that never breaks.
TopAddress(maps) ==
    LET top[i \in 0 .. Len(maps)] ==
            IF i = 0 THEN 0 ELSE Raise(maps[i], top[i - 1])
    IN  top[Len(maps)]

Found(maps, n) ==
    IF Gaps(maps, n) # {}
    THEN PagedAfter(maps[FirstGap(maps, n)])
    ELSE TopAddress(maps)

\* more_memory: the first page of the block, or NoAddress.
MoreMemory(maps, n) ==
    IF maps = <<>> THEN HeapBase
    ELSE IF Found(maps, n) # 0 THEN Found(maps, n)
    ELSE NoAddress

\* The map that allocate_stack and allocate_heap make of the block found.
Block(kind, first, n) ==
    [ kind |-> kind, start |-> first, end |-> (first + n - 1) % Pages,
      protection |-> ReadWrite ]

-----------------------------------------------------------------------------
(* What it means for a list to be a sound address space *)

SortedByEnd(maps) ==
    \A i, j \in 1 .. Len(maps) : i <= j => maps[i].end <= maps[j].end

Disjoint(maps) ==
    \A i, j \in 1 .. Len(maps) :
        i # j => maps[i].end < maps[j].start \/ maps[j].end < maps[i].start

\* No block wrapped round the end of the address space or took its last page.
WellPlaced(maps) ==
    \A i \in 1 .. Len(maps) :
        maps[i].start <= maps[i].end /\ maps[i].end < Pages - 1

\* Maps i and j have a page between them that neither covers.
Apart(maps, i, j) ==
    maps[i].end + 1 < maps[j].start \/ maps[j].end + 1 < maps[i].start
=============================================================================
