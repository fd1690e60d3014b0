---------------------------- MODULE AddressSpace ----------------------------
(***************************************************************************)
(* The life of the guest address space, from the loader to the running     *)
(* guest.  It is kept twice: the host's memory_map_list, through which the *)
(* loader and every HLE function reach guest memory, and the map inside    *)
(* the unicorn engine, through which guest code runs.  Segments are mapped *)
(* before the engine exists and replayed into it by main; from then on     *)
(* map_memory and change_protection write both.                            *)
(***************************************************************************)
EXTENDS MemoryMap

CONSTANTS
    Layouts,    \* the lists of segments an executable may have
    Requests,   \* sizes asked of allocate_heap and allocate_stack, in pages
    MaxMaps     \* bound of the model: blocks that are ever mapped

\* What a linker produces: page-aligned, disjoint segments inside the space,
\* none of them at address 0.
ASSUME LayoutsAssumption ==
    /\ Layouts \subseteq Seq(Map)
    /\ \A s \in Layouts : Disjoint(s) /\ WellPlaced(s)
    /\ \A s \in Layouts : \A i \in 1 .. Len(s) :
         s[i].kind = "segment" /\ s[i].start > 0
ASSUME RequestsAssumption == Requests \subseteq Page /\ MaxMaps \in Nat

VARIABLES
    phase,      \* how far main has come
    segments,   \* the executable's segments, in program header order
    cursor,     \* next index of the loop over segments, then over the maps
    maps,       \* memory_map_list
    engine      \* what unicorn backs each page with

vars == <<phase, segments, cursor, maps, engine>>

Backing  == [first : Page, last : Page, protection : SUBSET Access]
Unbacked == [first |-> Pages, last |-> Pages, protection |-> {}]

TypeOK ==
    /\ phase \in {"loading", "failed", "opening", "running", "crashed"}
    /\ segments \in Layouts
    /\ cursor \in Nat
    /\ maps \in Seq(Map)
    /\ engine \in [Page -> Backing \cup {Unbacked}]

-----------------------------------------------------------------------------
(* The engine, as main.cpp calls it *)

Size(first, last) == (last - first + 1) % Pages

UcRange(first, last) == first .. first + Size(first, last) - 1

\* uc_mem_map_ptr refuses an empty range and one that meets a mapped page.
UcMap(eng, m) ==
    LET range == UcRange(m.start, m.end)
    IN  IF \E p \in range \cap Page : eng[p] # Unbacked
        THEN eng
        ELSE [ p \in Page |->
                 IF p \in range
                 THEN [ first |-> m.start, last |-> m.end,
                        protection |-> m.protection ]
                 ELSE eng[p] ]

\* uc_mem_protect changes exactly the range, if all of it is mapped.
UcProtect(eng, first, last, protection) ==
    LET range == UcRange(first, last)
    IN  IF \E p \in range \cap Page : eng[p] = Unbacked
        THEN eng
        ELSE [ p \in Page |->
                 IF p \in range
                 THEN [eng[p] EXCEPT !.protection = protection]
                 ELSE eng[p] ]

-----------------------------------------------------------------------------
Init ==
    /\ phase = "loading"
    /\ segments \in Layouts
    /\ cursor = 0
    /\ maps = <<>>
    /\ engine = [p \in Page |-> Unbacked]

\* load_self_to_memory maps the next segment.  There is no engine yet, so
\* map_memory_from_api does nothing.
LoadSegment ==
    /\ phase = "loading"
    /\ cursor < Len(segments)
    /\ maps' \in MapMemory(maps, segments[cursor + 1])
    /\ cursor' = cursor + 1
    /\ UNCHANGED <<phase, segments, engine>>

Loaded == phase = "loading" /\ cursor = Len(segments)

\* A relocation is bad: the loader takes every map down again.
RelocationFails ==
    /\ Loaded
    /\ phase' = "failed"
    /\ maps' = <<>>
    /\ UNCHANGED <<segments, cursor, engine>>

\* No module info, a bad import or export table, or no engine: main gives up,
\* and the maps stay as they are.
LoadFails ==
    /\ Loaded
    /\ phase' = "failed"
    /\ UNCHANGED <<segments, cursor, maps, engine>>

\* The module info was found in a mapped page, so there is a map to replay.
OpenEngine ==
    /\ Loaded
    /\ maps # <<>>
    /\ phase' = "opening"
    /\ cursor' = 0
    /\ UNCHANGED <<segments, maps, engine>>

\* Fault: the loop over the protection bits stops before execute.
ReplayMapWithoutExecute ==
    /\ phase = "opening"
    /\ cursor < Len(maps)
    /\ LET m == maps[cursor + 1]
       IN  engine' = UcMap(engine, [m EXCEPT !.protection = @ \ {"x"}])
    /\ cursor' = cursor + 1
    /\ UNCHANGED <<phase, segments, maps>>

\* main gives the engine the next map of the list.
ReplayMap ==
    /\ phase = "opening"
    /\ cursor < Len(maps)
    /\ engine' = UcMap(engine, maps[cursor + 1])
    /\ cursor' = cursor + 1
    /\ UNCHANGED <<phase, segments, maps>>

\* map_memory once the engine is open.
MapBoth(m) == maps' \in MapMemory(maps, m) /\ engine' = UcMap(engine, m)

\* The boot stub gets a heap block of its own, then every access to its page;
\* with no block, the copy into it writes through a null pointer.
InstallBootCode ==
    LET n     == MemorySize(0)
        first == MoreMemory(maps, n)
        block == Block("heap", first, n)
    IN  /\ phase = "opening"
        /\ cursor = Len(maps)
        /\ IF first = NoAddress
           THEN phase' = "crashed" /\ UNCHANGED <<maps, engine>>
           ELSE /\ phase' = "running"
                /\ \E list \in MapMemory(maps, block) :
                     maps' = ChangeProtection(list, first, first, Access)
                /\ engine' = UcProtect(UcMap(engine, block), first, first, Access)
        /\ UNCHANGED <<segments, cursor>>

\* allocate_heap and allocate_stack, called by start_thread and by the guest's
\* sceKernelAllocMemBlock; a caller that gets no block gets 0 and goes on.
Allocate(kind, k) ==
    LET n     == MemorySize(k)
        first == MoreMemory(maps, n)
    IN  /\ phase = "running"
        /\ Len(maps) < MaxMaps
        /\ IF first = NoAddress
           THEN UNCHANGED <<maps, engine>>
           ELSE MapBoth(Block(kind, first, n))
        /\ UNCHANGED <<phase, segments, cursor>>

AllocateHeap  == \E k \in Requests : Allocate("heap", k)
AllocateStack == \E k \in Requests : Allocate("stack", k)

Next ==
    \/ LoadSegment
    \/ RelocationFails
    \/ LoadFails
    \/ OpenEngine
    \/ ReplayMap
    \/ InstallBootCode
    \/ AllocateHeap
    \/ AllocateStack

Spec == Init /\ [][Next]_vars

-----------------------------------------------------------------------------
(* Properties *)

\* No two maps share a page, for as long as no block has run over the end of
\* the address space: more_memory's scan for a gap, made on unsigned numbers,
\* never hands out a page that is in use.
NoOverlap == WellPlaced(maps) => Disjoint(maps)

\* While main loads, the list holds nothing but segments already visited.
OnlyVisitedSegments ==
    phase = "loading"
        => \A i \in 1 .. Len(maps) :
             \E c \in 1 .. cursor : maps[i] = segments[c]

\* NoOverlap with what makes it inductive: the list stays in the order that
\* more_memory's scan depends on, and holds what the loader put into it.
SoundList == SortedByEnd(maps) /\ NoOverlap /\ OnlyVisitedSegments

\* No request, rounded up, comes near half of the space (2 GiB).
ModestRequests == \A k \in Requests : MemorySize(k) <= Pages \div 2 - 2

HostBacking(p) ==
    IF Hits(maps, p) = {}
    THEN Unbacked
    ELSE LET m == Lookup(maps, p)
         IN  [first |-> m.start, last |-> m.end, protection |-> m.protection]

\* While the guest runs, a page resolves to the same block and the same access
\* rights through the host's list (get_pointer) and through the engine,
\* whichever way it was mapped, replayed and protected.
HostAndGuestAgree ==
    phase = "running" /\ WellPlaced(maps)
        => \A p \in Page : engine[p] = HostBacking(p)

SegmentsApart ==
    \A i, j \in 1 .. Len(segments) : i # j => Apart(segments, i, j)

\* Unless the executable's own segments touch, every block more_memory places
\* keeps an unmapped page on either side, so a guest that overruns a stack or
\* heap block faults instead of writing its neighbour.
BlocksGuarded ==
    SegmentsApart /\ WellPlaced(maps)
        => \A i, j \in 1 .. Len(maps) :
             i # j /\ maps[i].kind # "segment" => Apart(maps, i, j)

\* "a gap is available" (memory_manager.cpp:26): a request placed between two
\* maps fits there.
GapIsAvailable ==
    \A k \in Requests :
        LET n == MemorySize(k)
        IN  phase = "running" /\ WellPlaced(maps) /\ Gaps(maps, n) # {}
              => LET g == FirstGap(maps, n)
                 IN  PagedAfter(maps[g]) + n <= maps[g + 1].start
=============================================================================
