---------------------------- MODULE GuestMemory ----------------------------
(***************************************************************************)
(* Guest memory byte by byte: memory_map_list with the host block behind   *)
(* each map, and the HLE functions that reach guest memory through host    *)
(* pointers.  A pointer is a block and an offset; an access that leaves    *)
(* its block is undefined, and the model stops there.                      *)
(*                                                                         *)
(* Threads, modules and the engine's own map are left to the modules       *)
(* Kernel, HleDispatch and AddressSpace; all of this runs on the one       *)
(* guest thread, a call at a time under svc_mutex.                         *)
(***************************************************************************)
EXTENDS MemoryMap

CONSTANTS
    PageBytes,          \* bytes of a page (4096 in the program)
    ByteValues,         \* values of a byte (256)
    WordBytes,          \* bytes of a uint32_t (4)
    FramebufferBytes,   \* sizeof(SceDisplayFramebuf) (24)
    Image,              \* the segments of the executable, each with its bytes
    Addresses,          \* guest addresses given to the calls
    Lengths,            \* lengths given to the clib calls
    Characters,         \* the int ch of sceClibMemset
    BlockSizes,         \* bytes asked of sceKernelAllocMemBlock
    MaxMaps,            \* bound of the model: maps ever made
    MaxCalls            \* bound of the model: guest steps and calls ever made

Bytes   == Pages * PageBytes
Address == 0 .. Bytes - 1
ByteSet == 0 .. ByteValues - 1

\* The sizes of the machine, and the bounds of the model.
ASSUME SizesAssumption ==
    /\ PageBytes \in Nat \ {0} /\ ByteValues \in Nat \ {0}
    /\ WordBytes \in Nat \ {0} /\ FramebufferBytes \in Nat \ {0}
    /\ \A i \in 0 .. WordBytes - 1 : ByteValues ^ i \in Nat \ {0}
    /\ MaxMaps \in Nat /\ MaxCalls \in Nat

\* Segments as a linker lays them out, and requests well below half of the
\* space, for which AddressSpace shows that the blocks are disjoint.
ASSUME GuestMemoryAssumption ==
    /\ Image \in Seq([map : Map, bytes : Seq(ByteSet)])
    /\ \A i \in 1 .. Len(Image) :
         Len(Image[i].bytes) <= (Image[i].map.end - Image[i].map.start + 1) * PageBytes
    /\ LET maps == [i \in 1 .. Len(Image) |-> Image[i].map]
       IN  Disjoint(maps) /\ WellPlaced(maps)
    /\ Addresses \subseteq Address /\ Lengths \subseteq Address
    /\ Characters \subseteq Nat
    /\ BlockSizes \subseteq 0 .. Bytes \div 4

VARIABLES
    maps,           \* memory_map_list
    data,           \* the host block of the map that starts at a page
    host,           \* what the host is doing
    loaded,         \* segments loaded
    fake_address,   \* SceSysmem's: the base of the last memory block
    framebuffer,    \* Display's framebuffer_params, and whether its base is one
    call,           \* the call in hand, or the last one
    r0,             \* the register its answer is written to
    calls           \* bound of the model

vars == <<maps, data, host, loaded, fake_address, framebuffer, call, r0, calls>>

FirstByte(m) == m.start * PageBytes
LastByte(m)  == (m.end + 1) * PageBytes - 1
SizeOf(m)    == LastByte(m) - FirstByte(m) + 1

TypeOK ==
    /\ maps \in Seq(Map)
    /\ DOMAIN data = { maps[i].start : i \in 1 .. Len(maps) }
    /\ \A i \in 1 .. Len(maps) :
         data[maps[i].start] \in [0 .. SizeOf(maps[i]) - 1 -> ByteSet]
    /\ host \in {"loading", "running", "undefined", "terminated"}
    /\ loaded \in 0 .. Len(Image)
    /\ fake_address \in Address
    /\ framebuffer \in [ params : {<<>>} \cup [1 .. FramebufferBytes -> ByteSet],
                         based  : BOOLEAN ]
    /\ r0 \in {-1} \cup Address
    /\ calls \in 0 .. MaxCalls

-----------------------------------------------------------------------------
(* memory.cpp: pointers and ranges *)

Null == [block |-> Pages, offset |-> 0]

\* Fault: the offset is taken from the start of the page.
PointerInPage(list, a) ==
    LET page == a \div PageBytes
    IN  IF Hits(list, page) = {} THEN Null
        ELSE [block |-> Lookup(list, page).start, offset |-> a % PageBytes]

\* get_pointer_unchecked, in a list of maps.
PointerIn(list, a) ==
    LET page == a \div PageBytes
    IN  IF Hits(list, page) = {} THEN Null
        ELSE LET m == Lookup(list, page)
             IN  [block |-> m.start, offset |-> a - FirstByte(m)]

Pointer(a) == PointerIn(maps, a)

\* Fault: the two ends are looked for in any two maps.
IsValidAddressRangeEnds(start, end) ==
    /\ \E i \in 1 .. Len(maps) : start >= FirstByte(maps[i]) /\ start <= LastByte(maps[i])
    /\ \E i \in 1 .. Len(maps) : end >= FirstByte(maps[i]) /\ end < LastByte(maps[i])

\* is_valid_address_range: end is compared with < to the last byte.
IsValidAddressRange(start, end) ==
    \E i \in 1 .. Len(maps) : start >= FirstByte(maps[i]) /\ end < LastByte(maps[i])

\* The host may touch n bytes at p.
Touchable(p, n) ==
    n = 0 \/ (p # Null /\ p.offset + n - 1 \in DOMAIN data[p.block])

Peek(p, n) == [i \in 1 .. n |-> data[p.block][p.offset + i - 1]]

Poke(blocks, p, bytes) ==
    [blocks EXCEPT ![p.block] =
        [o \in DOMAIN @ |-> IF o - p.offset + 1 \in DOMAIN bytes
                            THEN bytes[o - p.offset + 1] ELSE @[o]]]

\* The host writes bytes at p, wherever that is.
HostWrites(p, bytes) ==
    IF Touchable(p, Len(bytes))
    THEN /\ data' = IF bytes = <<>> THEN data ELSE Poke(data, p, bytes)
         /\ UNCHANGED host
    ELSE host' = "undefined" /\ UNCHANGED data

\* The blocks with one of zeros for a new map.
WithBlock(blocks, m) ==
    [ p \in DOMAIN blocks \cup {m.start} |->
        IF p \in DOMAIN blocks THEN blocks[p] ELSE [o \in 0 .. SizeOf(m) - 1 |-> 0] ]

\* map_memory with a block of zeros.
MapZeroed(m) ==
    /\ maps' \in MapMemory(maps, m)
    /\ data' = WithBlock(data, m)

-----------------------------------------------------------------------------
Init ==
    /\ maps = <<>>
    /\ data = << >>
    /\ host = "loading"
    /\ loaded = 0
    /\ fake_address = 0
    /\ framebuffer = [params |-> <<>>, based |-> FALSE]
    /\ call = [function |-> "none", args |-> <<>>]
    /\ r0 = 0
    /\ calls = 0

\* load_self_to_memory: map_memory, then memory::memcpy of the segment's bytes
\* to the pointer it looks up at the segment's address.
LoadSegment ==
    LET segment == Image[loaded + 1]
        blocks  == WithBlock(data, segment.map)
    IN  /\ host = "loading"
        /\ loaded < Len(Image)
        /\ maps' \in MapMemory(maps, segment.map)
        /\ data' = IF segment.bytes = <<>> THEN blocks
                   ELSE Poke(blocks, PointerIn(maps', FirstByte(segment.map)),
                             segment.bytes)
        /\ loaded' = loaded + 1
        /\ UNCHANGED <<host, fake_address, framebuffer, call, r0, calls>>

\* main starts the guest.
RunGuest ==
    /\ host = "loading"
    /\ loaded = Len(Image)
    /\ host' = "running"
    /\ UNCHANGED <<maps, data, loaded, fake_address, framebuffer, call, r0, calls>>

\* A guest instruction stores a byte: the engine backs the address with the
\* same host byte, and refuses a page that may not be written.
GuestStore(a, byte) ==
    /\ host = "running"
    /\ calls < MaxCalls
    /\ Pointer(a) # Null
    /\ "w" \in Lookup(maps, a \div PageBytes).protection
    /\ data' = Poke(data, Pointer(a), <<byte>>)
    /\ calls' = calls + 1
    /\ UNCHANGED <<maps, host, loaded, fake_address, framebuffer, call, r0>>

\* handle_svc enters the wrapper of a function with r0 to r3.
Called(function, args) ==
    /\ host = "running"
    /\ calls < MaxCalls
    /\ call' = [function |-> function, args |-> args]
    /\ calls' = calls + 1
    /\ UNCHANGED loaded

\* The wrapper writes what the function returned to r0, if it returned.
Returns(value) == r0' = IF host' = "running" THEN value ELSE r0

-----------------------------------------------------------------------------
(* SceLibKernel.cpp *)

\* Fault: ch is stored as it came.
MemsetUnmasked(dst, ch, len) ==
    /\ Called("sceClibMemset", <<dst, ch, len>>)
    /\ IF IsValidAddressRange(dst, (dst + len - 1) % Bytes)
       THEN HostWrites(Pointer(dst), [i \in 1 .. len |-> ch])
       ELSE UNCHANGED <<data, host>>
    /\ Returns(dst)
    /\ UNCHANGED <<maps, fake_address, framebuffer>>

\* sceClibMemset.  std::memset stores ch as an unsigned char.
Memset(dst, ch, len) ==
    /\ Called("sceClibMemset", <<dst, ch, len>>)
    /\ IF IsValidAddressRange(dst, (dst + len - 1) % Bytes)
       THEN HostWrites(Pointer(dst), [i \in 1 .. len |-> ch % ByteValues])
       ELSE UNCHANGED <<data, host>>
    /\ Returns(dst)
    /\ UNCHANGED <<maps, fake_address, framebuffer>>

\* sceClibMemmove: std::memmove reads all of the source before it writes.
Memmove(dst, src, len) ==
    /\ Called("sceClibMemmove", <<dst, src, len>>)
    /\ IF /\ IsValidAddressRange(dst, (dst + len) % Bytes)
          /\ IsValidAddressRange(src, (src + len) % Bytes)
       THEN IF Touchable(Pointer(src), len)
            THEN HostWrites(Pointer(dst), Peek(Pointer(src), len))
            ELSE host' = "undefined" /\ UNCHANGED data
       ELSE UNCHANGED <<data, host>>
    /\ Returns(dst)
    /\ UNCHANGED <<maps, fake_address, framebuffer>>

\* A string at p ends within its block.
Terminated(p) == \E o \in DOMAIN data[p.block] : o >= p.offset /\ data[p.block][o] = 0

\* sceKernelCreateMutex prints the name and fails.
CreateMutex(name) ==
    /\ Called("sceKernelCreateMutex", <<name>>)
    /\ host' = IF Pointer(name) = Null \/ Terminated(Pointer(name))
               THEN host ELSE "undefined"
    /\ Returns(-1)
    /\ UNCHANGED <<maps, data, fake_address, framebuffer>>

\* sceKernelLockMutex and sceKernelUnlockMutex: there is nothing to lock.
UseMutex(function, id) ==
    /\ Called(function, <<id>>)
    /\ UNCHANGED <<maps, data, host, fake_address, framebuffer>>
    /\ Returns(-1)

-----------------------------------------------------------------------------
(* SceSysmem.cpp and SceDisplayUser.cpp *)

\* The pages of the block that allocate_heap makes for size bytes.
HeapBlock(size) ==
    LET n == MemorySize(size \div PageBytes)
    IN  Block("heap", MoreMemory(maps, n), n)

\* sceKernelAllocMemBlock: std::string(nullptr) throws, and nothing up to the
\* engine catches it; without room fake_address is 0.
AllocMemBlock(name, type, size) ==
    LET p == Pointer(name)
        n == MemorySize(size \div PageBytes)
    IN  /\ Called("sceKernelAllocMemBlock", <<name, type, size>>)
        /\ Len(maps) < MaxMaps
        /\ \/ /\ p = Null
              /\ host' = "terminated"
              /\ UNCHANGED <<maps, data, fake_address>>
           \/ /\ p # Null /\ ~ Terminated(p)
              /\ host' = "undefined"
              /\ UNCHANGED <<maps, data, fake_address>>
           \/ /\ p # Null /\ Terminated(p)
              /\ MoreMemory(maps, n) # NoAddress
              /\ MapZeroed(HeapBlock(size))
              /\ fake_address' = FirstByte(HeapBlock(size))
              /\ UNCHANGED host
           \/ /\ p # Null /\ Terminated(p)
              /\ MoreMemory(maps, n) = NoAddress
              /\ fake_address' = 0
              /\ UNCHANGED <<maps, data, host>>
        /\ Returns(2)
        /\ UNCHANGED framebuffer

\* The bytes of a word, from the least significant.
WordBytesOf(word) ==
    [i \in 1 .. WordBytes |-> (word \div ByteValues ^ (i - 1)) % ByteValues]

\* sceKernelGetMemBlockBase: the uid is not looked at.
GetMemBlockBase(uid, addr) ==
    /\ Called("sceKernelGetMemBlockBase", <<uid, addr>>)
    /\ IF Pointer(addr) = Null
       THEN UNCHANGED <<data, host>>
       ELSE HostWrites(Pointer(addr), WordBytesOf(fake_address))
    /\ Returns(0)
    /\ UNCHANGED <<maps, fake_address, framebuffer>>

\* sceDisplaySetFramebuf and Display::set_framebuffer: without a record the
\* base is overwritten and the rest of the last record stays.
SetFramebuf(addr, sync) ==
    LET p == Pointer(addr)
    IN  /\ Called("sceDisplaySetFramebuf", <<addr, sync>>)
        /\ IF p = Null
           THEN framebuffer' = [framebuffer EXCEPT !.based = FALSE] /\ UNCHANGED host
           ELSE IF Touchable(p, FramebufferBytes)
           THEN /\ framebuffer' = [params |-> Peek(p, FramebufferBytes), based |-> TRUE]
                /\ UNCHANGED host
           ELSE host' = "undefined" /\ UNCHANGED framebuffer
        /\ Returns(0)
        /\ UNCHANGED <<maps, data, fake_address>>

-----------------------------------------------------------------------------
Next ==
    \/ LoadSegment
    \/ RunGuest
    \/ \E a \in Addresses, ch \in Characters : GuestStore(a, ch % ByteValues)
    \/ \E dst \in Addresses, ch \in Characters, len \in Lengths : Memset(dst, ch, len)
    \/ \E dst, src \in Addresses, len \in Lengths : Memmove(dst, src, len)
    \/ \E name \in Addresses : CreateMutex(name)
    \/ \E f \in {"sceKernelLockMutex", "sceKernelUnlockMutex"} : UseMutex(f, -1)
    \/ \E name \in Addresses, size \in BlockSizes : AllocMemBlock(name, 0, size)
    \/ \E addr \in Addresses : GetMemBlockBase(2, addr)
    \/ \E addr \in Addresses : SetFramebuf(addr, 1)

Spec == Init /\ [][Next]_vars

-----------------------------------------------------------------------------
\* The addresses of a map, the byte the guest has at an address, and where
\* the maps begin.
Reach(m) == FirstByte(m) .. LastByte(m)
Mem ==
    [ a \in UNION { Reach(maps[i]) : i \in 1 .. Len(maps) } |->
        LET m == Lookup(maps, a \div PageBytes)
        IN  data[m.start][a - FirstByte(m)] ]
Borders == { FirstByte(maps[i]) : i \in 1 .. Len(maps) }

Flat == INSTANCE FlatMemory WITH
    mem <- Mem, borders <- Borders, base <- fake_address

\* The HLE functions and their host pointers give the program flat memory: a
\* call on whole objects changes the bytes it names and no others, reports
\* what is there, and never leaves the host undefined; a block handed out is
\* zero, large enough and nobody else's; nothing is read or written through a
\* stale or foreign block.  Only a call on a range that wraps or an object
\* that is not whole may go unanswered, and it changes nothing of the others.
ImplementsFlat == Flat!Spec

\* The program never loses the host for a range check that let a bad range
\* through: once it is undefined, the call was one that flat memory does not
\* answer, and sceClibMemset and sceClibMemmove only where the address of the
\* last byte wraps past the end of the space.
RangeCheckHolds ==
    host = "undefined" /\ call.function \in {"sceClibMemset", "sceClibMemmove"} =>
        LET args == call.args
        IN  \/ args[1] + args[3] >= Bytes
            \/ call.function = "sceClibMemmove" /\ args[2] + args[3] >= Bytes
=============================================================================
