# Verification of betavita

betavita is a high-level emulator of PlayStation Vita user programs: it loads a
SELF executable into an emulated address space, lets the unicorn engine run its
ARM code, and answers the program's imported functions on the host. This
directory holds TLA+ models of it, the TLC configurations that check them on
small instances, and theorems about them with proofs for TLAPS.

Paths below are relative to `src/betavita/`.

## The system

| Component | State it keeps | Operations |
|---|---|---|
| Guest memory map, `src/memory/memory.cpp` | `memory_map_list`, a vector of maps sorted by last address | `map_memory`, `unmap_memory_all`, `change_protection`, pointer lookup, range test, copies |
| Memory manager, `src/hle/memory_manager.cpp` | none of its own; reads the list | `more_memory` (find a free range), `allocate_stack`, `allocate_heap` |
| Kernel, `src/hle/kernel.cpp`, `include/hle/kernel.h` | object table, `thread_list`, `ready_threads_queue`, `uid_value`, `current_thread`, `svc_mutex`, a display | create, start, destroy a thread; fetch and run one; TLS address; current thread |
| HLE registry, `src/hle/hle.cpp` | `runtime_module_list`, `module_list`, `nid_to_address_map` | register, `init_modules`, `resolve_runtime_modules`, lookups |
| SELF loader, `src/loader/self_loader.cpp` | the segments of the file being loaded | decrypt, map, relocate, read imports and exports |
| Emulation driver, `src/main.cpp` | the engine, its memory map and registers | register access, engine map/unmap/protect, `run_cpu_for`, `handle_svc`, the boot sequence |
| HLE modules, `src/hle/modules` | `fake_address` | thread ID, TLS, mutex stubs, memset, memmove; memory blocks; framebuffer |
| Display, `src/hle/display.cpp` | a copy of the guest's framebuffer record | set, forget the base |
| Virtual filesystem, `vfs/vfs.cpp` | mount points, directories, a scanner | mount, create, remove, look up; not in the build, no caller |
| Logger, format headers | none | no decision of their own |

How they interact:

* **main → loader → memory.** `decrypt_self_data` copies segments out of the
  file; `load_self_to_memory` maps them, patches relocations into them through
  host pointers, overwrites import stubs and calls `add_runtime_module`.
* **main → HLE.** `init_modules` fills the module list and
  `resolve_runtime_modules` turns the recorded imports into a map from stub
  address to host function.
* **main → engine.** Segments are mapped before the engine exists, so `main`
  replays `memory_map_list` into it; afterwards `map_memory` and
  `change_protection` update both.
* **kernel → memory manager** for stacks and TLS blocks, **kernel → engine** for
  registers and for running the guest.
* **engine → main → HLE → kernel.** A guest `SVC` calls back `handle_svc` on the
  same host thread, inside `run_single_thread_with_events`; the host function
  may allocate memory or ask the kernel which thread is current.
* **HLE functions → guest memory.** Names, records and answers are passed as
  guest addresses; the host reads and writes them through pointers into the
  block behind a map, past the engine and its access rights.

The body of `main` is under `#if 0`. It is still the only client of every
component and shows the order they are meant to be called in, so it is what the
models take as the reference client.

### What is hard

* Search and arithmetic: `more_memory` works on unsigned addresses that wrap,
  tests one difference as a signed `int`, and is right only on a list every
  earlier call has left sorted and disjoint.
* Two records of the same thing: list and engine; object table and thread list;
  the NID in a stub and the NID in the map; the thread's context and the
  processor's registers.
* Stale state: a ready queue that outlives the call that filled it, a raw
  pointer to the current thread, destroyed threads in either, a list of modules
  that is never cleared, one global base for all memory blocks, and a scanner
  that keeps what the last path left unread.
* Host pointers: a range is tested with ends that wrap and with `<` against an
  inclusive end, and a word or record by its first byte only, so a call can
  leave the block it was to stay in.
* Tables and bit-fields from the file: records, addresses and counts that
  nobody has tested, and relocations whose immediate is spread over the
  halfwords of an instruction.
* Failure half-way: a relocation fails after others were written, an export
  table is bad after imports were registered, an allocation fails unnoticed.
* There is no host concurrency: one host thread calls everything, `svc_mutex`
  is never contended, and no call is preempted. Interleaving comes from guest
  threads, which share one processor and may stop at any instruction.

`PROJECT.json` lists each hazard at its line, with the properties about it.

## The modules

| Module | What it models |
|---|---|
| `MemoryMap` | operators: the list, `map_memory`'s sort, lookup, `change_protection`, `more_memory` |
| `AddressSpace` | state machine: load, failure, replay into the engine, boot code, allocations |
| `GuestMemory` | state machine: host blocks byte by byte, range tests, the HLE functions that reach guest memory |
| `FlatMemory` | what `GuestMemory` implements: one byte for each mapped address |
| `Kernel` | state machine: object table, threads, scheduler, context switch, supervisor calls |
| `Scheduler` | what `Kernel` implements: a dispatch runs the youngest READY thread |
| `HleDispatch` | state machine: imports, registration, resolution, supervisor call dispatch |
| `ModuleTables` | state machine: the walk over the import and export tables; implements the import phase of `HleDispatch` |
| `Loader` | state machine: decryption, mapping, order and failures of relocations, stubs |
| `Relocation` | state machine: what a relocation makes of a word, bit for bit |
| `Emulator` | composition: `main` driving `HleDispatch` and `Kernel`, and `handle_svc` between them |
| `Vfs` | state machine: directories by pointers, parser, the four calls |
| `FileTree` | what `Vfs` implements: a tree that a call extends by an entry or cuts at a branch |
| `MemoryMapTheorems` | lemmas about the list and the search, for every proof about memory |
| `AddressSpaceProofs`, `GuestMemoryProofs`, `KernelProofs`, `HleDispatchProofs`, `ModuleTablesProofs`, `EmulatorProofs` | theorems about the module of that name |
| `LoaderProofs` | theorems about `Loader` and `Relocation` |
| `MC...` | small instances for TLC |

### MemoryMap and AddressSpace

Addresses are counted in 4 KiB pages. Every caller of `map_memory` passes the
last byte of a page as `end` and, in what a linker produces, a page-aligned
start, so nothing is lost; `Pages` stands for 2^20. uint32_t arithmetic is
modulo `Pages`, and an `int` is negative from `Pages \div 2`; so
`(end + 1 + 0x1000) & ~0xFFF` is `(m.end + 2) % Pages` and `int
empty_paged_block >= 0` is `Remaining(..) < Pages \div 2`. `std::sort` is not
stable, so `MapMemory` is the set of lists it may leave.

`AddressSpace` has one action per step: `LoadSegment` (one `map_memory` of the
loader), `RelocationFails` (`unmap_memory_all`), `LoadFails` (every failure that
leaves the maps), `OpenEngine`, `ReplayMap`, `InstallBootCode` (allocate, copy,
`change_protection`), `AllocateHeap` and `AllocateStack`. `engine` says for each
page which host block backs it and with what access; `UcMap` and `UcProtect`
model unicorn as `main.cpp` calls it: a range that is partly mapped, or for a
protection change partly unmapped, is refused, and the caller only prints. Only
the part of a range inside the address space is kept; a block that has wrapped
makes `WellPlaced` false, and the properties say nothing from there on.

Properties: no two maps overlap (`NoOverlap`), the list keeps what the search
depends on (`SoundList`), host and engine resolve every page alike
(`HostAndGuestAgree`), blocks keep an unmapped page around them
(`BlocksGuarded`). The last holds only while the executable's own segments do
not touch: with two adjacent segments the search can leave no clear page
before a block.

### GuestMemory and FlatMemory

The map list is that of `MemoryMap`; `data` adds the host block of each map, a
function from offsets to bytes, named by the page the map starts at.
`get_pointer_unchecked` is `PointerIn`, which gives a block and an offset,
`is_valid_address_range` is `IsValidAddressRange` with its `<`. Every access goes
through `Touchable`: an access behind the end of its block, or through the null
pointer where the code does not test it, sets `host` to `undefined`, and the
model stops. An exception that nothing catches sets it to `terminated`.

`LoadSegment` is `map_memory` with the copy that follows; `GuestStore` is a
guest instruction, which unlike the host respects access rights; the other
actions are the HLE functions `sceClibMemset`, `sceClibMemmove`, the three mutex
stubs, `sceKernelAllocMemBlock`, `sceKernelGetMemBlockBase` and
`sceDisplaySetFramebuf`, each with the wrapper that writes r0. `fake_address` is
the one base of all memory blocks; `framebuffer` is the display's copy of the
record, and `based` tells whether the last call had a record.

`FlatMemory` has no blocks: `mem` maps each mapped address to its byte, and
`borders` are the addresses at which a segment or memory block begins. An object
is whole if all of it is mapped and no border is inside it, as the objects of a C
program are. A call on whole objects changes exactly the bytes it names. What the code's range tests
refuse is part of the promise: a fill wants one byte more than it writes, a copy
two. `Improper` names the calls that are owed nothing, because their range wraps
or their object is cut off by the end of a segment; `Unanswered` lets such a call
have no effect that flat memory shows. The refinement maps `mem` to the bytes
behind all maps, `borders` to the first addresses of the maps, and `base` to
`fake_address`.

### Kernel and Scheduler

`objects`, `thread_list`, `ready_threads_queue`, `uid_value` and
`current_thread` are the fields of `Kernel`; `regs` are the processor's
registers, and a context is abstracted to whose computation it is, how many
guest steps it has made, whether it has returned to `0xBAD4F00D`, and the answer
in r0. `host` says whether the host thread is outside the kernel (`idle`), inside
`run_cpu_for` (`running`), or gone. `Dispatch` is
`run_single_thread_with_events` up to `run_cpu_for`, `Stop` the rest; between
them only `GuestStep`, `GuestReturn` and the supervisor calls happen. The
drain loop of `fetch_ready_thread` is `LastPopped`. `DestroyThread` leaves the
ready queue and `current_thread` alone, as the code does. `work` is a history
variable that no action reads.

`Scheduler` knows threads only by UID and status. `RunsTheYoungest` is the
refinement: `Kernel`'s `uid_value` is its `next`, the `status` fields are its
`status`.

### HleDispatch

`stubs` is what the loader wrote to each stub (the NID; the SVC instruction goes
with it). `ImportFunction` patches and records one import, `FinishLibrary` and
`FinishModule` are the pushes at the end of the loops, `ImportFails` gives up in
between. `InitModules`, `ResolveRuntimeModules` and `GuestCalls` are the
functions of those names in `hle.cpp` and `handle_svc`. `FunctionFor` returns
a place in the module list, as the code returns a pointer to it.

### ModuleTables

`add_module_imports` and `add_module_exports` one record, function and variable
at a time. `Executables` gives each table by the offset of its records, so a
record, a table, an entry or a name may be at no mapped address, have the wrong
size, or not be there at all; `start_addr` walks them. `BadRecord`, `BadStub`,
`BadVariable` and `BadExport` return false; `NamelessLibrary` and
`UnmappedExport` are the null pointers the code follows. `ReadExport` with a size
of 0 stays where it is. The properties say which records a walk visits without
following it: `Visited` is the least set of offsets that holds the first record
and, with each good record, the one behind it. The refinement `ImplementsDispatch` shows that `HleDispatch`,
which knows a table as a list of libraries, is right to do so: the list is that
of the records the walk meets, and a bad record is its `ImportFails`.

### Relocation

A word is two 16-bit halves, which keeps TLC's integers small and matches the
Thumb halfwords. `Patched` is the switch of `apply_one_relocation`; the bit-fields
and masks of the code are `Put` and `Field`. `BranchOffset` and `MovImmediate`
decode a word the way the ARM manual says a processor does; they are the
reference, written from the instruction set and not from the loader.

### Emulator

`main` is `stage`. `SetUp` takes the steps of `HleDispatch` up to the resolved
map, `OpenEngine` starts what was loaded, then the entry thread is created,
started and run by the actions of `Kernel`, and `DeleteKernel` ends it. While the
guest runs, `GuestCalls` is a step of both: `HleDispatch` finds the function for
the stub, and `CallKernel` does what a function of that NID does.
`GuestCallsNothing` is the branch that stops the engine, and `GuestCallThrows` the
exception of `std::string(nullptr)` in `sceKernelAllocMemBlock`. `main` creates one
thread and dispatches once, so this instance is small; `Kernel` alone has the many
threads.

### Vfs and FileTree

A node is a number; `files` and `previousDirectory` are the pointers of a
`Directory`. A path is a sequence of lexemes; `ScanToken` and `Parse` are the
scanner and the parser, which stop at the first token they do not expect and
leave the rest in `scanner`. `Walk` is the loop of `createFile`, `Follow` that of
`getFile`, and `RemoveFile` parses `scanner`, not its path, as the code does.
`Crash` is a call before `ux0` is mounted, which uses a null root. The refinement
maps the pointers to the set of paths they make.

### Loader

A segment's memory is a few cells; a cell is known by where its bytes came from
(file, zero, uninitialised buffer) and by what was last written into it: a
relocation, or the code of an import stub. A format 0 relocation writes one or
two patches; which symbol and addend were written where is kept, the encoding
into ARM instructions is left to `Relocation`. Offsets are counted in halfwords.
`Second` keeps the code's arithmetic, which adds `dist2` twice.

A header has `filesz` and `inflated`: a segment may inflate to less than
`p_filesz`. The code accepts that, copies `segment_length` bytes only, and still
runs the relocation loop to `p_filesz`. Relocations read from a buffer that
nothing was copied into, as a whole or behind a short inflate, may patch any one
or two mapped cells (`ApplyGarbage`), fail, or end.

The module info lies in the segment that `e_entry` names. Its index is not
tested: behind the last segment the host may crash (`ReadBehindSegments`), find
nothing (`MissModuleInfo`) or go on with what it read (`FindModuleInfo`).

`PatchStub` overwrites the cells of one stub, in the order in which the import
tables name them, before `AddModule` registers the module. How the records of
the tables are walked, and which of them are bad, is `ModuleTables`' part; here a
bad record is `ImportsFail` after any stub. For a program that is not `Whole` the tables are
bytes that nobody wrote, so any stub may be patched, any number of times.
`LoadedImageIsExact` is about whole programs: the file's bytes, then the last
relocation of each cell, then the stubs. It reads the headers, where the loader
reads its segments, and counts symbol indices itself (`SymbolHeader`).

## The runs

| Run | Expect | States | Shows |
|---|---|---|---|
| `AddressSpace` | pass | 10,676 | `TypeOK`, `SoundList`, `NoOverlap`, `HostAndGuestAgree`, `BlocksGuarded` |
| `AddressSpaceGap` | violation | – | a request beyond half the space is put into a hole too small for it, between a segment and the boot code |
| `GuestMemory` | pass | 67,438 | calls on any range implement flat memory; the host is lost only for improper calls |
| `Kernel` | pass | 991,335 | the seven kernel invariants and the refinement of `Scheduler` |
| `HleDispatch` | pass | 67,827 | stubs, map and module list agree, no exported NID is left without its function; a call reaches a function of its NID |
| `HleDispatchCleared` | violation | – | the runtime module list is not cleared after resolution |
| `ModuleTables` | pass | 3,200 | exactly the good tables load; a module is listed once its imports are good, with its stubs patched; every walk ends |
| `Loader` | pass | 28,315 | an image that inflated in full is exact, stubs included; a failed relocation leaves nothing mapped; every load ends |
| `LoaderUncompressed` | violation | – | an uncompressed segment is loaded from an unwritten buffer |
| `Relocation` | pass | 250,014 | a patched word means what was asked for; instructions stay what they are |
| `Emulator` | pass | 10,950 | no guest runs unresolved; an answer is that of the stub's NID for the caller; `main` ends |
| `Vfs` | pass | 22,930 | the pointers make a tree; what was created is found |

Bounds, and why they are enough:

* `AddressSpace`: 16 pages, six layouts (apart, touching, listed from the top
  down, and two near the top so that the space runs out, wraps to 0, or has no
  room for the boot code), requests of 0 to 4 whole pages, at most 6 maps.
  Holes that fit exactly, by one page less and by one page more all occur, and
  allocation ends in every way it can.
* `Kernel`: UIDs 1 to 3, two guest steps between starts, 24 pages with two
  initial maps, at most 8 maps at the start of an allocation. Three threads are what it takes for the
  drain loop to skip one and for one to be destroyed between two others. Two
  steps tell a lost register save from a repeated one. Two starts and a memory
  block fit, so a thread is started again and its first blocks leak, and a
  third stack ends on the last page, so that its end address wraps to 0.
* `GuestMemory`: 16 pages of 4 bytes, 16 values of a byte, words of 2 bytes and
  records of 3, so that objects cross the end of a segment. Three segments, two of
  which touch; addresses within, at the end of and across them, and at first unmapped;
  lengths of 0, 1, 2, a whole segment and more, and one that wraps. Three guest
  steps or calls: enough to allocate, write through one call and read through
  another, and to allocate twice.
* `ModuleTables`: tables of up to two records, each of the twelve kinds of import
  record behind a good one, each pair of the nine kinds of export record, and
  tables that end before, within and behind a record.
* `Relocation`: addresses at the link base and at the end of the space, symbols
  on both sides of them, bit patterns and extremes, words with all bits set or
  clear, and two patches, so that an instruction is patched twice.
* `Emulator`: one or two imports of five NIDs, one of them unknown, in two stubs.
  One thread is all that `main` creates; two guest steps between calls.
* `Vfs`: two mount points, two more nodes, ten paths: plain, climbing, with a
  doubled slash, with a device name or a leading slash that the parser does not
  read past, and with a character the scanner skips.
* `HleDispatch`: two libraries with up to three imports, four NIDs (one that no
  module has), three stubs, so that imports share a stub or a NID, and libraries
  are empty.
* `Loader`: two loadable segments of three cells, one or two relocation
  segments; every good relocation in two cells with and without a second patch
  and with a symbol index out of range; every bad header; loadable and relocation
  segments that inflate to less than their size; module infos in each segment and
  behind the last; no stub, two of two cells that overlap, also over relocated
  cells, and one that is not mapped.

Deadlock is not checked: each of these machines ends (a program fails to load,
the kernel is deleted, the engine stops) or reaches a bound.

**Fairness.** `Loader`, `ModuleTables` and `main` in `Emulator` are straight-line
code on the host's only thread: nothing else can run in their stead, so they
assume `WF` of their next step. On that rest `ReachesTables` (a load gets past
its relocations, also when they are garbage, or crashes over the module info), `LoadEnds` (the table walk ends unless an
export record that it visits has size 0, which the code reads for ever), `EntryThreadRuns`
and `MainEnds`. `Emulator` also assumes that the engine returns once
`uc_emu_stop` was called or the guest jumped to where nothing is mapped. The
guest is owed nothing: `run_cpu_for` ignores its instruction count, so a guest
may run for ever, and `MainEnds` says so. `Kernel` assumes no fairness: the
youngest READY thread runs every time and older ones may wait for ever, so the
code promises an order, which is `RunsTheYoungest`, and no progress.

Three disagreements between the code and what its text says are the violation
runs: `hle.h:52` ("then cleared"), `sce-type.h:95` ("1 = uncompressed"), and
`memory_manager.cpp:26` ("a gap is available").

Operators whose comment starts with "Fault:" are not part of a model. Each is a
plausible mistake in the definition that follows it, and with it in place the
property `PROJECT.json` pairs it with is violated.

## The proofs

Each proof is for every value of the constants that the named assumptions of its
module allow. Where a safety property is not inductive, the invariant it is proved
with was checked by TLC on the instance of the run first.

### The address space

`AddressSpaceProofs` proves, for every size of the address space, every set of
layouts and any number of maps, `TypeCorrect == Spec => []TypeOK` and, if
`ModestRequests`:

* `SoundListAlways`, `NoOverlapAlways`: the list is sorted, and no blocks overlap.
* `BlocksGuardedAlways`: unless the executable's segments touch, a page is left
  free between a stack or heap block and any other map.
* `HostAndGuestAgreeAlways`: list and engine resolve every page alike.

`ModestRequests` says that no rounded request comes within two pages of half the
space. It is needed: the run `AddressSpaceGap` shows the overlap the code makes
without it. Apart from the order of the list, all of this is conditional on
`WellPlaced`, because behind the last map the code computes the new block without testing that it fits.

`NoOverlap` alone is not inductive. The scan of `more_memory` compares each map
only with the next in the list, which finds free space only in a sorted list;
and while the loader runs, segments are disjoint from the ones before them only
because the list holds nothing else. `SoundList`
(`SortedByEnd /\ NoOverlap /\ OnlyVisitedSegments`) is inductive.

`BlocksGuarded` looks at stacks and heap blocks; its invariant `MapsGuarded` says of
all maps that a page lies between them. It rests on a second reading of the
loop in `more_memory`: if the maps of a sorted list are apart, the search keeps a clear
page before and behind the block it finds, in a gap or at the top
(`MoreMemoryIsApart`).

`HostAndGuestAgree` speaks of the running phase only. `EngineFollows` adds how it
comes about: the engine is empty while the loader maps, then backs as many maps
as the loop of `main` has replayed, at any order of the list, then all of
them. unicorn refuses a range that is partly mapped, and the caller only prints,
so each step needs that the range is free; this is why the disjointness of the list
is what makes two records of one memory agree.

`MemoryMapTheorems` has the lemmas below: modular arithmetic (`Wrap`), what
insertion by end preserves (`MapMemorySorted`, `MapMemoryDisjoint`,
`MapMemoryApart`), what the loop's `top_address` bounds (`TopAddressTrace`:
induction on the index goes through the least counterexample, `LeastNat`), what
the first gap guarantees (`FirstGapProperties`), and `MoreMemoryIsFree`: the block
found in a sorted, disjoint list meets no map of it. The assumptions are the
named ones of the modules: an even number of pages above 8, layouts of disjoint
well-placed segments none of which is at address 0, requests that are page
counts.

### Guest memory

`GuestMemoryProofs` proves, for every image, every size of page, byte, word and record,
every set of addresses and lengths, and any number of maps and calls:

* `GuestTypeCorrect`: `TypeOK`. Its heart is that each map has a host block of
  exactly its bytes, and that there is no other block.
* `RangeCheckAlways`: a range test that lets a bad range through lets only one
  through that wraps.
* `ImplementsFlatMemory`: every step is one of `FlatMemory` or nothing to it.

All three are conditional on `WellPlaced`, the last one on `[]WellPlaced(maps)`; and
`FlatUpToTheEnd` says of every behaviour that its steps are flat up to the one at which a
block first runs over the end of the space. From there on a block may begin on the
page of another, and the list no longer says which bytes are whose.

`RangeCheckHolds` and the type need each other, and neither is inductive. `GuestInv` has
three parts. `Scalars` keeps the order of the list and the ranges of the other
variables, whatever becomes of the blocks. `MapsAreSegments` says that during the load the
maps are the segments so far, which is why the next one meets none of them.
`Blocks` says that a well placed list is disjoint and has its blocks, and that the
range tests held. Disjointness is what carries all of it: the lookup finds
*the* map of an address (`LookupFinds`), so the pointer to an address leads to the byte
of its block that is as far from the front as the address is (`PointerFinds`), and a
write through it stays in that block (`PokeTyped`).

`Holds(a, n)`, one map holds `n` bytes from `a` on, is what the two levels have in
common. `TouchableHolds` says it of host pointers, `WholeHolds` of flat memory: a span is
without a border exactly if one map holds it, because two maps that touch have
a border between them. The tests of the clib functions come to `Holds` of one byte
more (`MemsetCases`) or two more (`MemmoveCases`), unless the sum of address and length
wraps. With `PokedMem` (bytes written at a pointer are bytes written at its
address), `StringFlat` (a string ends within its block if and only if it ends in
flat memory) and `GrowFlat` (a new map adds its addresses and one border, and leaves
every other byte alone) each action has a lemma of its own.

The assumptions are those of `GuestMemory`: no size is 0 (`SizesAssumption`), segments
are disjoint, well placed and no shorter than their bytes, addresses and lengths
are words, and a request is at most a quarter of the space
(`GuestMemoryAssumption`), which is within what `NoOverlapAlways` needs.

### The kernel

`KernelProofs` proves, for any number of threads, guest steps, stack and block
sizes and maps: `KernelTypeCorrect`, `ListMatchesAlways`, `FetchFindsReadyAlways`,
`SvcSeesItsThreadAlways`, `NoWorkLostAlways`, and `RunsTheYoungestAlways`, the
refinement of `Scheduler`.

Together they need one inductive invariant, `KernelInv`, because each leans on
the others. A dispatch loads the right registers only if the context of a READY
thread is its own work (`NoWorkLost`), and a stop saves them in the right place
only if the current thread is the one in the processor (`SvcSeesItsThread`). Three
parts are there for the induction alone: `QueueDrained` (every dispatch leaves
the ready queue empty, so the next one sees all threads), `UidsAreUsed` (a new UID
is greater than all that are listed, which keeps the list in order of creation)
and `NoneRunsOutside` (no thread is RUNNING while the host is outside the engine).
`QueueDrained` is why a destroyed thread is never fetched: the drain loop that
makes older threads wait is also what makes the queue safe.

What `fetch_ready_thread` picks is proved through `Chosen`: `Selected`, the loop over
the thread list, comes back with members of the set only, misses none if it
is empty, and ends with the last one in the list. With the list in order, that
one is the youngest. The induction on the loop's index goes through the least
counterexample (`LeastNat`), as for `more_memory`.

`BlocksArePrivateAlways` and `AnswersAreItsOwnAlways` are about memory, and assume
`ModestStart`: the list that `main` hands over is sorted and disjoint, which is
what `SoundListAlways` says of it, and sizes are modest as above. Their
invariant is `MemoryInv`. A stack is known by its top and a TLS block by its
start; both are maps of the list (`BlocksAreMaps`), no two threads have the same one
(`BlocksDiffer`), and an address that was answered to a thread is the start of a
heap block that is no other thread's (`AnswersAreKnown`). That an earlier
answer stays its own is the reason for the last part: a thread started again has a
new TLS block, and nothing ever frees the old one.

### Imports and dispatch

`HleDispatchProofs` proves `HleTypeCorrect`, `StubsAreKnownAlways` and
`CallsReachAlways`, for every import table and any list of HLE modules. The
invariant `HleInv` relates guest memory to the loader's records
(`StubsHoldLast`: the NID in a stub is that of the last record for it) and the map
to both (`MapIsResolved`). `resolve_runtime_modules` goes through libraries in a
nested loop and the loader patches one import after another; that the two keep
the same record of each stub, also when imports share it, is a fact about
flattened sequences, proved there as lemmas. That no NID a module
exports is left without its function is `NoFunctionFor`. `FunctionFor`, the search
through the module list, is handled by what it finds and not by how it looks.

`ModuleTablesProofs` proves `TablesTypeCorrect`, `AcceptsGoodTablesAlways`,
`ListedWhenImportedAlways`, and `TablesImplementDispatch`, the refinement of
`HleDispatch`, for every executable. `TablesInv` follows the walk: a library for every
import record behind it, all of them good, and nothing listed before the end.
`StubsFollow` is the same for guest memory: each stub holds the NID of the last of
the imports patched so far that names it, which at the end are all the places of
the table (`ImportPlaces`). The
walk over exports is given by the sizes in the records, so an induction
over it is not on an index: `WalkSoFar` holds the offsets it came by, and the
least set of `Visited` is compared with it.

### The loader

`LoaderProofs` proves `LoaderTypeCorrect`, `NoHalfRelocatedAlways` and
`LoadedImageAlways` for every set of files. `LoaderInv` says that the segments are
those of the headers read (`SegmentsFollowHeaders`), which are mapped so far
(`MappedSoFar`), and that each cell of a whole program holds the code of a stub, if
one of those patched so far covers it (`StubsDone`), and else the last of the relocations
applied so far that reach it (`CellsAreExact`). The order of relocations is by segment,
then by entry, and `Applied` is an initial part of it at every step. Without
compression, or behind a short inflate, the buffer is never written and nothing can be
said of it. `Whole` excludes such files; the run `LoaderUncompressed` shows one.

### Relocations

The second half of `LoaderProofs` is about `Relocation`, whose names are for this reason
none of `Loader`'s. It proves `RelocationTypeCorrect`, `RelocationReaches` and
`InstructionsKept` for all 32-bit symbols, addends, addresses and words. A half is
split into fields by division and remainder; the lemmas say that `Put` sets its
field and keeps every other, that a half is put together from its fields, and
how the carry of a sum or difference passes from the low half to the high one.
That an in-range branch reaches its symbol then follows from the sign bit being
repeated in the six bits above the encoded displacement.

### The emulator

`EmulatorProofs` shows that composing changes nothing: `RunsTheRegistry` and
`RunsTheKernel` say that each behaviour of the emulator is one of `HleDispatch` and
one of `Kernel`, step by step, where a guest call is a step of both. So
what is proved of the parts holds of the whole, without a second proof;
`GuestBlocksArePrivate` is an example. For the kernel's steps the invariant of
`Kernel` itself is needed: the entry thread that `main` starts has a UID that the kernel
can have given.
`GuestRunsResolvedAlways` and `AnswersFitAlways` relate the parts, by the invariant
`EmulatorInv`: where `main` is, how far the registry has come, and whether
the host is in the engine. The assumptions are those of the two modules, restated
for the constants they share (`RegistryAssumption`, `KernelAssumption`), and that
the NIDs of three functions differ.

### Only model-checked

* `Vfs`: `TypeOK`, `ParentsAgree`, `FoundWhereCreated` and
  the refinement of `FileTree`. What they say rests on what the scanner leaves of a
  path, on walks along the pointers and on what is deleted with a directory, all
  defined by recursion to any depth: each would need an induction of its own, spelled
  out by its least counterexample as for `more_memory`. The file is not in the build and
  nothing calls it, so the proofs went to the code that runs.
* The liveness properties `ReachesTables`, `LoadEnds`, `EntryThreadRuns` and
  `MainEnds`: out of the prover's reach, as is anything with `ENABLED`.

## Not modelled, and why

* `unmap_memory` of a single range, the two empty `memcpy` overloads, the map
  pointer returned by `map_memory`, the function lookup by name: no caller.
* Logger, SDL window, the hooks that only print: no decision.
* Registers by number, and the wrapper's arguments beyond what a function reads:
  register access is one transfer each way, and a context is moved as a whole.
* Floating-point registers are not saved at a switch by the code; the context of
  the model has nothing for them either.
* The Thumb bit: `start_thread` sets it for every entry address.
* HLE writes ignore access rights in the code; `GuestMemory` has the host write
  to a read-only segment, too, and no document says that it should not.
* Bit 31 of a `PREL31` word is cleared by the code and by the model; whether it
  should be kept is not said anywhere in the repository.
* `svc_mutex`: one host thread takes and releases it, and an exception between
  the two ends the process.
* In `vfs.cpp`: there is no unmount, and the object that `createFile` allocates for
  a name that is not the last of its path is leaked; no directory ever holds it.
* The entries of the start, stop and exit functions a module exports, and its
  thread-local storage segment: the loader reads them into locals that it never uses.

## Plan

1. Done: the modules above, their runs, the refinements of `Scheduler`,
   `FlatMemory`, `FileTree` and `HleDispatch`, and the composition of `main` with the
   registry and the kernel.
2. Done: the theorems about the address space, guest memory, the kernel, the registry,
   the module tables, the loader, relocations and the composition: every safety
   property of these modules that a run checks, and the refinements of `Scheduler`,
   `FlatMemory` and `HleDispatch`.
3. Next theorems: `Vfs`, beginning with what `Parse` leaves and `Walk` finds.
4. Larger composition: `AddressSpace` with `Kernel`, so that the engine's map is
   followed through stacks, TLS blocks and memory blocks.
