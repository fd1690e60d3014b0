------------------------------- MODULE Kernel -------------------------------
(***************************************************************************)
(* betavita::hle::Kernel: the table of kernel objects, the thread list,    *)
(* the scheduler and the one emulated processor it drives.  One host       *)
(* thread calls the kernel; while a guest thread runs, that host thread    *)
(* is inside run_single_thread_with_events, and the guest's supervisor     *)
(* calls come back to the kernel on it.                                    *)
(*                                                                         *)
(* A context (the saved registers) is kept as whose computation it is, how *)
(* far that has come, whether it has returned to the 0xBAD4F00D that       *)
(* start_thread leaves in lr, and the answer r0 holds.                     *)
(***************************************************************************)
EXTENDS MemoryMap

CONSTANTS
    FirstUid,       \* 0x100
    InitialMaps,    \* memory_map_list when main starts to use the kernel
    StackSizes,     \* stack sizes asked of create_thread, in pages
    HeapSizes,      \* sizes the guest asks of sceKernelAllocMemBlock, in pages
    MaxUid,         \* bound of the model: no thread gets this UID
    MaxSteps,       \* bound of the model: guest steps between two starts
    MaxMaps         \* bound of the model: no allocation starts beyond it

ASSUME KernelAssumption ==
    /\ FirstUid \in Nat \ {0} /\ MaxUid \in Nat /\ FirstUid <= MaxUid
    /\ InitialMaps \in Seq(Map) /\ InitialMaps # <<>>
    /\ StackSizes \subseteq Page /\ HeapSizes \subseteq Page
    /\ MaxSteps \in Nat /\ MaxMaps \in Nat

VARIABLES
    objects,            \* kernel_object_map: a Thread for each live UID
    thread_list,        \* the UIDs of the threads, in order of creation
    ready_threads_queue,
    uid_value,          \* the next UID
    current_thread,     \* current_thread[0]: the UID behind the pointer, or None
    host,               \* where the host thread is
    regs,               \* the registers of the emulated processor
    maps,               \* memory_map_list
    work                \* history: guest steps each thread made since its start

vars == <<objects, thread_list, ready_threads_queue, uid_value, current_thread,
          host, regs, maps, work>>

None    == 0
NoValue == [kind |-> "none", value |-> 0]
Uid     == FirstUid .. MaxUid - 1

Value   == [kind : {"none", "uid", "tls"}, value : Nat]
Context == [owner : Uid \cup {None}, steps : 0 .. MaxSteps, returned : BOOLEAN,
            r0 : Value]
Thread  == [status : {"stagnant", "ready", "running"}, stackSize : StackSizes,
            stackTop : Page, tlsLowAddress : Page, context : Context]

Cleared == [owner |-> None, steps |-> 0, returned |-> FALSE, r0 |-> NoValue]

TypeOK ==
    /\ DOMAIN objects \subseteq Uid
    /\ objects \in [DOMAIN objects -> Thread]
    /\ thread_list \in Seq(Uid)
    /\ ready_threads_queue \in Seq(Uid)
    /\ uid_value \in FirstUid .. MaxUid
    /\ current_thread \in Uid \cup {None}
    /\ host \in {"idle", "running", "exited", "deleted"}
    /\ regs \in Context
    /\ maps \in Seq(Map)
    /\ work \in [Uid -> 0 .. MaxSteps]

Init ==
    /\ objects = << >>
    /\ thread_list = <<>>
    /\ ready_threads_queue = <<>>
    /\ uid_value = FirstUid
    /\ current_thread = None
    /\ host = "idle"
    /\ regs = Cleared
    /\ maps = InitialMaps
    /\ work = [u \in Uid |-> 0]

-----------------------------------------------------------------------------
(* The object table *)

\* create_thread: create_kernel_object takes the next UID and lists it.
CreateThread ==
    /\ host = "idle"
    /\ uid_value < MaxUid
    /\ \E size \in StackSizes :
         objects' = [u \in DOMAIN objects \cup {uid_value} |->
                       IF u = uid_value
                       THEN [status |-> "stagnant", stackSize |-> size,
                             stackTop |-> 0, tlsLowAddress |-> 0,
                             context |-> Cleared]
                       ELSE objects[u]]
    /\ thread_list' = Append(thread_list, uid_value)
    /\ uid_value' = uid_value + 1
    /\ UNCHANGED <<ready_threads_queue, current_thread, host, regs, maps, work>>

\* Fault: the last thread is erased, whichever was meant.
RemoveLast(list, uid) == IF Contains(list, uid) THEN Front(list) ELSE list

\* remove_uid_from_list erases the first occurrence.
RemoveUid(list, uid) ==
    IF Contains(list, uid)
    THEN RemoveAt(list, CHOOSE i \in 1 .. Len(list) :
                          /\ list[i] = uid
                          /\ \A j \in 1 .. i - 1 : list[j] # uid)
    ELSE list

\* destroy_kernel_object: neither the ready queue, the current thread nor the
\* thread's stack and TLS blocks are touched.
DestroyThread(uid) ==
    /\ host = "idle"
    /\ uid \in DOMAIN objects
    /\ thread_list' = RemoveUid(thread_list, uid)
    /\ objects' = [u \in DOMAIN objects \ {uid} |-> objects[u]]
    /\ UNCHANGED <<ready_threads_queue, uid_value, current_thread, host, regs,
                   maps, work>>

\* The members of a list that are in a set, in order.
Selected(list, set) ==
    LET selected[k \in 0 .. Len(list)] ==
            IF k = 0 THEN <<>>
            ELSE IF list[k] \in set THEN Append(selected[k - 1], list[k])
            ELSE selected[k - 1]
    IN  selected[Len(list)]

\* delete kernel: every object is unlisted and deleted.
Shutdown ==
    /\ host = "idle"
    /\ host' = "deleted"
    /\ objects' = << >>
    /\ thread_list' = Selected(thread_list, Uid \ DOMAIN objects)
    /\ UNCHANGED <<ready_threads_queue, uid_value, current_thread, regs, maps, work>>

-----------------------------------------------------------------------------
(* Starting a thread *)

\* Fault: the start of the block is returned for a stack, too.
AllocationsAtStart(list, kind, k) ==
    LET n     == MemorySize(k)
        first == MoreMemory(list, n)
    IN  IF first = NoAddress
        THEN { <<list, 0>> }
        ELSE MapMemory(list, Block(kind, first, n)) \X { first }

\* Fault: the end of a stack does not wrap.
AllocationsUnwrapped(list, kind, k) ==
    LET n     == MemorySize(k)
        first == MoreMemory(list, n)
    IN  IF first = NoAddress
        THEN { <<list, 0>> }
        ELSE MapMemory(list, Block(kind, first, n))
               \X { IF kind = "stack" THEN first + n ELSE first }

\* The lists and addresses allocate_stack and allocate_heap may come back with:
\* the end of the block for a stack, its start for a heap, 0 when there is none.
Allocations(list, kind, k) ==
    LET n     == MemorySize(k)
        first == MoreMemory(list, n)
    IN  IF first = NoAddress
        THEN { <<list, 0>> }
        ELSE MapMemory(list, Block(kind, first, n))
               \X { IF kind = "stack" THEN (first + n) % Pages ELSE first }

TlsSize == 1        \* 0x1000 bytes

\* start_thread, whatever the thread's status and whatever blocks it has: pc,
\* lr, sp and cpsr are set, the other registers stay as they were, and an
\* allocation that fails is not noticed.
StartThread(uid) ==
    /\ host = "idle"
    /\ uid \in DOMAIN objects
    /\ Len(maps) < MaxMaps
    /\ \E stack \in Allocations(maps, "stack", objects[uid].stackSize) :
       \E tls \in Allocations(stack[1], "heap", TlsSize) :
         /\ maps' = tls[1]
         /\ objects' = [objects EXCEPT
              ![uid].status = "ready",
              ![uid].stackTop = stack[2],
              ![uid].tlsLowAddress = tls[2],
              ![uid].context.owner = uid,
              ![uid].context.steps = 0,
              ![uid].context.returned = FALSE]
    /\ work' = [work EXCEPT ![uid] = 0]
    /\ UNCHANGED <<thread_list, ready_threads_queue, uid_value, current_thread,
                   host, regs>>

\* start_thread with an argument block ends the process.
StartThreadWithArguments(uid) ==
    /\ host = "idle"
    /\ uid \in DOMAIN objects
    /\ host' = "exited"
    /\ UNCHANGED <<objects, thread_list, ready_threads_queue, uid_value,
                   current_thread, regs, maps, work>>

-----------------------------------------------------------------------------
(* Scheduling *)

ReadyList ==
    Selected(thread_list, { u \in DOMAIN objects : objects[u].status = "ready" })

\* fetch_ready_thread refills the queue only when it is empty.
Refilled ==
    IF ready_threads_queue = <<>> THEN ReadyList ELSE ready_threads_queue

\* Fault: one UID is popped, and the rest stay for the next dispatches.
FirstPopped(queue) == 1

\* Its loop pops until the queue is empty or a popped UID has no thread.
LastPopped(queue) ==
    LET dead == { i \in 1 .. Len(queue) : queue[i] \notin DOMAIN objects }
    IN  IF dead = {} THEN Len(queue)
        ELSE CHOOSE i \in dead : \A j \in dead : i <= j

Fetched ==
    IF Refilled = <<>> THEN None
    ELSE LET uid == Refilled[LastPopped(Refilled)]
         IN  IF uid \in DOMAIN objects THEN uid ELSE None

QueueAfterFetch == SubSeq(Refilled, LastPopped(Refilled) + 1, Len(Refilled))

\* Fault: the current thread is set only if there is none.
DispatchKeepingCurrent ==
    /\ host = "idle"
    /\ ready_threads_queue' = QueueAfterFetch
    /\ Fetched # None
    /\ current_thread' = IF current_thread = None THEN Fetched ELSE current_thread
    /\ objects' = [objects EXCEPT ![Fetched].status = "running"]
    /\ regs' = objects[Fetched].context
    /\ host' = "running"
    /\ UNCHANGED <<thread_list, uid_value, maps, work>>

\* run_single_thread_with_events up to run_cpu_for: fetch a thread, load its
\* registers, and enter the engine.
Dispatch ==
    /\ host = "idle"
    /\ ready_threads_queue' = QueueAfterFetch
    /\ IF Fetched = None
       THEN UNCHANGED <<objects, current_thread, host, regs>>
       ELSE /\ current_thread' = Fetched
            /\ objects' = [objects EXCEPT ![Fetched].status = "running"]
            /\ regs' = objects[Fetched].context
            /\ host' = "running"
    /\ UNCHANGED <<thread_list, uid_value, maps, work>>

\* Fault: the registers are not saved.
StopWithoutSaving ==
    /\ host = "running"
    /\ objects' = [objects EXCEPT ![current_thread].status = "ready"]
    /\ host' = "idle"
    /\ UNCHANGED <<thread_list, ready_threads_queue, uid_value, current_thread,
                   regs, maps, work>>

\* run_cpu_for returns only when the guest stops by itself: it faults, it
\* returns, or it makes an unknown supervisor call.  The registers are saved
\* into the thread that was fetched, and a RUNNING thread is READY again.
Stop ==
    /\ host = "running"
    /\ objects' = [objects EXCEPT
         ![current_thread].context = regs,
         ![current_thread].status = IF @ = "running" THEN "ready" ELSE @]
    /\ host' = "idle"
    /\ UNCHANGED <<thread_list, ready_threads_queue, uid_value, current_thread,
                   regs, maps, work>>

-----------------------------------------------------------------------------
(* The guest *)

GuestRuns == host = "running" /\ ~ regs.returned

\* Some instructions of the thread whose registers are loaded.
GuestStep ==
    /\ GuestRuns
    /\ regs.steps < MaxSteps
    /\ regs' = [regs EXCEPT !.steps = @ + 1]
    /\ work' = [work EXCEPT ![regs.owner] = @ + 1]
    /\ UNCHANGED <<objects, thread_list, ready_threads_queue, uid_value,
                   current_thread, host, maps>>

\* The entry function returns to 0xBAD4F00D, where nothing is mapped.
GuestReturn ==
    /\ GuestRuns
    /\ regs' = [regs EXCEPT !.returned = TRUE]
    /\ UNCHANGED <<objects, thread_list, ready_threads_queue, uid_value,
                   current_thread, host, maps, work>>

Answer(kind, value) ==
    /\ regs' = [regs EXCEPT !.r0 = [kind |-> kind, value |-> value]]
    /\ UNCHANGED <<objects, thread_list, ready_threads_queue, uid_value,
                   current_thread, host, work>>

\* Fault: the answer is the newest thread's UID.
SvcGetNewestThreadId ==
    GuestRuns /\ Answer("uid", uid_value - 1) /\ UNCHANGED maps

\* sceKernelGetThreadId asks the current thread.
SvcGetThreadId ==
    GuestRuns /\ Answer("uid", current_thread) /\ UNCHANGED maps

\* A valid key is an offset of at most 0x400 bytes: it stays in the first page.
\* Any other is answered with 0xFFFFFFFF, which is nobody's address.
SvcGetTLSAddr ==
    /\ GuestRuns
    /\ \/ Answer("tls", objects[current_thread].tlsLowAddress)
       \/ Answer("none", 0)
    /\ UNCHANGED maps

\* sceKernelAllocMemBlock; its answer is always 2, which is nobody's UID.
SvcAllocMemBlock ==
    /\ GuestRuns
    /\ Len(maps) < MaxMaps
    /\ \E k \in HeapSizes : \E heap \in Allocations(maps, "heap", k) :
         maps' = heap[1]
    /\ Answer("none", 0)

Next ==
    \/ CreateThread
    \/ \E uid \in Uid : DestroyThread(uid)
    \/ \E uid \in Uid : StartThread(uid)
    \/ \E uid \in Uid : StartThreadWithArguments(uid)
    \/ Dispatch
    \/ Stop
    \/ GuestStep
    \/ GuestReturn
    \/ SvcGetThreadId
    \/ SvcGetTLSAddr
    \/ SvcAllocMemBlock
    \/ Shutdown

Spec == Init /\ [][Next]_vars

-----------------------------------------------------------------------------
(* Properties *)

\* The thread list and the object table never disagree: every object is listed
\* exactly once, in order of creation, through any creations and destructions.
ListMatchesObjects ==
    /\ DOMAIN objects = { thread_list[i] : i \in 1 .. Len(thread_list) }
    /\ \A i, j \in 1 .. Len(thread_list) :
         i < j => thread_list[i] < thread_list[j]

\* The warning "how is the fetched thread NULL?" is never earned: a dispatch
\* gets a thread that lives and is READY, and gets none only if none is READY,
\* whatever was destroyed since the last dispatch.
FetchFindsReady ==
    host = "idle" =>
        IF Fetched = None
        THEN \A u \in DOMAIN objects : objects[u].status # "ready"
        ELSE objects[Fetched].status = "ready"

\* A supervisor call is answered for the thread that made it: the pointer
\* get_current_thread follows is to a live thread, the only RUNNING one, and
\* it is this thread's registers that are in the processor.
SvcSeesItsThread ==
    host = "running" =>
        /\ current_thread \in DOMAIN objects
        /\ regs.owner = current_thread
        /\ \A u \in DOMAIN objects :
             objects[u].status = "running" <=> u = current_thread

\* Switching threads loses and repeats no guest work: what a thread did since
\* it was started is in the processor while it runs, in its context otherwise.
NoWorkLost ==
    \A u \in DOMAIN objects :
        objects[u].status # "stagnant" =>
            IF objects[u].status = "running"
            THEN regs.owner = u /\ regs.steps = work[u]
            ELSE objects[u].context.owner = u /\ objects[u].context.steps = work[u]

StackPages(t) ==
    IF t.stackTop = 0 THEN {}
    ELSE (t.stackTop - MemorySize(t.stackSize)) .. (t.stackTop - 1)

TlsPages(t) ==
    IF t.tlsLowAddress = 0 THEN {}
    ELSE t.tlsLowAddress .. (t.tlsLowAddress + MemorySize(TlsSize) - 1)

Private(u) == StackPages(objects[u]) \cup TlsPages(objects[u])

\* No page of a thread's stack or TLS block belongs to another thread's, to
\* the other block of its own, or to the program, and all of them are
\* readable and writable, for as long as the space has not run out.
BlocksArePrivate ==
    WellPlaced(maps) =>
        \A u \in DOMAIN objects :
            /\ StackPages(objects[u]) \cap TlsPages(objects[u]) = {}
            /\ \A v \in DOMAIN objects \ {u} : Private(u) \cap Private(v) = {}
            /\ \A p \in Private(u) :
                 \E m \in { maps[i] : i \in Hits(maps, p) } :
                   /\ m.protection = ReadWrite
                   /\ \A i \in Hits(maps, p) : maps[i] = m

\* What a thread was told about itself stays its own across switches: the UID
\* in r0 is its UID, and the TLS address in r0 is in no other thread's block,
\* even when the thread was started again since.
AnswersAreItsOwn ==
    WellPlaced(maps) =>
        \A u \in DOMAIN objects :
            LET own == IF objects[u].status = "running" THEN regs
                       ELSE objects[u].context
            IN  /\ own.r0.kind = "uid" => own.r0.value = u
                /\ own.r0.kind = "tls" =>
                     \A v \in DOMAIN objects \ {u} : own.r0.value \notin Private(v)

\* The kernel implements the scheduler that runs the youngest READY thread.
Youngest ==
    INSTANCE Scheduler WITH next   <- uid_value,
                            status <- [u \in DOMAIN objects |-> objects[u].status]

RunsTheYoungest == Youngest!Spec
=============================================================================
