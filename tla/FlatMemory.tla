----------------------------- MODULE FlatMemory -----------------------------
(***************************************************************************)
(* Guest memory as the program sees it through its supervisor calls: one   *)
(* byte per mapped address, no blocks, no host pointers, no list.  A call  *)
(* is a function and its arguments (r0 to r3); its answer is left in r0.   *)
(***************************************************************************)
EXTENDS Integers, Sequences

CONSTANTS
    Bytes,              \* bytes of the address space
    ByteValues,         \* values of a byte
    WordBytes,          \* bytes of a word
    FramebufferBytes    \* bytes of an SceDisplayFramebuf

VARIABLES
    mem,            \* the byte at each mapped address
    borders,        \* first addresses of the segments and memory blocks
    base,           \* where the last memory block begins
    framebuffer,    \* the record the display was last given, and whether it has a base
    call,           \* the last call: its function and arguments
    r0              \* its answer

vars == <<mem, borders, base, framebuffer, call, r0>>

Mapped     == DOMAIN mem
Span(a, n) == a .. a + n - 1

\* Mapped from end to end, and within one segment or block: as the objects of
\* a C program are.
Whole(range) ==
    /\ \A b \in borders : ~ {b - 1, b} \subseteq range
    /\ range \subseteq Mapped

\* Memory with the byte of a span replaced by what Byte gives for its place.
Filled(a, n, Byte(_)) ==
    [ b \in Mapped |-> IF b \in Span(a, n) THEN Byte(b - a) ELSE mem[b] ]

\* Byte i of a word, from the least significant.
WordByte(word, i) == (word \div ByteValues ^ i) % ByteValues

\* A string begins at the address and ends within its segment or block.
IsString(a) ==
    \E n \in 1 .. Bytes - a : Whole(Span(a, n)) /\ mem[a + n - 1] = 0

Init ==
    /\ mem = << >>
    /\ borders = {}
    /\ base = 0
    /\ framebuffer = [params |-> <<>>, based |-> FALSE]
    /\ call = [function |-> "none", args |-> <<>>]
    /\ r0 = 0

Answers(value) == r0' = value

\* Mapped addresses are added; what was there stays.
Grows ==
    LET old == mem
        new == mem'
    IN  \A a \in DOMAIN old : a \in DOMAIN new /\ new[a] = old[a]

\* The addresses a step maps.
Added ==
    LET new == mem'
    IN  DOMAIN new \ Mapped

\* The loader maps a segment with its bytes in place.
Load ==
    /\ Grows
    /\ \E first \in Added :
         /\ \A a \in Added : first <= a
         /\ borders' = borders \cup {first}
    /\ UNCHANGED <<base, framebuffer, call, r0>>

\* A guest instruction writes one byte.
Store ==
    /\ UNCHANGED <<borders, base, framebuffer, call, r0>>
    /\ LET old == mem
           new == mem'
       IN  /\ DOMAIN new = DOMAIN old
           /\ \E a \in DOMAIN old : \A b \in DOMAIN old : new[b] # old[b] <=> b = a

\* The range is filled if it and one byte more are mapped; otherwise nothing
\* happens, and the answer is the same.
Memset(dst, ch, len) ==
    /\ IF Whole(Span(dst, len + 1))
       THEN mem' = Filled(dst, len, LAMBDA i : ch % ByteValues)
       ELSE UNCHANGED mem
    /\ Answers(dst)
    /\ UNCHANGED <<borders, base, framebuffer>>

\* The same for a copy, which wants two bytes more; the ranges may overlap.
Memmove(dst, src, len) ==
    /\ IF Whole(Span(dst, len + 2)) /\ Whole(Span(src, len + 2))
       THEN mem' = Filled(dst, len, LAMBDA i : mem[src + i])
       ELSE UNCHANGED mem
    /\ Answers(dst)
    /\ UNCHANGED <<borders, base, framebuffer>>

\* A new block of at least the size asked for, all zero, or none.
AllocMemBlock(name, type, size) ==
    /\ IsString(name)
    /\ Grows
    /\ LET new == mem'
       IN  \A a \in Added : new[a] = 0
    /\ IF Added = {}
       THEN base' = 0 /\ UNCHANGED borders
       ELSE Span(base', size + 1) \subseteq Added /\ borders' = borders \cup {base'}
    /\ Answers(2)
    /\ UNCHANGED framebuffer

\* Where the last block begins is written to a word of memory, if mapped.
GetMemBlockBase(uid, addr) ==
    /\ IF addr \in Mapped
       THEN /\ Whole(Span(addr, WordBytes))
            /\ mem' = Filled(addr, WordBytes, LAMBDA i : WordByte(base, i))
       ELSE UNCHANGED mem
    /\ Answers(0)
    /\ UNCHANGED <<borders, base, framebuffer>>

\* The display keeps a copy of the record, or forgets the base of the last.
SetFramebuf(addr, sync) ==
    /\ IF addr \in Mapped
       THEN /\ Whole(Span(addr, FramebufferBytes))
            /\ framebuffer' = [ params |-> [i \in 1 .. FramebufferBytes |-> mem[addr + i - 1]],
                                based  |-> TRUE ]
       ELSE framebuffer' = [framebuffer EXCEPT !.based = FALSE]
    /\ Answers(0)
    /\ UNCHANGED <<mem, borders, base>>

\* No mutex is ever created.
CreateMutex(name) ==
    /\ name \in Mapped => IsString(name)
    /\ Answers(-1)
    /\ UNCHANGED <<mem, borders, base, framebuffer>>

\* So none is locked or unlocked.
UseMutex == Answers(-1) /\ UNCHANGED <<mem, borders, base, framebuffer>>

\* The range a call names runs past the last address, the object it names is
\* not whole, or its name is nowhere.
Improper(c) ==
    LET f == c.function
        a == c.args
        torn(addr, n) == addr \in Mapped /\ ~ Whole(Span(addr, n))
    IN  \/ f = "sceClibMemset" /\ a[1] + a[3] > Bytes
        \/ f = "sceClibMemmove" /\ (a[1] + a[3] >= Bytes \/ a[2] + a[3] >= Bytes)
        \/ f = "sceKernelAllocMemBlock" /\ ~ IsString(a[1])
        \/ f = "sceKernelCreateMutex" /\ a[1] \in Mapped /\ ~ IsString(a[1])
        \/ f = "sceKernelGetMemBlockBase" /\ torn(a[2], WordBytes)
        \/ f = "sceDisplaySetFramebuf" /\ torn(a[1], FramebufferBytes)

\* Such a call is owed nothing; any other call is answered as above.
Unanswered == Improper(call') /\ UNCHANGED <<mem, borders, base, framebuffer>>

\* The arguments of a call step are those the step records.
Arg(i) == call'.args[i]

Next ==
    \/ Load
    \/ Store
    \/ call'.function = "sceClibMemset" /\ Memset(Arg(1), Arg(2), Arg(3))
    \/ call'.function = "sceClibMemmove" /\ Memmove(Arg(1), Arg(2), Arg(3))
    \/ call'.function = "sceKernelAllocMemBlock" /\ AllocMemBlock(Arg(1), Arg(2), Arg(3))
    \/ call'.function = "sceKernelGetMemBlockBase" /\ GetMemBlockBase(Arg(1), Arg(2))
    \/ call'.function = "sceDisplaySetFramebuf" /\ SetFramebuf(Arg(1), Arg(2))
    \/ call'.function = "sceKernelCreateMutex" /\ CreateMutex(Arg(1))
    \/ call'.function \in {"sceKernelLockMutex", "sceKernelUnlockMutex"} /\ UseMutex
    \/ Unanswered

Spec == Init /\ [][Next]_vars
=============================================================================
