------------------------------- MODULE Loader -------------------------------
(***************************************************************************)
(* betavita::loader: from the bytes of a SELF file to a relocated program  *)
(* in guest memory.  decrypt_self_data turns every program header into a   *)
(* segment; load_self_to_memory maps the loadable ones, applies the        *)
(* relocations of the others, and reads the import and export tables.      *)
(*                                                                         *)
(* A segment's memory is a few cells, each known by where its bytes came   *)
(* from and by what was last written into it: a relocation, or the code of *)
(* an import stub.  Where a segment lies in the address space is           *)
(* AddressSpace's business, and how the tables that name the stubs are     *)
(* walked is ModuleTables'.                                                *)
(***************************************************************************)
EXTENDS Integers, Sequences

CONSTANTS
    Files,      \* the SELF files
    Cells,      \* cells of a segment, from 0; offsets beyond are not mapped
    StubLength  \* cells that the three words of a stub take up

\* One format 0 relocation: two patches, the second of them optional.  The
\* symbol and patch segments are indices that may be out of range.
Relocation ==
    [ symbol : Nat, patched : Nat, offset : Nat, addend : Nat,
      code : {"known", "unknown"}, code2 : {"none", "known", "unknown"},
      dist2 : Nat ]

\* filesz and inflated are cells or, in a segment of relocations, entries:
\* p_filesz, and what of it comes out of the decompressor.
Header ==
    [ type : {"load", "rela", "other"}, compressed : BOOLEAN,
      encrypted : BOOLEAN, intact : BOOLEAN, filesz : Nat, inflated : Nat,
      relocations : Seq(Relocation) ]

Stub == [segment : Nat, offset : Nat]

\* info is the segment that e_entry places the module info in, which may not be
\* there; stubs are the addresses that its import records name, in their order.
File == [ type : {"exec", "relexec", "other"}, headers : Seq(Header), info : Nat,
          stubs : Seq(Stub) ]

ASSUME FilesAssumption ==
    /\ Cells \in Nat
    /\ StubLength \in Nat
    /\ \A f \in Files :
         /\ f \in File
         /\ \A i \in 1 .. Len(f.headers) :
              LET h == f.headers[i]
              IN  /\ h.inflated <= h.filesz
                  /\ h.type = "load" => h.filesz <= Cells
                  /\ h.type = "rela" => Len(h.relocations) = h.inflated

VARIABLES
    phase,      \* what the loader is doing
    file,       \* the file it was given
    segments,   \* SELFProgramData::segments
    cursor,     \* the segment or header its loop is at
    position,   \* relocations of that segment already applied, or stubs patched
    memory,     \* the cells of every mapped segment
    registered  \* add_runtime_module was called for it

vars == <<phase, file, segments, cursor, position, memory, registered>>

Headers == file.headers

\* What new uint8_t[] holds before anything is copied into it is "garbage".
Origin   == {"file", "zero", "garbage"}
NoPatch  == [by |-> "none", symbol |-> 0, addend |-> 0]
Garbage  == [NoPatch EXCEPT !.by = "garbage"]
StubCode == [NoPatch EXCEPT !.by = "stub"]
Patch    == [ by : {"none", "file", "garbage", "stub"},
              symbol : 0 .. Len(Headers), addend : Nat ]
Cell     == [origin : Origin, patch : Patch]

\* length is segment_length.
Segment  == [data : Origin, length : Nat, relocatable : BOOLEAN, can_load : BOOLEAN]
Skipped  == [data |-> "zero", length |-> 0, relocatable |-> FALSE, can_load |-> FALSE]

TypeOK ==
    /\ phase \in {"decrypting", "mapping", "relocating", "importing",
                  "loaded", "failed", "crashed"}
    /\ file \in Files
    /\ segments \in Seq(Segment)
    /\ cursor \in 1 .. Len(Headers) + 1
    /\ position \in Nat
    /\ DOMAIN memory \subseteq 1 .. Len(segments)
    /\ memory \in [DOMAIN memory -> [0 .. Cells - 1 -> Cell]]
    /\ registered \in BOOLEAN

Init ==
    /\ phase = "decrypting"
    /\ file \in Files
    /\ segments = <<>>
    /\ cursor = 1
    /\ position = 0
    /\ memory = << >>
    /\ registered = FALSE

Mapped == DOMAIN memory

Fail == phase' = "failed" /\ UNCHANGED <<file, segments, cursor, position>>

-----------------------------------------------------------------------------
(* decrypt_self_data *)

\* An executable of another type, a segment that is encrypted, or one that
\* does not decompress: the file is refused as a whole.
RefuseFile ==
    /\ phase = "decrypting"
    /\ \/ file.type = "other"
       \/ /\ cursor <= Len(Headers)
          /\ LET h == Headers[cursor]
             IN  /\ h.type # "other"
                 /\ h.encrypted \/ (h.compressed /\ ~ h.intact)
    /\ Fail
    /\ UNCHANGED <<memory, registered>>

\* The buffer of a segment that is not compressed is never written; one that
\* inflates to less than p_filesz is written in front only, and is accepted.
ReadHeader ==
    /\ phase = "decrypting"
    /\ file.type # "other"
    /\ cursor <= Len(Headers)
    /\ LET h == Headers[cursor]
       IN  IF h.type = "other"
           THEN segments' = Append(segments, Skipped)
           ELSE /\ ~ h.encrypted
                /\ h.compressed => h.intact
                /\ segments' = Append(segments,
                     [ data        |-> IF h.compressed THEN "file" ELSE "garbage",
                       length      |-> IF h.compressed THEN h.inflated ELSE h.filesz,
                       relocatable |-> h.type = "rela",
                       can_load    |-> TRUE ])
    /\ cursor' = cursor + 1
    /\ UNCHANGED <<phase, file, position, memory, registered>>

FinishDecryption ==
    /\ phase = "decrypting"
    /\ file.type # "other"
    /\ cursor > Len(Headers)
    /\ phase' = "mapping"
    /\ cursor' = 1
    /\ UNCHANGED <<file, segments, position, memory, registered>>

-----------------------------------------------------------------------------
(* load_self_to_memory *)

\* A new map is zero; segment_length bytes of the buffer go over its front.
Image(i) ==
    [ c \in 0 .. Cells - 1 |->
        [ origin |-> IF c < segments[i].length THEN segments[i].data ELSE "zero",
          patch  |-> NoPatch ] ]

MapSegment ==
    /\ phase = "mapping"
    /\ cursor <= Len(segments)
    /\ memory' = IF segments[cursor].can_load /\ ~ segments[cursor].relocatable
                 THEN [ i \in Mapped \cup {cursor} |->
                          IF i = cursor THEN Image(i) ELSE memory[i] ]
                 ELSE memory
    /\ cursor' = cursor + 1
    /\ UNCHANGED <<phase, file, segments, position, registered>>

\* Fixed-address executables are not implemented, and the module info must lie
\* in a mapped segment; either failure leaves the segments mapped.  The index
\* of that segment is not tested: behind the last one any address may be read.
MissModuleInfo ==
    /\ phase = "mapping"
    /\ cursor > Len(segments)
    /\ file.type = "exec" \/ file.info \notin Mapped
    /\ Fail
    /\ UNCHANGED <<memory, registered>>

FindModuleInfo ==
    /\ phase = "mapping"
    /\ cursor > Len(segments)
    /\ file.type = "relexec"
    /\ file.info \in Mapped \/ file.info > Len(segments)
    /\ phase' = "relocating"
    /\ cursor' = 1
    /\ UNCHANGED <<file, segments, position, memory, registered>>

\* The read behind the last segment is not of the host's memory.
ReadBehindSegments ==
    /\ phase = "mapping"
    /\ cursor > Len(segments)
    /\ file.type = "relexec"
    /\ file.info > Len(segments)
    /\ phase' = "crashed"
    /\ UNCHANGED <<file, segments, cursor, position, memory, registered>>

-----------------------------------------------------------------------------
(* do_self_relocation_program_data *)

\* Fault: the index is used unchecked.
SymbolUnchecked(r) == r.symbol + 1

\* Segments count from 0 in a relocation; an index out of range gives symbol
\* address 0, and a patch address that is mapped nowhere.
Symbol(r) == IF r.symbol < Len(segments) THEN r.symbol + 1 ELSE 0

\* apply_one_relocation succeeds if it knows the code and the address is mapped.
Applies(code, s, offset) == code = "known" /\ s \in Mapped /\ offset < Cells

\* Places are pairs of a segment and an offset.
Write(places, patch) ==
    [ i \in Mapped |-> [ c \in 0 .. Cells - 1 |->
        IF <<i, c>> \in places THEN [memory[i][c] EXCEPT !.patch = patch]
        ELSE memory[i][c] ] ]

\* Where the second patch goes: dist2, counted in halfwords, is added twice.
Second(r) == r.offset + 2 * r.dist2

AtRelocation == phase = "relocating" /\ cursor <= Len(segments)

\* The loop ends at p_filesz, wherever the decompressor ended.
EntryCount == IF segments[cursor].relocatable THEN Headers[cursor].filesz ELSE 0

\* The entry is one that was in the file.
Readable ==
    /\ segments[cursor].relocatable
    /\ segments[cursor].data = "file"
    /\ position < segments[cursor].length

ApplyRelocation ==
    /\ AtRelocation
    /\ Readable
    /\ LET r     == Headers[cursor].relocations[position + 1]
           s     == r.patched + 1
           value == [by |-> "file", symbol |-> Symbol(r), addend |-> r.addend]
       IN  /\ Applies(r.code, s, r.offset)
           /\ r.code2 # "none" => Applies(r.code2, s, Second(r))
           /\ memory' = Write({<<s, r.offset>>}
                                \cup IF r.code2 = "none" THEN {} ELSE {<<s, Second(r)>>},
                              value)
    /\ position' = position + 1
    /\ UNCHANGED <<phase, file, segments, cursor, registered>>

\* One of its patches does not apply, or it may be anything.
BadRelocation ==
    /\ AtRelocation
    /\ position < EntryCount
    /\ Readable =>
         LET r == Headers[cursor].relocations[position + 1]
             s == r.patched + 1
         IN  \/ ~ Applies(r.code, s, r.offset)
             \/ r.code2 # "none" /\ ~ Applies(r.code2, s, Second(r))

\* Fault: the maps stay when a relocation fails.
RelocationFailsKeepingMaps ==
    BadRelocation /\ Fail /\ UNCHANGED <<memory, registered>>

\* A relocation that does not apply, or a code or format that is unknown, ends
\* the load, and every map is taken down.
RelocationFails ==
    /\ BadRelocation
    /\ Fail
    /\ memory' = << >>
    /\ UNCHANGED registered

\* An entry from where the buffer was never written may patch any cell, or any two.
ApplyGarbage ==
    /\ AtRelocation
    /\ position < EntryCount
    /\ ~ Readable
    /\ \E p, q \in Mapped \X (0 .. Cells - 1) : memory' = Write({p, q}, Garbage)
    /\ position' = position + 1
    /\ UNCHANGED <<phase, file, segments, cursor, registered>>

\* Fault: the place in the last segment is kept for the next.
NextSegmentKeepingPlace ==
    /\ AtRelocation
    /\ position >= EntryCount
    /\ cursor' = cursor + 1
    /\ UNCHANGED <<phase, file, segments, position, memory, registered>>

\* Fault: only a segment with relocations is left behind.
NextSegmentOfRelocations ==
    /\ AtRelocation
    /\ segments[cursor].relocatable
    /\ position = EntryCount
    /\ cursor' = cursor + 1
    /\ position' = 0
    /\ UNCHANGED <<phase, file, segments, memory, registered>>

NextSegment ==
    /\ AtRelocation
    /\ position = EntryCount
    /\ cursor' = cursor + 1
    /\ position' = 0
    /\ UNCHANGED <<phase, file, segments, memory, registered>>

FinishRelocation ==
    /\ phase = "relocating"
    /\ cursor > Len(segments)
    /\ phase' = "importing"
    /\ UNCHANGED <<file, segments, cursor, position, memory, registered>>

-----------------------------------------------------------------------------
(* add_module_imports and add_module_exports, in what they do to the load *)

\* Segments and tables are those of the file: every segment inflates in full.
Whole ==
    /\ file.info \in 1 .. Len(Headers)
    /\ \A i \in 1 .. Len(Headers) :
         Headers[i].type # "other" =>
           Headers[i].compressed /\ Headers[i].inflated = Headers[i].filesz

\* The cells of a stub; what goes over the end of its map is not kept.
Covers(stub) ==
    {stub.segment} \X (stub.offset .. stub.offset + StubLength - 1)

\* patch_function_import_data for the next stub.  Tables that are not the
\* file's may name any address, and any number of them.
PatchStub ==
    /\ phase = "importing"
    /\ ~ registered
    /\ IF Whole
       THEN /\ position < Len(file.stubs)
            /\ LET stub == file.stubs[position + 1]
               IN  /\ stub.segment \in Mapped /\ stub.offset < Cells
                   /\ memory' = Write(Covers(stub), StubCode)
            /\ position' = position + 1
       ELSE /\ \E s \in Mapped, c \in 0 .. Cells - 1 :
                 memory' = Write(Covers([segment |-> s, offset |-> c]), StubCode)
            /\ UNCHANGED position
    /\ UNCHANGED <<phase, file, segments, cursor, registered>>

\* A bad record, or a stub that is not mapped, ends the walk where it is: the
\* module is not registered, and the stubs so far stay patched.
ImportsFail ==
    /\ phase = "importing"
    /\ ~ registered
    /\ Fail
    /\ UNCHANGED <<memory, registered>>

\* Every stub is patched: add_runtime_module.
AddModule ==
    /\ phase = "importing"
    /\ ~ registered
    /\ Whole => position = Len(file.stubs)
    /\ registered' = TRUE
    /\ UNCHANGED <<phase, file, segments, cursor, position, memory>>

\* The module stays registered when its exports are bad.
ExportsFail ==
    /\ phase = "importing"
    /\ registered
    /\ Fail
    /\ UNCHANGED <<memory, registered>>

FinishLoad ==
    /\ phase = "importing"
    /\ registered
    /\ phase' = "loaded"
    /\ UNCHANGED <<file, segments, cursor, position, memory, registered>>

Next ==
    \/ RefuseFile
    \/ ReadHeader
    \/ FinishDecryption
    \/ MapSegment
    \/ MissModuleInfo
    \/ FindModuleInfo
    \/ ReadBehindSegments
    \/ ApplyRelocation
    \/ RelocationFails
    \/ ApplyGarbage
    \/ NextSegment
    \/ FinishRelocation
    \/ PatchStub
    \/ ImportsFail
    \/ AddModule
    \/ ExportsFail
    \/ FinishLoad

\* The loader is straight-line code on the host's only thread: it keeps going.
Spec == Init /\ [][Next]_vars /\ WF_vars(Next)

-----------------------------------------------------------------------------
(* Properties *)

\* A relocation patches a cell, first or second, with the same value either way.
Reaches(r, s, c) ==
    /\ r.patched + 1 = s
    /\ c = r.offset \/ (r.code2 # "none" /\ c = Second(r))

\* The places of a file's relocations, <<header, relocation>>, in file order.
Places ==
    UNION { {h} \X (1 .. Len(Headers[h].relocations)) :
              h \in { i \in 1 .. Len(Headers) : Headers[i].type = "rela" } }

RelocationAt(p) == Headers[p[1]].relocations[p[2]]

NotAfter(p, q) == p[1] < q[1] \/ (p[1] = q[1] /\ p[2] <= q[2])

\* The header a symbol index counts to, from 0, or none.
SymbolHeader(r) == IF r.symbol \in 0 .. Len(Headers) - 1 THEN r.symbol + 1 ELSE 0

\* The last of the file's patches to a cell, or none.
LastPatch(s, c) ==
    LET hits == { p \in Places : Reaches(RelocationAt(p), s, c) }
        last == CHOOSE p \in hits : \A q \in hits : NotAfter(q, p)
    IN  IF hits = {} THEN NoPatch
        ELSE [ by |-> "file", symbol |-> SymbolHeader(RelocationAt(last)),
               addend |-> RelocationAt(last).addend ]

Stubbed(s, c) ==
    \E k \in 1 .. Len(file.stubs) :
      /\ s = file.stubs[k].segment
      /\ c >= file.stubs[k].offset /\ c < file.stubs[k].offset + StubLength

\* A loaded program whose segments all inflated in full is in memory exactly:
\* every loadable segment is mapped, with the file's bytes in front and zeros
\* behind, every cell of a stub that its imports name holds the stub's code
\* (self_loader.cpp:451), also where it was relocated, and every other cell
\* the last relocation that the file has for it.
LoadedImageIsExact ==
    phase = "loaded" /\ Whole =>
        /\ Mapped = { i \in 1 .. Len(Headers) : Headers[i].type = "load" }
        /\ \A i \in Mapped : \A c \in 0 .. Cells - 1 :
             memory[i][c] =
               [ origin |-> IF c < Headers[i].filesz THEN "file" ELSE "zero",
                 patch  |-> IF Stubbed(i, c) THEN StubCode ELSE LastPatch(i, c) ]

\* A load that fails never leaves a half relocated program behind: either
\* nothing is mapped, or no relocation was applied, or the tables of a program
\* relocated in full were bad.
NoHalfRelocatedProgram ==
    phase = "failed" /\ Mapped # {} =>
        \/ \A i \in Mapped : \A c \in 0 .. Cells - 1 : memory[i][c].patch = NoPatch
        \/ cursor > Len(segments)

\* Every file, however bad, is refused or comes as far as its import table,
\* unless the index of its module info is out of range and the host crashes:
\* the loops over headers, segments and relocations end, also where they read
\* a buffer that was never written.  ModuleTables goes on from there.
ReachesTables == <>(phase \in {"importing", "failed", "crashed"})

\* "1 = uncompressed, 2 = compressed" (sce-type.h:95): the bytes of a segment
\* that is not compressed are loaded as they stand in the file.
UncompressedIsLoaded ==
    phase = "loaded" =>
        \A i \in Mapped : ~ Headers[i].compressed =>
            \A c \in 0 .. Headers[i].filesz - 1 : memory[i][c].origin = "file"
=============================================================================
