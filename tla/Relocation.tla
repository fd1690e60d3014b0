----------------------------- MODULE Relocation -----------------------------
(***************************************************************************)
(* apply_one_relocation bit for bit: what a relocation of each type makes  *)
(* of the word at its address.  Loader has the order and the failures of a *)
(* file's relocations and takes the words themselves as given.             *)
(*                                                                         *)
(* A uint32_t is two 16-bit halves.  For a Thumb instruction these are its *)
(* two halfwords: the first is the low one, memory being little-endian.    *)
(*                                                                         *)
(* No name here is one of Loader's: LoaderProofs extends both modules.     *)
(***************************************************************************)
EXTENDS Integers

CONSTANTS
    Sites,      \* the mapped addresses that are patched, words apart
    Images,     \* the words that may stand there
    Symbols,    \* values of S
    Addends,    \* values of A
    MaxPatches  \* bound of the model: relocations ever applied

Half == {h \in Nat : h < 65536}
Word == [hi : Half, lo : Half]

ASSUME RelocationAssumption ==
    /\ Sites \subseteq Word /\ Images \subseteq Word
    /\ Symbols \subseteq Word /\ Addends \subseteq Word
    /\ MaxPatches \in Nat

VARIABLES
    words,     \* the word at each site
    last,       \* the last relocation applied
    result,     \* what the last call returned
    patches     \* bound of the model

patch_vars == <<words, last, result, patches>>

Types == {"ABS32", "TARGET1", "PREL31", "THM_CALL", "THM_MOVW_ABS_NC", "THM_MOVT_ABS"}

None == [type |-> "none"]

Relocations == [type : Types, S : Symbols, A : Addends, P : Sites]

WordsOK ==
    /\ words \in [Sites -> Word]
    /\ last \in Relocations \cup {None}
    /\ result \in BOOLEAN
    /\ patches \in Nat

-----------------------------------------------------------------------------
(* uint32_t arithmetic *)

\* Fault: the carry is computed in a wider type and never dropped.
PlusWide(a, b) ==
    LET lo == a.lo + b.lo
    IN  [hi |-> a.hi + b.hi + (lo \div 65536), lo |-> lo % 65536]

\* Sum and difference modulo 2^32.
Plus(a, b) ==
    LET lo == a.lo + b.lo
    IN  [hi |-> (a.hi + b.hi + (lo \div 65536)) % 65536, lo |-> lo % 65536]

Minus(a, b) ==
    LET lo == a.lo - b.lo
    IN  [hi |-> ((a.hi - b.hi) + (lo \div 65536)) % 65536, lo |-> lo % 65536]

\* The field of a half that counts in units and has so many values.
Field(h, unit, values) == (h \div unit) % values

\* The half with a field replaced.
Put(h, unit, values, x) == h + unit * ((x % values) - Field(h, unit, values))

Xor(a, b) == (a + b) % 2

-----------------------------------------------------------------------------
(* apply_one_relocation *)

Target(S, A)          == Plus(S, A)
Displacement(S, A, P) == Plus(Minus(A, P), S)

\* Fault: the two J bits change places.
ThmCallSwapped(w, d) ==
    LET sign == Field(d.hi, 256, 2)
    IN  [ lo |-> Put(Put(w.lo, 1, 1024, Field(d.lo, 4096, 16) + 16 * Field(d.hi, 1, 64)),
                     1024, 2, sign),
          hi |-> Put(Put(Put(w.hi, 1, 2048, Field(d.lo, 2, 2048)),
                         2048, 2, Xor(sign, 1 - Field(d.hi, 128, 2))),
                     8192, 2, Xor(sign, 1 - Field(d.hi, 64, 2))) ]

\* The bit-fields of a BL, each assigned from a shift of the displacement:
\* imm10 and sign above, imm11, j2 and j1 below.
ThmCall(w, d) ==
    LET sign == Field(d.hi, 256, 2)
    IN  [ lo |-> Put(Put(w.lo, 1, 1024, Field(d.lo, 4096, 16) + 16 * Field(d.hi, 1, 64)),
                     1024, 2, sign),
          hi |-> Put(Put(Put(w.hi, 1, 2048, Field(d.lo, 2, 2048)),
                         2048, 2, Xor(sign, 1 - Field(d.hi, 64, 2))),
                     8192, 2, Xor(sign, 1 - Field(d.hi, 128, 2))) ]

\* Fault: opcode & 0x8000FBF0, which clears the register as well.
ThmMovOverMasked(w, t) ==
    [ lo |-> Put(Put(w.lo, 1, 16, Field(t, 4096, 16)), 1024, 2, Field(t, 2048, 2)),
      hi |-> Put(Put(w.hi, 1, 4096, Field(t, 1, 256)), 4096, 8, Field(t, 256, 8)) ]

\* opcode & 0x8F00FBF0 clears imm4, imm1, imm3 and imm8 of a MOVW or MOVT;
\* then the 16 bits are spread over them.
ThmMov(w, t) ==
    [ lo |-> Put(Put(w.lo, 1, 16, Field(t, 4096, 16)), 1024, 2, Field(t, 2048, 2)),
      hi |-> Put(Put(w.hi, 1, 256, Field(t, 1, 256)), 4096, 8, Field(t, 256, 8)) ]

\* displacement & 0x7FFFFFFF.
Low31(d) == [hi |-> d.hi % 32768, lo |-> d.lo]

\* The switch on the type.
Patched(type, w, S, A, P) ==
    CASE type \in {"ABS32", "TARGET1"} -> Target(S, A)
      [] type = "PREL31"          -> Low31(Displacement(S, A, P))
      [] type = "THM_CALL"        -> ThmCall(w, Displacement(S, A, P))
      [] type = "THM_MOVW_ABS_NC" -> ThmMov(w, Target(S, A).lo)
      [] type = "THM_MOVT_ABS"    -> ThmMov(w, Target(S, A).hi)

InitWords ==
    /\ words \in [Sites -> Images]
    /\ last = None
    /\ result = TRUE
    /\ patches = 0

\* One relocation at a mapped address.
Apply(r) ==
    /\ patches < MaxPatches
    /\ words' = [words EXCEPT ![r.P] = Patched(r.type, @, r.S, r.A, r.P)]
    /\ last' = r
    /\ result' = TRUE
    /\ patches' = patches + 1

\* An unknown type, or an address that is not mapped.
Refuse ==
    /\ patches < MaxPatches
    /\ result' = FALSE
    /\ patches' = patches + 1
    /\ UNCHANGED <<words, last>>

NextPatch ==
    \/ \E r \in Relocations : Apply(r)
    \/ Refuse

PatchSpec == InitWords /\ [][NextPatch]_patch_vars

-----------------------------------------------------------------------------
(* What the processor makes of the patched words (ARM Architecture         *)
(* Reference Manual, BL encoding T1 and MOVW T3, MOVT T1)                  *)

\* SignExtend(S:I1:I2:imm10:imm11:'0', 32), where I = NOT(J EOR S).
BranchOffset(w) ==
    LET s     == Field(w.lo, 1024, 2)
        i1    == 1 - Xor(Field(w.hi, 8192, 2), s)
        i2    == 1 - Xor(Field(w.hi, 2048, 2), s)
        imm10 == Field(w.lo, 1, 1024)
        imm11 == Field(w.hi, 1, 2048)
    IN  [ lo |-> 2 * imm11 + 4096 * (imm10 % 16),
          hi |-> (imm10 \div 16) + 64 * i2 + 128 * i1 + 65280 * s ]

\* imm4:i:imm3:imm8.
MovImmediate(w) ==
    4096 * Field(w.lo, 1, 16) + 2048 * Field(w.lo, 1024, 2)
      + 256 * Field(w.hi, 4096, 8) + Field(w.hi, 1, 256)

\* The bits that say which instruction it is and which register it sets.
OpcodeOf(type, w) ==
    IF type = "THM_CALL"
    THEN <<w.lo \div 2048, Field(w.hi, 4096, 2), w.hi \div 16384>>
    ELSE <<w.lo \div 2048, Field(w.lo, 16, 64), w.hi \div 32768, Field(w.hi, 256, 16)>>

\* A displacement a BL can hold: even, and within 16 MiB.
InBranchRange(d) ==
    /\ d.lo % 2 = 0
    /\ d.hi \div 256 \in {0, 255}

-----------------------------------------------------------------------------
(* Properties *)

\* The processor, reading the word last patched, gets the address or the
\* distance that the relocation asked for: a BL that is in range reaches S + A
\* whatever the sign, and a MOVW and MOVT pair loads S + A.
ReachesSymbol ==
    last # None =>
        LET w == words[last.P]
            t == Target(last.S, last.A)
            d == Displacement(last.S, last.A, last.P)
        IN  /\ last.type \in {"ABS32", "TARGET1"} => w = t
            /\ last.type = "PREL31" =>
                 w.lo = d.lo /\ w.hi \in {d.hi, d.hi - 32768} /\ w.hi < 32768
            /\ last.type = "THM_CALL" /\ InBranchRange(d) =>
                 BranchOffset(w) = d /\ Plus(BranchOffset(w), last.P) = t
            /\ last.type = "THM_MOVW_ABS_NC" => MovImmediate(w) = t.lo
            /\ last.type = "THM_MOVT_ABS" => MovImmediate(w) = t.hi

\* Patching a Thumb instruction leaves it the same instruction with the same
\* register, also when an immediate was there before, and touches no other
\* word.
InstructionsSurvive ==
    [][ \A p \in Sites :
          words'[p] # words[p] =>
            /\ p = last'.P
            /\ last'.type \in {"THM_CALL", "THM_MOVW_ABS_NC", "THM_MOVT_ABS"} =>
                 OpcodeOf(last'.type, words'[p]) = OpcodeOf(last'.type, words[p]) ]_patch_vars
=============================================================================
