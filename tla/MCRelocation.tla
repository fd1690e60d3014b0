---------------------------- MODULE MCRelocation ----------------------------
(* An instance of Relocation for TLC.                                      *)
EXTENDS Relocation

W(hi, lo) == [hi |-> hi, lo |-> lo]

\* 0x81000000, where a module is linked, and near the end of the space.
MCSites == { W(33024, 0), W(65535, 65528) }

\* bl, movw r12, and all bits set or clear: 0xF000F800, 0xF2400C00 as halves.
MCImages == { W(63488, 61440), W(3072, 62016), W(65535, 65535), W(0, 0) }

\* Just before, at and behind a site, bit patterns, and the far ends of the
\* space.
MCSymbols ==
    { W(33023, 65534), W(33024, 0), W(33153, 21846), W(32938, 43690),
      W(33279, 65534), W(32768, 0), W(0, 4660), W(21845, 21845), W(65535, 65535) }

MCAddends == { W(0, 0), W(0, 4094), W(65535, 65532) }
=============================================================================
