------------------------------ MODULE MCLoader ------------------------------
(* Instances of Loader for TLC: a text and a data segment, their           *)
(* relocations and import stubs, with every way a header, a relocation or  *)
(* the place of the module info can be bad.                                *)
EXTENDS Loader

Load(compressed, filesz) ==
    [ type |-> "load", compressed |-> compressed, encrypted |-> FALSE, intact |-> TRUE,
      filesz |-> filesz, inflated |-> filesz, relocations |-> <<>> ]

\* A segment with room for so many entries that holds those relocations.
Rela(compressed, room, relocations) ==
    [ type |-> "rela", compressed |-> compressed, encrypted |-> FALSE, intact |-> TRUE,
      filesz |-> room, inflated |-> Len(relocations), relocations |-> relocations ]

Short   == [Load(TRUE, 2) EXCEPT !.inflated = 1]
Comment == [Load(TRUE, 1) EXCEPT !.type = "other"]

Relocations ==
    [ symbol : {0, 7}, patched : {0, 1}, offset : {0, 2}, addend : {1},
      code : {"known"}, code2 : {"none", "known"}, dist2 : {1} ]

Plain ==
    [ symbol |-> 1, patched |-> 0, offset |-> 1, addend |-> 1,
      code |-> "known", code2 |-> "none", dist2 |-> 0 ]

UnknownCode2 == [Plain EXCEPT !.code2 = "unknown"]

LoadableHeaders ==
    { Load(TRUE, 1), Load(TRUE, 2), Load(FALSE, 1), Short, Comment,
      [Load(TRUE, 1) EXCEPT !.encrypted = TRUE],
      [Load(TRUE, 1) EXCEPT !.intact = FALSE] }

\* Good relocations in one or two segments, and ones that fail half-way, the
\* last ones in entries that the decompressor never wrote.
RelocationHeaders ==
    { << Rela(TRUE, 2, <<r, [q EXCEPT !.addend = 2]>>) >> : r, q \in Relocations }
    \cup { << Rela(TRUE, 1, <<r>>), Rela(TRUE, 1, <<[r EXCEPT !.offset = 1, !.dist2 = 0]>>) >> :
             r \in Relocations }
    \cup { << Rela(TRUE, 1, <<r>>), Rela(TRUE, 1, <<UnknownCode2>>) >> : r \in Relocations }
    \cup { << Rela(FALSE, 2, <<>>) >>, << Rela(TRUE, 2, <<Plain>>) >> }

\* No stub, two that overlap, and one that is not mapped.
Stubs ==
    LET At(s, c) == [segment |-> s, offset |-> c]
    IN  { <<>>, <<At(1, 0), At(1, 1)>>, <<At(2, 2), At(1, 3)>> }

MCFiles ==
    { [ type |-> "relexec", headers |-> <<Load(TRUE, 2), Load(TRUE, 1)>> \o r, info |-> 1,
        stubs |-> t ] : r \in RelocationHeaders, t \in Stubs }
    \cup
    { [ type |-> "relexec", headers |-> <<g, h>>, info |-> i, stubs |-> <<>> ] :
        g, h \in LoadableHeaders, i \in 1 .. 3 }
    \cup
    { [ type |-> t, headers |-> <<Load(TRUE, 1)>>, info |-> 1, stubs |-> <<>> ] :
        t \in {"exec", "other"} }
=============================================================================
