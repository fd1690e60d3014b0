------------------------------ MODULE MCKernel ------------------------------
(* An instance of Kernel for TLC: the maps main has made before it creates *)
(* the first thread, and room for a few blocks above and below them.       *)
EXTENDS Kernel

MCInitialMaps ==
    << [kind |-> "segment", start |-> 4, end |-> 4, protection |-> {"r", "x"}],
       [kind |-> "heap", start |-> 6, end |-> 6, protection |-> Access] >>

MCStackSizes == {1}
MCHeapSizes  == {0}
=============================================================================
