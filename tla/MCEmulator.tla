----------------------------- MODULE MCEmulator -----------------------------
(* An instance of Emulator for TLC: executables with up to two imports.    *)
EXTENDS Emulator

MCNids    == {"alloc", "thread", "tls", "display", "unknown"}
MCEntries == {"s1", "s2"}

\* Functions of the three HLE modules in the order they are registered; none
\* exports "unknown".
MCHleModules == << <<"alloc">>, <<"thread", "tls">>, <<"display">> >>

MCImport == [nid : MCNids, entry : MCEntries]

\* No library; one import; two in two libraries, the same stub twice included.
MCPrograms ==
    { <<>> } \cup { << <<i>> >> : i \in MCImport }
    \cup { << <<i>>, <<j>> >> : i, j \in MCImport }

MCInitialMaps ==
    << [kind |-> "segment", start |-> 4, end |-> 4, protection |-> {"r", "x"}],
       [kind |-> "heap", start |-> 6, end |-> 6, protection |-> {"r", "w", "x"}] >>

MCStackSizes == {1}
MCHeapSizes  == {0}
=============================================================================
