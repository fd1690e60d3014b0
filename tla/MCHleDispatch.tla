--------------------------- MODULE MCHleDispatch ---------------------------
(* Instances of HleDispatch for TLC.                                       *)
EXTENDS HleDispatch

MCNids    == {"alloc", "tls", "display", "unknown"}
MCEntries == {"s1", "s2", "s3"}

\* One function of each of the three HLE modules; none exports "unknown".
MCHleModules == << <<"alloc">>, <<"tls">>, <<"display">> >>

MCImport == [nid : MCNids, entry : MCEntries]

\* Two libraries: one with one import, the other with none, one or two; any
\* NIDs and stubs, the same stub twice included.
MCPrograms ==
    { <<>> } \cup
    { << <<i>>, rest >> :
        i \in MCImport,
        rest \in { <<>> } \cup { <<j>> : j \in MCImport }
                 \cup { <<j, k>> : j, k \in MCImport } }
=============================================================================
