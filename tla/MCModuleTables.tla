--------------------------- MODULE MCModuleTables ---------------------------
(* Instances of ModuleTables for TLC: tables of up to two records, with    *)
(* every way one can be bad.                                               *)
EXTENDS ModuleTables, TLC

Imports(nids, entries, variables) ==
    [ size |-> LongImport, library_name |-> TRUE,
      func_nid_table |-> nids, func_entry_table |-> entries,
      num_syms_funcs |-> Len(nids), var_tables |-> variables ]

Good == Imports(<<"n1", "n2">>, <<"s1", "s2">>, <<>>)

ImportRecords ==
    { Good,
      Imports(<<"n2">>, <<"s1">>, <<"no relocations">>),
      Imports(<<"n2", "n1">>, <<"s3", Unmapped>>, <<>>),
      Imports(<<"n1">>, <<"s3">>, Unmapped),
      Imports(<<"n1">>, <<"s3">>, <<"no relocations", "relocations">>),
      Imports(<<"n1">>, <<"s3">>, <<"no relocations", Unmapped>>),
      Imports(<<>>, <<>>, <<>>),
      [Good EXCEPT !.size = 36],
      [Good EXCEPT !.size = 0],
      [Good EXCEPT !.library_name = FALSE],
      [Good EXCEPT !.func_nid_table = Unmapped],
      [Good EXCEPT !.func_entry_table = Unmapped] }

Exports(size, funcs, variables) ==
    [ size |-> size, tables |-> TRUE, funcs |-> funcs, vars |-> variables,
      num_syms_tls_vars |-> 0 ]

Main == Exports(32, <<"module_start", "module_stop">>, <<"process_param", "module_info">>)

ExportRecords ==
    { Main,
      Exports(32, <<"module_exit">>, <<>>),
      Exports(32, <<"module_start", "other">>, <<>>),
      Exports(32, <<>>, <<"other">>),
      Exports(28, <<>>, <<>>),
      Exports(0, <<"module_start">>, <<>>),
      [Main EXCEPT !.num_syms_tls_vars = 1],
      [Main EXCEPT !.tables = FALSE],
      [Exports(32, <<>>, <<>>) EXCEPT !.tables = FALSE] }

\* A second record behind the first, or nothing mapped there.
ImportTables ==
    { << >> } \cup { 10 :> r : r \in ImportRecords }
    \cup { (10 :> Good) @@ (62 :> r) : r \in ImportRecords }

ExportTables ==
    { << >> } \cup { 200 :> r : r \in ExportRecords }
    \cup { (200 :> r) @@ (200 + r.size :> q) :
             r \in { e \in ExportRecords : e.size > 0 }, q \in ExportRecords }

Executable(i, import_end, e, export_end) ==
    [ import_top |-> 10, import_end |-> import_end, imports |-> i,
      export_top |-> 200, export_end |-> export_end, exports |-> e ]

\* Every import table before two export tables, every export table behind a
\* good import table; tables that end within a record, or before it.
MCExecutables ==
    { Executable(i, end, e, 232) :
        i \in ImportTables, end \in {10, 50, 62, 114},
        e \in { 200 :> Main, 200 :> [Main EXCEPT !.num_syms_tls_vars = 1] } }
    \cup
    { Executable(10 :> Good, 62, e, end) : e \in ExportTables, end \in {200, 220, 264} }
=============================================================================
