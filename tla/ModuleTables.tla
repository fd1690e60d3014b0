---------------------------- MODULE ModuleTables ----------------------------
(***************************************************************************)
(* The last part of load_self_to_memory: add_module_imports walks the      *)
(* import table of the module, record by record, patches every imported    *)
(* function's stub and registers the module; add_module_exports then walks *)
(* the export table.  Both tables are guest memory that the file filled,   *)
(* so any record, table or entry may be missing or bad.                    *)
(*                                                                         *)
(* It implements the importing phase of HleDispatch, which knows a table   *)
(* as a list of libraries.                                                 *)
(***************************************************************************)
EXTENDS Integers, Sequences, SequencesExt

CONSTANTS
    Nids,           \* the NIDs a module may import
    Entries,        \* the mapped addresses among its import stubs
    Unmapped,       \* in place of a table or an entry at no mapped address
    Executables     \* the modules: their module info and their tables

\* What the file has where a variable import points.
VariableEntries == {"no relocations", "relocations", Unmapped}

\* An sce_module_imports: its function tables, of as many words as it says it
\* has functions, and its variable tables, <<>> when either of their addresses
\* is 0.
ImportRecord(r) ==
    /\ r.size \in Nat
    /\ r.library_name \in BOOLEAN       \* is its address mapped?
    /\ r.num_syms_funcs \in Nat
    /\ r.func_nid_table = Unmapped
         \/ r.func_nid_table \in [1 .. r.num_syms_funcs -> Nids]
    /\ r.func_entry_table = Unmapped
         \/ r.func_entry_table \in [1 .. r.num_syms_funcs -> Entries \cup {Unmapped}]
    /\ r.var_tables = Unmapped \/ r.var_tables \in Seq(VariableEntries)

\* An sce_module_exports: what kind of NID each of its symbols has.
ExportRecord(r) ==
    /\ r.size \in Nat
    /\ r.tables \in BOOLEAN             \* are both addresses mapped?
    /\ r.funcs \in Seq({"module_start", "module_stop", "module_exit", "other"})
    /\ r.vars \in Seq({"process_param", "module_info", "other"})
    /\ r.num_syms_tls_vars \in Nat

\* The tables by the offset of each record; other offsets are not mapped.
ASSUME ExecutablesAssumption ==
    \A x \in Executables :
        /\ {x.import_top, x.import_end, x.export_top, x.export_end} \subseteq Nat
        /\ \A a \in DOMAIN x.imports : ImportRecord(x.imports[a])
        /\ \A a \in DOMAIN x.exports : ExportRecord(x.exports[a])

VARIABLES
    phase,              \* where the loader is
    modinfo,            \* the executable
    start_addr,         \* import_start_addr, then export_start_addr
    function_imports,   \* of the library being read
    var,                \* variable imports of it that were looked at
    libraries,          \* mod.function_import_libraries
    stubs,              \* the NID patched into each stub
    runtime_module_list,
    state               \* what load_self_to_memory returned

vars == <<phase, modinfo, start_addr, function_imports, var, libraries, stubs,
          runtime_module_list, state>>

NoNid  == "no NID"
Import == [nid : Nids, entry : Entries]

TypeOK ==
    /\ phase \in {"importing", "functions", "variables", "exporting",
                  "returned", "terminated"}
    /\ modinfo \in Executables
    /\ start_addr \in Nat
    /\ function_imports \in Seq(Import)
    /\ var \in Nat
    /\ libraries \in Seq(Seq(Import))
    /\ stubs \in [Entries -> Nids \cup {NoNid}]
    /\ runtime_module_list \in {<<>>, <<libraries>>}
    /\ state \in BOOLEAN

Init ==
    /\ phase = "importing"
    /\ modinfo \in Executables
    /\ start_addr = modinfo.import_top
    /\ function_imports = <<>>
    /\ var = 0
    /\ libraries = <<>>
    /\ stubs = [e \in Entries |-> NoNid]
    /\ runtime_module_list = <<>>
    /\ state = FALSE

\* The loader returns false, or dies of a null pointer.
Return(result) ==
    /\ phase' = "returned"
    /\ state' = result
    /\ UNCHANGED <<modinfo, start_addr, function_imports, var, libraries, stubs>>

Dies ==
    /\ phase' = "terminated"
    /\ UNCHANGED <<modinfo, start_addr, function_imports, var, libraries, stubs,
                   runtime_module_list, state>>

-----------------------------------------------------------------------------
(* add_module_imports *)

\* Fault: a record that runs over the end of the table is left out.
HasWholeImport == start_addr + 52 <= modinfo.import_end

HasImport == start_addr < modinfo.import_end

Record    == modinfo.imports[start_addr]

\* The sizes of the two structs: only the long one is read.
LongImport == 52    \* 0x34

\* A record whose struct and function tables can be read.
Legible(x, a) ==
    /\ a \in DOMAIN x.imports
    /\ x.imports[a].size = LongImport
    /\ x.imports[a].func_nid_table # Unmapped
    /\ x.imports[a].func_entry_table # Unmapped

BadRecord ==
    /\ phase = "importing"
    /\ HasImport
    /\ ~ Legible(modinfo, start_addr)
    /\ Return(FALSE)
    /\ UNCHANGED runtime_module_list

\* A library name that is nowhere is given to std::string.
NamelessLibrary ==
    /\ phase = "importing"
    /\ HasImport
    /\ Legible(modinfo, start_addr)
    /\ ~ Record.library_name
    /\ Dies

ReadRecord ==
    /\ phase = "importing"
    /\ HasImport
    /\ Legible(modinfo, start_addr)
    /\ Record.library_name
    /\ phase' = "functions"
    /\ UNCHANGED <<modinfo, start_addr, function_imports, var, libraries, stubs,
                   runtime_module_list, state>>

NextFunction == Len(function_imports) + 1

\* Fault: both tables are read from where the last library left off.
PatchFunctionLagging ==
    /\ phase = "functions"
    /\ NextFunction <= Record.num_syms_funcs
    /\ LET n     == IF NextFunction = 1 THEN 1 ELSE NextFunction - 1
           entry == Record.func_entry_table[n]
           nid   == Record.func_nid_table[n]
       IN  /\ entry # Unmapped
           /\ stubs' = [stubs EXCEPT ![entry] = nid]
           /\ function_imports' = Append(function_imports, [nid |-> nid, entry |-> entry])
    /\ UNCHANGED <<phase, modinfo, start_addr, var, libraries, runtime_module_list, state>>

\* Fault: NID and address are recorded in each other's place.
PatchFunctionSwapped ==
    /\ phase = "functions"
    /\ NextFunction <= Record.num_syms_funcs
    /\ LET entry == Record.func_entry_table[NextFunction]
           nid   == Record.func_nid_table[NextFunction]
       IN  /\ entry # Unmapped
           /\ stubs' = [stubs EXCEPT ![entry] = nid]
           /\ function_imports' = Append(function_imports, [nid |-> entry, entry |-> nid])
    /\ UNCHANGED <<phase, modinfo, start_addr, var, libraries, runtime_module_list, state>>

\* Fault: a stub that an earlier import patched is left as it is.
PatchFunctionOnce ==
    /\ phase = "functions"
    /\ NextFunction <= Record.num_syms_funcs
    /\ LET entry == Record.func_entry_table[NextFunction]
           nid   == Record.func_nid_table[NextFunction]
       IN  /\ entry # Unmapped
           /\ stubs' = [stubs EXCEPT ![entry] = IF @ = NoNid THEN nid ELSE @]
           /\ function_imports' = Append(function_imports, [nid |-> nid, entry |-> entry])
    /\ UNCHANGED <<phase, modinfo, start_addr, var, libraries, runtime_module_list, state>>

\* patch_function_import_data, and the import recorded.
PatchFunction ==
    /\ phase = "functions"
    /\ NextFunction <= Record.num_syms_funcs
    /\ LET entry == Record.func_entry_table[NextFunction]
           nid   == Record.func_nid_table[NextFunction]
       IN  /\ entry # Unmapped
           /\ stubs' = [stubs EXCEPT ![entry] = nid]
           /\ function_imports' = Append(function_imports, [nid |-> nid, entry |-> entry])
    /\ UNCHANGED <<phase, modinfo, start_addr, var, libraries, runtime_module_list, state>>

BadStub ==
    /\ phase = "functions"
    /\ NextFunction <= Record.num_syms_funcs
    /\ Record.func_entry_table[NextFunction] = Unmapped
    /\ Return(FALSE)
    /\ UNCHANGED runtime_module_list

FinishFunctions ==
    /\ phase = "functions"
    /\ NextFunction > Record.num_syms_funcs
    /\ phase' = "variables"
    /\ UNCHANGED <<modinfo, start_addr, function_imports, var, libraries, stubs,
                   runtime_module_list, state>>

\* Fault: a variable with relocations is passed over.
BadVariableUnmapped ==
    /\ phase = "variables"
    /\ Record.var_tables # Unmapped =>
          /\ var < Len(Record.var_tables)
          /\ Record.var_tables[var + 1] = Unmapped
    /\ Return(FALSE)
    /\ UNCHANGED runtime_module_list

\* A variable import that is to be relocated is not implemented.
BadVariable ==
    /\ phase = "variables"
    /\ Record.var_tables # Unmapped =>
          /\ var < Len(Record.var_tables)
          /\ Record.var_tables[var + 1] # "no relocations"
    /\ Return(FALSE)
    /\ UNCHANGED runtime_module_list

ReadVariable ==
    /\ phase = "variables"
    /\ Record.var_tables # Unmapped
    /\ var < Len(Record.var_tables)
    /\ Record.var_tables[var + 1] = "no relocations"
    /\ var' = var + 1
    /\ UNCHANGED <<phase, modinfo, start_addr, function_imports, libraries, stubs,
                   runtime_module_list, state>>

\* The library is listed and the next record follows.
FinishRecord ==
    /\ phase = "variables"
    /\ Record.var_tables # Unmapped
    /\ var = Len(Record.var_tables)
    /\ libraries' = Append(libraries, function_imports)
    /\ function_imports' = <<>>
    /\ var' = 0
    /\ start_addr' = start_addr + Record.size
    /\ phase' = "importing"
    /\ UNCHANGED <<modinfo, stubs, runtime_module_list, state>>

\* hle::add_runtime_module; add_module_exports begins.
AddRuntimeModule ==
    /\ phase = "importing"
    /\ ~ HasImport
    /\ runtime_module_list' = Append(runtime_module_list, libraries)
    /\ start_addr' = modinfo.export_top
    /\ phase' = "exporting"
    /\ UNCHANGED <<modinfo, function_imports, var, libraries, stubs, state>>

-----------------------------------------------------------------------------
(* add_module_exports *)

HasExport == start_addr < modinfo.export_end

\* Neither the record nor its tables are tested: the record's own fields, or
\* the first NID of it, are read through a null pointer.
Faults(x, a) ==
    a \in DOMAIN x.exports =>
        LET r == x.exports[a]
        IN  ~ r.tables /\ Len(r.funcs) + Len(r.vars) + r.num_syms_tls_vars > 0

\* Symbols the loader does not know, and any TLS variable, are refused.
Known(r) ==
    /\ ~ Contains(r.funcs, "other")
    /\ ~ Contains(r.vars, "other")
    /\ r.num_syms_tls_vars = 0

UnmappedExport ==
    /\ phase = "exporting"
    /\ HasExport
    /\ Faults(modinfo, start_addr)
    /\ Dies

BadExport ==
    /\ phase = "exporting"
    /\ HasExport
    /\ ~ Faults(modinfo, start_addr)
    /\ ~ Known(modinfo.exports[start_addr])
    /\ Return(FALSE)
    /\ UNCHANGED runtime_module_list

\* A record of size 0 is read again.
ReadExport ==
    /\ phase = "exporting"
    /\ HasExport
    /\ ~ Faults(modinfo, start_addr)
    /\ Known(modinfo.exports[start_addr])
    /\ start_addr' = start_addr + modinfo.exports[start_addr].size
    /\ UNCHANGED <<phase, modinfo, function_imports, var, libraries, stubs,
                   runtime_module_list, state>>

FinishExports ==
    /\ phase = "exporting"
    /\ ~ HasExport
    /\ Return(TRUE)
    /\ UNCHANGED runtime_module_list

Next ==
    \/ BadRecord
    \/ NamelessLibrary
    \/ ReadRecord
    \/ PatchFunction
    \/ BadStub
    \/ FinishFunctions
    \/ BadVariable
    \/ ReadVariable
    \/ FinishRecord
    \/ AddRuntimeModule
    \/ UnmappedExport
    \/ BadExport
    \/ ReadExport
    \/ FinishExports

\* The loader is straight-line code on the host's only thread: it keeps going.
Spec == Init /\ [][Next]_vars /\ WF_vars(Next)

-----------------------------------------------------------------------------
(* Properties *)

\* The offsets at which a walk of the import table finds records.
ImportCount(x) ==
    IF x.import_top >= x.import_end THEN 0
    ELSE (x.import_end - x.import_top + LongImport - 1) \div LongImport

ImportOffset(x, i) == x.import_top + (i - 1) * LongImport
ImportOffsets(x)   == { ImportOffset(x, i) : i \in 1 .. ImportCount(x) }

\* The table as HleDispatch knows it; a record that cannot be read has no
\* imports.
LibraryAt(x, a) ==
    IF ~ Legible(x, a) THEN <<>>
    ELSE [ i \in 1 .. x.imports[a].num_syms_funcs |->
             [ nid   |-> x.imports[a].func_nid_table[i],
               entry |-> x.imports[a].func_entry_table[i] ] ]

ProgramOf(x) == [i \in 1 .. ImportCount(x) |-> LibraryAt(x, ImportOffset(x, i))]

\* A module that is listed becomes visible when the load returns.
Dispatch == INSTANCE HleDispatch WITH
    Programs <- { ProgramOf(x) : x \in Executables },
    HleModules <- <<>>,
    phase <- IF phase = "returned" THEN "loaded" ELSE "importing",
    loaded <- state,
    program <- ProgramOf(modinfo),
    runtime_module_list <- IF phase = "returned" THEN runtime_module_list ELSE <<>>,
    module_list <- <<>>,
    nid_to_address_map <- << >>,
    called <- [entry |-> NoNid, function |-> <<0, 0>>]

\* Walking the raw tables is what HleDispatch takes it for: every import of
\* every library is patched and recorded in table order, and a module is
\* listed with all of its libraries or, when a record is bad, not at all.
ImplementsDispatch == Dispatch!Spec

GoodExport(x, a) == ~ Faults(x, a) /\ Known(x.exports[a])

\* The offsets that lie one record behind another, and the first.
ExportOffsets(x) ==
    {x.export_top} \cup { a + x.exports[a].size : a \in DOMAIN x.exports }

\* A walk of the export table that begins in the set stays in it.
HoldsWalk(x, offsets) ==
    /\ x.export_top \in offsets
    /\ \A a \in offsets :
         a < x.export_end /\ GoodExport(x, a) => a + x.exports[a].size \in offsets

\* The export records a walk visits, until one is refused or has no size.
Visited(x) ==
    { a \in ExportOffsets(x) :
        /\ a < x.export_end
        /\ \A offsets \in SUBSET ExportOffsets(x) :
             HoldsWalk(x, offsets) => a \in offsets }

GoodImport(x, a) ==
    /\ Legible(x, a)
    /\ x.imports[a].library_name
    /\ \A i \in 1 .. x.imports[a].num_syms_funcs :
         x.imports[a].func_entry_table[i] # Unmapped
    /\ x.imports[a].var_tables # Unmapped
    /\ \A i \in 1 .. Len(x.imports[a].var_tables) :
         x.imports[a].var_tables[i] = "no relocations"

\* The load succeeds exactly when every record of both tables is good; for any
\* other table it answers false or, over a null pointer, the host dies.
AcceptsGoodTables ==
    phase \in {"returned", "terminated"} =>
        ( state <=> /\ \A a \in ImportOffsets(modinfo) : GoodImport(modinfo, a)
                    /\ \A a \in Visited(modinfo) : GoodExport(modinfo, a) )

\* A load ends, whatever the tables hold, unless an export record that is
\* visited has size 0.
LoadEnds ==
    (\A a \in Visited(modinfo) : GoodExport(modinfo, a) => modinfo.exports[a].size > 0)
        ~> phase \in {"returned", "terminated"}

\* The functions that the import table names, <<record, function>>, in the order
\* in which they are patched.
ImportPlaces(x) ==
    UNION { {i} \X (1 .. x.imports[ImportOffset(x, i)].num_syms_funcs) :
              i \in { n \in 1 .. ImportCount(x) : Legible(x, ImportOffset(x, n)) } }

EntryAt(p) == modinfo.imports[ImportOffset(modinfo, p[1])].func_entry_table[p[2]]
NidAt(p)   == modinfo.imports[ImportOffset(modinfo, p[1])].func_nid_table[p[2]]

NotAfter(p, q) == p[1] < q[1] \/ (p[1] = q[1] /\ p[2] <= q[2])

\* A stub holds the NID of the last of these functions that names it, or none.
HoldsLastNid(entry, places) ==
    LET naming == { p \in places : EntryAt(p) = entry }
    IN  IF naming = {} THEN stubs[entry] = NoNid
        ELSE \E p \in naming :
               /\ stubs[entry] = NidAt(p)
               /\ \A q \in naming : NotAfter(q, p)

\* A module is listed once its imports are good, and stays listed when its
\* exports are then refused; a module whose imports are bad is never listed,
\* though some of its stubs are patched.  When it is listed, every stub that
\* the import table names holds the NID of the last import that names it, and
\* no other stub is patched (self_loader.cpp:442-456, 494).
ListedWhenImported ==
    /\ runtime_module_list # <<>> <=>
         \/ phase = "exporting"
         \/ /\ phase \in {"returned", "terminated"}
            /\ \A a \in ImportOffsets(modinfo) : GoodImport(modinfo, a)
    /\ runtime_module_list # <<>> =>
         \A entry \in Entries : HoldsLastNid(entry, ImportPlaces(modinfo))
=============================================================================
