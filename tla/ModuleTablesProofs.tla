------------------------- MODULE ModuleTablesProofs -------------------------
(***************************************************************************)
(* The walk over the import and export tables of a module, for every       *)
(* executable: what it accepts, when a module is listed, what its stubs    *)
(* hold then, and that it does what the importing phase of HleDispatch     *)
(* promises.                                                               *)
(***************************************************************************)
EXTENDS ModuleTables, SequenceTheorems, TLAPS

-----------------------------------------------------------------------------
(* Types *)

\* The tables of a record that is read hold NIDs and entries.
LEMMA RecordFacts ==
    ASSUME TypeOK, Legible(modinfo, start_addr)
    PROVE  /\ Record.num_syms_funcs \in Nat
           /\ \A n \in 1 .. Record.num_syms_funcs :
                /\ Record.func_nid_table[n] \in Nids
                /\ Record.func_entry_table[n] \in Entries \cup {Unmapped}
           /\ Record.var_tables # Unmapped => Len(Record.var_tables) \in Nat
           /\ Record.size = LongImport
<1>1. modinfo \in Executables /\ start_addr \in DOMAIN modinfo.imports
  BY DEF TypeOK, Legible
<1>2. ImportRecord(Record)
  BY <1>1, ExecutablesAssumption DEF Record
<1>3. /\ Record.size = LongImport
      /\ Record.func_nid_table # Unmapped /\ Record.func_entry_table # Unmapped
  BY DEF Legible, Record
<1> HIDE DEF Record
<1>4. Record.var_tables # Unmapped => Len(Record.var_tables) \in Nat
  BY <1>2, LenProperties DEF ImportRecord
<1> QED
  BY <1>2, <1>3, <1>4 DEF ImportRecord

\* The size of an export record that is read is a number.
LEMMA ExportFacts ==
    ASSUME modinfo \in Executables, NEW a, ~ Faults(modinfo, a)
    PROVE  a \in DOMAIN modinfo.exports /\ modinfo.exports[a].size \in Nat
<1>1. a \in DOMAIN modinfo.exports
  BY DEF Faults
<1>2. ExportRecord(modinfo.exports[a])
  BY <1>1, ExecutablesAssumption
<1> QED
  BY <1>1, <1>2 DEF ExportRecord

-----------------------------------------------------------------------------
(* The invariant *)

\* The first n records of the import table are good.
GoodImports(n) == \A i \in 1 .. n : GoodImport(modinfo, ImportOffset(modinfo, i))

\* While the import table is walked, a library is recorded for every record
\* behind, all of them good, and nothing is listed.
WalkingImports ==
    /\ Len(libraries) <= ImportCount(modinfo)
    /\ start_addr = ImportOffset(modinfo, Len(libraries) + 1)
    /\ GoodImports(Len(libraries))
    /\ runtime_module_list = <<>>

\* While a record is read, it is one of the table, and good as far as it was
\* read.
ReadingRecord ==
    /\ Len(libraries) < ImportCount(modinfo)
    /\ Legible(modinfo, start_addr)
    /\ Record.library_name
    /\ Len(function_imports) <= Record.num_syms_funcs
    /\ \A i \in 1 .. Len(function_imports) : Record.func_entry_table[i] # Unmapped

\* All of its functions were read, and its variables so far need nothing.
ReadingVariables ==
    /\ Len(function_imports) = Record.num_syms_funcs
    /\ Record.var_tables # Unmapped =>
         /\ var <= Len(Record.var_tables)
         /\ \A i \in 1 .. var : Record.var_tables[i] = "no relocations"

\* The whole import table is good, and the module is listed with it.
Listed ==
    /\ Len(libraries) = ImportCount(modinfo)
    /\ GoodImports(ImportCount(modinfo))
    /\ runtime_module_list = <<libraries>>

\* A record of the import table is bad, and nothing is listed.
Refused ==
    /\ ~ GoodImports(ImportCount(modinfo))
    /\ runtime_module_list = <<>>
    /\ state = FALSE

\* Offsets that hold the walk of the export table as far as it has gone: the
\* record at each of them but the last is good.
WalkSoFar(offsets) ==
    /\ modinfo.export_top \in offsets
    /\ start_addr \in offsets
    /\ \A a \in offsets \ {start_addr} :
         GoodExport(modinfo, a) /\ a + modinfo.exports[a].size \in offsets

\* The walk of the export table is where every such walk comes to.
WalkingExports ==
    /\ \E offsets \in SUBSET ExportOffsets(modinfo) : WalkSoFar(offsets)
    /\ \A offsets \in SUBSET ExportOffsets(modinfo) :
         HoldsWalk(modinfo, offsets) => start_addr \in offsets

TablesInv ==
    /\ phase \in {"importing", "functions", "variables"} => WalkingImports
    /\ phase = "importing" => function_imports = <<>>
    /\ phase \in {"importing", "functions"} => var = 0
    /\ phase \in {"functions", "variables"} => ReadingRecord
    /\ phase = "variables" => ReadingVariables
    /\ phase = "exporting" => Listed /\ WalkingExports
    /\ phase \in {"returned", "terminated"} => Listed \/ Refused
    /\ phase # "returned" => state = FALSE
    /\ phase \in {"returned", "terminated"} /\ Listed =>
         (state <=> \A a \in Visited(modinfo) : GoodExport(modinfo, a))

-----------------------------------------------------------------------------
(* Where the tables end *)

\* The walk has a record before it exactly when it has not read them all.
LEMMA ImportCountProperties ==
    ASSUME modinfo \in Executables
    PROVE  /\ ImportCount(modinfo) \in Nat
           /\ \A n \in Nat :
                /\ ImportOffset(modinfo, n + 1) \in Nat
                /\ ImportOffset(modinfo, n + 1) + LongImport
                     = ImportOffset(modinfo, n + 2)
                /\ ImportOffset(modinfo, n + 1) < modinfo.import_end
                     <=> n < ImportCount(modinfo)
<1> DEFINE t == modinfo.import_top
           e == modinfo.import_end
           c == ImportCount(modinfo)
<1>1. t \in Nat /\ e \in Nat
  BY ExecutablesAssumption
<1>2. c = IF t >= e THEN 0 ELSE (e - t + 51) \div 52
  BY DEF ImportCount, LongImport
<1>3. \A n \in Nat : ImportOffset(modinfo, n + 1) = t + n * 52
  BY <1>1 DEF ImportOffset, LongImport
<1>4. ImportOffset(modinfo, 1) = t /\ \A n \in Nat : ImportOffset(modinfo, n + 2) = t + n * 52 + 52
  BY <1>1 DEF ImportOffset, LongImport
<1> HIDE DEF t, e, c
<1>5. c \in Nat /\ \A n \in Nat : t + n * 52 < e <=> n < c
  BY <1>1, <1>2
<1>6. ASSUME NEW n \in Nat
      PROVE  /\ ImportOffset(modinfo, n + 1) \in Nat
             /\ ImportOffset(modinfo, n + 1) + LongImport = ImportOffset(modinfo, n + 2)
             /\ ImportOffset(modinfo, n + 1) < e <=> n < c
  BY <1>1, <1>3, <1>4, <1>5 DEF LongImport
<1> QED
  BY <1>5, <1>6 DEF c, e

\* A load starts at the first import record with nothing recorded.
LEMMA TablesInit == Init => TypeOK /\ TablesInv
<1> SUFFICES ASSUME Init
             PROVE  TypeOK /\ TablesInv
  OBVIOUS
<1>1. TypeOK
  <2>1. start_addr \in Nat
    BY ExecutablesAssumption DEF Init
  <2>2. function_imports \in Seq(Import) /\ libraries \in Seq(Seq(Import))
    BY EmptySeq DEF Init
  <2> QED
    BY <2>1, <2>2 DEF Init, TypeOK
<1>2. WalkingImports
  <2>1. Len(libraries) = 0 /\ ImportCount(modinfo) \in Nat
    BY ImportCountProperties DEF Init
  <2>2. start_addr = ImportOffset(modinfo, 1)
    BY ExecutablesAssumption DEF Init, ImportOffset, LongImport
  <2> QED
    BY <2>1, <2>2 DEF Init, WalkingImports, GoodImports
<1> QED
  BY <1>1, <1>2 DEF Init, TablesInv

-----------------------------------------------------------------------------
(* The steps *)

\* A load that is refused while a record is before it.
LEMMA RefusedStep ==
    ASSUME TypeOK, TablesInv, phase \in {"importing", "functions", "variables"},
           Len(libraries) < ImportCount(modinfo), ~ GoodImport(modinfo, start_addr),
           Return(FALSE), UNCHANGED runtime_module_list
    PROVE  TypeOK' /\ TablesInv'
<1>1. /\ phase' = "returned" /\ state' = FALSE
      /\ UNCHANGED <<modinfo, start_addr, function_imports, var, libraries, stubs,
                     runtime_module_list>>
  BY DEF Return
<1>2. TypeOK'
  BY <1>1 DEF TypeOK
<1>3. WalkingImports
  BY DEF TablesInv
<1>4. Len(libraries) \in Nat /\ ImportCount(modinfo) \in Nat
  BY LenProperties, ImportCountProperties DEF TypeOK
<1>5. ~ GoodImports(ImportCount(modinfo))
  <2>1. Len(libraries) + 1 \in 1 .. ImportCount(modinfo)
    BY <1>4
  <2> QED
    BY <1>3, <2>1 DEF WalkingImports, GoodImports
<1>6. Refused' /\ ~ Listed'
  BY <1>1, <1>3, <1>5 DEF Refused, Listed, WalkingImports, GoodImports
<1> QED
  BY <1>1, <1>2, <1>6 DEF TablesInv

\* A load that dies with nothing listed yet.
LEMMA NamelessLibraryStep ==
    ASSUME TypeOK, TablesInv, NamelessLibrary
    PROVE  TypeOK' /\ TablesInv'
<1>1. /\ phase = "importing" /\ HasImport /\ ~ Record.library_name
      /\ phase' = "terminated"
      /\ UNCHANGED <<modinfo, start_addr, function_imports, var, libraries, stubs,
                     runtime_module_list, state>>
  BY DEF NamelessLibrary, Dies
<1>2. TypeOK'
  BY <1>1 DEF TypeOK
<1>3. WalkingImports /\ state = FALSE
  BY <1>1 DEF TablesInv
<1>4. /\ Len(libraries) \in Nat /\ ImportCount(modinfo) \in Nat
      /\ Len(libraries) < ImportCount(modinfo)
  BY <1>1, <1>3, LenProperties, ImportCountProperties
  DEF TypeOK, WalkingImports, HasImport
<1>5. ~ GoodImports(ImportCount(modinfo))
  <2>1. Len(libraries) + 1 \in 1 .. ImportCount(modinfo)
    BY <1>4
  <2>2. ~ GoodImport(modinfo, start_addr)
    BY <1>1 DEF GoodImport, Record
  <2> QED
    BY <1>3, <2>1, <2>2 DEF WalkingImports, GoodImports
<1>6. Refused' /\ ~ Listed'
  BY <1>1, <1>3, <1>5 DEF Refused, Listed, WalkingImports, GoodImports
<1> QED
  BY <1>1, <1>2, <1>3, <1>6 DEF TablesInv

\* A record that cannot be read is bad.
LEMMA BadRecordStep ==
    ASSUME TypeOK, TablesInv, BadRecord
    PROVE  TypeOK' /\ TablesInv'
<1>1. /\ phase = "importing" /\ HasImport /\ ~ Legible(modinfo, start_addr)
      /\ Return(FALSE) /\ UNCHANGED runtime_module_list
  BY DEF BadRecord
<1>2. Len(libraries) < ImportCount(modinfo)
  BY <1>1, LenProperties, ImportCountProperties
  DEF TypeOK, TablesInv, WalkingImports, HasImport
<1> QED
  BY <1>1, <1>2, RefusedStep DEF GoodImport

\* A record that can be read is begun.
LEMMA ReadRecordStep ==
    ASSUME TypeOK, TablesInv, ReadRecord
    PROVE  TypeOK' /\ TablesInv'
<1>1. /\ phase = "importing" /\ HasImport /\ Legible(modinfo, start_addr)
      /\ Record.library_name /\ phase' = "functions"
      /\ UNCHANGED <<modinfo, start_addr, function_imports, var, libraries, stubs,
                     runtime_module_list, state>>
  BY DEF ReadRecord
<1>2. TypeOK'
  BY <1>1 DEF TypeOK
<1>3. WalkingImports /\ function_imports = <<>> /\ var = 0 /\ state = FALSE
  BY <1>1 DEF TablesInv
<1>4. Len(libraries) < ImportCount(modinfo)
  BY <1>1, <1>3, LenProperties, ImportCountProperties
  DEF TypeOK, WalkingImports, HasImport
<1>5. WalkingImports'
  BY <1>1, <1>3 DEF WalkingImports, GoodImports
<1>6. ReadingRecord'
  <2>1. Len(function_imports) = 0 /\ Record.num_syms_funcs \in Nat
    BY <1>1, <1>3, RecordFacts
  <2>2. Record' = Record
    BY <1>1 DEF Record
  <2> QED
    BY <1>1, <1>4, <2>1, <2>2 DEF ReadingRecord
<1> QED
  BY <1>1, <1>2, <1>3, <1>5, <1>6 DEF TablesInv

\* The next function of the record.
LEMMA PatchFunctionStep ==
    ASSUME TypeOK, TablesInv, PatchFunction
    PROVE  TypeOK' /\ TablesInv'
<1> DEFINE n      == NextFunction
           entry  == Record.func_entry_table[n]
           nid    == Record.func_nid_table[n]
           import == [nid |-> nid, entry |-> entry]
<1>1. /\ phase = "functions" /\ n <= Record.num_syms_funcs /\ entry # Unmapped
      /\ stubs' = [stubs EXCEPT ![entry] = nid]
      /\ function_imports' = Append(function_imports, import)
      /\ UNCHANGED <<phase, modinfo, start_addr, var, libraries,
                     runtime_module_list, state>>
  BY DEF PatchFunction
<1>2. WalkingImports /\ ReadingRecord /\ var = 0 /\ state = FALSE
  BY <1>1 DEF TablesInv
<1>3. n = Len(function_imports) + 1 /\ Len(function_imports) \in Nat
  BY LenProperties DEF NextFunction, TypeOK
<1>4. n \in 1 .. Record.num_syms_funcs /\ nid \in Nids /\ entry \in Entries
  BY <1>1, <1>2, <1>3, RecordFacts DEF ReadingRecord
<1>5. /\ function_imports' \in Seq(Import)
      /\ Len(function_imports') = n
  <2>1. import \in Import
    BY <1>4 DEF Import
  <2> HIDE DEF import, n
  <2> QED
    BY <1>1, <1>3, <2>1, AppendProperties DEF TypeOK
<1> HIDE DEF n, entry, nid, import
<1>6. TypeOK'
  BY <1>1, <1>4, <1>5 DEF TypeOK
<1>7. WalkingImports'
  BY <1>1, <1>2 DEF WalkingImports, GoodImports
<1>8. ReadingRecord'
  <2>1. Record' = Record
    BY <1>1 DEF Record
  <2>2. \A i \in 1 .. n : Record.func_entry_table[i] # Unmapped
    <3>1. \A i \in 1 .. n : i \in 1 .. Len(function_imports) \/ i = n
      BY <1>3
    <3> QED
      BY <1>1, <1>2, <3>1 DEF ReadingRecord, entry
  <2> QED
    BY <1>1, <1>2, <1>5, <2>1, <2>2 DEF ReadingRecord
<1> QED
  BY <1>1, <1>2, <1>6, <1>7, <1>8 DEF TablesInv

\* A stub that is nowhere makes the record bad.
LEMMA BadStubStep ==
    ASSUME TypeOK, TablesInv, BadStub
    PROVE  TypeOK' /\ TablesInv'
<1>1. /\ phase = "functions" /\ NextFunction <= Record.num_syms_funcs
      /\ Record.func_entry_table[NextFunction] = Unmapped
      /\ Return(FALSE) /\ UNCHANGED runtime_module_list
  BY DEF BadStub
<1>2. ReadingRecord
  BY <1>1 DEF TablesInv
<1>3. NextFunction \in 1 .. Record.num_syms_funcs
  BY <1>1, <1>2, RecordFacts, LenProperties DEF ReadingRecord, NextFunction, TypeOK
<1>4. ~ GoodImport(modinfo, start_addr)
  BY <1>1, <1>3 DEF GoodImport, Record
<1> QED
  BY <1>1, <1>2, <1>4, RefusedStep DEF ReadingRecord

\* All functions of the record were patched.
LEMMA FinishFunctionsStep ==
    ASSUME TypeOK, TablesInv, FinishFunctions
    PROVE  TypeOK' /\ TablesInv'
<1>1. /\ phase = "functions" /\ NextFunction > Record.num_syms_funcs
      /\ phase' = "variables"
      /\ UNCHANGED <<modinfo, start_addr, function_imports, var, libraries, stubs,
                     runtime_module_list, state>>
  BY DEF FinishFunctions
<1>2. WalkingImports /\ ReadingRecord /\ var = 0 /\ state = FALSE
  BY <1>1 DEF TablesInv
<1>3. TypeOK'
  BY <1>1 DEF TypeOK
<1>4. Record' = Record
  BY <1>1 DEF Record
<1>5. WalkingImports' /\ ReadingRecord'
  BY <1>1, <1>2, <1>4 DEF WalkingImports, GoodImports, ReadingRecord
<1>6. ReadingVariables'
  <2>1. Len(function_imports) = Record.num_syms_funcs
    BY <1>1, <1>2, RecordFacts, LenProperties
    DEF ReadingRecord, NextFunction, TypeOK
  <2> QED
    BY <1>1, <1>2, <1>4, <2>1, RecordFacts DEF ReadingVariables, ReadingRecord
<1> QED
  BY <1>1, <1>2, <1>3, <1>5, <1>6 DEF TablesInv

\* A variable that is nowhere, or is to be relocated, makes the record bad.
LEMMA BadVariableStep ==
    ASSUME TypeOK, TablesInv, BadVariable
    PROVE  TypeOK' /\ TablesInv'
<1>1. /\ phase = "variables" /\ Return(FALSE) /\ UNCHANGED runtime_module_list
      /\ Record.var_tables # Unmapped =>
           /\ var < Len(Record.var_tables)
           /\ Record.var_tables[var + 1] # "no relocations"
  BY DEF BadVariable
<1>2. ReadingRecord
  BY <1>1 DEF TablesInv
<1>3. ~ GoodImport(modinfo, start_addr)
  <2>1. CASE Record.var_tables = Unmapped
    BY <2>1 DEF GoodImport, Record
  <2>2. CASE Record.var_tables # Unmapped
    <3>1. var \in Nat /\ Len(Record.var_tables) \in Nat
      BY <1>2, <2>2, RecordFacts DEF ReadingRecord, TypeOK
    <3>2. var < Len(Record.var_tables)
      BY <1>1, <2>2
    <3>3. var + 1 \in 1 .. Len(Record.var_tables)
      BY <3>1, <3>2
    <3> QED
      BY <1>1, <2>2, <3>3 DEF GoodImport, Record
  <2> QED
    BY <2>1, <2>2
<1> QED
  BY <1>1, <1>2, <1>3, RefusedStep DEF ReadingRecord

\* The next variable of the record.
LEMMA ReadVariableStep ==
    ASSUME TypeOK, TablesInv, ReadVariable
    PROVE  TypeOK' /\ TablesInv'
<1>1. /\ phase = "variables" /\ Record.var_tables # Unmapped
      /\ var < Len(Record.var_tables)
      /\ Record.var_tables[var + 1] = "no relocations" /\ var' = var + 1
      /\ UNCHANGED <<phase, modinfo, start_addr, function_imports, libraries, stubs,
                     runtime_module_list, state>>
  BY DEF ReadVariable
<1>2. WalkingImports /\ ReadingRecord /\ ReadingVariables /\ state = FALSE
  BY <1>1 DEF TablesInv
<1>3. var' = var + 1 /\ var < Len(Record.var_tables)
  BY <1>1
<1>4. Record' = Record
  BY <1>1 DEF Record
<1>5. WalkingImports' /\ ReadingRecord'
  BY <1>1, <1>2, <1>4 DEF WalkingImports, GoodImports, ReadingRecord
<1>6. ReadingVariables'
  <2>1. var \in Nat /\ Len(Record.var_tables) \in Nat
    BY <1>1, <1>2, RecordFacts DEF ReadingRecord, TypeOK
  <2>2. var' <= Len(Record.var_tables)
    BY <1>3, <2>1
  <2>3. \A i \in 1 .. var + 1 : i \in 1 .. var \/ i = var + 1
    BY <2>1
  <2>4. \A i \in 1 .. var' : Record.var_tables[i] = "no relocations"
    BY <1>1, <1>2, <2>3 DEF ReadingVariables
  <2>5. Len(function_imports') = Record.num_syms_funcs
    BY <1>1, <1>2 DEF ReadingVariables
  <2> QED
    BY <1>4, <2>2, <2>4, <2>5 DEF ReadingVariables
<1>7. TypeOK'
  <2>1. var' \in Nat
    BY <1>3 DEF TypeOK
  <2> QED
    BY <1>1, <2>1 DEF TypeOK
<1> QED
  BY <1>1, <1>2, <1>5, <1>6, <1>7 DEF TablesInv

\* A record all of which was read is good, and the next one follows.
LEMMA FinishRecordStep ==
    ASSUME TypeOK, TablesInv, FinishRecord
    PROVE  TypeOK' /\ TablesInv'
<1>1. /\ phase = "variables" /\ Record.var_tables # Unmapped
      /\ var = Len(Record.var_tables)
      /\ libraries' = Append(libraries, function_imports)
      /\ function_imports' = <<>> /\ var' = 0
      /\ start_addr' = start_addr + Record.size /\ phase' = "importing"
      /\ UNCHANGED <<modinfo, stubs, runtime_module_list, state>>
  BY DEF FinishRecord
<1>2. WalkingImports /\ ReadingRecord /\ ReadingVariables /\ state = FALSE
  BY <1>1 DEF TablesInv
<1>3. Record.size = LongImport /\ Record.num_syms_funcs \in Nat
  BY <1>2, RecordFacts DEF ReadingRecord
<1>4. /\ Len(libraries) \in Nat /\ libraries' \in Seq(Seq(Import))
      /\ Len(libraries') = Len(libraries) + 1
  BY <1>1, LenProperties, AppendProperties DEF TypeOK
<1>5. start_addr' = ImportOffset(modinfo, Len(libraries) + 2) /\ start_addr' \in Nat
  BY <1>1, <1>2, <1>3, <1>4, ImportCountProperties
  DEF TypeOK, WalkingImports, LongImport
<1>6. TypeOK'
  <2>1. function_imports' \in Seq(Import) /\ runtime_module_list' = <<>>
    BY <1>1, <1>2, EmptySeq DEF WalkingImports
  <2> QED
    BY <1>1, <1>4, <1>5, <2>1 DEF TypeOK
<1>7. GoodImport(modinfo, start_addr)
  BY <1>1, <1>2 DEF GoodImport, ReadingRecord, ReadingVariables, Record
<1>8. WalkingImports'
  <2>1. Len(libraries') <= ImportCount(modinfo)
    BY <1>2, <1>4, ImportCountProperties DEF ReadingRecord, TypeOK
  <2>2. \A i \in 1 .. Len(libraries) + 1 :
          i \in 1 .. Len(libraries) \/ i = Len(libraries) + 1
    BY <1>4
  <2>3. \A i \in 1 .. Len(libraries) + 1 : GoodImport(modinfo, ImportOffset(modinfo, i))
    BY <1>2, <1>7, <2>2 DEF WalkingImports, GoodImports
  <2>4. Len(libraries') + 1 = Len(libraries) + 2
    BY <1>4
  <2> QED
    BY <1>1, <1>2, <1>4, <1>5, <2>1, <2>3, <2>4 DEF WalkingImports, GoodImports
<1> QED
  BY <1>1, <1>2, <1>6, <1>8 DEF TablesInv

\* Behind the last record every record was good, and the module is listed.
LEMMA AddRuntimeModuleStep ==
    ASSUME TypeOK, TablesInv, AddRuntimeModule
    PROVE  TypeOK' /\ TablesInv'
<1>1. /\ phase = "importing" /\ ~ HasImport /\ phase' = "exporting"
      /\ runtime_module_list' = Append(runtime_module_list, libraries)
      /\ start_addr' = modinfo.export_top
      /\ UNCHANGED <<modinfo, function_imports, var, libraries, stubs, state>>
  BY DEF AddRuntimeModule
<1>2. WalkingImports /\ state = FALSE
  BY <1>1 DEF TablesInv
<1>3. Len(libraries) = ImportCount(modinfo)
  <2>1. Len(libraries) \in Nat /\ ImportCount(modinfo) \in Nat
    BY LenProperties, ImportCountProperties DEF TypeOK
  <2>2. ~ (Len(libraries) < ImportCount(modinfo))
    BY <1>1, <1>2, <2>1, ImportCountProperties DEF TypeOK, WalkingImports, HasImport
  <2> QED
    BY <1>2, <2>1, <2>2 DEF WalkingImports
<1>4. runtime_module_list' = <<libraries>>
  BY <1>1, <1>2 DEF WalkingImports
<1>5. TypeOK'
  <2>1. start_addr' \in Nat
    BY <1>1, ExecutablesAssumption DEF TypeOK
  <2> QED
    BY <1>1, <1>4, <2>1 DEF TypeOK
<1>6. Listed'
  BY <1>1, <1>2, <1>3, <1>4 DEF Listed, WalkingImports, GoodImports
<1>7. WalkingExports'
  <2>1. WalkSoFar({modinfo.export_top})'
    BY <1>1 DEF WalkSoFar
  <2>2. {modinfo.export_top} \in SUBSET ExportOffsets(modinfo)
    BY DEF ExportOffsets
  <2>3. {modinfo.export_top}' = {modinfo.export_top} /\ ExportOffsets(modinfo)' = ExportOffsets(modinfo)
    BY <1>1 DEF ExportOffsets
  <2> QED
    BY <1>1, <2>1, <2>2, <2>3 DEF WalkingExports, HoldsWalk, Faults, GoodExport
<1> QED
  BY <1>1, <1>2, <1>5, <1>6, <1>7 DEF TablesInv

\* A record of the export table that is visited.
LEMMA VisitedHere ==
    ASSUME TypeOK, WalkingExports, HasExport
    PROVE  start_addr \in Visited(modinfo)
BY DEF WalkingExports, HasExport, Visited, WalkSoFar

\* A load that dies over an export record stays listed.
LEMMA UnmappedExportStep ==
    ASSUME TypeOK, TablesInv, UnmappedExport
    PROVE  TypeOK' /\ TablesInv'
<1>1. /\ phase = "exporting" /\ HasExport /\ ~ GoodExport(modinfo, start_addr)
      /\ phase' = "terminated"
      /\ UNCHANGED <<modinfo, start_addr, function_imports, var, libraries, stubs,
                     runtime_module_list, state>>
  BY DEF UnmappedExport, Dies, GoodExport
<1>2. TypeOK'
  BY <1>1 DEF TypeOK
<1>3. Listed' /\ WalkingExports /\ state = FALSE
  BY <1>1 DEF TablesInv, Listed, GoodImports
<1>4. ~ (\A a \in Visited(modinfo) : GoodExport(modinfo, a))'
  <2>1. start_addr \in Visited(modinfo)
    BY <1>1, <1>3, VisitedHere
  <2> QED
    BY <1>1, <2>1
<1> QED
  BY <1>1, <1>2, <1>3, <1>4 DEF TablesInv

\* A load that is refused for an export record that is visited.
LEMMA BadExportStep ==
    ASSUME TypeOK, TablesInv, BadExport
    PROVE  TypeOK' /\ TablesInv'
<1>1. /\ phase = "exporting" /\ HasExport /\ ~ GoodExport(modinfo, start_addr)
      /\ phase' = "returned" /\ state' = FALSE
      /\ UNCHANGED <<modinfo, start_addr, function_imports, var, libraries, stubs,
                     runtime_module_list>>
  BY DEF BadExport, Return, GoodExport
<1>2. TypeOK'
  BY <1>1 DEF TypeOK
<1>3. Listed' /\ WalkingExports
  BY <1>1 DEF TablesInv, Listed, GoodImports
<1>4. ~ (\A a \in Visited(modinfo) : GoodExport(modinfo, a))'
  <2>1. start_addr \in Visited(modinfo)
    BY <1>1, <1>3, VisitedHere
  <2> QED
    BY <1>1, <2>1
<1> QED
  BY <1>1, <1>2, <1>3, <1>4 DEF TablesInv

\* A good export record: the walk goes on to the offset behind it.
LEMMA ReadExportStep ==
    ASSUME TypeOK, TablesInv, ReadExport
    PROVE  TypeOK' /\ TablesInv'
<1> DEFINE next == start_addr + modinfo.exports[start_addr].size
<1>1. /\ phase = "exporting" /\ HasExport /\ GoodExport(modinfo, start_addr)
      /\ start_addr' = next
      /\ UNCHANGED <<phase, modinfo, function_imports, var, libraries, stubs,
                     runtime_module_list, state>>
  BY DEF ReadExport, GoodExport
<1>2. start_addr \in DOMAIN modinfo.exports /\ next \in Nat
  BY <1>1, ExportFacts DEF GoodExport, TypeOK
<1>3. TypeOK'
  BY <1>1, <1>2 DEF TypeOK
<1>4. Listed' /\ WalkingExports /\ state = FALSE
  BY <1>1 DEF TablesInv, Listed, GoodImports
<1>5. next \in ExportOffsets(modinfo)
  BY <1>2 DEF ExportOffsets
<1> HIDE DEF next
<1>6. \E offsets \in SUBSET ExportOffsets(modinfo) : WalkSoFar(offsets)'
  <2>1. PICK old \in SUBSET ExportOffsets(modinfo) : WalkSoFar(old)
    BY <1>4 DEF WalkingExports
  <2>2. PICK new \in SUBSET ExportOffsets(modinfo) : new = old \cup {next}
    BY <1>5
  <2>3. ASSUME NEW a \in new \ {next}
        PROVE  GoodExport(modinfo, a) /\ a + modinfo.exports[a].size \in new
    <3>1. CASE a = start_addr
      BY <1>1, <2>2, <3>1 DEF next
    <3>2. CASE a # start_addr
      BY <2>1, <2>2, <2>3, <3>2 DEF WalkSoFar
    <3> QED
      BY <3>1, <3>2
  <2>4. WalkSoFar(new)'
    <3>1. modinfo.export_top \in new /\ next \in new
      BY <2>1, <2>2 DEF WalkSoFar
    <3>2. start_addr' = next /\ modinfo' = modinfo
      BY <1>1
    <3> QED
      BY <2>3, <3>1, <3>2 DEF WalkSoFar, GoodExport, Faults
  <2> QED
    BY <2>4
<1>7. ASSUME NEW offsets \in SUBSET ExportOffsets(modinfo),
             HoldsWalk(modinfo, offsets)
      PROVE  next \in offsets
  <2>1. start_addr \in offsets /\ start_addr < modinfo.export_end
    BY <1>1, <1>4, <1>7 DEF WalkingExports, HasExport
  <2> QED
    BY <1>1, <1>7, <2>1 DEF HoldsWalk, next
<1>8. WalkingExports'
  BY <1>1, <1>6, <1>7 DEF WalkingExports
<1> QED
  BY <1>1, <1>3, <1>4, <1>8 DEF TablesInv

\* Behind the last record every record that was visited was good.
LEMMA FinishExportsStep ==
    ASSUME TypeOK, TablesInv, FinishExports
    PROVE  TypeOK' /\ TablesInv'
<1>1. /\ phase = "exporting" /\ ~ HasExport /\ phase' = "returned" /\ state' = TRUE
      /\ UNCHANGED <<modinfo, start_addr, function_imports, var, libraries, stubs,
                     runtime_module_list>>
  BY DEF FinishExports, Return
<1>2. TypeOK'
  BY <1>1 DEF TypeOK
<1>3. Listed' /\ WalkingExports
  BY <1>1 DEF TablesInv, Listed, GoodImports
<1>4. \A a \in Visited(modinfo) : GoodExport(modinfo, a)
  <2>1. PICK offsets \in SUBSET ExportOffsets(modinfo) : WalkSoFar(offsets)
    BY <1>3 DEF WalkingExports
  <2>2. HoldsWalk(modinfo, offsets)
    BY <1>1, <2>1 DEF WalkSoFar, HoldsWalk, HasExport
  <2>3. ASSUME NEW a \in Visited(modinfo)
        PROVE  a \in offsets \ {start_addr}
    BY <1>1, <2>2 DEF Visited, HasExport
  <2> QED
    BY <2>1, <2>3 DEF WalkSoFar
<1>5. (\A a \in Visited(modinfo) : GoodExport(modinfo, a))'
  BY <1>1, <1>4
<1> QED
  BY <1>1, <1>2, <1>3, <1>5 DEF TablesInv

\* Every step of the loader keeps the invariant.
LEMMA TablesNext == TypeOK /\ TablesInv /\ [Next]_vars => TypeOK' /\ TablesInv'
<1> SUFFICES ASSUME TypeOK, TablesInv, [Next]_vars
             PROVE  TypeOK' /\ TablesInv'
  OBVIOUS
<1>1. CASE UNCHANGED vars
  <2>1. UNCHANGED <<phase, modinfo, start_addr, function_imports, var, libraries,
                    stubs, runtime_module_list, state>>
    BY <1>1 DEF vars
  <2>2. TypeOK'
    BY <2>1 DEF TypeOK
  <2>3. /\ WalkingImports' = WalkingImports
        /\ ReadingRecord' = ReadingRecord
        /\ ReadingVariables' = ReadingVariables
        /\ Listed' = Listed /\ Refused' = Refused
        /\ WalkingExports' = WalkingExports
    BY <2>1
    DEF WalkingImports, GoodImports, ReadingRecord, Record, ReadingVariables, Listed,
        Refused, WalkingExports, WalkSoFar
  <2> QED
    BY <2>1, <2>2, <2>3 DEF TablesInv
<1> QED
  BY <1>1, BadRecordStep, NamelessLibraryStep, ReadRecordStep, PatchFunctionStep,
     BadStubStep, FinishFunctionsStep, BadVariableStep, ReadVariableStep,
     FinishRecordStep, AddRuntimeModuleStep, UnmappedExportStep, BadExportStep,
     ReadExportStep, FinishExportsStep
  DEF Next

\* The invariant holds for every executable.
LEMMA TablesInvAlways == Spec => [](TypeOK /\ TablesInv)
BY TablesInit, TablesNext, PTL DEF Spec

-----------------------------------------------------------------------------
(* The stubs *)

\* The imports whose stubs were patched so far.
Patched ==
    { p \in ImportPlaces(modinfo) :
        \/ p[1] <= Len(libraries)
        \/ p[1] = Len(libraries) + 1 /\ p[2] <= Len(function_imports) }

\* Every stub holds the NID of the last of these that names it, or none.
StubsFollow == \A entry \in Entries : HoldsLastNid(entry, Patched)

\* Places are pairs of numbers, and those of a record are all its functions.
LEMMA PlaceFacts ==
    ASSUME modinfo \in Executables
    PROVE  /\ \A p \in ImportPlaces(modinfo) :
                /\ p = <<p[1], p[2]>>
                /\ p[1] \in 1 .. ImportCount(modinfo)
                /\ p[2] \in Nat /\ p[2] >= 1
                /\ p[2] \in 1 .. modinfo.imports[ImportOffset(modinfo, p[1])].num_syms_funcs
           /\ \A i \in 1 .. ImportCount(modinfo) :
                Legible(modinfo, ImportOffset(modinfo, i)) =>
                  \A n \in 1 .. modinfo.imports[ImportOffset(modinfo, i)].num_syms_funcs :
                    <<i, n>> \in ImportPlaces(modinfo)
<1>1. ASSUME NEW p \in ImportPlaces(modinfo)
      PROVE  /\ p = <<p[1], p[2]>>
             /\ p[1] \in 1 .. ImportCount(modinfo)
             /\ p[2] \in Nat /\ p[2] >= 1
             /\ p[2] \in 1 .. modinfo.imports[ImportOffset(modinfo, p[1])].num_syms_funcs
  <2>1. PICK i \in 1 .. ImportCount(modinfo) :
          /\ Legible(modinfo, ImportOffset(modinfo, i))
          /\ p \in {i} \X (1 .. modinfo.imports[ImportOffset(modinfo, i)].num_syms_funcs)
    BY DEF ImportPlaces
  <2>2. PICK n \in 1 .. modinfo.imports[ImportOffset(modinfo, i)].num_syms_funcs :
          p = <<i, n>>
    BY <2>1
  <2>3. modinfo.imports[ImportOffset(modinfo, i)].num_syms_funcs \in Nat
    BY <2>1, ExecutablesAssumption DEF Legible, ImportRecord
  <2>4. n \in Nat /\ n >= 1
    BY <2>3
  <2> QED
    BY <2>1, <2>2, <2>4
<1>2. ASSUME NEW i \in 1 .. ImportCount(modinfo),
             Legible(modinfo, ImportOffset(modinfo, i)),
             NEW n \in 1 .. modinfo.imports[ImportOffset(modinfo, i)].num_syms_funcs
      PROVE  <<i, n>> \in ImportPlaces(modinfo)
  <2>1. <<i, n>> \in {i} \X (1 .. modinfo.imports[ImportOffset(modinfo, i)].num_syms_funcs)
    OBVIOUS
  <2> QED
    BY <1>2, <2>1 DEF ImportPlaces
<1> QED
  BY <1>1, <1>2

\* Before the walk no stub is patched.
LEMMA StubsFollowInit == Init => StubsFollow
<1> SUFFICES ASSUME Init
             PROVE  StubsFollow
  OBVIOUS
<1>1. modinfo \in Executables /\ Len(libraries) = 0 /\ Len(function_imports) = 0
  BY DEF Init
<1>2. Patched = {}
  BY <1>1, PlaceFacts, ImportCountProperties DEF Patched
<1>3. \A entry \in Entries : stubs[entry] = NoNid
  BY DEF Init
<1> QED
  BY <1>2, <1>3 DEF StubsFollow, HoldsLastNid

\* Stubs and imports that stay as they are.
LEMMA SameStubs ==
    ASSUME StubsFollow, UNCHANGED <<modinfo, stubs>>, Patched' = Patched
    PROVE  StubsFollow'
<1>1. ASSUME NEW entry \in Entries
      PROVE  HoldsLastNid(entry, Patched)'
  <2>1. HoldsLastNid(entry, Patched)
    BY DEF StubsFollow
  <2> HIDE DEF Patched
  <2> QED
    BY <2>1 DEF HoldsLastNid, EntryAt, NidAt, ImportOffset
<1> QED
  BY <1>1 DEF StubsFollow

\* The import that is patched is the last so far.
LEMMA PatchFunctionStubs ==
    ASSUME TypeOK, TablesInv, StubsFollow, PatchFunction
    PROVE  StubsFollow'
<1> DEFINE l == Len(libraries)
           k == Len(function_imports)
<1>0. PICK place : place = <<l + 1, k + 1>>
  OBVIOUS
<1>1. /\ phase = "functions" /\ k + 1 <= Record.num_syms_funcs
      /\ stubs' = [stubs EXCEPT ![Record.func_entry_table[k + 1]]
                                  = Record.func_nid_table[k + 1]]
      /\ Record.func_entry_table[k + 1] # Unmapped
      /\ UNCHANGED <<modinfo, libraries>>
  BY DEF PatchFunction, NextFunction
<1>2. WalkingImports /\ ReadingRecord
  BY <1>1 DEF TablesInv
<1>3. modinfo \in Executables /\ l \in Nat /\ k \in Nat /\ ImportCount(modinfo) \in Nat
  BY LenProperties, ImportCountProperties DEF TypeOK
<1>4. Len(function_imports') = k + 1
  <2>1. PICK import : function_imports' = Append(function_imports, import)
    BY DEF PatchFunction
  <2> QED
    BY <2>1, AppendProperties DEF TypeOK, PatchFunction, Import
<1>5. start_addr = ImportOffset(modinfo, l + 1) /\ l + 1 \in 1 .. ImportCount(modinfo)
  BY <1>2, <1>3 DEF WalkingImports, ReadingRecord
<1>6. k + 1 \in 1 .. Record.num_syms_funcs
  BY <1>1, <1>2, <1>3, RecordFacts DEF ReadingRecord
<1>7. place \in ImportPlaces(modinfo)
  BY <1>0, <1>2, <1>3, <1>5, <1>6, PlaceFacts DEF ReadingRecord, Record
<1>8. /\ EntryAt(place) = Record.func_entry_table[k + 1]
      /\ NidAt(place) = Record.func_nid_table[k + 1]
      /\ EntryAt(place) \in Entries
  <2>1. place[1] = l + 1 /\ place[2] = k + 1
    BY <1>0
  <2>2. EntryAt(place) = Record.func_entry_table[k + 1]
    BY <1>5, <2>1 DEF EntryAt, Record
  <2>3. NidAt(place) = Record.func_nid_table[k + 1]
    BY <1>5, <2>1 DEF NidAt, Record
  <2>4. Record.func_entry_table[k + 1] \in Entries
    BY <1>1, <1>2, <1>6, RecordFacts DEF ReadingRecord
  <2> QED
    BY <2>2, <2>3, <2>4
<1>9. Patched' = Patched \cup {place}
  <2>1. Patched' = { p \in ImportPlaces(modinfo) :
                       p[1] <= l \/ (p[1] = l + 1 /\ p[2] <= k + 1) }
    BY <1>1, <1>4 DEF Patched, ImportPlaces, ImportOffset, ImportCount, Legible
  <2>2. ASSUME NEW p \in ImportPlaces(modinfo)
        PROVE  p[1] <= l \/ (p[1] = l + 1 /\ p[2] <= k + 1)
                 <=> p \in Patched \/ p = place
    <3>1. p = <<p[1], p[2]>> /\ p[1] \in Nat /\ p[2] \in Nat
      BY <1>3, PlaceFacts
    <3>2. p \in Patched <=> p[1] <= l \/ (p[1] = l + 1 /\ p[2] <= k)
      BY DEF Patched
    <3>3. p = place <=> p[1] = l + 1 /\ p[2] = k + 1
      BY <1>0, <3>1
    <3> HIDE DEF l, k
    <3> QED
      BY <1>3, <3>1, <3>2, <3>3
  <2>3. Patched \subseteq ImportPlaces(modinfo)
    BY DEF Patched
  <2> QED
    BY <1>7, <2>1, <2>2, <2>3
<1>10. \A q \in Patched \cup {place} : NotAfter(q, place)
  <2>1. place[1] = l + 1 /\ place[2] = k + 1
    BY <1>0
  <2>2. ASSUME NEW q \in Patched
        PROVE  NotAfter(q, place)
    <3>1. q[1] \in Nat /\ q[2] \in Nat
      BY <1>3, PlaceFacts DEF Patched
    <3>2. q[1] <= l \/ (q[1] = l + 1 /\ q[2] <= k)
      BY DEF Patched
    <3> HIDE DEF l, k
    <3> QED
      BY <1>3, <2>1, <3>1, <3>2 DEF NotAfter
  <2>3. NotAfter(place, place)
    <3> HIDE DEF l, k
    <3> QED
      BY <1>3, <2>1 DEF NotAfter
  <2> QED
    BY <2>2, <2>3
<1>11. \A p : EntryAt(p)' = EntryAt(p) /\ NidAt(p)' = NidAt(p)
  BY <1>1 DEF EntryAt, NidAt, ImportOffset
<1>12. stubs' = [stubs EXCEPT ![EntryAt(place)] = NidAt(place)]
  BY <1>1, <1>8
<1>13. ASSUME NEW entry \in Entries
       PROVE  HoldsLastNid(entry, Patched)'
  <2> DEFINE naming == { p \in Patched \cup {place} : EntryAt(p) = entry }
  <2>1. { p \in Patched' : EntryAt(p)' = entry } = naming
    BY <1>9, <1>11
  <2>2. CASE entry = EntryAt(place)
    <3>1. place \in naming /\ stubs'[entry] = NidAt(place)
      BY <1>8, <1>12, <2>2 DEF TypeOK
    <3>2. \A q \in naming : NotAfter(q, place)
      BY <1>10
    <3> HIDE DEF naming
    <3>3. stubs'[entry] = NidAt(place)'
      BY <1>11, <3>1
    <3>4. naming # {} /\ \E p \in naming : stubs'[entry] = NidAt(p)' /\ \A q \in naming : NotAfter(q, p)
      BY <3>1, <3>2, <3>3
    <3> QED
      BY <2>1, <3>4 DEF HoldsLastNid, NotAfter
  <2>3. CASE entry # EntryAt(place)
    <3>1. naming = { p \in Patched : EntryAt(p) = entry }
      BY <2>3
    <3>2. stubs'[entry] = stubs[entry]
      BY <1>8, <1>12, <2>3 DEF TypeOK
    <3>3. HoldsLastNid(entry, Patched)
      BY DEF StubsFollow
    <3> HIDE DEF naming
    <3>4. IF naming = {} THEN stubs'[entry] = NoNid
          ELSE \E p \in naming : stubs'[entry] = NidAt(p)' /\ \A q \in naming : NotAfter(q, p)
      BY <1>11, <3>1, <3>2, <3>3 DEF HoldsLastNid
    <3> QED
      BY <2>1, <3>4 DEF HoldsLastNid, NotAfter
  <2> QED
    BY <2>2, <2>3
<1> QED
  BY <1>13 DEF StubsFollow

\* A record that is finished has all its functions patched.
LEMMA FinishRecordStubs ==
    ASSUME TypeOK, TablesInv, StubsFollow, FinishRecord
    PROVE  StubsFollow'
<1> DEFINE l == Len(libraries)
           k == Len(function_imports)
<1>1. /\ phase = "variables" /\ libraries' = Append(libraries, function_imports)
      /\ function_imports' = <<>> /\ UNCHANGED <<modinfo, stubs>>
  BY DEF FinishRecord
<1>2. WalkingImports /\ ReadingRecord /\ ReadingVariables
  BY <1>1 DEF TablesInv
<1>3. modinfo \in Executables /\ l \in Nat /\ k \in Nat
  BY LenProperties DEF TypeOK
<1>4. Len(libraries') = l + 1 /\ Len(function_imports') = 0
  BY <1>1, AppendProperties DEF TypeOK
<1>5. k = modinfo.imports[ImportOffset(modinfo, l + 1)].num_syms_funcs
  BY <1>2 DEF WalkingImports, ReadingVariables, Record
<1>6. Patched' = { p \in ImportPlaces(modinfo) :
                     p[1] <= l + 1 \/ (p[1] = (l + 1) + 1 /\ p[2] <= 0) }
  BY <1>1, <1>4 DEF Patched, ImportPlaces, ImportOffset, ImportCount, Legible
<1>7. ASSUME NEW p \in ImportPlaces(modinfo)
      PROVE  p[1] <= l + 1 \/ (p[1] = (l + 1) + 1 /\ p[2] <= 0)
               <=> p[1] <= l \/ (p[1] = l + 1 /\ p[2] <= k)
  <2>1. p[1] \in Nat /\ p[2] \in Nat /\ p[2] >= 1
    BY <1>3, PlaceFacts
  <2>2. p[1] = l + 1 => p[2] \in 1 .. k
    BY <1>3, <1>5, PlaceFacts
  <2> HIDE DEF l, k
  <2> QED
    BY <1>3, <2>1, <2>2
<1>8. Patched' = Patched
  BY <1>6, <1>7 DEF Patched
<1> QED
  BY <1>1, <1>8, SameStubs

\* Every step of the loader keeps the stubs in line with the table.
LEMMA StubsFollowNext ==
    TypeOK /\ TablesInv /\ StubsFollow /\ [Next]_vars => StubsFollow'
<1> SUFFICES ASSUME TypeOK, TablesInv, StubsFollow, [Next]_vars
             PROVE  StubsFollow'
  OBVIOUS
<1>1. ASSUME UNCHANGED <<modinfo, libraries, function_imports, stubs>>
      PROVE  StubsFollow'
  <2>1. Patched' = Patched
    BY <1>1 DEF Patched, ImportPlaces, ImportOffset, ImportCount, Legible
  <2> QED
    BY <1>1, <2>1, SameStubs
<1>2. CASE BadRecord \/ BadStub \/ BadVariable \/ BadExport \/ FinishExports
  BY <1>1, <1>2 DEF BadRecord, BadStub, BadVariable, BadExport, FinishExports, Return
<1>3. CASE NamelessLibrary \/ UnmappedExport
  BY <1>1, <1>3 DEF NamelessLibrary, UnmappedExport, Dies
<1>4. CASE ReadRecord \/ FinishFunctions \/ ReadVariable \/ AddRuntimeModule \/ ReadExport
  BY <1>1, <1>4 DEF ReadRecord, FinishFunctions, ReadVariable, AddRuntimeModule, ReadExport
<1>5. CASE UNCHANGED vars
  BY <1>1, <1>5 DEF vars
<1> QED
  BY <1>2, <1>3, <1>4, <1>5, PatchFunctionStubs, FinishRecordStubs DEF Next

\* The stubs of every executable follow its table.
LEMMA StubsFollowAlways == Spec => []StubsFollow
BY StubsFollowInit, StubsFollowNext, TablesInvAlways, PTL DEF Spec

-----------------------------------------------------------------------------
(* What the loader promises *)

\* Every variable keeps its type, whatever the tables hold.
THEOREM TablesTypeCorrect == Spec => []TypeOK
BY TablesInvAlways, PTL

\* The load of any executable succeeds exactly when every record that a walk
\* of its two tables visits is good, the loads that kill the host included.
THEOREM AcceptsGoodTablesAlways == Spec => []AcceptsGoodTables
<1>1. TypeOK /\ TablesInv => AcceptsGoodTables
  <2> SUFFICES ASSUME TypeOK, TablesInv, phase \in {"returned", "terminated"}
               PROVE  state <=> /\ \A a \in ImportOffsets(modinfo) : GoodImport(modinfo, a)
                                /\ \A a \in Visited(modinfo) : GoodExport(modinfo, a)
    BY DEF AcceptsGoodTables
  <2>1. GoodImports(ImportCount(modinfo))
          <=> \A a \in ImportOffsets(modinfo) : GoodImport(modinfo, a)
    BY DEF GoodImports, ImportOffsets
  <2>2. CASE Listed
    BY <2>1, <2>2 DEF TablesInv, Listed
  <2>3. CASE Refused
    BY <2>1, <2>3 DEF Refused
  <2> QED
    BY <2>2, <2>3 DEF TablesInv
<1> QED
  BY <1>1, TablesInvAlways, PTL

\* A module is listed exactly when every record of its import table is good,
\* and stays listed whatever becomes of its exports; every stub its table names
\* then holds the NID of the last import that names it.
THEOREM ListedWhenImportedAlways == Spec => []ListedWhenImported
<1>1. TypeOK /\ TablesInv /\ StubsFollow => ListedWhenImported
  <2> SUFFICES ASSUME TypeOK, TablesInv, StubsFollow
               PROVE  ListedWhenImported
    OBVIOUS
  <2>1. GoodImports(ImportCount(modinfo))
          <=> \A a \in ImportOffsets(modinfo) : GoodImport(modinfo, a)
    BY DEF GoodImports, ImportOffsets
  <2>2. Listed => runtime_module_list # <<>>
    BY DEF Listed
  <2>3. ASSUME Listed, NEW entry \in Entries
        PROVE  HoldsLastNid(entry, ImportPlaces(modinfo))
    <3>1. ASSUME NEW p \in ImportPlaces(modinfo)
          PROVE  p[1] <= Len(libraries)
      BY <2>3, PlaceFacts, ImportCountProperties DEF Listed, TypeOK
    <3>2. Patched = ImportPlaces(modinfo)
      BY <3>1 DEF Patched
    <3> QED
      BY <3>2 DEF StubsFollow
  <2>4. CASE phase \in {"importing", "functions", "variables"}
    BY <2>4 DEF TablesInv, WalkingImports, ListedWhenImported
  <2>5. CASE phase = "exporting"
    BY <2>2, <2>3, <2>5 DEF TablesInv, ListedWhenImported
  <2>6. CASE phase \in {"returned", "terminated"}
    <3>1. CASE Listed
      BY <2>1, <2>2, <2>3, <2>6, <3>1 DEF Listed, ListedWhenImported
    <3>2. CASE Refused
      BY <2>1, <2>6, <3>2 DEF Refused, ListedWhenImported
    <3> QED
      BY <2>6, <3>1, <3>2 DEF TablesInv
  <2> QED
    BY <2>4, <2>5, <2>6 DEF TypeOK
<1> QED
  BY <1>1, TablesInvAlways, StubsFollowAlways, PTL

-----------------------------------------------------------------------------
(* The refinement of HleDispatch *)

\* The table of libraries as HleDispatch knows it.
LEMMA LibraryFacts ==
    ASSUME TypeOK, TablesInv, phase \in {"functions", "variables"}
    PROVE  /\ Len(ProgramOf(modinfo)) = ImportCount(modinfo)
           /\ Len(libraries) \in Nat /\ Len(libraries) < ImportCount(modinfo)
           /\ Len(Dispatch!Library) = Record.num_syms_funcs
           /\ \A n \in 1 .. Record.num_syms_funcs :
                Dispatch!Library[n] = [ nid   |-> Record.func_nid_table[n],
                                        entry |-> Record.func_entry_table[n] ]
<1>1. WalkingImports /\ ReadingRecord
  BY DEF TablesInv
<1>2. ImportCount(modinfo) \in Nat /\ Len(libraries) \in Nat
  BY ImportCountProperties, LenProperties DEF TypeOK
<1>3. Len(ProgramOf(modinfo)) = ImportCount(modinfo)
  BY <1>2 DEF ProgramOf
<1>4. Len(libraries) < ImportCount(modinfo)
  BY <1>1 DEF ReadingRecord
<1>5. Len(libraries) + 1 \in 1 .. ImportCount(modinfo)
  BY <1>2, <1>4
<1>6. Dispatch!Library = LibraryAt(modinfo, start_addr)
  BY <1>1, <1>5 DEF Dispatch!Library, ProgramOf, WalkingImports
<1>7. LibraryAt(modinfo, start_addr)
        = [ n \in 1 .. Record.num_syms_funcs |->
              [ nid   |-> Record.func_nid_table[n],
                entry |-> Record.func_entry_table[n] ] ]
  BY <1>1 DEF LibraryAt, ReadingRecord, Record
<1>8. Record.num_syms_funcs \in Nat
  BY <1>1, RecordFacts DEF ReadingRecord
<1> QED
  BY <1>2, <1>3, <1>4, <1>6, <1>7, <1>8

\* Whether a step of the loader shows in HleDispatch.
LEMMA TablesRefine ==
    ASSUME TypeOK, TablesInv, [Next]_vars
    PROVE  [Dispatch!Next]_(Dispatch!vars)
<1> DEFINE Hidden == /\ phase # "returned" /\ phase' # "returned" /\ state' = state
                     /\ UNCHANGED <<modinfo, function_imports, libraries, stubs>>
<1>1. ASSUME Hidden
      PROVE  UNCHANGED Dispatch!vars
  BY <1>1 DEF Dispatch!vars
<1>2. ASSUME phase \in {"importing", "functions", "variables"},
             Len(libraries) < ImportCount(modinfo), Return(FALSE),
             UNCHANGED runtime_module_list
      PROVE  Dispatch!ImportFails
  <2>1. /\ phase # "returned" /\ phase' = "returned" /\ state' = FALSE
        /\ UNCHANGED <<modinfo, start_addr, function_imports, var, libraries, stubs,
                       runtime_module_list>>
    BY <1>2 DEF Return
  <2>2. state = FALSE /\ runtime_module_list = <<>>
    BY <1>2 DEF TablesInv, WalkingImports
  <2>3. Len(ProgramOf(modinfo)) = ImportCount(modinfo)
    BY ImportCountProperties DEF ProgramOf, TypeOK
  <2> QED
    BY <1>2, <2>1, <2>2, <2>3 DEF Dispatch!ImportFails
<1>3. ASSUME phase = "exporting", NEW result \in BOOLEAN, Return(result),
             UNCHANGED runtime_module_list
      PROVE  Dispatch!FinishModule
  <2>1. /\ phase # "returned" /\ phase' = "returned" /\ state' = result
        /\ UNCHANGED <<modinfo, start_addr, function_imports, var, libraries, stubs,
                       runtime_module_list>>
    BY <1>3 DEF Return
  <2>2. Len(libraries) = ImportCount(modinfo) /\ runtime_module_list = <<libraries>>
    BY <1>3 DEF TablesInv, Listed
  <2>3. Len(ProgramOf(modinfo)) = ImportCount(modinfo)
    BY ImportCountProperties DEF ProgramOf, TypeOK
  <2>4. Append(<<>>, libraries) = <<libraries>>
    OBVIOUS
  <2> QED
    BY <2>1, <2>2, <2>3, <2>4 DEF Dispatch!FinishModule
<1>4. CASE BadRecord
  <2>1. Len(libraries) < ImportCount(modinfo)
    BY <1>4, LenProperties, ImportCountProperties
    DEF BadRecord, TypeOK, TablesInv, WalkingImports, HasImport
  <2> QED
    BY <1>2, <1>4, <2>1 DEF BadRecord, Dispatch!Next
<1>5. CASE BadStub \/ BadVariable
  <2>1. Len(libraries) < ImportCount(modinfo)
    BY <1>5 DEF BadStub, BadVariable, TablesInv, ReadingRecord
  <2> QED
    BY <1>2, <1>5, <2>1 DEF BadStub, BadVariable, Dispatch!Next
<1>6. CASE PatchFunction
  <2> DEFINE n == NextFunction
             import == [ nid   |-> Record.func_nid_table[n],
                         entry |-> Record.func_entry_table[n] ]
  <2>1. /\ phase = "functions" /\ n <= Record.num_syms_funcs
        /\ stubs' = [stubs EXCEPT ![import.entry] = import.nid]
        /\ function_imports' = Append(function_imports, import)
        /\ UNCHANGED <<phase, modinfo, start_addr, var, libraries,
                       runtime_module_list, state>>
    BY <1>6 DEF PatchFunction
  <2>2. n = Len(function_imports) + 1 /\ Len(function_imports) \in Nat
    BY LenProperties DEF NextFunction, TypeOK
  <2> HIDE DEF n
  <2>3. Len(function_imports) < Record.num_syms_funcs /\ n \in 1 .. Record.num_syms_funcs
    <3>1. Record.num_syms_funcs \in Nat
      BY <2>1, RecordFacts DEF TablesInv, ReadingRecord
    <3> QED
      BY <2>1, <2>2, <3>1
  <2>4. Dispatch!Library[n] = import
    BY <2>1, <2>3, LibraryFacts
  <2> HIDE DEF import
  <2>5. Dispatch!ImportFunction
    BY <2>1, <2>2, <2>3, <2>4, LibraryFacts DEF Dispatch!ImportFunction
  <2> QED
    BY <2>5 DEF Dispatch!Next
<1>7. CASE FinishRecord
  <2>1. /\ phase = "variables" /\ phase' = "importing"
        /\ libraries' = Append(libraries, function_imports)
        /\ function_imports' = <<>>
        /\ UNCHANGED <<modinfo, stubs, runtime_module_list, state>>
    BY <1>7 DEF FinishRecord
  <2>2. Len(function_imports) = Record.num_syms_funcs
    BY <2>1 DEF TablesInv, ReadingVariables
  <2>3. Dispatch!FinishLibrary
    BY <2>1, <2>2, LibraryFacts DEF Dispatch!FinishLibrary
  <2> QED
    BY <2>3 DEF Dispatch!Next
<1>8. CASE BadExport \/ FinishExports
  BY <1>3, <1>8 DEF BadExport, FinishExports, Dispatch!Next
<1>9. CASE ReadRecord \/ FinishFunctions \/ ReadVariable \/ AddRuntimeModule
  BY <1>1, <1>9 DEF ReadRecord, FinishFunctions, ReadVariable, AddRuntimeModule
<1>10. CASE NamelessLibrary \/ UnmappedExport \/ ReadExport
  BY <1>1, <1>10 DEF NamelessLibrary, UnmappedExport, ReadExport, Dies
<1>11. CASE UNCHANGED vars
  BY <1>11 DEF vars, Dispatch!vars
<1> QED
  BY <1>4, <1>5, <1>6, <1>7, <1>8, <1>9, <1>10, <1>11 DEF Next

\* Walking the raw tables of any executable is what HleDispatch takes the
\* importing phase for.
THEOREM TablesImplementDispatch == Spec => ImplementsDispatch
<1>1. Init => Dispatch!Init
  <2> SUFFICES ASSUME Init
               PROVE  Dispatch!Init
    OBVIOUS
  <2>1. ProgramOf(modinfo) \in { ProgramOf(x) : x \in Executables }
    BY DEF Init
  <2> QED
    BY <2>1 DEF Init, Dispatch!Init, NoNid, Dispatch!NoNid, Dispatch!NoCall,
                Dispatch!NoFunction
<1>2. TypeOK /\ TablesInv /\ [Next]_vars => [Dispatch!Next]_(Dispatch!vars)
  BY TablesRefine
<1> QED
  BY <1>1, <1>2, TablesInvAlways, PTL DEF Spec, ImplementsDispatch, Dispatch!Spec
=============================================================================
