---------------------------- MODULE HleDispatch ----------------------------
(***************************************************************************)
(* How a guest call reaches a host function.  The loader overwrites each   *)
(* imported function's stub with an SVC instruction and the function's NID *)
(* and records the import; main then fills the list of HLE modules and     *)
(* resolves the records into a map from stub addresses to functions; an    *)
(* SVC executed by the guest is looked up in that map.                     *)
(***************************************************************************)
EXTENDS Naturals, Sequences, FiniteSets, SequencesExt

CONSTANTS
    Nids,           \* the NIDs an executable may import
    Entries,        \* the addresses of its import stubs
    Programs,       \* its import tables: lists of libraries, each a list of
                    \* [nid, entry] records
    HleModules      \* what get_module_* return: lists of NIDs, in the order
                    \* init_modules registers them

Import == [nid : Nids, entry : Entries]
NoNid  == "no NID"          \* nothing was written over the stub

ASSUME NoNidAssumption == NoNid \notin Nids
ASSUME ProgramsAssumption == Programs \subseteq Seq(Seq(Import))
ASSUME HleModulesAssumption == HleModules \in Seq(Seq(Nids))

VARIABLES
    phase,                  \* how far main has come
    loaded,                 \* what load_self_to_memory returned
    program,                \* the executable's import table
    stubs,                  \* the NID patched into each stub, or NoNid
    libraries,              \* mod.function_import_libraries, being built
    function_imports,       \* of the library being read
    runtime_module_list,
    module_list,
    nid_to_address_map,     \* a SvcCall for each known stub address
    called                  \* the last supervisor call: stub and function run

vars == <<phase, loaded, program, stubs, libraries, function_imports,
          runtime_module_list, module_list, nid_to_address_map, called>>

NoFunction == <<0, 0>>      \* a null HLEFunction pointer
NoCall     == [entry |-> NoNid, function |-> NoFunction]

\* An HLEFunction pointer: a place in the module list.
Functions(list) == UNION { {i} \X (1 .. Len(list[i])) : i \in 1 .. Len(list) }

TypeOK ==
    /\ phase \in {"importing", "loaded", "initialised", "resolved", "running",
                  "stopped"}
    /\ loaded \in BOOLEAN
    /\ program \in Programs
    /\ stubs \in [Entries -> Nids \cup {NoNid}]
    /\ libraries \in Seq(Seq(Import))
    /\ function_imports \in Seq(Import)
    /\ runtime_module_list \in Seq(Seq(Seq(Import)))
    /\ module_list \in Seq(Seq(Nids))
    /\ DOMAIN nid_to_address_map \subseteq Entries
    /\ \A e \in DOMAIN nid_to_address_map :
         /\ nid_to_address_map[e].nid \in Nids
         /\ nid_to_address_map[e].function
              \in Functions(module_list) \cup {NoFunction}

Init ==
    /\ phase = "importing"
    /\ loaded = FALSE
    /\ program \in Programs
    /\ stubs = [e \in Entries |-> NoNid]
    /\ libraries = <<>>
    /\ function_imports = <<>>
    /\ runtime_module_list = <<>>
    /\ module_list = <<>>
    /\ nid_to_address_map = << >>
    /\ called = NoCall

-----------------------------------------------------------------------------
(* add_module_imports *)

Library == program[Len(libraries) + 1]

\* Fault: the address is written where the NID belongs.
ImportFunctionSwapped ==
    /\ phase = "importing"
    /\ Len(libraries) < Len(program)
    /\ Len(function_imports) < Len(Library)
    /\ LET import == Library[Len(function_imports) + 1]
       IN  /\ stubs' = [stubs EXCEPT ![import.entry] = import.entry]
           /\ function_imports' = Append(function_imports, import)
    /\ UNCHANGED <<phase, loaded, program, libraries, runtime_module_list,
                   module_list, nid_to_address_map, called>>

\* The next import of the library: patch its stub, record it.
ImportFunction ==
    /\ phase = "importing"
    /\ Len(libraries) < Len(program)
    /\ Len(function_imports) < Len(Library)
    /\ LET import == Library[Len(function_imports) + 1]
       IN  /\ stubs' = [stubs EXCEPT ![import.entry] = import.nid]
           /\ function_imports' = Append(function_imports, import)
    /\ UNCHANGED <<phase, loaded, program, libraries, runtime_module_list,
                   module_list, nid_to_address_map, called>>

\* The library's tables are done; go on to the next one.
FinishLibrary ==
    /\ phase = "importing"
    /\ Len(libraries) < Len(program)
    /\ Len(function_imports) = Len(Library)
    /\ libraries' = Append(libraries, function_imports)
    /\ function_imports' = <<>>
    /\ UNCHANGED <<phase, loaded, program, stubs, runtime_module_list,
                   module_list, nid_to_address_map, called>>

\* A table, an entry or a variable import is bad: the loader gives up, with
\* the stubs read so far patched and none of them recorded.
ImportFails ==
    /\ phase = "importing"
    /\ Len(libraries) < Len(program)
    /\ phase' = "loaded"
    /\ UNCHANGED <<loaded, program, stubs, libraries, function_imports,
                   runtime_module_list, module_list, nid_to_address_map, called>>

\* Fault: the import tables are taken to end one library early.
FinishModuleEarly ==
    /\ phase = "importing"
    /\ Len(libraries) + 1 = Len(program)
    /\ runtime_module_list' = Append(runtime_module_list, libraries)
    /\ loaded' \in BOOLEAN
    /\ phase' = "loaded"
    /\ UNCHANGED <<program, stubs, libraries, function_imports, module_list,
                   nid_to_address_map, called>>

\* add_runtime_module, and the export table after it, good or bad.
FinishModule ==
    /\ phase = "importing"
    /\ Len(libraries) = Len(program)
    /\ runtime_module_list' = Append(runtime_module_list, libraries)
    /\ loaded' \in BOOLEAN
    /\ phase' = "loaded"
    /\ UNCHANGED <<program, stubs, libraries, function_imports, module_list,
                   nid_to_address_map, called>>

-----------------------------------------------------------------------------
(* hle.cpp, called by main whether the executable was loaded or not *)

InitModules ==
    /\ phase = "loaded"
    /\ module_list' = module_list \o HleModules
    /\ phase' = "initialised"
    /\ UNCHANGED <<loaded, program, stubs, libraries, function_imports,
                   runtime_module_list, nid_to_address_map, called>>

\* Fault: the search ends before the last module.
FunctionForButLast(nid) ==
    LET found == { f \in Functions(Front(module_list)) : module_list[f[1]][f[2]] = nid }
    IN  IF found = {} THEN NoFunction
        ELSE CHOOSE f \in found :
               \A g \in found : f[1] < g[1] \/ (f[1] = g[1] /\ f[2] <= g[2])

\* get_function_from_module_list: the first function of the first module.
FunctionFor(nid) ==
    LET found == { f \in Functions(module_list) : module_list[f[1]][f[2]] = nid }
    IN  IF found = {} THEN NoFunction
        ELSE CHOOSE f \in found :
               \A g \in found : f[1] < g[1] \/ (f[1] = g[1] /\ f[2] <= g[2])

\* Fault: the loops run from the last to the first.
RecordedBackwards == Reverse(FlattenSeq(FlattenSeq(runtime_module_list)))

\* Every import recorded so far, in the order the three loops visit them.
Recorded == FlattenSeq(FlattenSeq(runtime_module_list))

\* A later import of an address replaces an earlier one, and what the map
\* already held stays.
ResolveRuntimeModules ==
    /\ phase = "initialised"
    /\ nid_to_address_map' =
         [ e \in DOMAIN nid_to_address_map
                   \cup { Recorded[i].entry : i \in 1 .. Len(Recorded) } |->
             LET places == { i \in 1 .. Len(Recorded) : Recorded[i].entry = e }
                 last   == CHOOSE i \in places : \A j \in places : j <= i
             IN  IF places = {} THEN nid_to_address_map[e]
                 ELSE [ nid      |-> Recorded[last].nid,
                        function |-> FunctionFor(Recorded[last].nid) ] ]
    /\ phase' = "resolved"
    /\ UNCHANGED <<loaded, program, stubs, libraries, function_imports,
                   runtime_module_list, module_list, called>>

\* Only an executable that was loaded is run.
RunProgram ==
    /\ phase = "resolved"
    /\ phase' = IF loaded THEN "running" ELSE "stopped"
    /\ UNCHANGED <<loaded, program, stubs, libraries, function_imports,
                   runtime_module_list, module_list, nid_to_address_map, called>>

-----------------------------------------------------------------------------
(* handle_svc *)

\* The guest calls a stub: the address of the SVC is looked up, and a known
\* function is run; without one the engine is stopped.
GuestCalls(entry) ==
    /\ phase = "running"
    /\ stubs[entry] # NoNid
    /\ IF entry \in DOMAIN nid_to_address_map
            /\ nid_to_address_map[entry].function # NoFunction
       THEN /\ called' = [ entry    |-> entry,
                           function |-> nid_to_address_map[entry].function ]
            /\ UNCHANGED phase
       ELSE /\ phase' = "stopped"
            /\ UNCHANGED called
    /\ UNCHANGED <<loaded, program, stubs, libraries, function_imports,
                   runtime_module_list, module_list, nid_to_address_map>>

Next ==
    \/ ImportFunction
    \/ FinishLibrary
    \/ ImportFails
    \/ FinishModule
    \/ InitModules
    \/ ResolveRuntimeModules
    \/ RunProgram
    \/ \E entry \in Entries : GuestCalls(entry)

Spec == Init /\ [][Next]_vars

-----------------------------------------------------------------------------
(* Properties *)

\* While the guest runs, the map agrees with guest memory: every stub that was
\* patched is known, under the NID that is written in it, also when two
\* imports share a stub; and its function is null only if no module exports
\* that NID, so nothing was resolved before it was recorded or registered.
StubsAreKnown ==
    phase = "running" =>
        \A e \in Entries :
            IF stubs[e] = NoNid
            THEN e \notin DOMAIN nid_to_address_map
            ELSE /\ e \in DOMAIN nid_to_address_map
                 /\ nid_to_address_map[e].nid = stubs[e]
                 /\ nid_to_address_map[e].function = NoFunction =>
                      \A i \in 1 .. Len(HleModules) : ~ Contains(HleModules[i], stubs[e])

\* A guest call runs a host function of the NID patched into the stub it went
\* through, and a program is stopped only if it names a NID that no HLE module
\* exports.
CallsReachTheirFunction ==
    /\ called # NoCall =>
         HleModules[called.function[1]][called.function[2]] = stubs[called.entry]
    /\ phase = "stopped" /\ loaded =>
         \E e \in Entries : \A i \in 1 .. Len(HleModules) :
             stubs[e] # NoNid /\ ~ Contains(HleModules[i], stubs[e])

\* "To be called to map entries to NIDs, then cleared" (hle.h:52).
RuntimeModulesCleared ==
    phase \in {"resolved", "running"} => runtime_module_list = <<>>
=============================================================================
