------------------------------ MODULE Emulator ------------------------------
(***************************************************************************)
(* main, and the parts it drives on the host's one thread: the loader and  *)
(* the HLE registry (HleDispatch) before the guest runs, the kernel        *)
(* (Kernel) to run it, and handle_svc, which the engine calls back from    *)
(* within run_single_thread_with_events and which takes a guest call       *)
(* through the registry to the kernel.                                     *)
(*                                                                         *)
(* The maps that the loader and the boot code leave are InitialMaps; how   *)
(* they come about is the subject of AddressSpace.                         *)
(***************************************************************************)
EXTENDS Integers, Sequences

CONSTANTS
    Nids, Entries, Programs, HleModules,            \* of HleDispatch
    Pages, HeapBase, FirstUid, InitialMaps, StackSizes, HeapSizes,
    MaxUid, MaxSteps, MaxMaps,                      \* of Kernel
    AllocMemBlock,      \* the NID of sceKernelAllocMemBlock,
    GetThreadId,        \* of sceKernelGetThreadId
    GetTLSAddr          \* and of sceKernelGetTLSAddr

ASSUME NidsAssumption ==
    /\ {AllocMemBlock, GetThreadId, GetTLSAddr} \subseteq Nids
    /\ AllocMemBlock # GetThreadId /\ AllocMemBlock # GetTLSAddr
    /\ GetThreadId # GetTLSAddr

VARIABLES
    stage,          \* where main is
    phase, loaded, program, stubs, libraries, function_imports,
    runtime_module_list, module_list, nid_to_address_map, called,
    objects, thread_list, ready_threads_queue, uid_value, current_thread,
    host, regs, maps, work

registry == <<phase, loaded, program, stubs, libraries, function_imports,
              runtime_module_list, module_list, nid_to_address_map, called>>
kernel   == <<objects, thread_list, ready_threads_queue, uid_value,
              current_thread, host, regs, maps, work>>
vars     == <<stage, registry, kernel>>

Hle     == INSTANCE HleDispatch
Threads == INSTANCE Kernel

\* What the two modules assume of their constants.
ASSUME RegistryAssumption ==
    /\ Hle!NoNid \notin Nids
    /\ Programs \subseteq Seq(Seq(Hle!Import))
    /\ HleModules \in Seq(Seq(Nids))

ASSUME KernelAssumption ==
    /\ Pages \in Nat /\ Pages > 8 /\ Pages % 2 = 0
    /\ HeapBase \in 1 .. Pages - 1
    /\ FirstUid \in Nat \ {0} /\ MaxUid \in Nat /\ FirstUid <= MaxUid
    /\ InitialMaps \in Seq(Threads!Map) /\ InitialMaps # <<>>
    /\ StackSizes \subseteq Threads!Page /\ HeapSizes \subseteq Threads!Page
    /\ MaxSteps \in Nat /\ MaxMaps \in Nat

Init ==
    /\ stage = "setup"
    /\ Hle!Init
    /\ Threads!Init

-----------------------------------------------------------------------------
(* main *)

\* The executable is loaded, the HLE modules are listed, and its imports are
\* resolved, if it was loaded or not.
SetUp ==
    /\ stage = "setup"
    /\ \/ Hle!ImportFunction
       \/ Hle!FinishLibrary
       \/ Hle!ImportFails
       \/ Hle!FinishModule
       \/ Hle!InitModules
       \/ Hle!ResolveRuntimeModules
    /\ UNCHANGED <<stage, kernel>>

\* Fault: what load_self_to_memory returned is not looked at.
OpenEngineUnchecked ==
    /\ stage = "setup"
    /\ phase = "resolved"
    /\ phase' = "running"
    /\ stage' = "create"
    /\ UNCHANGED <<loaded, program, stubs, libraries, function_imports,
                   runtime_module_list, module_list, nid_to_address_map, called,
                   kernel>>

\* Only what was loaded gets an engine.
OpenEngine ==
    /\ stage = "setup"
    /\ Hle!RunProgram
    /\ stage' = IF loaded THEN "create" ELSE "delete"
    /\ UNCHANGED kernel

\* uc_open fails.
EngineFails ==
    /\ stage = "setup"
    /\ phase = "resolved"
    /\ loaded
    /\ stage' = "delete"
    /\ UNCHANGED <<registry, kernel>>

CreateEntryThread ==
    /\ stage = "create"
    /\ Threads!CreateThread
    /\ stage' = "start"
    /\ UNCHANGED registry

\* Fault: the thread is created and never started.
StartNothing ==
    /\ stage = "start"
    /\ stage' = "run"
    /\ UNCHANGED <<registry, kernel>>

\* thid is the one thread there is.
StartEntryThread ==
    /\ stage = "start"
    /\ \E thid \in DOMAIN objects : Threads!StartThread(thid)
    /\ stage' = "run"
    /\ UNCHANGED registry

\* main's one call of run_single_thread_with_events; it returns at once if
\* there is no thread to run.
RunEntryThread ==
    /\ stage = "run"
    /\ Threads!Dispatch
    /\ stage' = IF host' = "running" THEN "guest" ELSE "delete"
    /\ UNCHANGED registry

\* Fault: main calls it until nothing is READY.
ReturnToRun ==
    /\ stage = "guest"
    /\ Threads!Stop
    /\ stage' = "run"
    /\ UNCHANGED registry

\* The engine has stopped: run_single_thread_with_events goes on, and returns.
ReturnFromRun ==
    /\ stage = "guest"
    /\ Threads!Stop
    /\ stage' = "delete"
    /\ UNCHANGED registry

DeleteKernel ==
    /\ stage = "delete"
    /\ Threads!Shutdown
    /\ stage' = "done"
    /\ UNCHANGED registry

-----------------------------------------------------------------------------
(* The guest, in the engine *)

\* After uc_emu_stop the engine makes no further step.
InEngine == stage = "guest" /\ phase = "running"

GuestComputes ==
    /\ InEngine
    /\ Threads!GuestStep \/ Threads!GuestReturn
    /\ UNCHANGED <<stage, registry>>

\* What the function of a NID asks of the kernel; those of the other NIDs
\* leave something in r0 that is no answer of the kernel.
CallKernel(nid) ==
    \/ nid = AllocMemBlock /\ Threads!SvcAllocMemBlock
    \/ nid = GetThreadId /\ Threads!SvcGetThreadId
    \/ nid = GetTLSAddr /\ Threads!SvcGetTLSAddr
    \/ /\ nid \notin {AllocMemBlock, GetThreadId, GetTLSAddr}
       /\ Threads!Answer("none", 0)
       /\ UNCHANGED maps

\* handle_svc: the function that the registry has for the stub is run for the
\* thread in the engine.
GuestCalls(entry) ==
    /\ InEngine
    /\ Threads!GuestRuns
    /\ Hle!GuestCalls(entry)
    /\ phase' = "running"
    /\ CallKernel(module_list[called'.function[1]][called'.function[2]])
    /\ UNCHANGED stage

\* handle_svc without a function: the engine is told to stop.
GuestCallsNothing(entry) ==
    /\ InEngine
    /\ Threads!GuestRuns
    /\ Hle!GuestCalls(entry)
    /\ phase' = "stopped"
    /\ UNCHANGED <<stage, kernel>>

\* sceKernelAllocMemBlock with a name at no mapped address: the exception of
\* std::string's constructor is caught nowhere.
GuestCallThrows(entry) ==
    /\ InEngine
    /\ Threads!GuestRuns
    /\ Hle!GuestCalls(entry)
    /\ phase' = "running"
    /\ module_list[called'.function[1]][called'.function[2]] = AllocMemBlock
    /\ stage' = "terminated"
    /\ UNCHANGED kernel

Main ==
    \/ SetUp
    \/ OpenEngine
    \/ EngineFails
    \/ CreateEntryThread
    \/ StartEntryThread
    \/ RunEntryThread
    \/ DeleteKernel

Next ==
    \/ Main
    \/ ReturnFromRun
    \/ GuestComputes
    \/ \E entry \in Entries :
         GuestCalls(entry) \/ GuestCallsNothing(entry) \/ GuestCallThrows(entry)

\* The engine returns to the host when it was told to stop, and when the guest
\* has jumped to where nothing is mapped.
EngineStops == (phase = "stopped" \/ regs.returned) /\ ReturnFromRun

\* main is straight-line code on the host's only thread, so it goes on; and so
\* does the engine once it has stopped.  The guest is owed no progress, nor is
\* the host while the guest runs: run_cpu_for ignores its instruction count.
Fairness == WF_vars(Main) /\ WF_vars(EngineStops)

Spec == Init /\ [][Next]_vars /\ Fairness

-----------------------------------------------------------------------------
(* Properties *)

\* The guest is never in the engine before the registry is complete: every
\* stub it can call is known under the NID that stands in guest memory, and
\* the executable it belongs to was loaded.
GuestRunsResolved ==
    host = "running" =>
        /\ loaded
        /\ \A e \in Entries : stubs[e] # Hle!NoNid =>
             /\ e \in DOMAIN nid_to_address_map
             /\ nid_to_address_map[e].nid = stubs[e]

\* A call goes to the function of the NID in the stub, and for the thread that
\* made it: what is in r0 after the last call is that function's answer, and
\* it names the caller or the caller's own TLS block.
AnswersFitTheStub ==
    stage = "guest" /\ called # Hle!NoCall =>
        LET nid == stubs[called.entry]
            own == objects[regs.owner]
        IN  CASE nid = GetThreadId -> regs.r0 = [kind |-> "uid", value |-> regs.owner]
              [] nid = GetTLSAddr  -> \/ regs.r0 = [kind |-> "tls", value |-> own.tlsLowAddress]
                                      \/ regs.r0.kind = "none"
              [] OTHER             -> regs.r0.kind = "none"

\* A program for which an engine was opened is run.
EntryThreadRuns == stage = "create" ~> host = "running"

\* main comes to its end and leaves no thread behind, however loading or the
\* guest went wrong, unless the guest runs for ever or the process is ended
\* by an exception.
MainEnds ==
    <>[](stage = "guest" /\ phase = "running")
      \/ <>(stage = "terminated")
      \/ <>(stage = "done" /\ objects = << >>)
=============================================================================
