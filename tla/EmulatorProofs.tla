--------------------------- MODULE EmulatorProofs ---------------------------
(***************************************************************************)
(* The composition.  Every step of the emulator is a step of the registry, *)
(* of the kernel, of both or of neither, so what is proved of either holds *)
(* in the emulator; and main drives them in the order that the guest needs. *)
(***************************************************************************)
EXTENDS Emulator, TLAPS

\* The two components with what is proved of them.
Registry   == INSTANCE HleDispatchProofs
Scheduling == INSTANCE KernelProofs

-----------------------------------------------------------------------------
(* The components of the emulator are those the proofs are about *)

\* What the proofs assume of the registry's constants.
LEMMA RegistryFacts ==
    /\ Registry!NoNidAssumption
    /\ Registry!ProgramsAssumption
    /\ Registry!HleModulesAssumption
BY RegistryAssumption DEF Hle!NoNid, Hle!Import, Registry!NoNid, Registry!Import

\* What the proofs assume of the kernel's constants.
LEMMA KernelFacts ==
    /\ Scheduling!PagesAssumption
    /\ Scheduling!KernelAssumption
BY KernelAssumption
   DEF Threads!Map, Threads!Page, Threads!Kind, Threads!Access,
       Scheduling!Map, Scheduling!Page, Scheduling!Kind, Scheduling!Access

\* The registry's operations are the same under either name.
LEMMA SameRegistry ==
    /\ Hle!Init => Registry!Init
    /\ Hle!ImportFunction => Registry!ImportFunction
    /\ Hle!FinishLibrary => Registry!FinishLibrary
    /\ Hle!ImportFails => Registry!ImportFails
    /\ Hle!FinishModule => Registry!FinishModule
    /\ Hle!InitModules => Registry!InitModules
    /\ Hle!ResolveRuntimeModules => Registry!ResolveRuntimeModules
    /\ Hle!RunProgram => Registry!RunProgram
    /\ \A e : Hle!GuestCalls(e) => Registry!GuestCalls(e)
<1>1. Hle!Init => Registry!Init
  BY DEF Hle!Init, Hle!NoNid, Hle!NoCall, Hle!NoFunction,
         Registry!Init, Registry!NoNid, Registry!NoCall, Registry!NoFunction
<1>2. Hle!ImportFunction => Registry!ImportFunction
  BY DEF Hle!ImportFunction, Hle!Library, Registry!ImportFunction, Registry!Library
<1>3. Hle!FinishLibrary => Registry!FinishLibrary
  BY DEF Hle!FinishLibrary, Hle!Library, Registry!FinishLibrary, Registry!Library
<1>4. Hle!ImportFails => Registry!ImportFails
  BY DEF Hle!ImportFails, Registry!ImportFails
<1>5. Hle!FinishModule => Registry!FinishModule
  BY DEF Hle!FinishModule, Registry!FinishModule
<1>6. Hle!InitModules => Registry!InitModules
  BY DEF Hle!InitModules, Registry!InitModules
<1>7. ASSUME Hle!ResolveRuntimeModules
      PROVE  Registry!ResolveRuntimeModules
  BY <1>7, Zenon
     DEF Hle!ResolveRuntimeModules, Hle!Recorded, Hle!FlattenSeq, Hle!FunctionFor,
         Hle!Functions, Hle!NoFunction,
         Registry!ResolveRuntimeModules, Registry!Recorded, Registry!FlattenSeq,
         Registry!FunctionFor, Registry!Functions, Registry!NoFunction
<1>8. Hle!RunProgram => Registry!RunProgram
  BY DEF Hle!RunProgram, Registry!RunProgram
<1>9. \A e : Hle!GuestCalls(e) => Registry!GuestCalls(e)
  BY DEF Hle!GuestCalls, Hle!NoNid, Hle!NoFunction,
         Registry!GuestCalls, Registry!NoNid, Registry!NoFunction
<1> QED
  BY <1>1, <1>2, <1>3, <1>4, <1>5, <1>6, <1>7, <1>8, <1>9

\* So are the kernel's.
LEMMA SameKernel ==
    /\ Threads!Init => Scheduling!Init
    /\ Threads!CreateThread => Scheduling!CreateThread
    /\ \A u : Threads!StartThread(u) => Scheduling!StartThread(u)
    /\ Threads!Dispatch => Scheduling!Dispatch
    /\ Threads!Stop => Scheduling!Stop
    /\ Threads!Shutdown => Scheduling!Shutdown
    /\ Threads!GuestRuns => Scheduling!GuestRuns
    /\ Threads!GuestStep => Scheduling!GuestStep
    /\ Threads!GuestReturn => Scheduling!GuestReturn
    /\ \A k, v : Threads!Answer(k, v) => Scheduling!Answer(k, v)
    /\ Threads!SvcGetThreadId => Scheduling!SvcGetThreadId
    /\ Threads!SvcGetTLSAddr => Scheduling!SvcGetTLSAddr
    /\ Threads!SvcAllocMemBlock => Scheduling!SvcAllocMemBlock
<1>1. Threads!Init => Scheduling!Init
  BY DEF Threads!Init, Threads!Uid, Threads!None, Threads!Cleared, Threads!NoValue,
         Scheduling!Init, Scheduling!Uid, Scheduling!None, Scheduling!Cleared,
         Scheduling!NoValue
<1>2. Threads!CreateThread => Scheduling!CreateThread
  BY DEF Threads!CreateThread, Threads!None, Threads!Cleared, Threads!NoValue,
         Scheduling!CreateThread, Scheduling!None, Scheduling!Cleared, Scheduling!NoValue
<1>3. ASSUME NEW list, NEW kind, NEW k
      PROVE  Threads!Allocations(list, kind, k) = Scheduling!Allocations(list, kind, k)
  BY Zenon
     DEF Threads!Allocations, Threads!MemorySize, Threads!MoreMemory, Threads!NoAddress,
         Threads!MapMemory, Threads!Block, Threads!ReadWrite, Threads!Found, Threads!Gaps,
         Threads!FirstGap, Threads!Remaining, Threads!PagedAfter, Threads!TopAddress,
         Threads!Raise, Threads!InsertAt,
         Scheduling!Allocations, Scheduling!MemorySize, Scheduling!MoreMemory,
         Scheduling!NoAddress, Scheduling!MapMemory, Scheduling!Block,
         Scheduling!ReadWrite, Scheduling!Found, Scheduling!Gaps, Scheduling!FirstGap,
         Scheduling!Remaining, Scheduling!PagedAfter, Scheduling!TopAddress,
         Scheduling!Raise, Scheduling!InsertAt
<1> DEFINE Started(u, stackTop, tlsLowAddress) ==
             [objects EXCEPT ![u].status = "ready",
                             ![u].stackTop = stackTop,
                             ![u].tlsLowAddress = tlsLowAddress,
                             ![u].context.owner = u,
                             ![u].context.steps = 0,
                             ![u].context.returned = FALSE]
<1>4. ASSUME NEW u, Threads!StartThread(u)
      PROVE  Scheduling!StartThread(u)
  <2>1. Threads!TlsSize = Scheduling!TlsSize
    BY DEF Threads!TlsSize, Scheduling!TlsSize
  <2>2. PICK stack \in Threads!Allocations(maps, "stack", objects[u].stackSize) :
          \E tls \in Threads!Allocations(stack[1], "heap", Threads!TlsSize) :
            /\ maps' = tls[1]
            /\ objects' = Started(u, stack[2], tls[2])
    BY <1>4 DEF Threads!StartThread
  <2>3. /\ stack \in Scheduling!Allocations(maps, "stack", objects[u].stackSize)
        /\ \E tls \in Scheduling!Allocations(stack[1], "heap", Scheduling!TlsSize) :
             /\ maps' = tls[1]
             /\ objects' = Started(u, stack[2], tls[2])
    BY <1>3, <2>1, <2>2, Zenon
  <2> QED
    BY <1>4, <2>3, ZenonT(60) DEF Threads!StartThread, Scheduling!StartThread
<1>5. ASSUME NEW list, NEW set
      PROVE  Threads!Selected(list, set) = Scheduling!Selected(list, set)
  BY Zenon DEF Threads!Selected, Scheduling!Selected
<1>6. Threads!Fetched = Scheduling!Fetched
      /\ Threads!QueueAfterFetch = Scheduling!QueueAfterFetch
  <2>1. Threads!Refilled = Scheduling!Refilled
    BY <1>5, Zenon DEF Threads!Refilled, Threads!ReadyList, Scheduling!Refilled, Scheduling!ReadyList
  <2>2. ASSUME NEW queue
        PROVE  Threads!LastPopped(queue) = Scheduling!LastPopped(queue)
    BY Zenon DEF Threads!LastPopped, Scheduling!LastPopped
  <2> QED
    BY <2>1, <2>2, Zenon DEF Threads!Fetched, Threads!QueueAfterFetch, Threads!None,
                      Scheduling!Fetched, Scheduling!QueueAfterFetch, Scheduling!None
<1>7. Threads!Dispatch => Scheduling!Dispatch
  BY <1>6, Zenon DEF Threads!Dispatch, Threads!None, Scheduling!Dispatch, Scheduling!None
<1>8. Threads!Stop => Scheduling!Stop
  BY DEF Threads!Stop, Scheduling!Stop
<1>9. Threads!Shutdown => Scheduling!Shutdown
  BY <1>5, Zenon DEF Threads!Shutdown, Threads!Uid, Scheduling!Shutdown, Scheduling!Uid
<1>10. Threads!GuestRuns => Scheduling!GuestRuns
  BY DEF Threads!GuestRuns, Scheduling!GuestRuns
<1>11. Threads!GuestStep => Scheduling!GuestStep
  BY <1>10 DEF Threads!GuestStep, Scheduling!GuestStep
<1>12. Threads!GuestReturn => Scheduling!GuestReturn
  BY <1>10 DEF Threads!GuestReturn, Scheduling!GuestReturn
<1>13. \A k, v : Threads!Answer(k, v) => Scheduling!Answer(k, v)
  BY DEF Threads!Answer, Scheduling!Answer
<1>14. Threads!SvcGetThreadId => Scheduling!SvcGetThreadId
  BY <1>10, <1>13 DEF Threads!SvcGetThreadId, Scheduling!SvcGetThreadId
<1>15. Threads!SvcGetTLSAddr => Scheduling!SvcGetTLSAddr
  BY <1>10, <1>13 DEF Threads!SvcGetTLSAddr, Scheduling!SvcGetTLSAddr
<1>16. Threads!SvcAllocMemBlock => Scheduling!SvcAllocMemBlock
  BY <1>3, <1>10, <1>13 DEF Threads!SvcAllocMemBlock, Scheduling!SvcAllocMemBlock
<1> QED
  BY <1>1, <1>2, <1>4, <1>7, <1>8, <1>9, <1>10, <1>11, <1>12, <1>13, <1>14, <1>15, <1>16
-----------------------------------------------------------------------------
(* Steps of the emulator are steps of its parts *)

\* Every step of the emulator is a step of HleDispatch, or leaves the registry alone.
LEMMA RegistryStep ==
    ASSUME [Next]_vars
    PROVE  [Registry!Next]_registry
<1>1. CASE Main
  <2>1. CASE SetUp
    BY <2>1, SameRegistry DEF SetUp, Registry!Next
  <2>2. CASE OpenEngine
    BY <2>2, SameRegistry DEF OpenEngine, Registry!Next
  <2>3. CASE EngineFails \/ CreateEntryThread \/ StartEntryThread \/ RunEntryThread
             \/ DeleteKernel
    BY <2>3, Zenon DEF EngineFails, CreateEntryThread, StartEntryThread,
                       RunEntryThread, DeleteKernel
  <2> QED
    BY <1>1, <2>1, <2>2, <2>3 DEF Main
<1>2. CASE ReturnFromRun \/ GuestComputes
  BY <1>2, Zenon DEF ReturnFromRun, GuestComputes, registry
<1>3. ASSUME NEW entry \in Entries,
             GuestCalls(entry) \/ GuestCallsNothing(entry) \/ GuestCallThrows(entry)
      PROVE  Registry!Next
  BY <1>3, SameRegistry
     DEF GuestCalls, GuestCallsNothing, GuestCallThrows, Registry!Next
<1>4. CASE UNCHANGED vars
  BY <1>4 DEF vars
<1> QED
  BY <1>1, <1>2, <1>3, <1>4 DEF Next

\* A function of another NID leaves in r0 what sceKernelGetTLSAddr leaves there
\* for a bad key.
LEMMA OtherCallStep ==
    ASSUME Threads!GuestRuns, NEW nid, CallKernel(nid)
    PROVE  \/ Scheduling!SvcAllocMemBlock
           \/ Scheduling!SvcGetThreadId
           \/ Scheduling!SvcGetTLSAddr
<1>1. CASE nid \in {AllocMemBlock, GetThreadId, GetTLSAddr}
  BY <1>1, NidsAssumption, SameKernel DEF CallKernel
<1>2. CASE nid \notin {AllocMemBlock, GetThreadId, GetTLSAddr}
  <2>1. Threads!Answer("none", 0) /\ UNCHANGED maps
    BY <1>2 DEF CallKernel
  <2> QED
    BY <2>1, SameKernel DEF Scheduling!SvcGetTLSAddr
<1> QED
  BY <1>1, <1>2

\* Every step of the emulator is a step of Kernel, or leaves the kernel alone.
LEMMA KernelStep ==
    ASSUME Scheduling!KernelInv, [Next]_vars
    PROVE  [Scheduling!Next]_kernel
<1>1. CASE Main
  <2>1. CASE SetUp \/ OpenEngine \/ EngineFails
    BY <2>1, Zenon DEF SetUp, OpenEngine, EngineFails
  <2>2. CASE CreateEntryThread
    BY <2>2, SameKernel DEF CreateEntryThread, Scheduling!Next
  <2>3. CASE StartEntryThread
    <3>1. PICK thid \in DOMAIN objects : Threads!StartThread(thid)
      BY <2>3 DEF StartEntryThread
    <3>2. thid \in Scheduling!Uid
      BY DEF Scheduling!KernelInv, Scheduling!TypeOK
    <3> QED
      BY <3>1, <3>2, SameKernel DEF Scheduling!Next
  <2>4. CASE RunEntryThread
    BY <2>4, SameKernel DEF RunEntryThread, Scheduling!Next
  <2>5. CASE DeleteKernel
    BY <2>5, SameKernel DEF DeleteKernel, Scheduling!Next
  <2> QED
    BY <1>1, <2>1, <2>2, <2>3, <2>4, <2>5 DEF Main
<1>2. CASE ReturnFromRun
  BY <1>2, SameKernel DEF ReturnFromRun, Scheduling!Next
<1>3. CASE GuestComputes
  BY <1>3, SameKernel DEF GuestComputes, Scheduling!Next
<1>4. ASSUME NEW entry \in Entries, GuestCalls(entry)
      PROVE  Scheduling!Next
  <2>1. Threads!GuestRuns
        /\ CallKernel(module_list[called'.function[1]][called'.function[2]])
    BY <1>4 DEF GuestCalls
  <2> QED
    BY <2>1, OtherCallStep DEF Scheduling!Next
<1>5. ASSUME NEW entry \in Entries,
             GuestCallsNothing(entry) \/ GuestCallThrows(entry)
      PROVE  UNCHANGED kernel
  BY <1>5 DEF GuestCallsNothing, GuestCallThrows
<1>6. CASE UNCHANGED vars
  BY <1>6 DEF vars
<1> QED
  BY <1>1, <1>2, <1>3, <1>4, <1>5, <1>6 DEF Next

\* The emulator runs the registry as HleDispatch has it ...
THEOREM RunsTheRegistry == Spec => Registry!Spec
<1>1. Init => Registry!Init
  BY SameRegistry DEF Init
<1>2. [Next]_vars => [Registry!Next]_(Registry!vars)
  BY RegistryStep DEF registry, Registry!vars
<1> QED
  BY <1>1, <1>2, PTL DEF Spec, Registry!Spec

\* The kernel's invariant holds in the emulator.
LEMMA KernelInvHolds == Spec => []Scheduling!KernelInv
<1>1. Init => Scheduling!KernelInv
  BY SameKernel, KernelFacts, Scheduling!KernelInvInit DEF Init
<1>2. Scheduling!KernelInv /\ [Next]_vars => Scheduling!KernelInv'
  BY KernelStep, KernelFacts, Scheduling!KernelInvNext DEF kernel, Scheduling!vars
<1> QED
  BY <1>1, <1>2, PTL DEF Spec

\* ... and the kernel as Kernel has it.
THEOREM RunsTheKernel == Spec => Scheduling!Spec
<1>1. Init => Scheduling!Init
  BY SameKernel DEF Init
<1>2. Scheduling!KernelInv /\ [Next]_vars => [Scheduling!Next]_(Scheduling!vars)
  BY KernelStep DEF kernel, Scheduling!vars
<1> QED
  BY <1>1, <1>2, KernelInvHolds, PTL DEF Spec, Scheduling!Spec

\* The registry's invariant holds in the emulator.
LEMMA RegistryInvHolds == Spec => []Registry!HleInv
BY RunsTheRegistry, RegistryFacts, Registry!HleInvAlways, PTL

-----------------------------------------------------------------------------
(* Where main is, and the answers *)

\* What main's place says of the registry and of the host thread.
HostFollowsMain ==
    /\ stage = "setup" => phase \notin {"running", "stopped"}
    /\ stage \in {"create", "start", "run"} => phase = "running" /\ called = Hle!NoCall
    /\ stage \in {"create", "start", "run", "guest", "terminated"} => loaded
    /\ host = "running" =>
         stage \in {"guest", "terminated"} /\ phase \in {"running", "stopped"}

EmulatorInv == HostFollowsMain /\ AnswersFitTheStub

\* The constants that the two names of a component both have.
LEMMA SameConstants ==
    Registry!NoNid = Hle!NoNid /\ Registry!NoCall = Hle!NoCall
BY DEF Hle!NoNid, Registry!NoNid, Hle!NoCall, Registry!NoCall,
       Hle!NoFunction, Registry!NoFunction

\* Before main has done anything the invariant holds.
LEMMA EmulatorInvInit == Init => EmulatorInv
BY DEF Init, EmulatorInv, HostFollowsMain, AnswersFitTheStub, Hle!Init, Threads!Init

\* Every step of main keeps the invariant.
LEMMA MainStep ==
    ASSUME EmulatorInv, Registry!HleInv, Scheduling!KernelInv, Main
    PROVE  EmulatorInv'
<1>1. CASE SetUp
  <2>1. stage = "setup" /\ stage' = "setup" /\ phase' \notin {"running", "stopped"}
        /\ UNCHANGED kernel
    BY <1>1 DEF SetUp, Hle!ImportFunction, Hle!FinishLibrary, Hle!ImportFails,
                Hle!FinishModule, Hle!InitModules, Hle!ResolveRuntimeModules
  <2> QED
    BY <2>1 DEF EmulatorInv, HostFollowsMain, AnswersFitTheStub, kernel
<1>2. CASE OpenEngine
  <2>1. stage = "setup" /\ phase = "resolved" /\ called = Registry!NoCall
    BY <1>2 DEF OpenEngine, Hle!RunProgram, Registry!HleInv, Registry!CallWasKnown
  <2> QED
    BY <1>2, <2>1, SameConstants
       DEF OpenEngine, Hle!RunProgram, EmulatorInv, HostFollowsMain,
           AnswersFitTheStub, kernel
<1>3. CASE EngineFails
  BY <1>3 DEF EngineFails, EmulatorInv, HostFollowsMain, AnswersFitTheStub, kernel,
              registry
<1>4. CASE CreateEntryThread
  BY <1>4 DEF CreateEntryThread, Threads!CreateThread, EmulatorInv, HostFollowsMain,
              AnswersFitTheStub, registry
<1>5. CASE StartEntryThread
  BY <1>5 DEF StartEntryThread, Threads!StartThread, EmulatorInv, HostFollowsMain,
              AnswersFitTheStub, registry
<1>6. CASE RunEntryThread
  <2>1. stage = "run" /\ host = "idle" /\ host' \in {"idle", "running"}
    BY <1>6 DEF RunEntryThread, Threads!Dispatch
  <2> QED
    BY <1>6, <2>1
       DEF RunEntryThread, EmulatorInv, HostFollowsMain, AnswersFitTheStub, registry
<1>7. CASE DeleteKernel
  BY <1>7 DEF DeleteKernel, Threads!Shutdown, EmulatorInv, HostFollowsMain,
              AnswersFitTheStub
<1> QED
  BY <1>1, <1>2, <1>3, <1>4, <1>5, <1>6, <1>7 DEF Main

\* The function that handle_svc runs is that of the NID in the stub, and the
\* thread it runs for is the one in the engine.
LEMMA GuestCallsAnswer ==
    ASSUME EmulatorInv, Registry!HleInv, Scheduling!KernelInv, Registry!HleInv',
           NEW entry \in Entries, GuestCalls(entry)
    PROVE  EmulatorInv'
<1> DEFINE nid == stubs[entry]
<1>1. /\ stage = "guest" /\ stage' = stage /\ phase = "running" /\ phase' = "running"
      /\ host = "running"
      /\ stubs' = stubs /\ module_list' = module_list /\ loaded' = loaded
      /\ entry \in DOMAIN nid_to_address_map
      /\ called' = [entry    |-> entry,
                    function |-> nid_to_address_map[entry].function]
      /\ nid_to_address_map[entry].function # Hle!NoFunction
  BY DEF GuestCalls, InEngine, Hle!GuestCalls, Threads!GuestRuns
<1>2. /\ module_list = HleModules
      /\ called'.entry = entry
      /\ called' # Hle!NoCall
  <2>1. called'.function # Hle!NoCall.function
    BY <1>1 DEF Hle!NoCall
  <2> QED
    BY <1>1, <2>1 DEF Registry!HleInv, Registry!MapIsResolved
<1>3. module_list[called'.function[1]][called'.function[2]] = nid
  <2>1. Registry!CallsReachTheirFunction'
    BY DEF Registry!HleInv
  <2> QED
    BY <1>1, <1>2, <2>1, SameConstants DEF Registry!CallsReachTheirFunction
<1>4. regs.owner = current_thread
  BY <1>1 DEF Scheduling!KernelInv, Scheduling!SvcSeesItsThread
<1>5. ASSUME NEW kind, NEW value, Threads!Answer(kind, value)
      PROVE  /\ regs'.r0 = [kind |-> kind, value |-> value]
             /\ regs'.owner = regs.owner
             /\ objects' = objects /\ host' = host
  BY <1>5 DEF Threads!Answer, Scheduling!KernelInv, Scheduling!TypeOK, Scheduling!Context
<1>6. AnswersFitTheStub'
  <2>1. CallKernel(nid) /\ stubs'[called'.entry] = nid
    BY <1>1, <1>2, <1>3 DEF GuestCalls
  <2>2. CASE nid = GetThreadId
    <3>1. Threads!Answer("uid", current_thread)
      BY <2>1, <2>2, NidsAssumption DEF CallKernel, Threads!SvcGetThreadId
    <3>2. regs'.r0 = [kind |-> "uid", value |-> current_thread] /\ regs'.owner = regs.owner
      BY <3>1, <1>5
    <3> QED
      BY <2>1, <1>4, <2>2, <3>2, NidsAssumption DEF AnswersFitTheStub
  <2>3. CASE nid = GetTLSAddr
    <3>1. \/ Threads!Answer("tls", objects[current_thread].tlsLowAddress)
          \/ Threads!Answer("none", 0)
      BY <2>1, <2>3, NidsAssumption DEF CallKernel, Threads!SvcGetTLSAddr
    <3>2. /\ \/ regs'.r0 = [kind |-> "tls", value |-> objects[current_thread].tlsLowAddress]
             \/ regs'.r0 = [kind |-> "none", value |-> 0]
          /\ regs'.owner = regs.owner /\ objects' = objects
      BY <3>1, <1>5
    <3>3. \/ regs'.r0 = [kind |-> "tls", value |-> objects'[regs'.owner].tlsLowAddress]
          \/ regs'.r0.kind = "none"
      BY <1>4, <3>2
    <3> QED
      BY <2>1, <2>3, <3>3, NidsAssumption DEF AnswersFitTheStub
  <2>4. CASE nid \notin {GetThreadId, GetTLSAddr}
    <3>1. Threads!Answer("none", 0)
      BY <2>1, <2>4 DEF CallKernel, Threads!SvcAllocMemBlock
    <3>2. regs'.r0 = [kind |-> "none", value |-> 0]
      BY <3>1, <1>5
    <3> QED
      BY <2>1, <2>4, <3>2 DEF AnswersFitTheStub
  <2> QED
    BY <2>2, <2>3, <2>4
<1>7. HostFollowsMain'
  BY <1>1 DEF EmulatorInv, HostFollowsMain
<1> QED
  BY <1>6, <1>7 DEF EmulatorInv

\* Every step, of main or of the guest, keeps the invariant.
LEMMA EmulatorInvNext ==
    ASSUME EmulatorInv, Registry!HleInv, Scheduling!KernelInv, Registry!HleInv',
           [Next]_vars
    PROVE  EmulatorInv'
<1>1. CASE Main
  BY <1>1, MainStep
<1>2. CASE ReturnFromRun
  BY <1>2 DEF ReturnFromRun, Threads!Stop, EmulatorInv, HostFollowsMain,
              AnswersFitTheStub, registry
<1>3. CASE GuestComputes
  <2>1. /\ UNCHANGED <<stage, registry, objects, host>>
        /\ regs'.r0 = regs.r0 /\ regs'.owner = regs.owner
    BY <1>3 DEF GuestComputes, Threads!GuestStep, Threads!GuestReturn,
                Scheduling!KernelInv, Scheduling!TypeOK, Scheduling!Context
  <2> QED
    BY <2>1 DEF EmulatorInv, HostFollowsMain, AnswersFitTheStub, registry
<1>4. ASSUME NEW entry \in Entries, GuestCalls(entry)
      PROVE  EmulatorInv'
  BY <1>4, GuestCallsAnswer
<1>5. ASSUME NEW entry \in Entries, GuestCallsNothing(entry)
      PROVE  EmulatorInv'
  <2>1. /\ stage = "guest" /\ stage' = stage /\ phase' = "stopped"
        /\ called' = called /\ stubs' = stubs /\ loaded' = loaded
        /\ UNCHANGED kernel
    BY <1>5 DEF GuestCallsNothing, InEngine, Hle!GuestCalls
  <2> QED
    BY <2>1 DEF EmulatorInv, HostFollowsMain, AnswersFitTheStub, kernel
<1>6. ASSUME NEW entry \in Entries, GuestCallThrows(entry)
      PROVE  EmulatorInv'
  <2>1. /\ stage = "guest" /\ stage' = "terminated" /\ phase' = "running"
        /\ loaded' = loaded /\ UNCHANGED kernel
    BY <1>6 DEF GuestCallThrows, InEngine, Hle!GuestCalls
  <2> QED
    BY <2>1 DEF EmulatorInv, HostFollowsMain, AnswersFitTheStub, kernel
<1>7. CASE UNCHANGED vars
  BY <1>7 DEF vars, registry, kernel, EmulatorInv, HostFollowsMain, AnswersFitTheStub
<1> QED
  BY <1>1, <1>2, <1>3, <1>4, <1>5, <1>6, <1>7 DEF Next

\* The invariant holds in every reachable state, given those of the two parts.
LEMMA EmulatorInvAlways == Spec => []EmulatorInv
<1>1. /\ EmulatorInv /\ Registry!HleInv /\ Registry!HleInv' /\ Scheduling!KernelInv
      /\ [Next]_vars
      => EmulatorInv'
  BY EmulatorInvNext
<1> QED
  BY <1>1, EmulatorInvInit, RegistryInvHolds, KernelInvHolds, PTL DEF Spec

\* The guest is in the engine only when the registry is complete and what it
\* belongs to was loaded: no order of main's failures leads elsewhere.
THEOREM GuestRunsResolvedAlways == Spec => []GuestRunsResolved
<1>1. EmulatorInv /\ Registry!HleInv => GuestRunsResolved
  BY SameConstants
     DEF EmulatorInv, HostFollowsMain, Registry!HleInv, Registry!MapIsResolved,
         GuestRunsResolved
<1> QED
  BY <1>1, EmulatorInvAlways, RegistryInvHolds, PTL

\* What a guest call leaves in r0 is the answer of the function of the NID in
\* its stub, given for the thread that made the call.
THEOREM AnswersFitAlways == Spec => []AnswersFitTheStub
<1>1. EmulatorInv => AnswersFitTheStub
  BY DEF EmulatorInv
<1> QED
  BY <1>1, EmulatorInvAlways, PTL

\* What is proved of the kernel's threads holds of the guest's as main runs
\* them; so here, that no page of a thread's blocks is another's.
THEOREM GuestBlocksArePrivate ==
    Scheduling!ModestStart => (Spec => []Scheduling!BlocksArePrivate)
BY RunsTheKernel, KernelFacts, Scheduling!BlocksArePrivateAlways, PTL
=============================================================================
