--------------------------- MODULE DriverExerciser ---------------------------
(***************************************************************************)
(* The S2E plugins that exercise a Windows driver: WindowsDriverExerciser *)
(* (module load/unload, DriverEntry and its return) and NtoskrnlHandlers  *)
(* (the kernel-module tracking and the IRP dispatch annotations).  Both   *)
(* listen to the same WindowsMonitor signals, so a guest module load or   *)
(* unload is one step running both handlers.                               *)
(*                                                                         *)
(* The world is the plugins' own members, which are shared by every S2E   *)
(* execution state, and per state: its status, the guest modules loaded   *)
(* in it, the FunctionMonitor registrations made in it, and whether        *)
(* symbolic execution is on.  Framework calls whose code is outside this  *)
(* repository (forking, StateManager's success barrier, the concrete      *)
(* reads, NtSuccess) are nondeterministic choices among their outcomes.   *)
(***************************************************************************)
EXTENDS FiniteSets

CONSTANTS
  States,         \* execution-state slots
  Mods,           \* guest modules that can be loaded
  Tracked,        \* modules listed in moduleIds (m_modules)
  WithEntry,      \* modules whose descriptor has an EntryPoint
  Kernel,         \* "ntoskrnl.exe"
  Irps,           \* IRP major function numbers
  UnloadAction,   \* "kill" or "succeed"
  NtosPlugin,     \* the NtoskrnlHandlers plugin is configured
  DriverIrps      \* the IRP majors the driver's DriverEntry fills in

VARIABLES
  st,             \* per state: [status, loaded, entry, called, ret, irps, symbex]
  loadedModules,  \* WindowsDriverExerciser::m_loadedModules
  ntLoaded,       \* NtoskrnlHandlers::m_loaded
  entryResult,    \* history: the NtSuccess outcome DriverEntry returned, per state
  objRead         \* history: whether the DRIVER_OBJECT could be read, per state

vars == <<st, loadedModules, ntLoaded, entryResult, objRead>>

Free == [status |-> "free", loaded |-> {}, entry |-> {}, called |-> {},
         ret |-> "none", irps |-> {}, symbex |-> FALSE]

Running(s) == st[s].status = "running"

\* terminateStateEarly: the state is killed; the call does not return.
Kill(st0, s) == [st0 EXCEPT ![s].status = "ended", ![s].ret = "none"]

\* StateManager::succeedState: the state waits at the success barrier.
Succeed(st0, s) == [st0 EXCEPT ![s].status = "succeeded", ![s].ret = "none"]

\* NtoskrnlHandlers::initialize: m_loaded is cleared; its load and unload
\* handlers are connected to WindowsMonitor (ModuleLoad, ModuleUnload).
NtInitialize == ntLoaded = FALSE

Init ==
  /\ \E s0 \in States :
       st = [s \in States |-> IF s = s0 THEN [Free EXCEPT !.status = "running"]
                              ELSE Free]
  /\ loadedModules = {}
  /\ NtInitialize
  /\ entryResult = [s \in States |-> "none"]
  /\ objRead = [s \in States |-> "none"]

(***************************************************************************)
(* WindowsDriverExerciser::onModuleLoad on st0: untracked modules and     *)
(* modules already in m_loadedModules are skipped; the id is recorded     *)
(* before the EntryPoint check; then the entry point is registered, the   *)
(* imports are hooked and symbolic execution and forking are enabled.     *)
(***************************************************************************)
WDEonModuleLoad_NoTrackCheck(st0, s, m) ==
  IF m \in loadedModules \/ m \notin WithEntry THEN st0
  ELSE [st0 EXCEPT ![s].entry = @ \cup {m}, ![s].symbex = TRUE]

WDEonModuleLoad(st0, s, m) ==
  IF m \notin Tracked \/ m \in loadedModules \/ m \notin WithEntry THEN st0
  ELSE [st0 EXCEPT ![s].entry = @ \cup {m}, ![s].symbex = TRUE]

WDELoadedModules(m) ==
  IF m \in Tracked THEN loadedModules \cup {m} ELSE loadedModules

\* NtoskrnlHandlers::onModuleLoad / onModuleUnload on m_loaded.
NtOnModuleLoad(m) == IF m = Kernel THEN TRUE ELSE ntLoaded
NtOnModuleUnload(m) == IF m = Kernel THEN FALSE ELSE ntLoaded

ModuleLoad(s, m) ==
  /\ Running(s)
  /\ m \in Mods \ st[s].loaded
  /\ st' = WDEonModuleLoad([st EXCEPT ![s].loaded = @ \cup {m}], s, m)
  /\ loadedModules' = WDELoadedModules(m)
  /\ ntLoaded' = NtOnModuleLoad(m)
  /\ UNCHANGED <<entryResult, objRead>>

(***************************************************************************)
(* WindowsDriverExerciser::onModuleUnload: for a tracked module the       *)
(* FunctionMonitor handlers of the module are disconnected in this state, *)
(* then the state is succeeded or killed according to unloadAction.       *)
(* m_loadedModules is left as it is.                                       *)
(***************************************************************************)
Disconnect(st0, s) == [st0 EXCEPT ![s].entry = {}, ![s].irps = {}, ![s].ret = "none"]

WDEonModuleUnload_NoDisconnect(st0, s, m) ==
  IF m \notin Tracked THEN st0
  ELSE [st0 EXCEPT ![s].status = IF UnloadAction = "succeed" THEN "succeeded" ELSE "ended"]

WDEonModuleUnload(st0, s, m) ==
  IF m \notin Tracked THEN st0
  ELSE [Disconnect(st0, s) EXCEPT
          ![s].status = IF UnloadAction = "succeed" THEN "succeeded" ELSE "ended"]

ModuleUnload(s, m) ==
  /\ Running(s)
  /\ m \in st[s].loaded
  /\ st' = WDEonModuleUnload([st EXCEPT ![s].loaded = @ \ {m}, ![s].called = @ \ {m}], s, m)
  /\ ntLoaded' = NtOnModuleUnload(m)
  /\ UNCHANGED <<loadedModules, entryResult, objRead>>

(***************************************************************************)
(* WindowsDriverExerciser::DriverEntryPoint, run when the guest calls the *)
(* driver's entry point (once per load): when both parameters read        *)
(* concretely, DriverEntryPointRet is registered for the return.          *)
(***************************************************************************)
DriverEntryPoint(s, m) ==
  /\ Running(s)
  /\ m \in st[s].entry \ st[s].called
  /\ st[s].ret = "none"
  /\ \E paramsOk \in BOOLEAN :
       st' = [st EXCEPT ![s].called = @ \cup {m},
                        ![s].ret = IF paramsOk THEN "entry" ELSE @]
  /\ UNCHANGED <<loadedModules, ntLoaded, entryResult, objRead>>

DriverEntryPointRet(s) ==
  /\ st[s].ret = "entry"
  /\ \E ntSuccess \in BOOLEAN, readOk \in BOOLEAN, garbage \in SUBSET Irps :
       /\ entryResult' = [entryResult EXCEPT ![s] = IF ntSuccess THEN "success" ELSE "failure"]
       /\ IF ~ntSuccess
          THEN /\ st' = Kill(st, s)
               /\ UNCHANGED objRead
          ELSE /\ objRead' = [objRead EXCEPT ![s] = IF readOk THEN "read" ELSE "unreadable"]
               /\ st' = Succeed([st EXCEPT ![s].irps =
                                   IF NtosPlugin /\ ~readOk THEN @ \cup garbage ELSE @], s)
  /\ UNCHANGED <<loadedModules, ntLoaded>>

(***************************************************************************)
(* NtoskrnlHandlers::DriverDispatch(irpMajor): an unreadable IRP pointer  *)
(* parameter kills the state ("NdisHalt"); a null or unreadable IRP or    *)
(* stack location returns without a return handler; otherwise the ioctl   *)
(* code is made symbolic for IRP_MJ_DEVICE_CONTROL and DriverDispatchRet  *)
(* is registered.                                                          *)
(***************************************************************************)
DriverDispatch(s, irp) ==
  /\ Running(s)
  /\ irp \in st[s].irps
  /\ st[s].ret = "none"
  /\ \E paramOk \in BOOLEAN, irpOk \in BOOLEAN :
       st' = CASE ~paramOk -> Kill(st, s)
               [] ~irpOk   -> st
               [] OTHER    -> [st EXCEPT ![s].ret = "dispatch"]
  /\ UNCHANGED <<loadedModules, ntLoaded, entryResult, objRead>>

(***************************************************************************)
(* NtoskrnlHandlers::DriverDispatchRet: a failed NTSTATUS kills the state *)
(* (terminateStateEarly does not return), otherwise it is succeeded and   *)
(* the return handler's stack entry erased.                                *)
(***************************************************************************)
DriverDispatchRet(s) ==
  /\ st[s].ret = "dispatch"
  /\ \E ntSuccess \in BOOLEAN : st' = IF ntSuccess THEN Succeed(st, s) ELSE Kill(st, s)
  /\ UNCHANGED <<loadedModules, ntLoaded, entryResult, objRead>>

\* The executor forks a state with symbolic execution and forking enabled;
\* the child inherits the guest and its FunctionMonitor registrations.
Fork(s, t) ==
  /\ Running(s)
  /\ st[s].symbex
  /\ st[t].status = "free"
  /\ st' = [st EXCEPT ![t] = st[s]]
  /\ entryResult' = [entryResult EXCEPT ![t] = entryResult[s]]
  /\ objRead' = [objRead EXCEPT ![t] = objRead[s]]
  /\ UNCHANGED <<loadedModules, ntLoaded>>

\* StateManager's success barrier: once no state runs, one succeeded state
\* resumes and the other succeeded states are killed.
ResumeOneSucceeded(s) ==
  /\ \A t \in States : ~Running(t)
  /\ st[s].status = "succeeded"
  /\ st' = [t \in States |->
              IF t = s THEN [st[t] EXCEPT !.status = "running"]
              ELSE IF st[t].status = "succeeded" THEN [st[t] EXCEPT !.status = "ended"]
              ELSE st[t]]
  /\ UNCHANGED <<loadedModules, ntLoaded, entryResult, objRead>>

Next ==
  \/ \E s \in States, m \in Mods :
       ModuleLoad(s, m) \/ ModuleUnload(s, m) \/ DriverEntryPoint(s, m)
  \/ \E s \in States : DriverEntryPointRet(s) \/ DriverDispatchRet(s) \/ ResumeOneSucceeded(s)
  \/ \E s \in States, irp \in Irps : DriverDispatch(s, irp)
  \/ \E s, t \in States : Fork(s, t)

Spec == Init /\ [][Next]_vars

-----------------------------------------------------------------------------
TypeOK ==
  /\ \A s \in States :
       /\ st[s].status \in {"free", "running", "succeeded", "ended"}
       /\ st[s].loaded \subseteq Mods /\ st[s].entry \subseteq Tracked
       /\ st[s].ret \in {"none", "entry", "dispatch"}
       /\ st[s].irps \subseteq Irps /\ st[s].symbex \in BOOLEAN
       /\ entryResult[s] \in {"none", "success", "failure"}
       /\ objRead[s] \in {"none", "read", "unreadable"}
  /\ loadedModules \subseteq Tracked
  /\ ntLoaded \in BOOLEAN

HandlersOnlyWhileLoaded ==
  \A s \in States :
    st[s].status \in {"running", "succeeded"} =>
      /\ st[s].entry \subseteq st[s].loaded
      /\ st[s].irps # {} => st[s].entry # {}

(***************************************************************************)
(* Every live state in which a tracked driver with an entry point is      *)
(* loaded has that entry point instrumented (or has already called it).  *)
(* The registration WINDRV_REGISTER_ENTRY_POINT makes in onModuleLoad is  *)
(* per state, but the "already loaded" test reads m_loadedModules, which  *)
(* all states share and nothing erases.                                    *)
(***************************************************************************)
LoadedDriversInstrumented ==
  \A s \in States :
    st[s].status = "running" =>
      \A m \in st[s].loaded \cap Tracked \cap WithEntry : m \in st[s].entry \cup st[s].called

(***************************************************************************)
(* When DriverEntry succeeds and its DRIVER_OBJECT can be read, with       *)
(* NtoskrnlHandlers loaded, DriverEntryPointRet registers a               *)
(* DriverDispatch annotation for every MajorFunction the driver set.      *)
(***************************************************************************)
IrpsRegisteredOnEntry ==
  [][\A s \in States :
       (/\ NtosPlugin /\ st[s].ret = "entry"
        /\ entryResult'[s] = "success" /\ objRead'[s] = "read")
       => DriverIrps \subseteq st'[s].irps]_vars
=============================================================================
