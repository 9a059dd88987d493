---------------------------- MODULE NtoskrnlApi ----------------------------
(***************************************************************************)
(* The kernel-API annotations of NtoskrnlHandlers (NtoskrnlHandlers.cpp): *)
(* FunctionMonitor calls one handler when a tracked driver calls a         *)
(* ntoskrnl export.  A handler either lets the call run, bypasses it      *)
(* (bypassFunction: the state returns to the caller with EAX as the       *)
(* handler left it), or forks the state so that one copy is bypassed with *)
(* a failure status while the other runs the real function, and it may   *)
(* register a return handler that FunctionMonitor runs when the callee    *)
(* returns.                                                                *)
(*                                                                         *)
(* The WindowsApi and FunctionMonitor helpers are not in this repository  *)
(* and are modelled from their interface:                                  *)
(*  - forkStates(state, states, 1, ..) forks state; the vector holds the  *)
(*    two states in an order the executor picks;                          *)
(*  - FUNCMON_REGISTER_RETURN(s, fns, h) stores h in the FunctionMonitor  *)
(*    state fns points to, the calling state's when fns is the handler's  *)
(*    argument; through m_functionMonitor it stores h in s's own;         *)
(*  - FunctionMonitor runs, at a callee's return, every return handler    *)
(*    registered in the returning state at that stack depth;              *)
(*  - undoCallAndJumpToSymbolic / jumpToSymbolicCpp re-run the call in    *)
(*    symbolic mode: the handler's effects are taken once.                *)
(* A state's EAX is abstracted to where its value came from.              *)
(***************************************************************************)
EXTENDS Naturals, FiniteSets

CONSTANTS
  States,    \* execution-state slots
  Configs,   \* the consistency configurations: functions Apis -> level name
  MaxCalls   \* bound on the API calls one path makes

\* NtoskrnlHandlers::s_handlers (DebugPrint is listed twice).
s_handlers == <<"DebugPrint", "IoCreateSymbolicLink", "IoCreateDevice",
                "IoIsWdmVersionAvailable", "IoFreeMdl", "RtlEqualUnicodeString",
                "RtlAddAccessAllowedAce", "RtlCreateSecurityDescriptor",
                "RtlSetDaclSecurityDescriptor", "RtlAbsoluteToSelfRelativeSD",
                "GetSystemUpTime", "KeStallExecutionProcessor",
                "ExAllocatePoolWithTag", "DebugPrint">>

Apis == {s_handlers[i] : i \in DOMAIN s_handlers}

\* WindowsApi's ExecutionConsistencyModel, in its declaration order.
Level == [overconstr |-> 0, strict |-> 1, local |-> 2, overapprox |-> 3]

Eaxes == {"none", "real", "fail", "zero", "one", "sym"}

VARIABLES
  st,    \* per state: [status, at, cur, eax, rets, n]
  cons   \* getConsistency(fn), fixed by the configuration

vars == <<st, cons>>

Free == [status |-> "free", at |-> "caller", cur |-> "none", eax |-> "none",
         rets |-> {}, n |-> 0]

Init ==
  /\ cons \in Configs
  /\ \E s0 \in States :
       st = [s \in States |-> IF s = s0 THEN [Free EXCEPT !.status = "running"] ELSE Free]

-----------------------------------------------------------------------------
(* Framework operations, on a state function st0.                         *)

\* The driver executes a call instruction to an ntoskrnl export.
Calling(s) == st[s].status = "running" /\ st[s].at = "caller" /\ st[s].n < MaxCalls
At(s) == [st EXCEPT ![s].n = @ + 1]

\* The call proceeds into the kernel function f.
Enter(st0, s, f) == [st0 EXCEPT ![s].at = "callee", ![s].cur = f]

\* state->writeCpuRegister(EAX, v) before bypassFunction(n).
BypassWith(st0, s, v) == [st0 EXCEPT ![s].eax = v]

\* FUNCMON_REGISTER_RETURN: h lands in the FunctionMonitorState of s.
Register(st0, s, h) == [st0 EXCEPT ![s].rets = @ \cup {h}]

FreeSlots == {t \in States : st[t].status = "free"}
Orders(s, t) == {<<s, t>>, <<t, s>>}

\* forkStates(state, states, 1, ..): t is a copy of s; the copy is the
\* branch that goes on into f.  Mutant: the new state is not cloned.
forkStates_NoCopy(st0, s, t, f) == Enter(st0, t, f)

forkStates(st0, s, t, f) == Enter([st0 EXCEPT ![t] = st0[s]], t, f)

\* states[0] == state ? states[1] : states[0]
Other_Same(states, s) == IF states[1] = s THEN states[1] ELSE states[2]

Other(states, s) == IF states[1] = s THEN states[2] ELSE states[1]

\* WindowsApi::forkSuccessFailure(state, true, n, ..): forkStates, state is
\* bypassed with a failure status, and the other state is returned.
forkSuccessFailure(st0, s, t, states, f) ==
  [st |-> BypassWith(forkStates(st0, s, t, f), s, "fail"), other |-> Other(states, s)]

Below(f, lvl) == Level[cons[f]] < Level[lvl]
-----------------------------------------------------------------------------
(* The handlers.  Each first tests calledFromModule(state) and returns    *)
(* when the caller is not the tracked driver: the call then runs.         *)
CalledFromKernel(s, f) ==
  /\ Calling(s)
  /\ st' = Enter(At(s), s, f)

\* DebugPrint, IoFreeMdl: the parameter reads decide only what is logged
\* (and IoFreeMdl's MemoryChecker revocation); the call runs.
DebugPrint(s) == Calling(s) /\ st' = Enter(At(s), s, "DebugPrint")
IoFreeMdl(s)  == Calling(s) /\ st' = Enter(At(s), s, "IoFreeMdl")

(***************************************************************************)
(* IoCreateSymbolicLink and IoCreateDevice: below LOCAL consistency the   *)
(* call runs.  Otherwise forkSuccessFailure bypasses the call in state    *)
(* with a failure status and returns normalState, the copy that runs it, *)
(* and FUNCMON_REGISTER_RETURN(normalState, fns, ..Ret) registers the     *)
(* return handler through fns, the calling state's FunctionMonitorState.  *)
(***************************************************************************)
ForkSuccessFailureViaFns(s, f) ==
  /\ Calling(s)
  /\ IF Below(f, "local")
     THEN st' = Enter(At(s), s, f)
     ELSE \E t \in FreeSlots : \E states \in Orders(s, t) :
            LET r == forkSuccessFailure(At(s), s, t, states, f)
            IN st' = Register(r.st, s, f)

IoCreateSymbolicLink(s) == ForkSuccessFailureViaFns(s, "IoCreateSymbolicLink")
IoCreateDevice(s)       == ForkSuccessFailureViaFns(s, "IoCreateDevice")

\* IoIsWdmVersionAvailable: from LOCAL on, the return handler is
\* registered in the calling state; the call runs.
IoIsWdmVersionAvailable(s) ==
  LET f == "IoIsWdmVersionAvailable" IN
  /\ Calling(s)
  /\ st' = IF Below(f, "local") THEN Enter(At(s), s, f)
           ELSE Register(Enter(At(s), s, f), s, f)

\* GetSystemUpTime: a symbolic value is written through the out-pointer
\* and the call bypassed; if the pointer parameter cannot be read the
\* call runs.  KeStallExecutionProcessor is always bypassed.
GetSystemUpTime(s) ==
  /\ Calling(s)
  /\ \E paramOk \in BOOLEAN :
       st' = IF paramOk THEN At(s) ELSE Enter(At(s), s, "GetSystemUpTime")

KeStallExecutionProcessor(s) == Calling(s) /\ st' = At(s)

\* RtlEqualUnicodeString: STRICT lets the call run; LOCAL and OVERAPPROX
\* bypass it with a fresh symbolic EAX; OVERCONSTR falls through, so the
\* call, undone and re-executed symbolically, runs.
RtlEqualUnicodeString(s) ==
  LET f == "RtlEqualUnicodeString" IN
  /\ Calling(s)
  /\ st' = IF cons[f] \in {"local", "overapprox"} THEN BypassWith(At(s), s, "sym")
           ELSE Enter(At(s), s, f)

(***************************************************************************)
(* RtlAddAccessAllowedAce, RtlCreateSecurityDescriptor: from LOCAL on the *)
(* state is forked; state is bypassed with a failure status, from        *)
(* createFailure or STATUS_UNKNOWN_REVISION, and the other copy runs the  *)
(* call.                                                                   *)
(***************************************************************************)
ForkBypassFailure(s, f) ==
  /\ Calling(s)
  /\ IF Below(f, "local")
     THEN st' = Enter(At(s), s, f)
     ELSE \E t \in FreeSlots : st' = BypassWith(forkStates(At(s), s, t, f), s, "fail")

RtlAddAccessAllowedAce(s)      == ForkBypassFailure(s, "RtlAddAccessAllowedAce")
RtlCreateSecurityDescriptor(s) == ForkBypassFailure(s, "RtlCreateSecurityDescriptor")

(***************************************************************************)
(* RtlSetDaclSecurityDescriptor, RtlAbsoluteToSelfRelativeSD: as above,   *)
(* then otherState = states[0] == state ? states[1] : states[0] gets the  *)
(* return handler through m_functionMonitor.                              *)
(***************************************************************************)
ForkBypassRegisterOther(s, f) ==
  /\ Calling(s)
  /\ IF Below(f, "local")
     THEN st' = Enter(At(s), s, f)
     ELSE \E t \in FreeSlots : \E states \in Orders(s, t) :
            st' = Register(BypassWith(forkStates(At(s), s, t, f), s, "fail"),
                           Other(states, s), f)

RtlSetDaclSecurityDescriptor(s) == ForkBypassRegisterOther(s, "RtlSetDaclSecurityDescriptor")
RtlAbsoluteToSelfRelativeSD(s)  == ForkBypassRegisterOther(s, "RtlAbsoluteToSelfRelativeSD")

(***************************************************************************)
(* ExAllocatePoolWithTag: unreadable pool type or size lets the call run; *)
(* below LOCAL the return handler is registered in state and the call     *)
(* runs; otherwise state is forked, bypassed with EAX = 0 (NULL), and     *)
(* otherState gets the return handler.                                    *)
(***************************************************************************)
ExAllocatePoolWithTag(s) ==
  LET f == "ExAllocatePoolWithTag" IN
  /\ Calling(s)
  /\ \E paramsOk \in BOOLEAN :
       CASE ~paramsOk          -> st' = Enter(At(s), s, f)
         [] Below(f, "local")  -> st' = Register(Enter(At(s), s, f), s, f)
         [] OTHER ->
              \E t \in FreeSlots : \E states \in Orders(s, t) :
                st' = Register(BypassWith(forkStates(At(s), s, t, f), s, "zero"),
                               Other(states, s), f)
-----------------------------------------------------------------------------
(***************************************************************************)
(* The callee returns in s.  FunctionMonitor runs the return handlers     *)
(* registered in s and drops them.  IoIsWdmVersionAvailableRet reads EAX  *)
(* concretely (and returns if it cannot) and then forkRange splits the    *)
(* state into one returning 1 and one returning 0; the other handlers    *)
(* (IoCreateSymbolicLinkRet, IoCreateDeviceRet, RtlSetDacl..Ret,          *)
(* RtlAbsoluteToSelfRelativeSDRet, ExAllocatePoolWithTagRet) only test   *)
(* the status and log.                                                     *)
(***************************************************************************)
\* WindowsApi::forkRange(state, .., {1, 0}): one state per value.
forkRange(st0, s, t) ==
  [[st0 EXCEPT ![t] = st0[s]] EXCEPT ![s].eax = "one", ![t].eax = "zero"]

IoIsWdmVersionAvailableRet(st0, s) ==
  \E readOk \in BOOLEAN :
    IF readOk THEN \E t \in FreeSlots : st' = forkRange(st0, s, t)
    ELSE st' = st0

CalleeReturns(s) ==
  /\ st[s].status = "running"
  /\ st[s].at = "callee"
  /\ LET base == [st EXCEPT ![s].at = "caller", ![s].cur = "none",
                            ![s].eax = "real", ![s].rets = {}]
     IN IF "IoIsWdmVersionAvailable" \in st[s].rets
        THEN IoIsWdmVersionAvailableRet(base, s)
        ELSE st' = base

Next ==
  /\ \E s \in States :
       \/ \E f \in Apis : CalledFromKernel(s, f)
       \/ DebugPrint(s) \/ IoFreeMdl(s)
       \/ IoCreateSymbolicLink(s) \/ IoCreateDevice(s)
       \/ IoIsWdmVersionAvailable(s)
       \/ GetSystemUpTime(s) \/ KeStallExecutionProcessor(s)
       \/ RtlEqualUnicodeString(s)
       \/ RtlAddAccessAllowedAce(s) \/ RtlCreateSecurityDescriptor(s)
       \/ RtlSetDaclSecurityDescriptor(s) \/ RtlAbsoluteToSelfRelativeSD(s)
       \/ ExAllocatePoolWithTag(s)
       \/ CalleeReturns(s)
  /\ UNCHANGED cons

Spec == Init /\ [][Next]_vars

-----------------------------------------------------------------------------
TypeOK ==
  /\ cons \in Configs
  /\ \A s \in States :
       /\ st[s].status \in {"free", "running"}
       /\ st[s].status = "free" => st[s] = Free
       /\ st[s].at \in {"caller", "callee"}
       /\ st[s].cur \in Apis \cup {"none"}
       /\ st[s].eax \in Eaxes
       /\ st[s].rets \subseteq Apis
       /\ st[s].n \in 0 .. MaxCalls

(***************************************************************************)
(* A return handler is registered only in a state that is running the     *)
(* very call that registered it.  A handler left in a state whose call    *)
(* was bypassed (it never executes the callee's ret) stays at that stack  *)
(* depth and fires at the return of a later, unrelated call, while the    *)
(* copy that does run the call returns unobserved.  Forking handlers must *)
(* pick otherState out of the forkStates vector and register through the *)
(* right FunctionMonitorState for this to hold.                           *)
(***************************************************************************)
RetsBelongToCurrentCall ==
  \A s \in States :
    st[s].rets \subseteq (IF st[s].at = "callee" THEN {st[s].cur} ELSE {})
====
