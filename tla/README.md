# TLA+ models of the S2E/KLEE extensions in this repository

These modules model the parts of the S2E 1.1 tree that this repository
changes or adds:

- the KLEE constraint store (`Constraints.cpp`) and its shift-extraction
  visitor;
- the `Example` plugin that calls the visitor;
- KLEE's `KModule`;
- the Windows driver-exercising plugins (`WindowsDriverExerciser`,
  `NtoskrnlHandlers`).

Every definition is translated from the source. `PROJECT.json` maps each
definition to the lines it models.

## Parts and how they interact

| Part | Source | Module(s) |
|---|---|---|
| Expr constructors (folding, canonical form) | not in the repo | `KleeExpr` (from the spec) |
| ExprReplaceVisitor / ExprReplaceVisitor2 | `Constraints.cpp` 20-62 | `ExprVisitor` |
| ConstraintManager | `Constraints.cpp` 105-197 | `ConstraintManager`, abstract `PathCondition` |
| ExprShlVisitor, ParseConstraintExpr | `Constraints.cpp` 64-90, 204-305 | `ShlExtraction` |
| Example::onStateTerminate | `Example.cpp` 80-110 | `ExamplePlugin` |
| KModule, KFunction, pass pipelines | `KModule.cpp` | `KModule` |
| merge-at-exit, ctor/dtor stub injection | `KModule.cpp` 163-227, 263-363 | `KModulePrepare` |
| assembly.ll writer of prepare | `KModule.cpp` 414-486 | `AssemblyOutput` |
| WindowsDriverExerciser, NtoskrnlHandlers load/unload and IRPs | `WindowsApi/*.cpp` | `DriverExerciser` |
| NtoskrnlHandlers API handlers and their return handlers | `NtoskrnlHandlers.cpp` 68-550, `.h` 91-107 | `NtoskrnlApi` |

How the parts connect:

- `ConstraintManager` holds one state's path condition. Each `addConstraint`
  does the following, in one step:
  1. simplifies the new fact against the stored equalities (`simplifyExpr`);
  2. splits conjunctions;
  3. for `const == e`, rewrites every stored constraint with
     `ExprReplaceVisitor`, re-inserting the changed ones.
- `ExamplePlugin` composes the store with `ShlExtraction`. On state
  termination it calls `ParseConstraintExpr` on every stored constraint.
- `KModule` turns an LLVM module into KLEE's shadow structures:
  - `functions`, `functionMap` and `escapingFunctions`;
  - the interned `constants` and `constantMap`;
  - a KFunction for each function, whose operands are encoded as registers,
    arguments or -(constant id + 2).

  `prepare` runs once. Later, `updateModuleWithFunction` and `removeFunction`
  add and remove functions.
- `KModulePrepare` is the IR rewriting at the front of `prepare`, treated
  as a pure algorithm:
  - each `--merge-at-exit` function gets an exit block with a PHI of the
    returned values, a `klee_merge` call and the one return;
  - every other return becomes a branch to that exit block;
  - `main` gets a call of the ctor stub at its entry and a call of the
    dtor stub before each return.

  Function bodies are sequences of blocks; a block ends in ret, br or
  unreachable. The result is compared with a reference definition: the
  paths of each function (the calls made, with stub calls expanded, and
  the value returned).
- `AssemblyOutput` is the end of `prepare`: unless `--output-source` is
  off, the printed module goes to `assembly.ll`. With `--no-truncate-source-lines` it is copied as it is
  (`CopyUntruncated`). Otherwise the `for(;;)` loop (`TruncateLine`) finds
  the next newline with `index`, writes a line of fewer than 255 bytes
  whole and a longer one as 254 characters and a newline (`WriteLine`),
  and moves past the newline (`Advance`). A text is a sequence of line
  lengths, and each output character names the text offset it copies.
  `MCKModule` composes it with `KModule`. The loop's steps come after the
  atomic `prepare` and before any later update, since the writer runs
  inside `prepare`. The writer reads only the printed text, so this order
  is invisible to KModule's state. The first step after the writer is done
  drops its text and output (`Returned`): prepare frees them at 482-485,
  and nothing in the repository reads assembly.ll.
- `DriverExerciser` composes the two Windows plugins. Both listen to the same
  WindowsMonitor load and unload signals, so one guest module load is one
  step that runs both handlers. The plugin members (`m_loadedModules`,
  `m_loaded`) are shared by all execution states. FunctionMonitor
  registrations are per state. The framework is modelled from its documented
  behaviour:
  - forking;
  - StateManager's success barrier (one succeeded state resumes, the others
    are killed);
  - `terminateStateEarly`.
- `NtoskrnlApi` models the fourteen API handlers that `NtoskrnlHandlers`
  hooks. The model has up to three execution states (slots), each at a
  call site or inside a callee. For each handler:
  - its guard is `calledFromModule`;
  - its behaviour depends on the API's consistency level (overconstr <
    strict < local < overapprox);
  - it does one or more of: letting the call run, bypassing it with a
    status in EAX, forking a success and a failure state, and registering
    a return handler.

  A return handler is registered either through `fns`, the calling
  state's FunctionMonitorState, or through `m_functionMonitor` for a
  chosen state. `CalleeReturns` runs the handlers registered in the state
  that returns. Only `IoIsWdmVersionAvailableRet` changes state: it forks
  on the result. The other return handlers only read EAX and log.

  Two framework behaviours come from their documentation, not from this
  repository:
  - `forkStates` returns the two states in an order the executor
    chooses, so the model tries both;
  - a registration through a FunctionMonitorState stores the handler in
    the state that owns it.

## Runs

| Run | What it checks | Result |
|---|---|---|
| `cm_core` | `StoredAreFacts`, `NoContractAbort`, `SimplifyExprSound` (simplifying a query against the stored equalities keeps its value in every model of the store), and `PathConditionRefined`: the store refines an abstract path condition whose models are exactly those of the facts added | pass, 309 states |
| `shl_parse` | `ParseExpr` with a valid `src` equals a reference pre-order, first-wins definition of the shift map | pass |
| `example_terminate` | `TerminationCompletes` | violation: `ParseConstraintExpr` dereferences the null `src` of a default-constructed visitor |
| `km_registry` | operand encodings decode to the right register, argument or constant; constants are interned once; the registry equals the module's definitions; no switch survives under `--switch-type=simple`. With the assembly.ll writer composed into `prepare`: `AssemblyLinesTruncated` (every line is written once, in order, as its first min(length, 254) characters and a newline, or the text is copied unchanged under `--no-truncate-source-lines`) and `AssemblyWritten` (once the passes have run, the writer finishes) | pass, 2,420 states |
| `km_llvm_switch` | `NoSwitchWhenLowered` under `--switch-type=llvm` | violation: `KModule.cpp:115` is unreachable, so functions added later keep their switches |
| `drv_exerciser` | IRP annotations only after a successful DriverEntry; no live state keeps handlers of a driver it unloaded | pass, 2,040,278 states (under symmetry) |
| `nt_api` | `RetsBelongToCurrentCall`: a state holds a return handler only while it is inside the callee of the call that registered it. Checked under the level settings where no handler is registered through `fns` after a fork | pass, 263,910 states (under symmetry) |
| `nt_api_fns` | `RetsBelongToCurrentCall` under every uniform consistency level | violation: `IoCreateSymbolicLink` and `IoCreateDevice` (`NtoskrnlHandlers.cpp:208`, `:233`) register the return handler through `fns`, which belongs to the bypassed failure state, not the forked state that runs the callee |
| `km_escaping` | `EscapingFunctionsComplete`: every registered function whose address is taken is in `escapingFunctions` | violation: `updateModuleWithFunction` (`KModule.cpp:563`) tests only the new function, so tb2 taking tb1's address leaves tb1 out |
| `drv_reload` | `LoadedDriversInstrumented`: a live state in which a tracked driver is loaded has its entry point hooked or already called | violation: `m_loadedModules` (`WindowsDriverExerciser.cpp:112`) is shared and never erased, so a reload after unload, success and barrier resume is not hooked |
| `km_prepare` | `PrepareKeepsPaths`: after prepare, each path of each input function runs the live constructors first (main only), then an original path, then one `klee_merge` (merged functions) and the destructors once (main only), and returns that path's value. Every original path survives | pass, 4,096 states |
| `drv_irp_registration` | `IrpsRegisteredOnEntry`: a successful DriverEntry with a readable DRIVER_OBJECT gets its IRPs registered | violation: the read's result is tested inverted (`WindowsDriverExerciser.cpp:221`) |

Each property of a passing run has a mutant in `PROJECT.json`: a plausible
bug in the mapped code that the run detects.

## Bounds

- **Expressions:** width 2 and two variables. Up to four additions, which is
  enough for a rewrite to produce an And or a true, and for one equality to
  shadow another.
- **KModule:** two initial modules, one with `main` and one without. Four
  JIT functions cover the interesting cases:
  - one with a switch;
  - one that takes another function's address;
  - one calling `memcpy`;
  - one with a new constant.

  Together they exercise interning across functions, lowering, trimming and
  escape analysis.
- **Drivers:** three state slots for `drv_exerciser`, as model values
  under a symmetry set (`SlotSymmetry`, sound because the run checks
  invariants only). That allows two forks and lets the barrier pick among
  several succeeded states while another still runs. The violation runs
  need only two slots to show their traces. The modules are:
  - a tracked driver;
  - a tracked module with no entry point;
  - an untracked module;
  - the kernel.

  Two IRP majors are used.
- **API handlers:** three state slots, which is room for two forks, and
  at most three API calls per state (`MaxCalls`). That is enough for a
  forked state to return from a callee, call again and fork once more.
  The slots are model values under a symmetry set (`SlotSymmetry`): Init
  starts any one of them and a fork takes any free one, so slots that
  differ only by name behave alike. These runs check invariants only,
  which keeps symmetry sound. `nt_api` tries
  every uniform consistency level, except that the two `fns` handlers
  are held at strict. `nt_api_fns` tries every uniform level.
- **prepare:** main in three shapes (two returns, one return, a block
  ending in unreachable) and a helper in two shapes, or no main at all.
  Each function is void or not. `--merge-at-exit` ranges over every subset
  of {main, helper, an unknown name}. The ctor lists have null entries and
  a non-function entry. That makes 4,096 inputs, and every abort path and
  every combination of merge with dtors in main is reached.
- **assembly.ll:** texts of up to two lines, with each line length taken
  from 0, 3, 253, 254, 255 and 300. The lengths 253-255 straddle the
  `count < 255` test (count includes the newline), and 300 is well past
  it. Two lines show that the position advances correctly.

## Fairness

Weak fairness is assumed in one place: the assembly.ll writer
(`AssemblyOutput`). Its `for(;;)` loop runs in the one thread of
`prepare`, and nothing is scheduled between its iterations. So while the
loop has not broken, its next iteration is taken, which is
`WF` of `WriteAssembly` in `MCKModule`'s `PrepareSpec`. Under that
fairness, `AssemblyWritten` checks that the loop does break once
`prepare` has run.

No other component gets fairness, and their properties are safety
properties. A liveness property there would rest on a fairness the code
does not guarantee:
- which state runs next is the searcher's choice;
- whether a guest call ever returns is the guest's choice;
- the StateManager barrier resumes a state only when the others reach it.

Nothing in this repository obliges any of these to make progress. A
property like "every registered return handler eventually runs" would
hold only under an assumption the code does not justify.
`CHECK_DEADLOCK FALSE` is set only where every state may end: killed
states and an empty barrier.

## Not modelled

- Expr.cpp: not in this repository; it is modelled from its interface.
- The LLVM passes, library linking, and the output files of `prepare`
  other than assembly.ll's contents: library code and I/O. The opening of
  the file and the module printer are also left out. `forceImport` relies on LLVM's
  `getOrInsertFunction` for names with internal linkage. The model takes
  the three imports as added and trims those nobody uses.
- The constant table after `removeFunction` (`KModule.cpp:580`): the
  table keeps a removed function's address. The model keeps that
  behaviour, but nothing in the repository reads the table afterwards.
- The InstructionInfoTable (`KModule.cpp:554`): it is not in the
  repository, and neither the code nor the spec says what `getInfo`
  returns for an instruction the table built by `prepare` never saw.
- `ExAllocatePoolWithTagRet` would grant memory access, but that part is
  a `XXX` comment (`NtoskrnlHandlers.cpp:549`). MemoryChecker grants are
  therefore not modelled.
- Disassembler.h: declarations only.

## Open questions

- **The one-state fork (`NtoskrnlHandlers.cpp:440`).** Every handler
  assumes `forkStates` returns two states. What the executor returns when
  it cannot fork is outside this repository, so the model never takes a
  forking call without a free slot.
- **The symbolic IOCTL code (`NtoskrnlHandlers.cpp:588`).** It may take
  transfer methods the request was not sent with. Nothing in the
  repository says whether that is intended.
- **Larger instances.** Four state slots for the API handlers take over
  three minutes. Bounds larger than those in "Bounds" would need a
  faster machine, not a different model.
