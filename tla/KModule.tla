------------------------------- MODULE KModule -------------------------------
(***************************************************************************)
(* klee::KModule (KModule.cpp): the interpreter's shadow of an LLVM       *)
(* module.  prepare() runs the pass pipelines and builds a KFunction for   *)
(* every defined function; S2E later adds translated-block functions one  *)
(* at a time with updateModuleWithFunction() and drops them with          *)
(* removeFunction().  Every KFunction encodes its operands as integers     *)
(* that index the argument registers, the instruction registers, or the   *)
(* module-wide constant table interned by getConstantID().                 *)
(*                                                                         *)
(* An LLVM function is a name; its body is a sequence of basic blocks of   *)
(* instructions [op, ops].  An operand is [t, n, c]: an argument number n, *)
(* the instruction at flattened position n, a basic block, or the         *)
(* constant c (a literal or a function's address).  The optimisation and   *)
(* cleaner passes are abstracted to the one effect the properties tell    *)
(* apart: whether a switch instruction survives.                          *)
(***************************************************************************)
EXTENDS Naturals, Integers, Sequences, SequencesExt, FiniteSets

CONSTANTS
  Funcs,       \* names of the LLVM functions that can exist
  Declared,    \* functions that are declarations (no body)
  Imports,     \* memcpy, memmove, memset: forceImport'ed by prepare
  Fresh,       \* functions the host creates after prepare (translated blocks)
  InitModules, \* the modules (sets of functions) KModule may be handed
  FuncOrder,   \* the module's function list order
  Body,        \* [Funcs -> [args: Nat, blocks: Seq(Seq(instruction))]]
  SwitchType   \* the --switch-type option: "internal", "simple" or "llvm"

VARIABLES
  module,             \* functions currently in the llvm::Module
  ir,                 \* the current body of each function
  prepared,           \* prepare() has run
  functions,          \* KModule::functions, a sequence of KFunction records
  functionMap,        \* KModule::functionMap, function -> KFunction
  constants,          \* KModule::constants, the constant table
  constantMap,        \* KModule::constantMap, constant -> id
  escapingFunctions   \* KModule::escapingFunctions

vars == <<module, ir, prepared, functions, functionMap, constants,
          constantMap, escapingFunctions>>

Instrs(body) == FlattenSeq(body.blocks)

\* Value::use_empty(): no instruction of a function in m names f.
Used(f, m, code) ==
  \E g \in m \ Declared : \E i \in DOMAIN Instrs(code[g]) :
    \E j \in DOMAIN Instrs(code[g])[i].ops :
      Instrs(code[g])[i].ops[j] = [t |-> "const", n |-> 0, c |-> f]

\* functionEscapes (in KLEE's module utilities): f's address is an operand
\* other than the callee (the first operand) of a call.
Escapes(f, m, code) ==
  \E g \in m \ Declared : \E i \in DOMAIN Instrs(code[g]) :
    LET ins == Instrs(code[g])[i]
    IN \E j \in DOMAIN ins.ops :
         /\ ins.ops[j] = [t |-> "const", n |-> 0, c |-> f]
         /\ ~(ins.op = "call" /\ j = 1)

(***************************************************************************)
(* KModulePrivate: pm3 is the module pipeline prepare() runs, fpm3 the    *)
(* function pipeline updateModuleWithFunction() runs.  For "llvm" the     *)
(* case reads  pm3.add(createLowerSwitchPass()); break;  so the fpm3.add  *)
(* on the next line is never reached.                                      *)
(***************************************************************************)
ModulePipelineLowersSwitch == SwitchType \in {"simple", "llvm"}

FunctionPipelineLowersSwitch_Never == FALSE

FunctionPipelineLowersSwitch == SwitchType = "simple"

\* LowerSwitch: a switch becomes a branch tree; the model keeps one branch.
Lower(body) ==
  [body EXCEPT !.blocks =
     [b \in DOMAIN @ |-> [i \in DOMAIN @[b] |->
        IF @[b][i].op = "switch" THEN [@[b][i] EXCEPT !.op = "br"] ELSE @[b][i]]]]

(***************************************************************************)
(* getConstantID(c): the id of c if constantMap has it, else the next id, *)
(* constants.size(), taken before the push.  A table is                   *)
(* [map, consts, id], id being the result of the last call.                *)
(***************************************************************************)
getConstantID_IdAfterPush(t, c) ==
  IF c \in DOMAIN t.map THEN [t EXCEPT !.id = t.map[c]]
  ELSE [map |-> t.map @@ (c :> Len(t.consts) + 1),
        consts |-> Append(t.consts, c), id |-> Len(t.consts) + 1]

getConstantID_NoLookup(t, c) ==
  [map |-> (c :> Len(t.consts)) @@ t.map,
   consts |-> Append(t.consts, c), id |-> Len(t.consts)]

getConstantID(t, c) ==
  IF c \in DOMAIN t.map THEN [t EXCEPT !.id = t.map[c]]
  ELSE [map |-> t.map @@ (c :> Len(t.consts)),
        consts |-> Append(t.consts, c), id |-> Len(t.consts)]

(***************************************************************************)
(* The operand encoding of the KFunction constructor: an instruction is   *)
(* its register (the first numArgs registers are the formals), an         *)
(* argument its number, a block, inline asm or metadata -1, a constant    *)
(* -(id + 2).  Returns the table after interning and the code.            *)
(***************************************************************************)
EncodeOperand_ConstPlusOne(numArgs, t, v) ==
  CASE v.t = "inst"  -> [t |-> t, enc |-> numArgs + v.n - 1]
    [] v.t = "arg"   -> [t |-> t, enc |-> v.n]
    [] v.t = "block" -> [t |-> t, enc |-> -1]
    [] v.t = "const" -> LET t2 == getConstantID(t, v.c)
                        IN [t |-> t2, enc |-> -(t2.id + 1)]

EncodeOperand(numArgs, t, v) ==
  CASE v.t = "inst"  -> [t |-> t, enc |-> numArgs + v.n - 1]
    [] v.t = "arg"   -> [t |-> t, enc |-> v.n]
    [] v.t = "block" -> [t |-> t, enc |-> -1]
    [] v.t = "const" -> LET t2 == getConstantID(t, v.c)
                        IN [t |-> t2, enc |-> -(t2.id + 2)]

(***************************************************************************)
(* KFunction(f): basicBlockEntry, the register map, and one KInstruction  *)
(* (a KGEPInstruction for getelementptr) per instruction, its operands    *)
(* encoded in order, interning constants as they are met.                 *)
(***************************************************************************)
MkKFunction(f, body, t) ==
  LET ins   == Instrs(body)
      slots == FlattenSeq([i \in DOMAIN ins |-> [j \in DOMAIN ins[i].ops |-> <<i, j>>]])
      step(acc, s) ==
        LET r == EncodeOperand(body.args, acc.t, ins[s[1]].ops[s[2]])
        IN [t |-> r.t, enc |-> acc.enc @@ (s :> r.enc)]
      done  == FoldLeft(step, [t |-> t, enc |-> <<>>], slots)
      kf == [function |-> f,
             numArgs |-> body.args,
             numInstructions |-> Len(ins),
             numRegisters |-> body.args + Len(ins),
             basicBlockEntry |-> [b \in DOMAIN body.blocks |->
                                    Len(FlattenSeq(SubSeq(body.blocks, 1, b - 1)))],
             instructions |-> [i \in DOMAIN ins |->
                [kind |-> IF ins[i].op = "gep" THEN "KGEPInstruction" ELSE "KInstruction",
                 dest |-> body.args + i - 1,
                 operands |-> [j \in DOMAIN ins[i].ops |-> done.enc[<<i, j>>]]]]]
  IN [kf |-> kf, t |-> done.t]

\* Register the KFunctions of fs, in order, against table t.
RegisterAll(fs, code, t) ==
  LET step(acc, f) ==
        LET r == MkKFunction(f, code[f], acc.t)
        IN [t |-> r.t, kfs |-> Append(acc.kfs, r.kf)]
  IN FoldLeft(step, [t |-> t, kfs |-> <<>>], fs)

Table == [map |-> constantMap, consts |-> constants, id |-> 0]

Init ==
  /\ module \in InitModules
  /\ ir = Body
  /\ prepared = FALSE
  /\ functions = <<>>
  /\ functionMap = <<>>
  /\ constants = <<>>
  /\ constantMap = <<>>
  /\ escapingFunctions = {}

(***************************************************************************)
(* KModule::prepare.  The module passes (pm3, then pm4) rewrite every     *)
(* defined function; memcpy, memmove and memset are force-imported and    *)
(* erased again when nothing uses them; then the shadow structures are    *)
(* built: a KFunction per defined function in module order, functionMap,  *)
(* and escapingFunctions.  Writing assembly.ll / final.bc is output only.  *)
(***************************************************************************)
prepare ==
  /\ ~prepared
  /\ LET code == [f \in Funcs |->
                   IF f \in module \ Declared /\ ModulePipelineLowersSwitch
                   THEN Lower(ir[f]) ELSE ir[f]]
         mod  == {f \in module \cup Imports : f \in Imports => Used(f, module, code)}
         defs == SelectSeq(FuncOrder, LAMBDA f : f \in mod \ Declared)
         r    == RegisterAll(defs, code, Table)
     IN /\ module' = mod
        /\ ir' = code
        /\ functions' = r.kfs
        /\ functionMap' = [f \in ToSet(defs) |->
                             r.kfs[CHOOSE i \in DOMAIN r.kfs : r.kfs[i].function = f]]
        /\ constants' = r.t.consts
        /\ constantMap' = r.t.map
        /\ escapingFunctions' = {f \in ToSet(defs) : Escapes(f, mod, code)}
  /\ prepared' = TRUE

(***************************************************************************)
(* KModule::updateModuleWithFunction(f), for a function the host has just *)
(* added to the module (its callees already exist): fpmOptimize, fpm3 and *)
(* fpm4 run on f, its KFunction is built and registered, and f alone is   *)
(* tested for escaping.  The assert requires f not to be registered yet.  *)
(***************************************************************************)
updateModuleWithFunction(f) ==
  /\ prepared
  /\ f \in Fresh \ module
  /\ \A i \in DOMAIN Instrs(Body[f]) : \A j \in DOMAIN Instrs(Body[f])[i].ops :
       Instrs(Body[f])[i].ops[j].c \in Funcs => Instrs(Body[f])[i].ops[j].c \in module
  /\ f \notin DOMAIN functionMap
  /\ LET code == IF FunctionPipelineLowersSwitch THEN Lower(Body[f]) ELSE Body[f]
         r    == MkKFunction(f, code, Table)
     IN /\ module' = module \cup {f}
        /\ ir' = [ir EXCEPT ![f] = code]
        /\ functions' = Append(functions, r.kf)
        /\ functionMap' = functionMap @@ (f :> r.kf)
        /\ constants' = r.t.consts
        /\ constantMap' = r.t.map
        /\ escapingFunctions' = escapingFunctions \cup
              (IF Escapes(f, module \cup {f}, [ir EXCEPT ![f] = code]) THEN {f} ELSE {})
  /\ UNCHANGED prepared

(***************************************************************************)
(* KModule::removeFunction(f): the KFunction leaves functions (std::find, *)
(* the first match), escapingFunctions and functionMap, and f is erased   *)
(* from the module (which LLVM allows only once nothing uses it).  The    *)
(* constant table is left as it is.                                        *)
(***************************************************************************)
removeFunction_KeepInModule(f) ==
  /\ f \in DOMAIN functionMap
  /\ ~Used(f, module, ir)
  /\ functions' = RemoveFirst(functions, functionMap[f])
  /\ escapingFunctions' = escapingFunctions \ {f}
  /\ functionMap' = [g \in DOMAIN functionMap \ {f} |-> functionMap[g]]
  /\ UNCHANGED <<module, ir, prepared, constants, constantMap>>

removeFunction(f) ==
  /\ f \in DOMAIN functionMap
  /\ ~Used(f, module, ir)
  /\ functions' = RemoveFirst(functions, functionMap[f])
  /\ escapingFunctions' = escapingFunctions \ {f}
  /\ functionMap' = [g \in DOMAIN functionMap \ {f} |-> functionMap[g]]
  /\ module' = module \ {f}
  /\ UNCHANGED <<ir, prepared, constants, constantMap>>

\* The host (S2E's translation-block cache) removes only the functions it
\* created.
Next ==
  \/ prepare
  \/ \E f \in Fresh : updateModuleWithFunction(f)
  \/ \E f \in Fresh : removeFunction(f)

Spec == Init /\ [][Next]_vars

-----------------------------------------------------------------------------
\* The inverse of the operand encoding, against the current constant table.
Decode(kf, e) ==
  CASE e >= kf.numArgs -> [t |-> "inst", n |-> e - kf.numArgs + 1, c |-> ""]
    [] e >= 0          -> [t |-> "arg", n |-> e, c |-> ""]
    [] e = -1          -> [t |-> "block", n |-> 0, c |-> ""]
    [] OTHER           -> [t |-> "const", n |-> 0, c |-> constants[-e - 2 + 1]]

TypeOK ==
  /\ module \subseteq Funcs
  /\ prepared \in BOOLEAN
  /\ constants \in Seq(STRING)
  /\ DOMAIN functionMap \subseteq module \ Declared
  /\ escapingFunctions \subseteq DOMAIN functionMap
  /\ \A i \in DOMAIN functions :
       /\ functions[i].numRegisters = functions[i].numArgs + functions[i].numInstructions
       /\ \A k \in DOMAIN functions[i].instructions :
            \A e \in ToSet(functions[i].instructions[k].operands) :
              e \in -(Len(constants) + 1) .. functions[i].numRegisters - 1

(***************************************************************************)
(* Every operand of every registered KFunction decodes, through the       *)
(* module-wide constant table as it is now, to the operand of the LLVM    *)
(* instruction it was built from, and every destination register lies    *)
(* past the formals.  KFunctions built at different times share the      *)
(* table, so this is about getConstantID's ids staying stable across      *)
(* later updateModuleWithFunction and removeFunction calls, and about the *)
(* KFunction constructor's encoding never colliding (-1 with a constant,  *)
(* an argument with a register).                                           *)
(***************************************************************************)
OperandsDecode ==
  \A k \in DOMAIN functions :
    LET kf == functions[k]
        ins == Instrs(ir[kf.function])
    IN /\ kf.numInstructions = Len(ins)
       /\ \A i \in DOMAIN ins :
            /\ kf.instructions[i].dest \in kf.numArgs .. kf.numRegisters - 1
            /\ \A j \in DOMAIN ins[i].ops :
                 LET v == ins[i].ops[j]
                 IN Decode(kf, kf.instructions[i].operands[j]) =
                      IF v.t = "const" THEN [v EXCEPT !.n = 0]
                      ELSE [v EXCEPT !.c = ""]

(***************************************************************************)
(* getConstantID interns: constantMap and constants are inverse, so each  *)
(* constant has exactly one id and the ids are 0 .. constants.size()-1.   *)
(***************************************************************************)
ConstantsInternedOnce ==
  /\ DOMAIN constantMap = ToSet(constants)
  /\ \A id \in DOMAIN constants : constantMap[constants[id]] = id - 1

(***************************************************************************)
(* After prepare, functions and functionMap both hold exactly one         *)
(* KFunction for each defined function of the llvm::Module, whatever      *)
(* sequence of updateModuleWithFunction and removeFunction calls ran.     *)
(***************************************************************************)
RegistryMatchesModule ==
  prepared =>
    /\ DOMAIN functionMap = module \ Declared
    /\ Len(functions) = Cardinality(DOMAIN functionMap)
    /\ \A f \in DOMAIN functionMap : Contains(functions, functionMap[f])

(***************************************************************************)
(* With --switch-type simple or llvm, the interpreter never meets a       *)
(* switch: every registered function, whether prepare() or               *)
(* updateModuleWithFunction() built it, went through a LowerSwitch pass.  *)
(***************************************************************************)
NoSwitchWhenLowered ==
  SwitchType # "internal" =>
    \A f \in DOMAIN functionMap :
      \A i \in DOMAIN Instrs(ir[f]) : Instrs(ir[f])[i].op # "switch"

(***************************************************************************)
(* escapingFunctions holds every registered function whose address is    *)
(* used other than as a call's callee anywhere in the module: those are  *)
(* the functions that may be called indirectly.  prepare() computes it    *)
(* over all functions; updateModuleWithFunction() tests only the new one, *)
(* so an address taken by a function added later is for the interpreter  *)
(* to notice.                                                              *)
(***************************************************************************)
EscapingFunctionsComplete ==
  \A f \in DOMAIN functionMap : Escapes(f, module, ir) => f \in escapingFunctions
=============================================================================
