--------------------------- MODULE KModulePrepare ---------------------------
(***************************************************************************)
(* The IR rewriting at the front of KModule::prepare (KModule.cpp): the    *)
(* --merge-at-exit rewriting of the named functions and the injection of   *)
(* the llvm.global_ctors / llvm.global_dtors stubs into main.  The passes  *)
(* between them (RaiseAsm, DivCheck, IntrinsicCleaner, the optimiser) and  *)
(* library linking are out of scope: they leave calls and returns alone.   *)
(*                                                                         *)
(* A function body is a sequence of basic blocks, the first one the entry; *)
(* a block is a sequence of instructions whose last one is its terminator. *)
(* An instruction is a record [op, arg]:                                   *)
(*   call        arg = the callee's name                                   *)
(*   br          arg = the set of successor block indices                  *)
(*   ret         arg = the returned value, "none" for void, "phi" for the  *)
(*               value of the block's PHI node                             *)
(*   phi         arg = the set of incoming <<block index, value>> pairs    *)
(*   other, unreachable  arg = "none"                                      *)
(* The bodies are acyclic, so the paths of a function are finite.          *)
(***************************************************************************)
EXTENDS Naturals, Sequences, SequencesExt

CONSTANTS
  Inputs   \* the modules prepare may be handed; each a record
           \*   [mod: name -> body of the defined functions,
           \*    nonVoid: the defined functions returning a value,
           \*    merge: the names given to --merge-at-exit,
           \*    ctors, dtors: [present: is there such a global,
           \*        fps: the function pointers of its initializer, "null"
           \*        for a null entry, "notfn" for a constant that is no
           \*        function]]

VARIABLES
  in,      \* the module prepare was handed
  mod,     \* the module's function bodies
  status   \* "loaded", "prepared" or "aborted" (klee_error / assert)

vars == <<in, mod, status>>

Instr(op, arg) == [op |-> op, arg |-> arg]
Term(b) == Last(b)
IsRet(b) == Term(b).op = "ret"

-----------------------------------------------------------------------------
(* MergeAtExit, for one function f (KModule.cpp 282-306): append an exit   *)
(* block holding a PHI of the returned values (non-void f only), a call to *)
(* klee_merge and a return of the PHI; then replace the ret ending every   *)
(* other block by a branch to the exit block, giving the PHI an incoming   *)
(* value for that block.                                                   *)
MergeAtExitFn_NoIncoming(body, nonVoid) ==
  LET exit == Len(body) + 1
      phi  == IF nonVoid THEN <<Instr("phi", {})>> ELSE <<>>
  IN [i \in DOMAIN body |->
        IF IsRet(body[i]) THEN Append(Front(body[i]), Instr("br", {exit}))
                          ELSE body[i]]
     \o << phi \o << Instr("call", "klee_merge"),
                     Instr("ret", IF nonVoid THEN "phi" ELSE "none") >> >>

MergeAtExitFn_NoBranch(body, nonVoid) ==
  LET exit == Len(body) + 1
      rets == {i \in DOMAIN body : IsRet(body[i])}
      phi  == IF nonVoid THEN <<Instr("phi", {<<i, Term(body[i]).arg>> : i \in rets})>>
                         ELSE <<>>
  IN [i \in DOMAIN body |-> IF IsRet(body[i]) THEN Front(body[i]) ELSE body[i]]
     \o << phi \o << Instr("call", "klee_merge"),
                     Instr("ret", IF nonVoid THEN "phi" ELSE "none") >> >>

MergeAtExitFn(body, nonVoid) ==
  LET exit == Len(body) + 1
      rets == {i \in DOMAIN body : IsRet(body[i])}
      phi  == IF nonVoid THEN <<Instr("phi", {<<i, Term(body[i]).arg>> : i \in rets})>>
                         ELSE <<>>
  IN [i \in DOMAIN body |->
        IF IsRet(body[i]) THEN Append(Front(body[i]), Instr("br", {exit}))
                          ELSE body[i]]
     \o << phi \o << Instr("call", "klee_merge"),
                     Instr("ret", IF nonVoid THEN "phi" ELSE "none") >> >>

(* getStubFunctionForCtorList (164-205): one block calling, in list order, *)
(* every non-null function pointer of the initializer, then a return.  A   *)
(* pointer that is no function trips the assertion (StubAborts).           *)
getStubFunctionForCtorList(list) ==
  LET live == SelectSeq(list, LAMBDA fp : fp # "null")
  IN << [k \in DOMAIN live |-> Instr("call", live[k])] \o <<Instr("ret", "none")>> >>

StubAborts(g) == g.present /\ \E k \in DOMAIN g.fps : g.fps[k] = "notfn"

(* injectStaticConstructorsAndDestructors (207-227): a call to the ctor    *)
(* stub before the first instruction of main, and a call to the dtor stub  *)
(* before the terminator of every block of main that ends in a ret.        *)
injectDtors(body) ==
  [i \in DOMAIN body |->
     IF IsRet(body[i])
     THEN Append(Front(body[i]), Instr("call", "klee.dtor_stub")) \o <<Term(body[i])>>
     ELSE body[i]]

injectCtors(body) ==
  [body EXCEPT ![1] = <<Instr("call", "klee.ctor_stub")>> \o @]

injectStaticConstructorsAndDestructors(m, ctors, dtors) ==
  LET withCtors == IF ~ctors.present THEN m
                   ELSE [f \in DOMAIN m \cup {"klee.ctor_stub"} |->
                           IF f = "klee.ctor_stub" THEN getStubFunctionForCtorList(ctors.fps)
                           ELSE IF f = "main" THEN injectCtors(m[f]) ELSE m[f]]
  IN IF ~dtors.present THEN withCtors
     ELSE [f \in DOMAIN withCtors \cup {"klee.dtor_stub"} |->
             IF f = "klee.dtor_stub" THEN getStubFunctionForCtorList(dtors.fps)
             ELSE IF f = "main" THEN injectDtors(withCtors[f]) ELSE withCtors[f]]

-----------------------------------------------------------------------------
(* KModule::prepare up to the intrinsic passes (263-363).  klee_error on a *)
(* --merge-at-exit name that is missing or only declared, and the asserts  *)
(* of injectStaticConstructorsAndDestructors (no main) and of the stub     *)
(* builder (a pointer that is no function), end the process.  The          *)
(* klee_merge declaration created at 266-274 is no body, so mod does not   *)
(* hold it; the passes and linking between 312 and 363 touch no call or    *)
(* return the properties tell apart.                                       *)
MergeAtExit(m, merge, nonVoid) ==
  [f \in DOMAIN m |-> IF f \in merge THEN MergeAtExitFn(m[f], f \in nonVoid) ELSE m[f]]

PrepareAborts(i) ==
  \/ \E name \in i.merge : name \notin DOMAIN i.mod
  \/ (i.ctors.present \/ i.dtors.present) /\ "main" \notin DOMAIN i.mod
  \/ StubAborts(i.ctors) \/ StubAborts(i.dtors)

Init ==
  /\ in \in Inputs
  /\ mod = in.mod
  /\ status = "loaded"

prepare ==
  /\ status = "loaded"
  /\ IF PrepareAborts(in)
     THEN status' = "aborted" /\ UNCHANGED mod
     ELSE /\ status' = "prepared"
          /\ mod' = injectStaticConstructorsAndDestructors(
                      MergeAtExit(mod, in.merge, in.nonVoid), in.ctors, in.dtors)
  /\ UNCHANGED in

Next == prepare

Spec == Init /\ [][Next]_vars

-----------------------------------------------------------------------------
(* Reference semantics: the paths of a function, each the sequence of the *)
(* calls it makes (a call of a ctor/dtor stub stands for the calls of the  *)
(* stub's body) and the value it returns.                                  *)
Stubs == {"klee.ctor_stub", "klee.dtor_stub"}

CallTrace(m, ins) ==
  IF ins.op # "call" THEN <<>>
  ELSE IF ins.arg \in Stubs \cap DOMAIN m
       THEN [k \in 1..Len(m[ins.arg][1]) - 1 |-> m[ins.arg][1][k].arg]
       ELSE <<ins.arg>>

BlockTrace(m, b) == FlattenSeq([k \in DOMAIN b |-> CallTrace(m, b[k])])

PhiIncoming(b) == UNION {b[k].arg : k \in {k \in DOMAIN b : b[k].op = "phi"}}

(* The PHI's value when the block is entered from block pred.              *)
PhiValue(b, pred) ==
  IF \E p \in PhiIncoming(b) : p[1] = pred
  THEN (CHOOSE p \in PhiIncoming(b) : p[1] = pred)[2]
  ELSE "undef"

RECURSIVE PathsFrom(_, _, _, _)
PathsFrom(m, body, i, pred) ==
  LET b == body[i]
      t == BlockTrace(m, b)
  IN CASE Term(b).op = "ret" ->
            {[trace |-> t,
              ret   |-> IF Term(b).arg = "phi" THEN PhiValue(b, pred) ELSE Term(b).arg]}
       [] Term(b).op = "br" ->
            UNION {{[p EXCEPT !.trace = t \o @] : p \in PathsFrom(m, body, j, i)}
                   : j \in Term(b).arg}
       [] OTHER -> {}

Paths(m, f) == PathsFrom(m, m[f], 1, 0)

Live(g) == IF g.present THEN SelectSeq(g.fps, LAMBDA fp : fp # "null") ELSE <<>>

(* The calls prepare promises before and after the original body of f.     *)
Before(i, f) == IF f = "main" THEN Live(i.ctors) ELSE <<>>
After(i, f) ==
  LET merge == IF f \in i.merge THEN <<"klee_merge">> ELSE <<>>
      dtors == IF f = "main" THEN Live(i.dtors) ELSE <<>>
  IN {merge \o dtors, dtors \o merge}

-----------------------------------------------------------------------------
TypeOK ==
  /\ in \in Inputs
  /\ status \in {"loaded", "prepared", "aborted"}
  /\ DOMAIN in.mod \subseteq DOMAIN mod
  /\ \A f \in DOMAIN mod : \A k \in DOMAIN mod[f] :
       Len(mod[f][k]) > 0 /\ Term(mod[f][k]).op \in {"ret", "br", "unreachable"}

(* After prepare, every path through every function of the input module    *)
(* runs the live static constructors first (main only), then the calls of  *)
(* a path of the original function, then exactly one klee_merge (functions *)
(* named by --merge-at-exit) and every live destructor once (main only),   *)
(* and returns the value that original path returned; and every original   *)
(* path survives.  It is about the ret rewriting and PHI building of the   *)
(* merge-at-exit loop, the stubs' call lists and where they are inserted.  *)
PrepareKeepsPaths ==
  status = "prepared" =>
    \A f \in DOMAIN in.mod :
      /\ \A p \in Paths(mod, f) :
           \E q \in Paths(in.mod, f), a \in After(in, f) :
             p = [trace |-> Before(in, f) \o q.trace \o a, ret |-> q.ret]
      /\ \A q \in Paths(in.mod, f) :
           \E p \in Paths(mod, f), a \in After(in, f) :
             p = [trace |-> Before(in, f) \o q.trace \o a, ret |-> q.ret]
=============================================================================
