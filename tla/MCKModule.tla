------------------------------ MODULE MCKModule ------------------------------
(***************************************************************************)
(* A module with a main function, a helper it calls, a memcpy and a       *)
(* memset declaration, and four translated-block functions the host adds  *)
(* and removes after prepare: tb1 has a switch and calls helper, tb2      *)
(* takes tb1's address, tb3 calls memcpy, tb4 indexes with a new        *)
(* constant.  The module handed to KModule may or may not hold main,     *)
(* which alone uses memcpy.  The constants k0 and k1 are shared between   *)
(* functions, so ids interned by one KFunction are used by another, and   *)
(* the order the blocks arrive in decides the ids.                        *)
(***************************************************************************)
EXTENDS KModule

A(n)  == [t |-> "arg", n |-> n, c |-> ""]
I(n)  == [t |-> "inst", n |-> n, c |-> ""]
B     == [t |-> "block", n |-> 0, c |-> ""]
K(c)  == [t |-> "const", n |-> 0, c |-> c]
Ins(op, ops) == [op |-> op, ops |-> ops]

MCFuncs == {"main", "helper", "memcpy", "memset", "tb1", "tb2", "tb3", "tb4"}

\* The order of llvm::Module::iterator.
MCFuncOrder == <<"helper", "memcpy", "main", "memset", "tb1", "tb2", "tb3", "tb4">>

MCBody ==
  [f \in MCFuncs |->
     CASE f = "main" ->
            [args |-> 1, blocks |->
               << << Ins("call", <<K("helper"), A(0), K("k0")>>),
                     Ins("switch", <<I(1), B, B>>) >>,
                  << Ins("call", <<K("memcpy"), I(1), K("k1")>>) >> >>]
      [] f = "helper" ->
            [args |-> 2, blocks |->
               << << Ins("gep", <<A(0), K("k0")>>), Ins("other", <<I(1), A(1)>>) >> >>]
      [] f = "tb1" ->
            [args |-> 1, blocks |->
               << << Ins("switch", <<A(0), B>>) >>,
                  << Ins("call", <<K("helper"), K("k1"), A(0)>>) >> >>]
      [] f = "tb2" ->
            [args |-> 0, blocks |-> << << Ins("other", <<K("tb1"), K("k2")>>) >> >>]
      [] f = "tb3" ->
            [args |-> 2, blocks |->
               << << Ins("call", <<K("memcpy"), A(1), K("k3")>>), Ins("other", <<I(1), K("k0")>>) >> >>]
      [] f = "tb4" ->
            [args |-> 1, blocks |->
               << << Ins("gep", <<A(0), K("k4")>>) >>, << Ins("switch", <<I(1), B>>) >> >>]
      [] OTHER -> [args |-> 0, blocks |-> <<>>]]
\* With or without main: prepare keeps memcpy only when main uses it.
MCInitModules == {{"main", "helper", "memcpy", "memset"}, {"helper", "memcpy", "memset"}}
-----------------------------------------------------------------------------
(***************************************************************************)
(* prepare with its assembly.ll writer (KModule.cpp 414-486).  The writer  *)
(* runs inside prepare, after the passes and before prepare returns, so no *)
(* updateModuleWithFunction or removeFunction happens until it is done.   *)
(* It reads only the printed text, so running its loop after the atomic    *)
(* prepare step changes nothing the KModule state shows.  When prepare     *)
(* returns, its string and streams are deleted (482-485) and nothing in    *)
(* the repository reads assembly.ll, so the first step after the writer    *)
(* is done also drops what it wrote (Returned).  Texts are module          *)
(* texts of no, one or two lines whose lengths sit on both sides of the    *)
(* cut: empty and short lines, 253 (254 bytes with the newline), 254       *)
(* (exactly 255 bytes), 255 and a long line.                               *)
(***************************************************************************)
VARIABLES text, outputSource, noTruncate, position, out, done

outVars == <<text, outputSource, noTruncate, position, out, done>>

Lens == {0, 3, 253, 254, 255, 300}

MCTexts == {<<>>} \cup {<<a>> : a \in Lens} \cup {<<a, b>> : a, b \in Lens}

AO == INSTANCE AssemblyOutput WITH Texts <- MCTexts

WriteAssembly == prepared /\ AO!Next /\ UNCHANGED vars

PrepareInit == Init /\ AO!Init

Returned ==
  /\ text' = <<>> /\ out' = <<>> /\ position' = 0
  /\ UNCHANGED <<outputSource, noTruncate, done>>

PrepareNext ==
  \/ prepare /\ UNCHANGED outVars
  \/ WriteAssembly
  \/ done /\ (\E f \in Fresh : updateModuleWithFunction(f) \/ removeFunction(f))
           /\ Returned

\* The loop's iterations follow one another in prepare's thread.
PrepareSpec ==
  PrepareInit /\ [][PrepareNext]_<<vars, outVars>> /\ WF_<<vars, outVars>>(WriteAssembly)

AssemblyTypeOK == AO!TypeOK

(* What the writer promises: without --output-source nothing is written;   *)
(* otherwise each line of the module appears in assembly.ll once, in order,*)
(* as its first min(length, 254) characters followed by a newline, and     *)
(* nothing else is written; with --no-truncate-source-lines the text is    *)
(* copied as it is.  It is about the count < 255 test and the 254-byte     *)
(* write at the boundary lengths 253, 254 and 255.                         *)
AssemblyLinesTruncated == AO!LinesTruncated

(* Once prepare has run its passes, the writer finishes: the loop's        *)
(* position passes every newline, so index() eventually finds none and the *)
(* loop breaks, and prepare goes on.                                        *)
AssemblyWritten == prepared ~> done
=============================================================================
