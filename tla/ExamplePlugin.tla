----------------------------- MODULE ExamplePlugin -----------------------------
(***************************************************************************)
(* The Example plugin (Example.cpp) composed with the constraint store of *)
(* one execution state.  While the state runs, the executor adds facts;   *)
(* when the state terminates, onStateTerminate walks the stored           *)
(* constraints in order and calls ParseConstraintExpr on each, to harvest *)
(* the shift patterns for the test-case generator.                        *)
(***************************************************************************)
EXTENDS ConstraintManager, ShlExtraction

VARIABLE phase   \* "running", "terminated", or "crashed" (SIGSEGV)

pluginVars == <<constraints, aborted, adds, phase>>

PluginInit == Init /\ phase = "running"

AddWhileRunning(e) == phase = "running" /\ addConstraint(e) /\ UNCHANGED phase

(***************************************************************************)
(* Example::onStateTerminate: for each stored constraint, in order,       *)
(* state->ParseConstraintExpr on each element; the loop ends the process at the     *)
(* first call that faults.  Printing and the TestCaseGenerator call do    *)
(* not touch this state.                                                   *)
(***************************************************************************)
onStateTerminate ==
  /\ phase = "running"
  /\ ~aborted
  /\ phase' = IF \E i \in DOMAIN constraints : ParseConstraintExprCrashes(constraints[i])
              THEN "crashed" ELSE "terminated"
  /\ UNCHANGED <<constraints, aborted, adds>>

PluginNext == (\E e \in Inputs : AddWhileRunning(e)) \/ onStateTerminate

PluginSpec == PluginInit /\ [][PluginNext]_pluginVars

(***************************************************************************)
(* Spec section 6: the reporting collaborator runs the extraction once per stored *)
(* constraint at state termination and reads the resulting shift map;    *)
(* termination must therefore complete without a fault.                  *)
(***************************************************************************)
TerminationCompletes == phase # "crashed"
=============================================================================
