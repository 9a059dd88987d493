---------------------------- MODULE PathCondition ----------------------------
(***************************************************************************)
(* What a path condition promises, stated over meanings only: it stands   *)
(* for the set of assignments that satisfy every fact added so far.       *)
(* Adding a feasible fact intersects that set with the fact's models; no  *)
(* fact is ever forgotten, and none is invented.                          *)
(***************************************************************************)
EXTENDS KleeExpr

CONSTANTS Inputs

VARIABLE models   \* the assignments the path condition still allows

Init == models = Assignments

AddFact(e) ==
  /\ \E s \in models : Holds(e, s)
  /\ models' = {s \in models : Holds(e, s)}

Next == \E e \in Inputs : AddFact(e)

Spec == Init /\ [][Next]_models
=============================================================================
