-------------------------- MODULE ConstraintManager --------------------------
(***************************************************************************)
(* klee::ConstraintManager (Constraints.cpp): the ordered path condition   *)
(* of one execution state, addConstraint with eager conjunction splitting  *)
(* and equality propagation, and the simplifyExpr query.                   *)
(*                                                                         *)
(* The caller (the executor) adds only facts that are feasible together    *)
(* with the current path condition; that is the contract under which the  *)
(* "attempt to add invalid (false) constraint" assertion must never fire.  *)
(***************************************************************************)
EXTENDS ExprVisitor, Naturals, Sequences, FiniteSets

CONSTANTS
  Inputs,   \* the (canonical) expressions the executor may add
  MaxAdds   \* bound on the number of addConstraint calls

VARIABLES
  constraints,  \* ConstraintManager::constraints, a sequence of expressions
  aborted,      \* the assertion in addConstraintInternal fired
  adds          \* number of addConstraint calls so far (bound only)

vars == <<constraints, aborted, adds>>

(***************************************************************************)
(* simplifyExpr: the equality map is built from the constraints in order  *)
(* with std::map::insert, so the first constraint giving a key wins.       *)
(* Eq(c, t) with a constant left side gives t -> c; every other            *)
(* constraint gives itself -> true.                                        *)
(***************************************************************************)
\* Mutant: the non-constant side of an equality is mapped to true (the
\* value of the other branch) instead of to its constant.
Entry_EqToTrue(c) ==
  IF c.k = "Eq" /\ IsConst(c.kids[1]) THEN <<c.kids[2], TrueE>>
  ELSE <<c, TrueE>>

Entry(c) ==
  IF c.k = "Eq" /\ IsConst(c.kids[1]) THEN <<c.kids[2], c.kids[1]>>
  ELSE <<c, TrueE>>

Equalities(cs) ==
  LET keys == {Entry(cs[i])[1] : i \in DOMAIN cs}
      first(key) == CHOOSE i \in DOMAIN cs :
                      /\ Entry(cs[i])[1] = key
                      /\ \A j \in 1 .. (i - 1) : Entry(cs[j])[1] # key
  IN [key \in keys |-> Entry(cs[first(key)])[2]]

simplifyExpr(cs, e) ==
  IF IsConst(e) THEN e ELSE Visit(ExprReplaceVisitor2(Equalities(cs)), e)

(***************************************************************************)
(* addConstraintInternal and rewriteConstraints call each other; both are *)
(* functions from the current constraint list to [cs, ok], where ok is    *)
(* FALSE once the assertion on a non-true constant has fired.             *)
(* rewriteConstraints swaps the list out, visits each old constraint in   *)
(* order, re-inserts a changed one through addConstraintInternal (which   *)
(* sees only the constraints already moved back) and keeps an unchanged   *)
(* one as it is.                                                           *)
(***************************************************************************)
RECURSIVE addConstraintInternal(_, _), RewriteFrom(_, _, _)

\* Mutant: a rewritten constraint is stored as it is instead of being
\* re-inserted ("enable further reductions" left out).
RewriteFrom_NoReinsert(acc, old, V) ==
  IF old = <<>> THEN [cs |-> acc, ok |-> TRUE]
  ELSE LET ce == Head(old)
       IN RewriteFrom(Append(acc, Visit(V, ce)), Tail(old), V)

\* Mutant: the learned equality is used to rewrite the others but is not
\* itself pushed back.
addConstraintInternal_NoPush(cs, e) ==
  CASE e.k = "Constant" -> [cs |-> cs, ok |-> e.v = 1]
    [] e.k = "And" ->
         LET r == addConstraintInternal(cs, e.kids[1])
         IN IF r.ok THEN addConstraintInternal(r.cs, e.kids[2]) ELSE r
    [] e.k = "Eq" /\ IsConst(e.kids[1]) ->
         RewriteFrom(<<>>, cs, ExprReplaceVisitor(e.kids[2], e.kids[1]))
    [] OTHER -> [cs |-> Append(cs, e), ok |-> TRUE]

RewriteFrom(acc, old, V) ==
  IF old = <<>> THEN [cs |-> acc, ok |-> TRUE]
  ELSE LET ce == Head(old)
           e  == Visit(V, ce)
           r  == IF e # ce THEN addConstraintInternal(acc, e)
                 ELSE [cs |-> Append(acc, ce), ok |-> TRUE]
       IN IF r.ok THEN RewriteFrom(r.cs, Tail(old), V) ELSE r

rewriteConstraints(cs, V) == RewriteFrom(<<>>, cs, V)

addConstraintInternal(cs, e) ==
  CASE e.k = "Constant" -> [cs |-> cs, ok |-> e.v = 1]
    [] e.k = "And" ->
         LET r == addConstraintInternal(cs, e.kids[1])
         IN IF r.ok THEN addConstraintInternal(r.cs, e.kids[2]) ELSE r
    [] e.k = "Eq" /\ IsConst(e.kids[1]) ->
         LET r == rewriteConstraints(cs, ExprReplaceVisitor(e.kids[2], e.kids[1]))
         IN [r EXCEPT !.cs = Append(@, e)]
    [] OTHER -> [cs |-> Append(cs, e), ok |-> TRUE]

(***************************************************************************)
(* The executor's contract: a fact is added only if it is feasible with   *)
(* the current path condition (the solver has just said so).               *)
(***************************************************************************)
Models(cs) == {s \in Assignments : \A i \in DOMAIN cs : Holds(cs[i], s)}
Feasible(cs, e) == \E s \in Models(cs) : Holds(e, s)

Init ==
  /\ constraints = <<>>
  /\ aborted = FALSE
  /\ adds = 0

\* ConstraintManager::addConstraint: simplify against the current
\* constraints, then insert.
addConstraint(e) ==
  /\ ~aborted
  /\ adds < MaxAdds
  /\ Feasible(constraints, e)
  /\ LET r == addConstraintInternal(constraints, simplifyExpr(constraints, e))
     IN /\ constraints' = r.cs
        /\ aborted' = ~r.ok
  /\ adds' = adds + 1

Next == \E e \in Inputs : addConstraint(e)

Spec == Init /\ [][Next]_vars

-----------------------------------------------------------------------------
TypeOK ==
  /\ DOMAIN constraints = 1 .. Len(constraints)
  /\ \A i \in DOMAIN constraints : WellFormed(constraints[i]) /\ constraints[i].w = Bool
  /\ aborted \in BOOLEAN
  /\ adds \in 0 .. MaxAdds

(***************************************************************************)
(* Path-condition shape (constraints invariants (a) and (b)): no stored   *)
(* element is a constant or a conjunction.  addConstraintInternal drops   *)
(* true and splits And, and rewriteConstraints must send every rewritten  *)
(* constraint back through it, since a rewrite can fold a stored fact to  *)
(* true or turn a disjunction into a conjunction.                         *)
(***************************************************************************)
StoredAreFacts ==
  \A i \in DOMAIN constraints : constraints[i].k \notin {"Constant", "And"}

(***************************************************************************)
(* The assertion "attempt to add invalid (false) constraint" in           *)
(* addConstraintInternal never fires while the executor adds only         *)
(* feasible facts: propagation never folds a stored fact to false.        *)
(***************************************************************************)
NoContractAbort == ~aborted

(***************************************************************************)
(* Refinement: the stored constraints mean exactly the conjunction of     *)
(* every fact added, whatever simplification, splitting and equality      *)
(* propagation addConstraint did on the way.                              *)
(***************************************************************************)
(***************************************************************************)
(* simplifyExpr is sound as a query: for every sub-expression the         *)
(* executor may ask about (integer-valued ones included, such as an      *)
(* address or an operand, not only facts about to be added), the         *)
(* simplified expression has the same value as the original in every     *)
(* model of the current path condition.  It is about the equality map:   *)
(* which side of a stored equality becomes the key, the "fact -> true"   *)
(* entries, and first-wins insertion when two constraints give one key.  *)
(***************************************************************************)
Queries == UNION {SubExprs(e) : e \in Inputs}

SimplifyExprSound ==
  \A e \in Queries : \A s \in Models(constraints) :
    Eval(simplifyExpr(constraints, e), s) = Eval(e, s)

Abstract == INSTANCE PathCondition WITH models <- Models(constraints)

PathConditionRefined == Abstract!Spec
=============================================================================
