----------------------------- MODULE ExprVisitor -----------------------------
(***************************************************************************)
(* The tree-rewrite visitor (ExprVisitor::visit / visitActual) and the two *)
(* equality-substitution visitors of Constraints.cpp built on it.          *)
(*                                                                         *)
(* A visitor is a record:                                                  *)
(*   repl      the replacements it knows, a function from expressions to   *)
(*             the expression that replaces them;                          *)
(*   pre       whether visitExpr (before the kids) consults repl;          *)
(*   recursive the ExprVisitor(recursive) flag: a rebuilt node is visited *)
(*             again before visitExprPost.                                 *)
(* visitExprPost always consults repl.  The per-kind visitXxx hooks of     *)
(* both visitors are the default DoChildren, and the visited-node cache   *)
(* only memoises this deterministic function, so neither is a variable.   *)
(***************************************************************************)
EXTENDS KleeExpr
LOCAL INSTANCE TLC

\* Action::changeTo(repl[e]) when e is a key, Action::doChildren otherwise.
Hook(V, e) == IF e \in DOMAIN V.repl THEN V.repl[e] ELSE e

RECURSIVE Visit(_, _)
Visit(V, e) ==
  IF IsConst(e) THEN e
  ELSE IF V.pre /\ e \in DOMAIN V.repl THEN V.repl[e]
  ELSE LET kids    == [i \in DOMAIN e.kids |-> Visit(V, e.kids[i])]
           rebuild == kids # e.kids
           built   == IF rebuild THEN Rebuild(e, kids) ELSE e
           again   == IF rebuild /\ V.recursive THEN Visit(V, built) ELSE built
       IN IF IsConst(again) THEN again ELSE Hook(V, again)

\* ExprReplaceVisitor(src, dst): src is replaced by dst both before and
\* after the kids are visited; the visitor is not recursive.
ExprReplaceVisitor(src, dst) ==
  [repl |-> (src :> dst), pre |-> TRUE, recursive |-> FALSE]

\* ExprReplaceVisitor2(replacements): ExprVisitor(true), post hook only.
ExprReplaceVisitor2(replacements) ==
  [repl |-> replacements, pre |-> FALSE, recursive |-> TRUE]
=============================================================================
