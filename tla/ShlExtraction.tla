---------------------------- MODULE ShlExtraction ----------------------------
(***************************************************************************)
(* ExprShlVisitor (Constraints.cpp, "addbyxqx"): a visitor that collects   *)
(* the shift-left sub-expressions of a constraint into shlExprMap, keyed   *)
(* by the shift amount, and ConstraintManager::ParseConstraintExpr, the   *)
(* entry point that runs it.                                               *)
(*                                                                         *)
(* The visitor keeps the src/dst fields of ExprReplaceVisitor and the same *)
(* visitExpr override, which dereferences src.  The default constructor,   *)
(* the one ParseConstraintExpr uses, leaves src a null ref.                *)
(***************************************************************************)
EXTENDS KleeExpr, Naturals, Sequences
LOCAL INSTANCE TLC

\* The null ref<Expr> a default-constructed ExprShlVisitor holds in src.
NullRef == [k |-> "Null", v |-> 0, w |-> 0, kids |-> <<>>]

\* ExprShlVisitor() and ExprShlVisitor(src, dst).
ExprShlVisitor       == [src |-> NullRef, dst |-> NullRef]
ExprShlVisitor2(s, d) == [src |-> s, dst |-> d]

(***************************************************************************)
(* visitExpr(e) evaluates e == *src.get(): Expr::compare reads the kind   *)
(* of *src, so with a null src it faults.  The outcome the build can       *)
(* produce is a SIGSEGV; it is the value "crash" here.                     *)
(***************************************************************************)
VisitExprFaults(V) == V.src = NullRef

\* shlExprMap.insert(make_pair(amount, operand)): std::map::insert keeps an
\* existing key, so the first Shl met with a given amount wins.
\* Mutant: the pair overwrites an existing key (last write wins).
InsertShl_LastWins(map, e) ==
  IF e.k = "Shl" THEN (e.kids[2] :> e.kids[1]) @@ map ELSE map

InsertShl(map, e) ==
  IF e.k = "Shl" /\ e.kids[2] \notin DOMAIN map
  THEN map @@ (e.kids[2] :> e.kids[1])
  ELSE map

(***************************************************************************)
(* ExprShlVisitor::ParseExpr(e), threading shlExprMap through the         *)
(* traversal.  A constant returns at once.  Otherwise visitExpr runs      *)
(* (and faults on a null src); its Action is then overwritten by the      *)
(* per-kind visitXxx dispatch, which is DoChildren for every kind, so a   *)
(* ChangeTo(dst) is never acted on.  The Shl pair is recorded before the  *)
(* kids, and every kid is parsed, without memoisation.                    *)
(***************************************************************************)
RECURSIVE ParseExpr(_, _, _), ParseKids(_, _, _, _)

ParseKids(V, kids, i, r) ==
  IF i > Len(kids) \/ r.crashed THEN r
  ELSE ParseKids(V, kids, i + 1, ParseExpr(V, kids[i], r.map))

ParseExpr(V, e, map) ==
  IF IsConst(e) THEN [map |-> map, crashed |-> FALSE]
  ELSE IF VisitExprFaults(V) THEN [map |-> map, crashed |-> TRUE]
  ELSE ParseKids(V, e.kids, 1, [map |-> InsertShl(map, e), crashed |-> FALSE])

(***************************************************************************)
(* ConstraintManager::ParseConstraintExpr(e): a default-constructed       *)
(* visitor runs ExprVisitor::visit(e), whose visitActual returns a        *)
(* constant untouched and otherwise calls the visitExpr override first.   *)
(* The visitor, and its map, are local: nothing is returned.              *)
(***************************************************************************)
ParseConstraintExprCrashes(e) ==
  ~IsConst(e) /\ VisitExprFaults(ExprShlVisitor)

(***************************************************************************)
(* Reference (spec 4.4): the Shl nodes met in a full left-to-right        *)
(* pre-order walk that visits a shared node once per incoming edge; the   *)
(* map holds, for each amount, the operand of the first such node.        *)
(***************************************************************************)
RECURSIVE ShlWalk(_)
ShlWalk(e) ==
  LET here == IF e.k = "Shl" THEN <<e>> ELSE <<>>
      kidWalk[i \in 0 .. Len(e.kids)] ==
        IF i = 0 THEN <<>> ELSE kidWalk[i - 1] \o ShlWalk(e.kids[i])
  IN IF IsConst(e) THEN <<>> ELSE here \o kidWalk[Len(e.kids)]

ShlMapSpec(e) ==
  LET walk == ShlWalk(e)
      amounts == {walk[i].kids[2] : i \in DOMAIN walk}
      first(a) == CHOOSE i \in DOMAIN walk :
                    walk[i].kids[2] = a /\ \A j \in 1 .. (i - 1) : walk[j].kids[2] # a
  IN [a \in amounts |-> walk[first(a)].kids[1]]
=============================================================================
