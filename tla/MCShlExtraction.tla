---------------------------- MODULE MCShlExtraction ----------------------------
(***************************************************************************)
(* Checks ExprShlVisitor::ParseExpr against the reference of spec 4.4 on  *)
(* every expression of up to MaxNodes inner nodes built from x, y, 1, 2   *)
(* and a fixed shift x << 1, with Add and Shl nodes on either side.  Each *)
(* state is one call of ParseExpr on a fresh visitor; a step either grows *)
(* the expression by one node or starts again from a leaf.  The visitor   *)
(* is built with the two-argument constructor (src = x, dst = y), so the  *)
(* visitExpr override compares against a real node and its ChangeTo is   *)
(* exercised and discarded.                                                *)
(***************************************************************************)
EXTENDS ShlExtraction

CONSTANT MaxNodes

VARIABLE expr   \* the expression handed to ParseExpr

X == Read(1)
Y == Read(2)
C(n) == Const(n, W)
Parts == {X, Y, C(1), C(2), Node("Shl", X, C(1))}

RECURSIVE Size(_)
Size(e) == IF e.kids = <<>> THEN 0 ELSE 1 + Size(e.kids[1]) + Size(e.kids[2])

Visitor == ExprShlVisitor2(X, Y)

Init == expr \in {X, Y}

Grow ==
  /\ Size(expr) < MaxNodes
  /\ \E k \in {"Add", "Shl"}, p \in Parts :
       expr' \in {Node(k, expr, p), Node(k, p, expr)}

Restart == expr' \in {X, Y}

Next == Grow \/ Restart

Spec == Init /\ [][Next]_expr

(***************************************************************************)
(* ParseExpr records, for every shift amount, the operand of the first    *)
(* Shl the pre-order walk meets with that amount (first-write-wins), no   *)
(* more and no fewer keys than there are distinct amounts, and does not   *)
(* fault when its visitor has a real src.                                 *)
(***************************************************************************)
ShlMapMatchesSpec ==
  LET r == ParseExpr(Visitor, expr, <<>>)
  IN ~r.crashed /\ r.map = ShlMapSpec(expr)
=============================================================================
