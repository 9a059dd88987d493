------------------------------ MODULE KleeExpr ------------------------------
(***************************************************************************)
(* The hash-consed expression library that the constraint store consumes. *)
(* Its code (Expr.h/Expr.cpp) is not part of this repository's sources;   *)
(* it is modelled from the interface the constraint store relies on:      *)
(* immutable nodes with a Kind, a width and ordered kids, structural      *)
(* equality, and *Expr::create constructors that fold constants and       *)
(* canonicalise (a constant operand always goes to the left).             *)
(*                                                                         *)
(* The Kind grammar is cut down to the kinds the checked properties tell  *)
(* apart: Constant, Read (a symbolic variable), Add, Shl, Eq, Ult, And,   *)
(* Or.  Booleans are width-1 bitvectors, as in the library.                *)
(***************************************************************************)
LOCAL INSTANCE Naturals
LOCAL INSTANCE Sequences

CONSTANTS
  W,        \* bit width of the integer-typed expressions
  NumVars   \* number of symbolic variables (Read nodes 1..NumVars)

ASSUME W \in Nat \ {0} /\ NumVars \in Nat \ {0}

Modulus == 2 ^ W
Val     == 0 .. (Modulus - 1)
Bool    == 1                      \* Expr::Bool, the width of a boolean

\* Every node has the same record shape so that TLC can compare any two.
Const(v, w)   == [k |-> "Constant", v |-> v, w |-> w, kids |-> <<>>]
Read(n)       == [k |-> "Read", v |-> n, w |-> W, kids |-> <<>>]
Node(k, l, r) == [k |-> k, v |-> 0, kids |-> <<l, r>>,
                  w |-> IF k \in {"Add", "Shl"} THEN W ELSE Bool]

TrueE  == Const(1, Bool)
FalseE == Const(0, Bool)
BoolE(b) == IF b THEN TrueE ELSE FalseE
IsConst(e) == e.k = "Constant"

(***************************************************************************)
(* Reference semantics: the value of an expression under an assignment    *)
(* of values to the symbolic variables.  This is the meaning the          *)
(* constraint store must preserve; it is independent of the folding code. *)
(***************************************************************************)
Assignments == [1 .. NumVars -> Val]

RECURSIVE Eval(_, _)
Eval(e, s) ==
  CASE e.k = "Constant" -> e.v
    [] e.k = "Read"     -> s[e.v]
    [] OTHER ->
       LET a == Eval(e.kids[1], s)
           b == Eval(e.kids[2], s)
       IN CASE e.k = "Add" -> (a + b) % Modulus
            [] e.k = "Shl" -> (a * 2 ^ b) % Modulus
            [] e.k = "Eq"  -> IF a = b THEN 1 ELSE 0
            [] e.k = "Ult" -> IF a < b THEN 1 ELSE 0
            [] e.k = "And" -> a * b
            [] e.k = "Or"  -> IF a + b > 0 THEN 1 ELSE 0

Holds(e, s) == Eval(e, s) = 1

\* A node built by the library: kinds, arities and operand widths agree.
RECURSIVE WellFormed(_)
WellFormed(e) ==
  CASE e.k = "Constant" -> e.kids = <<>> /\ e.v \in 0 .. (2 ^ e.w - 1)
    [] e.k = "Read"     -> e.kids = <<>> /\ e.v \in 1 .. NumVars /\ e.w = W
    [] OTHER ->
       /\ e.k \in {"Add", "Shl", "Eq", "Ult", "And", "Or"}
       /\ DOMAIN e.kids = {1, 2}
       /\ WellFormed(e.kids[1]) /\ WellFormed(e.kids[2])
       /\ e.kids[1].w = e.kids[2].w
       /\ e.k \in {"And", "Or"} => e.kids[1].w = Bool
       /\ e.k \in {"Add", "Shl", "Ult"} => e.kids[1].w = W

RECURSIVE SubExprs(_)
SubExprs(e) == {e} \cup UNION {SubExprs(e.kids[i]) : i \in DOMAIN e.kids}

(***************************************************************************)
(* ConstantExpr arithmetic: the folding a create() call does when both    *)
(* operands are constants.  A shift by the width or more yields zero      *)
(* (APInt::shl).                                                           *)
(***************************************************************************)
ConstAdd(a, b) == Const((a.v + b.v) % Modulus, W)
ConstSub(a, b) == Const((a.v - b.v) % Modulus, W)
ConstShl(a, b) == Const(IF b.v >= W THEN 0 ELSE (a.v * 2 ^ b.v) % Modulus, W)

(***************************************************************************)
(* The create() constructors.  Each folds two constants, moves a lone     *)
(* constant to the left and applies the identities of its                 *)
(* *_createPartialR helper; otherwise it allocates a fresh node.          *)
(***************************************************************************)
\* AddExpr_createPartialR: 0 + r = r;  c + (c2 + x) = (c + c2) + x.
AddC(c, r) ==
  LET c2 == IF r.k = "Add" /\ IsConst(r.kids[1]) THEN ConstAdd(c, r.kids[1]) ELSE c
      r2 == IF r.k = "Add" /\ IsConst(r.kids[1]) THEN r.kids[2] ELSE r
  IN IF c2.v = 0 THEN r2 ELSE Node("Add", c2, r2)

MkAdd(l, r) ==
  CASE IsConst(l) /\ IsConst(r) -> ConstAdd(l, r)
    [] IsConst(l)               -> AddC(l, r)
    [] IsConst(r)               -> AddC(r, l)
    [] OTHER                    -> Node("Add", l, r)

MkShl(l, r) ==
  IF IsConst(l) /\ IsConst(r) THEN ConstShl(l, r) ELSE Node("Shl", l, r)

MkUlt(l, r) ==
  IF IsConst(l) /\ IsConst(r) THEN BoolE(l.v < r.v) ELSE Node("Ult", l, r)

\* AndExpr_createPartialR / OrExpr_createPartialR on booleans.
MkAnd(l, r) ==
  CASE IsConst(l) /\ IsConst(r) -> BoolE(l.v = 1 /\ r.v = 1)
    [] IsConst(l) -> IF l.v = 1 THEN r ELSE l
    [] IsConst(r) -> IF r.v = 1 THEN l ELSE r
    [] OTHER      -> Node("And", l, r)

MkOr(l, r) ==
  CASE IsConst(l) /\ IsConst(r) -> BoolE(l.v = 1 \/ r.v = 1)
    [] IsConst(l) -> IF l.v = 1 THEN l ELSE r
    [] IsConst(r) -> IF r.v = 1 THEN r ELSE l
    [] OTHER      -> Node("Or", l, r)

(***************************************************************************)
(* EqExpr_createPartialR(c, r): true == r is r; false == (false == a) is  *)
(* a; false == (a || b) is (false == a) && (false == b);                  *)
(* c0 == c1 + b is (c0 - c1) == b.                                         *)
(***************************************************************************)
\* Mutant: c0 == c1 + b rewritten as (c0 + c1) == b.
EqC_AddNotSubtracted(c, r) ==
  CASE c.w = Bool /\ c.v = 1 -> r
    [] c.w = Bool /\ r.k = "Eq" /\ r.kids[1] = FalseE -> r.kids[2]
    [] c.w = Bool /\ r.k = "Or" ->
         LET Neg(a) == IF IsConst(a) THEN BoolE(a.v = 0)
                       ELSE IF a.k = "Eq" /\ a.kids[1] = FalseE THEN a.kids[2]
                       ELSE Node("Eq", FalseE, a)
         IN MkAnd(Neg(r.kids[1]), Neg(r.kids[2]))
    [] r.k = "Add" /\ IsConst(r.kids[1]) -> Node("Eq", ConstAdd(c, r.kids[1]), r.kids[2])
    [] OTHER -> Node("Eq", c, r)

EqC(c, r) ==
  CASE c.w = Bool /\ c.v = 1 -> r
    [] c.w = Bool /\ r.k = "Eq" /\ r.kids[1] = FalseE -> r.kids[2]
    [] c.w = Bool /\ r.k = "Or" ->
         LET Neg(a) == IF IsConst(a) THEN BoolE(a.v = 0)
                       ELSE IF a.k = "Eq" /\ a.kids[1] = FalseE THEN a.kids[2]
                       ELSE Node("Eq", FalseE, a)
         IN MkAnd(Neg(r.kids[1]), Neg(r.kids[2]))
    [] r.k = "Add" /\ IsConst(r.kids[1]) -> Node("Eq", ConstSub(c, r.kids[1]), r.kids[2])
    [] OTHER -> Node("Eq", c, r)

MkEq(l, r) ==
  CASE IsConst(l) /\ IsConst(r) -> BoolE(l.v = r.v)
    [] IsConst(l) -> EqC(l, r)
    [] IsConst(r) -> EqC(r, l)
    [] l = r      -> TrueE
    [] OTHER      -> Node("Eq", l, r)

\* Expr::rebuild(kids): the node's own kind re-created over new kids.
Rebuild(e, kids) ==
  CASE e.k = "Add" -> MkAdd(kids[1], kids[2])
    [] e.k = "Shl" -> MkShl(kids[1], kids[2])
    [] e.k = "Eq"  -> MkEq(kids[1], kids[2])
    [] e.k = "Ult" -> MkUlt(kids[1], kids[2])
    [] e.k = "And" -> MkAnd(kids[1], kids[2])
    [] e.k = "Or"  -> MkOr(kids[1], kids[2])
=============================================================================
