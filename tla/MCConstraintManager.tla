------------------------- MODULE MCConstraintManager -------------------------
(***************************************************************************)
(* Model-checking instance of ConstraintManager: two 2-bit symbolic       *)
(* variables x and y and facts chosen so that every insertion path runs: *)
(* a learned equality that rewrites an earlier fact into a new equality  *)
(* (cascade), a rewrite that folds a fact to true, a disjunction that    *)
(* rewrites into a conjunction, a conjunction split, a negation, an      *)
(* add of true and an add of a fact already stored.                      *)
(***************************************************************************)
EXTENDS ConstraintManager

X == Read(1)
Y == Read(2)
C(n) == Const(n, W)

MCInputs ==
  { MkEq(C(1), X),                                            \* x == 1
    MkEq(C(2), X),                                            \* x == 2
    MkEq(C(2), Y),                                            \* y == 2
    MkEq(C(3), MkAdd(X, Y)),                                  \* x + y == 3
    MkUlt(X, Y),                                              \* x < y
    MkEq(FalseE, MkUlt(X, Y)),                                \* !(x < y)
    MkAnd(MkUlt(C(0), X), MkEq(C(0), MkShl(Y, C(1)))),        \* 0 < x && y << 1 == 0
    MkOr(MkEq(C(2), X), MkAnd(MkUlt(Y, C(2)), MkUlt(C(0), Y))), \* x == 2 || (y < 2 && 0 < y)
    TrueE }
=============================================================================
