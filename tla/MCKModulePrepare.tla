------------------------- MODULE MCKModulePrepare -------------------------
(* Small modules for KModulePrepare: main and a helper, each in a few      *)
(* shapes (one return, two returns, a block ending in unreachable), void   *)
(* or not, every subset of --merge-at-exit names (one of them unknown),    *)
(* and ctor/dtor lists with null entries and a non-function entry.         *)
EXTENDS KModulePrepare

C(f) == Instr("call", f)
Br(s) == Instr("br", s)
R(v) == Instr("ret", v)

MainShapes ==
  { << <<C("helper"), Br({2, 3})>>, <<R("v1")>>, <<Instr("other", "none"), R("v2")>> >>,
    << <<Instr("other", "none"), Br({2})>>, <<C("helper"), R("v1")>> >>,
    << <<C("helper"), Br({2, 3})>>, <<Instr("unreachable", "none")>>, <<C("puts"), R("v2")>> >> }

HelperShapes ==
  { << <<R("v3")>> >>,
    << <<Br({2, 3})>>, <<C("puts"), R("v1")>>, <<R("v2")>> >> }

(* A void function returns no value.                                       *)
Voided(body) ==
  [i \in DOMAIN body |->
     IF IsRet(body[i]) THEN Append(Front(body[i]), R("none")) ELSE body[i]]

Shaped(shape, nonVoid) == [f \in DOMAIN shape |->
                             IF f \in nonVoid THEN shape[f] ELSE Voided(shape[f])]

Lists == {[present |-> FALSE, fps |-> <<>>]}
         \cup {[present |-> TRUE, fps |-> l] :
                 l \in {<<"init1">>, <<"null", "init1", "init2">>, <<"init1", "notfn">>}}

MCInputs ==
  { [mod |-> Shaped(shape, nv), nonVoid |-> nv, merge |-> mg, ctors |-> c, dtors |-> d] :
      shape \in {[f \in {"main", "helper"} |-> IF f = "main" THEN ms ELSE hs] :
                   ms \in MainShapes, hs \in HelperShapes}
                \cup {[f \in {"helper"} |-> hs] : hs \in HelperShapes},
      nv \in SUBSET {"main", "helper"},
      mg \in SUBSET {"main", "helper", "missing"},
      c \in Lists, d \in {[present |-> FALSE, fps |-> <<>>], [present |-> TRUE, fps |-> <<"fini1", "null">>]} }
=============================================================================
