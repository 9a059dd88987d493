--------------------------- MODULE MCNtoskrnlApi ---------------------------
(***************************************************************************)
(* NtoskrnlApi for TLC.  A consistency configuration gives every API one  *)
(* level, as the s2e config's per-function consistency keys do; the runs  *)
(* range over uniform configurations, which reach every branch of every   *)
(* handler.                                                                *)
(***************************************************************************)
EXTENDS NtoskrnlApi, TLC

Uniform(lvl) == [f \in Apis |-> lvl]

\* IoCreateSymbolicLink and IoCreateDevice kept below LOCAL: their
\* forking branch registers through fns (checked by MCNtoskrnlApiFns.cfg).
SafeConfigs ==
  {[Uniform(lvl) EXCEPT !["IoCreateSymbolicLink"] = "strict",
                        !["IoCreateDevice"] = "strict"]
     : lvl \in DOMAIN Level}

AllUniformConfigs == {Uniform(lvl) : lvl \in DOMAIN Level}

\* The slots are interchangeable: Init starts any one of them and a fork
\* takes any free one, so states that differ by a renaming of slots are
\* checked once (the runs check invariants only).
SlotSymmetry == Permutations(States)
====
