---------------------------- MODULE MCExamplePlugin ----------------------------
(***************************************************************************)
(* Model-checking instance of ExamplePlugin over the facts of             *)
(* MCConstraintManager.                                                    *)
(***************************************************************************)
EXTENDS ExamplePlugin, MCConstraintManager
=============================================================================
