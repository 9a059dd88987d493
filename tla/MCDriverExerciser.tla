--------------------------- MODULE MCDriverExerciser ---------------------------
(***************************************************************************)
(* Execution-state slots (three for drv_exerciser, two for the violation  *)
(* runs); a tracked driver "drv" with an entry point, a tracked module     *)
(* "drv0" without one, an untracked module, and the kernel; two IRP        *)
(* majors, IRP_MJ_CREATE (0) and IRP_MJ_DEVICE_CONTROL (14), the driver    *)
(* filling in the latter.                                                  *)
(***************************************************************************)
EXTENDS DriverExerciser, TLC

\* Init starts any slot, a fork takes any free one and the barrier may
\* resume any succeeded one: slots that differ only by name behave alike.
SlotSymmetry == Permutations(States)
=============================================================================
