-------------------------------- MODULE Light --------------------------------
(***************************************************************************)
(* What the laser unit promises of its light, to a reader of its status    *)
(* who knows nothing of shutters, registers, threads and the serial line:  *)
(* the laser begins to fire under a status that is neither idle nor        *)
(* lasing, and in the dark; while it fires the status is never idle, and   *)
(* light comes out under lasing only; it ends to fire in the dark, and     *)
(* idle.                                                                   *)
(***************************************************************************)

VARIABLES fire,     \* the CIB makes the laser fire
          light,    \* light comes out
          report    \* what the status amounts to

vars == <<fire, light, report>>

Report == {"idle", "armed", "lasing"}

Init == ~fire /\ ~light /\ report = "idle"

\* A unit that does not fire may report anything: its shutters are moved, a
\* single shot is refused.
StaysOff == ~fire /\ ~fire' /\ ~light' /\ report' \in Report

Ignites == ~fire /\ fire' /\ ~light' /\ report' = "armed"

Operates ==
  /\ fire /\ fire'
  /\ light' \in BOOLEAN /\ report' \in {"armed", "lasing"}
  /\ light' => report' = "lasing"

Ends == fire /\ ~fire' /\ ~light' /\ report' = "idle"

Next == StaysOff \/ Ignites \/ Operates \/ Ends

Spec == Init /\ [][Next]_vars
==============================================================================
