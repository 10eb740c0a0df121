----------------------------- MODULE LaserUnitMC -----------------------------
(* Bounds on the timer threads for the runs of LaserUnit.                    *)
EXTENDS LaserUnit

\* The timer of pause watches the external shutter, not the state, so one of
\* an earlier pause lives on through standby and meets the next one: two are
\* needed to see both.
MCMaxTimers == [k \in Timed |-> IF k = "pause" THEN 2 ELSE 1]

\* One timer of each kind, for the run that is not about the timers.
MCOneTimer == [k \in Timed |-> 1]
==============================================================================
