------------------------------- MODULE MotorMC -------------------------------
(* Bounds for the runs of Motor.                                             *)
EXTENDS Motor

\* Two threads of one kind can meet, one of them from before a terminate: those
\* of the CIB, which ask nobody.  One thread of each of the others.
MCMaxThreads == [k \in Kinds |-> IF k = "cib" THEN 2 ELSE 1]

\* A whole configuration, and one without the load register, which the server
\* does not ask for.
MCFragments == {Registers, {"direction", "cur_pos"}}
==============================================================================
