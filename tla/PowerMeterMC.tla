----------------------------- MODULE PowerMeterMC -----------------------------
(* A power meter with at most three reading threads at once. *)
EXTENDS PowerMeter, TLC

CONSTANTS r1, r2, r3

ThreeReaders == {r1, r2, r3}
==============================================================================
