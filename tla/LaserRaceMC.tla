----------------------------- MODULE LaserRaceMC -----------------------------
(* Two timers of pause, since one of an earlier pause may live on; two        *)
(* handlers at once, once, which is what it takes for one to come in between. *)
EXTENDS LaserRace, TLC

\* The timers of pause have nothing to tell them apart.
Alike == Permutations(PauseTimers)
==============================================================================
