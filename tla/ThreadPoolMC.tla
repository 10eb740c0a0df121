----------------------------- MODULE ThreadPoolMC -----------------------------
(* A pool of two workers and a queue of two, fed by two producers. *)
EXTENDS ThreadPool, TLC

CONSTANTS w1, w2, p1, p2, j1, j2, j3

TwoWorkers   == {w1, w2}
TwoProducers == {p1, p2}
ThreeJobs    == {j1, j2, j3}
==============================================================================
