----------------------------- MODULE GridScanMC -----------------------------
(* Requests for the runs of GridScan: words of six bits.                     *)
EXTENDS GridScan

\* What may be asked of one axis: a point, lines of a few steps, a step that
\* does not divide the range, a step of zero, a last step that just stays within
\* a word, one that does not (the loop never ends), and a range that does not
\* fit a signed word (it never begins).
MCAxis == {<<3, 0, 0>>, <<-2, 5, 0>>, <<3, 4, 2>>, <<-2, 4, 3>>, <<24, 5, 1>>, <<26, 5, 1>>,
           <<0, 40, 2>>}
MCApproach == {<<"u", "d", "u">>, <<"d", "-", "d">>}

MCRequests ==
  {[center    |-> [a \in Axes |-> r[a + 1][1]],
    range     |-> [a \in Axes |-> r[a + 1][2]],
    step      |-> [a \in Axes |-> r[a + 1][3]],
    approach  |-> [a \in Axes |-> ap[a + 1]],
    scan_axis |-> s] : r \in MCAxis \X MCAxis \X MCAxis, ap \in MCApproach, s \in Axes}
==============================================================================
