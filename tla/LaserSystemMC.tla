---------------------------- MODULE LaserSystemMC ----------------------------
(* Bounds and inputs for the runs of LaserSystem.                            *)
EXTENDS LaserSystem

CONSTANT t1

MCLeg(from, to, approach) == [from |-> from, to |-> to, approach |-> approach]

\* Two motors, of which the first travels.  A segment; a point that it may have
\* to overstep, to the end of its range; a scan that goes up and then down; and
\* a client that sends it to the end of its range.
MCSegments   == {MCLeg(<<1, 0>>, <<3, 0>>, <<"u", "u">>)}
MCTargets    == {MCLeg(<<1, 0>>, <<1, 0>>, <<"d", "-">>)}
MCScans      == {<<MCLeg(<<1, 0>>, <<2, 0>>, <<"u", "u">>), MCLeg(<<2, 0>>, <<0, 0>>, <<"u", "u">>)>>}
MCMotorCalls == {<<1, 3>>}
==============================================================================
