---------------------------- MODULE CommissioningMC ----------------------------
(* Two values of each setting, two motors and two coordinates.                *)
EXTENDS Commissioning

AnyArrangement == [Motors -> Coordinates]

\* Each motor at a coordinate of its own.
Separate == {f \in AnyArrangement : \A m, n \in Motors : f[m] = f[n] => m = n}

-----------------------------------------------------------------------------
(* The parts touch each other in the order of load_config only: one at a time *)
(* goes all its ways, and the others are as a configuration or a shutdown     *)
(* leaves them.                                                               *)

PlainAttenuator == /\ att.echo = A!NoEcho /\ ~att.stale
                   /\ A!Idle(att) => (att.status = "ready") = (att.m_att = "live")
PlainCib        == /\ cib.dac = "closed" /\ cib.level = Highest
                   /\ cib.m_regs = IF cib.status = "ready" THEN {"align"} ELSE {}
PlainLaser      == /\ echo = None /\ ~stale /\ ~unit.m_is_terminating
                   /\ unit.m_laser = (unit.status = "ready")
                   /\ unit.m_config_completed = (unit.m_laser /\ call = "idle")
PlainMeter      == /\ meter.kind = "range" /\ meter.device = "a" /\ meter.kept = "a"
                   /\ ~meter.unsaid /\ (meter.online => meter.told = "a")
PlainMotors     == /\ older = {}
                   /\ \/ named = {} /\ \A m \in Motors : coordinate[m] = 0
                      \/ named = Motors /\ \A m \in named : m_map_motor_coordinates[coordinate[m]] = m

OnlyMotors == PlainAttenuator /\ PlainCib /\ PlainLaser /\ PlainMeter

OneVaries ==
  \/ PlainCib /\ PlainLaser /\ PlainMeter /\ PlainMotors
  \/ PlainAttenuator /\ PlainLaser /\ PlainMeter /\ PlainMotors
  \/ PlainAttenuator /\ PlainCib /\ PlainMeter /\ PlainMotors
  \/ PlainAttenuator /\ PlainCib /\ PlainLaser /\ PlainMotors
  \/ OnlyMotors

==============================================================================
