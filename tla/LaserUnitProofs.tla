--------------------------- MODULE LaserUnitProofs ---------------------------
(* Safety of the laser unit, for any number of timer threads.  The handlers   *)
(* are operators from a state of the unit to the next, so the proof has one   *)
(* lemma for each primitive, one for each handler (it keeps a state safe), and *)
(* one step for each action.                                                  *)
EXTENDS LaserUnit, TLAPS

\* The registers hold what the cached view says, and light means lasing.  The
\* other parts carry the induction: an idle unit does not fire (or configuring
\* it could lose the driver of a laser that fires), only a unit with a driver
\* and registers fires (or a handler could not close anything), and a paused
\* one has the external shutter closed.
Safe(u) ==
  /\ u \in Unit
  /\ u.ext_shutter_closed = u.cib_shutter
  /\ u.qswitch_enable = u.cib_qswitch
  /\ u.fire_enable = u.cib_fire
  /\ u.cib_fire /\ u.cib_qswitch /\ ~u.cib_shutter /\ ~u.laser_shutter_closed
       => u.status = "lasing"
  /\ u.status \in {"offline", "ready"} => ~u.cib_fire
  /\ u.status = "pause" => u.cib_shutter
  /\ u.cib_fire => u.m_laser /\ u.m_regs

\* Two states agree on everything but the status and the timers.
SameHardware(u, v) ==
  /\ v.m_laser = u.m_laser /\ v.m_regs = u.m_regs
  /\ v.ext_shutter_closed = u.ext_shutter_closed
  /\ v.laser_shutter_closed = u.laser_shutter_closed
  /\ v.qswitch_enable = u.qswitch_enable /\ v.fire_enable = u.fire_enable
  /\ v.cib_shutter = u.cib_shutter /\ v.cib_qswitch = u.cib_qswitch /\ v.cib_fire = u.cib_fire

LEMMA SetStatusEffect ==
  ASSUME NEW u \in Unit, NEW s \in Status
  PROVE  /\ SetStatus(u, s) \in Unit
         /\ SetStatus(u, s).status = s
         /\ SameHardware(u, SetStatus(u, s))
<1>1. CASE u.status = s
  BY <1>1 DEF SetStatus, SameHardware
<1>2. CASE u.status # s /\ s \notin Timed
  <2>1. SetStatus(u, s) = [u EXCEPT !.status = s]
    BY <1>2 DEF SetStatus
  <2> QED BY <2>1 DEF SameHardware, Unit
<1>3. CASE u.status # s /\ s \in Timed
  <2> DEFINE timers == [u.sleeping EXCEPT ![s] = @ + 1]
  <2>1. timers \in [Timed -> Nat]
    BY <1>3 DEF Unit
  <2>2. SetStatus(u, s) = [u EXCEPT !.status = s, !.sleeping = timers]
    BY <1>3 DEF SetStatus, Unit
  <2> HIDE DEF timers
  <2> QED BY <2>1, <2>2 DEF SameHardware, Unit
<1> QED BY <1>1, <1>2, <1>3

LEMMA ExtShutterEffect ==
  ASSUME NEW u \in Unit, NEW b \in BOOLEAN
  PROVE  LET v == SetExtShutter(u, b)
         IN  /\ v \in Unit
             /\ v.status = u.status
             /\ v.m_laser = u.m_laser /\ v.m_regs = u.m_regs
             /\ v.ext_shutter_closed = b /\ v.cib_shutter = b
             /\ v.laser_shutter_closed = u.laser_shutter_closed
             /\ v.qswitch_enable = u.qswitch_enable /\ v.cib_qswitch = u.cib_qswitch
             /\ v.fire_enable = u.fire_enable /\ v.cib_fire = u.cib_fire
  BY DEF SetExtShutter, Unit

LEMMA QswitchEffect ==
  ASSUME NEW u \in Unit, NEW b \in BOOLEAN
  PROVE  LET v == SetQswitch(u, b)
         IN  /\ v \in Unit
             /\ v.status = u.status
             /\ v.m_laser = u.m_laser /\ v.m_regs = u.m_regs
             /\ v.ext_shutter_closed = u.ext_shutter_closed /\ v.cib_shutter = u.cib_shutter
             /\ v.laser_shutter_closed = u.laser_shutter_closed
             /\ v.qswitch_enable = b /\ v.cib_qswitch = b
             /\ v.fire_enable = u.fire_enable /\ v.cib_fire = u.cib_fire
  BY DEF SetQswitch, Unit

LEMMA FireEffect ==
  ASSUME NEW u \in Unit, NEW b \in BOOLEAN
  PROVE  LET v == SetFire(u, b)
         IN  /\ v \in Unit
             /\ v.status = u.status
             /\ v.m_laser = u.m_laser /\ v.m_regs = u.m_regs
             /\ v.ext_shutter_closed = u.ext_shutter_closed /\ v.cib_shutter = u.cib_shutter
             /\ v.laser_shutter_closed = u.laser_shutter_closed
             /\ v.qswitch_enable = u.qswitch_enable /\ v.cib_qswitch = u.cib_qswitch
             /\ v.fire_enable = b /\ v.cib_fire = b
  BY DEF SetFire, Unit

LEMMA CloseLaserShutterEffect ==
  ASSUME NEW u \in Unit, NEW ok \in Serial
  PROVE  LET v == CloseLaserShutter(u, ok)
         IN  /\ v \in Unit
             /\ v.status = u.status
             /\ v.m_laser = u.m_laser /\ v.m_regs = u.m_regs
             /\ v.ext_shutter_closed = u.ext_shutter_closed /\ v.cib_shutter = u.cib_shutter
             /\ u.laser_shutter_closed => v.laser_shutter_closed
             /\ v.qswitch_enable = u.qswitch_enable /\ v.cib_qswitch = u.cib_qswitch
             /\ v.fire_enable = u.fire_enable /\ v.cib_fire = u.cib_fire
  BY DEF CloseLaserShutter, Unit, Serial

LEMMA OpenLaserShutterEffect ==
  ASSUME NEW u \in Unit, NEW ok \in Serial
  PROVE  LET v == OpenLaserShutter(u, ok)
         IN  /\ v \in Unit
             /\ v.status = u.status
             /\ v.m_laser = u.m_laser /\ v.m_regs = u.m_regs
             /\ v.ext_shutter_closed = u.ext_shutter_closed /\ v.cib_shutter = u.cib_shutter
             /\ v.qswitch_enable = u.qswitch_enable /\ v.cib_qswitch = u.cib_qswitch
             /\ v.fire_enable = u.fire_enable /\ v.cib_fire = u.cib_fire
  BY DEF OpenLaserShutter, Unit, Serial

-----------------------------------------------------------------------------
(* Taking the light away keeps a safe unit safe, whatever its status. *)

LEMMA DarkeningSafe ==
  ASSUME NEW u, Safe(u)
  PROVE  /\ Safe(SetExtShutter(u, TRUE))
         /\ Safe(SetQswitch(u, FALSE))
         /\ Safe(SetFire(u, FALSE))
         /\ \A ok \in Serial : Safe(CloseLaserShutter(u, ok))
<1>1. u \in Unit
  BY DEF Safe
<1>2. Safe(SetExtShutter(u, TRUE))
  BY <1>1, ExtShutterEffect DEF Safe
<1>3. Safe(SetQswitch(u, FALSE))
  BY <1>1, QswitchEffect DEF Safe
<1>4. Safe(SetFire(u, FALSE))
  BY <1>1, FireEffect DEF Safe
<1>5. ASSUME NEW ok \in Serial PROVE Safe(CloseLaserShutter(u, ok))
  BY <1>1, CloseLaserShutterEffect DEF Safe
<1> QED BY <1>2, <1>3, <1>4, <1>5

\* A dark unit may take any status, but an idle one must not fire and a paused
\* one must have closed the external shutter.
LEMMA DarkStatusSafe ==
  ASSUME NEW u, Safe(u), NEW s \in Status,
         ~u.cib_fire \/ ~u.cib_qswitch \/ u.cib_shutter \/ u.laser_shutter_closed,
         s \in {"offline", "ready"} => ~u.cib_fire,
         s = "pause" => u.cib_shutter
  PROVE  Safe(SetStatus(u, s))
  BY SetStatusEffect DEF Safe, SameHardware

-----------------------------------------------------------------------------
(* Every handler keeps a safe unit safe. *)

LEMMA ForceExtShutterSafe ==
  ASSUME NEW u, Safe(u), NEW close \in BOOLEAN
  PROVE  Safe(ForceExtShutter(u, close))
  BY SetStatusEffect, ExtShutterEffect DEF ForceExtShutter, Safe, SameHardware, Status

LEMMA ForceExtShutterFire ==
  ASSUME NEW u \in Unit, NEW close \in BOOLEAN
  PROVE  ForceExtShutter(u, close).cib_fire = u.cib_fire
<1> DEFINE v == SetExtShutter(u, close)
<1>1. v \in Unit /\ v.cib_fire = u.cib_fire
  BY ExtShutterEffect
<1>2. \A s \in Status : SetStatus(v, s).cib_fire = u.cib_fire
  BY <1>1, SetStatusEffect DEF SameHardware
<1>3. \/ ForceExtShutter(u, close) = u
      \/ \E s \in Status : ForceExtShutter(u, close) = SetStatus(v, s)
  BY DEF ForceExtShutter, Status, Unit
<1> QED BY <1>2, <1>3

LEMMA StopSafe ==
  ASSUME NEW u, Safe(u), NEW ok \in Serial
  PROVE  Safe(Stop(u, ok))
<1>1. CASE ~u.m_regs
  BY <1>1 DEF Stop
<1>2. CASE u.m_regs
  <2> DEFINE shut == ForceExtShutter(u, TRUE)
             off  == SetFire(SetQswitch(shut, FALSE), FALSE)
             dark == CloseLaserShutter(off, ok)
             open == ForceExtShutter(dark, FALSE)
  <2>1. Safe(SetQswitch(shut, FALSE))
    BY ForceExtShutterSafe, DarkeningSafe
  <2>2. Safe(off) /\ off \in Unit /\ ~off.cib_fire
    <3>1. SetQswitch(shut, FALSE) \in Unit
      BY <2>1 DEF Safe
    <3> QED BY <2>1, <3>1, DarkeningSafe, FireEffect
  <2> HIDE DEF off
  <2>3. Safe(dark) /\ dark \in Unit /\ ~dark.cib_fire
    <3>1. Safe(dark)
      BY <2>2, DarkeningSafe
    <3> QED BY <2>2, <3>1, CloseLaserShutterEffect
  <2> USE DEF off
  <2>4. Safe(open) /\ ~open.cib_fire
    <3>1. Safe(open)
      BY <2>3, ForceExtShutterSafe
    <3>2. ~open.cib_fire
      BY <2>3, ForceExtShutterFire
    <3> QED BY <3>1, <3>2
  <2>5. Stop(u, ok) = SetStatus(open, "ready")
    BY <1>2 DEF Stop
  <2> QED BY <2>4, <2>5, DarkStatusSafe DEF Status
<1> QED BY <1>1, <1>2, u \in Unit DEF Safe, Unit

LEMMA StandbySafe ==
  ASSUME NEW u, Safe(u), NEW ok \in Serial
  PROVE  Safe(StandbyHandler(u, ok))
<1> DEFINE noq  == SetQswitch(u, FALSE)
           dark == CloseLaserShutter(noq, ok)
           shut == SetExtShutter(dark, TRUE)
<1>1. Safe(noq)
  BY DarkeningSafe
<1>2. Safe(dark)
  BY <1>1, DarkeningSafe
<1>3. Safe(shut)
  BY <1>2, DarkeningSafe
<1>0. u \in Unit /\ noq \in Unit /\ dark \in Unit /\ u.fire_enable = u.cib_fire
  BY <1>1, <1>2 DEF Safe
<1>4. shut.cib_shutter /\ shut.cib_fire = u.fire_enable
  <2>1. noq.cib_fire = u.fire_enable
    BY <1>0, QswitchEffect
  <2>2. dark.cib_fire = u.fire_enable
    BY <1>0, <2>1, CloseLaserShutterEffect
  <2> HIDE DEF dark
  <2> QED BY <1>0, <2>2, ExtShutterEffect
<1>5. StandbyHandler(u, ok) = u
        \/ StandbyHandler(u, ok) = SetStatus(shut, IF u.fire_enable THEN "standby" ELSE "ready")
  BY DEF StandbyHandler
<1>6. Safe(SetStatus(shut, IF u.fire_enable THEN "standby" ELSE "ready"))
  <2>1. CASE u.fire_enable
    BY <1>3, <1>4, <2>1, DarkStatusSafe DEF Status
  <2>2. CASE ~u.fire_enable
    BY <1>3, <1>4, <2>2, DarkStatusSafe DEF Status
  <2> QED BY <2>1, <2>2
<1> QED BY <1>5, <1>6

LEMMA PauseSafe ==
  ASSUME NEW u, Safe(u), NEW ok \in Serial
  PROVE  Safe(PauseHandler(u, ok))
<1> DEFINE shut   == SetExtShutter(u, TRUE)
           opened == OpenLaserShutter(shut, TRUE)
           on     == SetQswitch(opened, TRUE)
<1>1. Safe(shut) /\ shut \in Unit /\ shut.cib_shutter
  BY DarkeningSafe, ExtShutterEffect DEF Safe
<1>2. Safe(opened) /\ opened \in Unit /\ opened.cib_shutter /\ opened.cib_fire = shut.cib_fire
  BY <1>1, OpenLaserShutterEffect DEF Safe, Serial
<1>3. Safe(on) /\ on.cib_shutter
  BY <1>2, QswitchEffect DEF Safe
<1>4. shut.cib_fire = u.cib_fire
  BY ExtShutterEffect DEF Safe
<1>5. \/ PauseHandler(u, ok) \in {u, shut}
      \/ PauseHandler(u, ok) = SetStatus(on, "pause")
      \/ ~u.fire_enable /\ PauseHandler(u, ok) = SetStatus(opened, "ready")
  BY DEF PauseHandler
<1>6. Safe(SetStatus(on, "pause"))
  BY <1>3, DarkStatusSafe DEF Status
<1>7. ~u.fire_enable => Safe(SetStatus(opened, "ready"))
  BY <1>2, <1>4, DarkStatusSafe DEF Status, Safe
<1> QED BY <1>1, <1>5, <1>6, <1>7

LEMMA ResumeSafe ==
  ASSUME NEW u, Safe(u), NEW ok \in Serial, NEW ok2 \in Serial
  PROVE  Safe(ResumeHandler(u, ok, ok2))
<1> DEFINE opened == OpenLaserShutter(u, TRUE)
           lit    == SetExtShutter(opened, FALSE)
<1>1. \/ ResumeHandler(u, ok, ok2) = u
      \/ ResumeHandler(u, ok, ok2) = StandbyHandler(u, ok2)
      \/ ResumeHandler(u, ok, ok2) = SetStatus(lit, "lasing")
  BY DEF ResumeHandler
<1>0. u \in Unit
  BY DEF Safe
<1>2. opened \in Unit /\ lit \in Unit
  BY <1>0, OpenLaserShutterEffect, ExtShutterEffect DEF Serial
<1>3. Safe(SetStatus(lit, "lasing"))
  <2>1. /\ lit.m_laser = u.m_laser /\ lit.m_regs = u.m_regs
        /\ lit.ext_shutter_closed = FALSE /\ lit.cib_shutter = FALSE
        /\ lit.qswitch_enable = u.qswitch_enable /\ lit.cib_qswitch = u.cib_qswitch
        /\ lit.fire_enable = u.fire_enable /\ lit.cib_fire = u.cib_fire
    <3>1. /\ opened.m_laser = u.m_laser /\ opened.m_regs = u.m_regs
          /\ opened.qswitch_enable = u.qswitch_enable /\ opened.cib_qswitch = u.cib_qswitch
          /\ opened.fire_enable = u.fire_enable /\ opened.cib_fire = u.cib_fire
      BY <1>0, OpenLaserShutterEffect DEF Serial
    <3> HIDE DEF opened
    <3> QED BY <1>2, <3>1, ExtShutterEffect
  <2> HIDE DEF lit
  <2>2. /\ SetStatus(lit, "lasing") \in Unit
        /\ SetStatus(lit, "lasing").status = "lasing"
        /\ SameHardware(lit, SetStatus(lit, "lasing"))
    BY <1>2, SetStatusEffect DEF Status
  <2> QED BY <2>1, <2>2 DEF Safe, SameHardware
<1> QED BY <1>1, <1>3, StandbySafe

LEMMA TerminateSafe ==
  ASSUME NEW u, Safe(u), NEW ok \in Serial
  PROVE  Safe(Terminate(u, ok))
<1> DEFINE noq  == SetQswitch(u, FALSE)
           off  == SetFire(noq, FALSE)
           open == SetExtShutter(off, FALSE)
           dark == CloseLaserShutter(open, ok)
           done == SetStatus(dark, "offline")
<1>0. u \in Unit
  BY DEF Safe
<1>1. CASE u.status = "offline"
  BY <1>1 DEF Terminate, Safe, Unit
<1>2. CASE u.status # "offline" /\ ~u.m_regs
  BY <1>2 DEF Terminate, Safe, Unit
<1>3. CASE u.status # "offline" /\ u.m_regs
  <2>1. Safe(noq) /\ noq \in Unit
    BY <1>0, DarkeningSafe, QswitchEffect
  <2> HIDE DEF noq
  <2>2. off \in Unit /\ Safe(off) /\ ~off.cib_fire
    BY <2>1, DarkeningSafe, FireEffect
  <2> HIDE DEF off
  <2>3. /\ open \in Unit /\ ~open.cib_fire /\ ~open.fire_enable /\ ~open.cib_shutter
        /\ open.ext_shutter_closed = open.cib_shutter
        /\ open.qswitch_enable = open.cib_qswitch
    <3>1. off \in Unit /\ ~off.cib_fire /\ ~off.fire_enable
          /\ off.qswitch_enable = off.cib_qswitch
      BY <2>2 DEF Safe
    <3> QED BY <3>1, ExtShutterEffect
  <2> HIDE DEF open
  <2>4. /\ dark \in Unit /\ ~dark.cib_fire /\ ~dark.fire_enable
        /\ dark.ext_shutter_closed = dark.cib_shutter
        /\ dark.qswitch_enable = dark.cib_qswitch
    BY <2>3, CloseLaserShutterEffect
  <2> HIDE DEF dark
  <2>5. /\ done \in Unit /\ ~done.cib_fire /\ ~done.fire_enable /\ done.status = "offline"
        /\ done.ext_shutter_closed = done.cib_shutter
        /\ done.qswitch_enable = done.cib_qswitch
    BY <2>4, SetStatusEffect DEF SameHardware, Status
  <2>6. Terminate(u, ok) = [done EXCEPT !.m_laser = FALSE, !.m_config_completed = FALSE,
                                        !.m_is_terminating = FALSE]
    BY <1>3 DEF Terminate, done, dark, open, off, noq
  <2> HIDE DEF done
  <2> DEFINE gone == [done EXCEPT !.m_laser = FALSE, !.m_config_completed = FALSE,
                                  !.m_is_terminating = FALSE]
  <2>7. /\ gone \in Unit /\ gone.status = done.status
        /\ gone.ext_shutter_closed = done.ext_shutter_closed
        /\ gone.cib_shutter = done.cib_shutter
        /\ gone.qswitch_enable = done.qswitch_enable /\ gone.cib_qswitch = done.cib_qswitch
        /\ gone.fire_enable = done.fire_enable /\ gone.cib_fire = done.cib_fire
    BY <2>5 DEF Unit
  <2>8. done.fire_enable = FALSE /\ done.cib_fire = FALSE
    BY <2>5 DEF Unit
  <2> HIDE DEF gone
  <2> QED BY <2>5, <2>6, <2>7, <2>8 DEF Safe, gone
<1> QED BY <1>1, <1>2, <1>3

LEMMA SwitchLaserShutterSafe ==
  ASSUME NEW u, Safe(u), NEW close \in BOOLEAN, NEW ok \in Serial
  PROVE  Safe(SwitchLaserShutter(u, close, ok))
<1>0. u \in Unit
  BY DEF Safe
<1>1. CASE u.status = "offline" \/ ~u.m_laser \/ (close /\ ~u.m_regs)
  BY <1>1 DEF SwitchLaserShutter
<1>2. CASE u.status # "offline" /\ u.m_laser /\ u.m_regs /\ close
  <2> DEFINE noq     == SetQswitch(u, FALSE)
             closed  == CloseLaserShutter(noq, ok)
             standby == SetStatus(closed, "standby")
             open    == SetExtShutter(standby, FALSE)
  <2>1. Safe(noq) /\ noq \in Unit /\ ~noq.cib_qswitch
    BY <1>0, DarkeningSafe, QswitchEffect
  <2> HIDE DEF noq
  <2>2. Safe(closed) /\ closed \in Unit /\ ~closed.cib_qswitch
    <3>1. Safe(closed)
      BY <2>1, DarkeningSafe
    <3> QED BY <2>1, <3>1, CloseLaserShutterEffect
  <2> HIDE DEF closed
  <2>3. Safe(standby)
    BY <2>2, DarkStatusSafe DEF Status
  <2>4. standby \in Unit /\ ~standby.cib_qswitch /\ standby.status = "standby"
    BY <2>2, SetStatusEffect DEF SameHardware, Status
  <2>5. SwitchLaserShutter(u, close, ok) \in {standby, open}
    BY <1>2 DEF SwitchLaserShutter, standby, closed, noq
  <2> HIDE DEF standby
  <2>6. Safe(open)
    <3>1. /\ open \in Unit /\ open.status = standby.status
          /\ open.m_laser = standby.m_laser /\ open.m_regs = standby.m_regs
          /\ open.ext_shutter_closed = FALSE /\ open.cib_shutter = FALSE
          /\ open.qswitch_enable = standby.qswitch_enable
          /\ open.cib_qswitch = standby.cib_qswitch
          /\ open.fire_enable = standby.fire_enable /\ open.cib_fire = standby.cib_fire
      BY <2>4, ExtShutterEffect
    <3> HIDE DEF open
    <3> QED BY <2>3, <2>4, <3>1 DEF Safe
  <2> QED BY <2>3, <2>5, <2>6
<1>3. CASE u.status # "offline" /\ u.m_laser /\ ~close
  <2> DEFINE opened == OpenLaserShutter(u, ok)
             on     == SetQswitch(opened, TRUE)
  <2>1. /\ opened \in Unit /\ opened.status = u.status
        /\ opened.m_laser = u.m_laser /\ opened.m_regs = u.m_regs
        /\ opened.ext_shutter_closed = u.ext_shutter_closed /\ opened.cib_shutter = u.cib_shutter
        /\ opened.qswitch_enable = u.qswitch_enable /\ opened.cib_qswitch = u.cib_qswitch
        /\ opened.fire_enable = u.fire_enable /\ opened.cib_fire = u.cib_fire
    BY <1>0, OpenLaserShutterEffect
  <2>2. CASE ~u.m_regs
    <3>1. SwitchLaserShutter(u, close, ok) = opened
      BY <1>3, <2>2 DEF SwitchLaserShutter
    <3> HIDE DEF opened
    <3> QED BY <2>1, <2>2, <3>1 DEF Safe
  <2>3. CASE u.m_regs
    <3> HIDE DEF opened
    <3>1. /\ on \in Unit
          /\ on.m_laser = u.m_laser /\ on.m_regs = u.m_regs
          /\ on.ext_shutter_closed = u.ext_shutter_closed /\ on.cib_shutter = u.cib_shutter
          /\ on.qswitch_enable = TRUE /\ on.cib_qswitch = TRUE
          /\ on.fire_enable = u.fire_enable /\ on.cib_fire = u.cib_fire
      BY <2>1, QswitchEffect
    <3> DEFINE s == CASE ~on.fire_enable -> "ready"
                      [] on.fire_enable /\ on.ext_shutter_closed  -> "pause"
                      [] on.fire_enable /\ ~on.ext_shutter_closed -> "lasing"
    <3>2. SwitchLaserShutter(u, close, ok) = SetStatus(on, s)
      BY <1>3, <2>1, <2>3, <3>1 DEF SwitchLaserShutter, opened
    <3> HIDE DEF on
    <3>3. /\ s \in Status
          /\ ~on.fire_enable => s = "ready"
          /\ on.fire_enable => s \in {"pause", "lasing"}
          /\ on.fire_enable /\ on.ext_shutter_closed => s = "pause"
          /\ on.fire_enable /\ ~on.ext_shutter_closed => s = "lasing"
      BY <3>1 DEF Status, Unit
    <3> HIDE DEF s
    <3>4. /\ SetStatus(on, s) \in Unit
          /\ SetStatus(on, s).status = s
          /\ SameHardware(on, SetStatus(on, s))
      BY <3>1, <3>3, SetStatusEffect
    <3> DEFINE v == SetStatus(on, s)
    <3>5. /\ v \in Unit /\ v.status = s
          /\ v.m_laser = u.m_laser /\ v.m_regs = u.m_regs
          /\ v.ext_shutter_closed = u.ext_shutter_closed /\ v.cib_shutter = u.cib_shutter
          /\ v.qswitch_enable = v.cib_qswitch
          /\ v.fire_enable = u.fire_enable /\ v.cib_fire = u.cib_fire
      BY <3>1, <3>4 DEF SameHardware
    <3>6. /\ ~u.cib_fire => s = "ready"
          /\ u.cib_fire /\ u.cib_shutter => s = "pause"
          /\ u.cib_fire /\ ~u.cib_shutter => s = "lasing"
      BY <3>1, <3>3 DEF Safe
    <3> HIDE DEF v
    <3>7. Safe(v)
      <4>1. v.ext_shutter_closed = v.cib_shutter /\ v.fire_enable = v.cib_fire
        BY <3>5 DEF Safe
      <4>2. v.cib_fire => v.m_laser /\ v.m_regs
        BY <3>5 DEF Safe
      <4>3. CASE u.cib_fire
        BY <3>5, <3>6, <4>1, <4>2, <4>3 DEF Safe
      <4>4. CASE ~u.cib_fire
        BY <3>5, <3>6, <4>1, <4>2, <4>4 DEF Safe
      <4> QED BY <4>3, <4>4
    <3> QED BY <3>2, <3>7 DEF v
  <2> QED BY <2>2, <2>3
<1> QED BY <1>0, <1>1, <1>2, <1>3

LEMMA StartSafe ==
  ASSUME NEW u, Safe(u), NEW shut \in Serial, NEW fire \in Serial, NEW dark \in Serial
  PROVE  Safe(StartHandler(u, shut, fire, dark))
<1> DEFINE noq    == SetQswitch(u, FALSE)
           closed == CloseLaserShutter(noq, shut)
           safe   == IF u.ext_shutter_closed THEN closed ELSE SetExtShutter(closed, TRUE)
           lit    == SetFire(safe, TRUE)
<1>0. u \in Unit
  BY DEF Safe
<1>1. Safe(noq) /\ noq \in Unit
      /\ noq.m_laser = u.m_laser /\ noq.m_regs = u.m_regs /\ noq.cib_qswitch = FALSE
  BY <1>0, DarkeningSafe, QswitchEffect
<1>2. Safe(closed) /\ closed \in Unit
      /\ closed.m_laser = u.m_laser /\ closed.m_regs = u.m_regs /\ closed.cib_qswitch = FALSE
  <2> HIDE DEF noq
  <2>1. Safe(closed)
    BY <1>1, DarkeningSafe
  <2> QED BY <1>1, <2>1, CloseLaserShutterEffect
<1>3. \/ StartHandler(u, shut, fire, dark) \in {u, closed, Stop(closed, dark)}
      \/ u.m_laser /\ u.m_regs /\ StartHandler(u, shut, fire, dark) = SetStatus(lit, "warmup")
  BY DEF StartHandler
<1> HIDE DEF closed
<1>4. Safe(safe) /\ safe \in Unit
      /\ safe.m_laser = u.m_laser /\ safe.m_regs = u.m_regs /\ safe.cib_qswitch = FALSE
  <2>1. CASE u.ext_shutter_closed
    BY <1>2, <2>1
  <2>2. CASE ~u.ext_shutter_closed
    <3>1. safe = SetExtShutter(closed, TRUE)
      BY <2>2
    <3>2. Safe(safe)
      BY <1>2, <3>1, DarkeningSafe
    <3> HIDE DEF safe
    <3> QED BY <1>2, <3>1, <3>2, ExtShutterEffect
  <2> QED BY <2>1, <2>2
<1> HIDE DEF safe
<1>5. ASSUME u.m_laser, u.m_regs
      PROVE  Safe(SetStatus(lit, "warmup"))
  <2>1. /\ lit \in Unit
        /\ lit.m_laser = u.m_laser /\ lit.m_regs = u.m_regs
        /\ lit.ext_shutter_closed = safe.ext_shutter_closed
        /\ lit.cib_shutter = safe.cib_shutter
        /\ lit.qswitch_enable = safe.qswitch_enable /\ lit.cib_qswitch = FALSE
        /\ lit.fire_enable = TRUE /\ lit.cib_fire = TRUE
    BY <1>4, FireEffect
  <2> HIDE DEF lit
  <2> DEFINE v == SetStatus(lit, "warmup")
  <2>2. /\ v \in Unit /\ v.status = "warmup"
        /\ v.m_laser = u.m_laser /\ v.m_regs = u.m_regs
        /\ v.ext_shutter_closed = safe.ext_shutter_closed /\ v.cib_shutter = safe.cib_shutter
        /\ v.qswitch_enable = safe.qswitch_enable /\ v.cib_qswitch = FALSE
        /\ v.fire_enable = TRUE /\ v.cib_fire = TRUE
    BY <2>1, SetStatusEffect DEF SameHardware, Status
  <2>3. /\ safe.ext_shutter_closed = safe.cib_shutter
        /\ safe.qswitch_enable = FALSE
    BY <1>4 DEF Safe
  <2> HIDE DEF v
  <2>4. Safe(v)
    BY <1>5, <2>2, <2>3 DEF Safe
  <2> QED BY <2>4 DEF v
<1> QED BY <1>2, <1>3, <1>5, StopSafe

\* What connecting does to a unit that is offline.
LEMMA ConnectedSafe ==
  ASSUME NEW u, Safe(u), u.status = "offline"
  PROVE  LET connected == SetStatus([u EXCEPT !.m_laser = TRUE], "ready")
         IN  /\ Safe(connected)
             /\ \A b \in BOOLEAN : Safe([connected EXCEPT !.m_regs = b])
             /\ Safe([[connected EXCEPT !.m_regs = TRUE] EXCEPT !.m_config_completed = TRUE])
             /\ Safe(SetStatus([connected EXCEPT !.m_regs = FALSE], "offline"))
<1> DEFINE live      == [u EXCEPT !.m_laser = TRUE]
           connected == SetStatus(live, "ready")
<1>1. Safe(live) /\ live \in Unit /\ live.cib_fire = FALSE
  BY DEF Safe, Unit
<1> HIDE DEF live
<1>2. Safe(connected) /\ connected \in Unit /\ connected.cib_fire = FALSE
  <2>1. Safe(connected)
    BY <1>1, DarkStatusSafe DEF Status
  <2> QED BY <1>1, <2>1, SetStatusEffect DEF SameHardware, Status
<1> HIDE DEF connected
<1>3. ASSUME NEW b \in BOOLEAN
      PROVE  /\ Safe([connected EXCEPT !.m_regs = b])
             /\ [connected EXCEPT !.m_regs = b].cib_fire = FALSE
  BY <1>2 DEF Safe, Unit
<1>4. Safe([[connected EXCEPT !.m_regs = TRUE] EXCEPT !.m_config_completed = TRUE])
  BY <1>2 DEF Safe, Unit
<1>5. Safe(SetStatus([connected EXCEPT !.m_regs = FALSE], "offline"))
  BY <1>3, DarkStatusSafe DEF Status
<1> QED BY <1>2, <1>3, <1>4, <1>5 DEF connected, live

LEMMA ConfigSafe ==
  ASSUME NEW u, Safe(u), NEW how \in ConfigOutcome, NEW ok \in Serial
  PROVE  Safe(ConfigHandler(u, how, ok))
<1>1. CASE u.status # "offline" \/ u.m_laser \/ how = "rejected"
  BY <1>1 DEF ConfigHandler, ConfigRefused, Configured, Connected
<1>2. CASE u.status = "offline" /\ ~u.m_laser /\ how = "noLaser"
  BY <1>2, TerminateSafe DEF ConfigHandler, ConfigRefused, Configured, Connected
<1>3. CASE u.status = "offline" /\ ~u.m_laser /\ how = "badMap"
  BY <1>3, ConnectedSafe DEF ConfigHandler, ConfigRefused, Configured, Connected
<1>4. CASE u.status = "offline" /\ ~u.m_laser /\ how = "badValue"
  BY <1>4, ConnectedSafe, TerminateSafe DEF ConfigHandler, ConfigRefused, Configured, Connected
<1>5. CASE u.status = "offline" /\ ~u.m_laser /\ how = "accepted"
  BY <1>5, ConnectedSafe DEF ConfigHandler, ConfigRefused, Configured, Connected
<1> QED BY <1>1, <1>2, <1>3, <1>4, <1>5 DEF ConfigOutcome

LEMMA InitSafe ==
  ASSUME NEW u, Safe(u), NEW how \in InitOutcome, NEW ok \in Serial
  PROVE  Safe(InitHandler(u, how, ok))
<1>1. CASE u.status # "offline" \/ how = "noLaser"
  BY <1>1, TerminateSafe DEF InitHandler, Initialised, Connected
<1>2. CASE u.status = "offline" /\ how # "noLaser"
  BY <1>2, ConnectedSafe, TerminateSafe DEF InitHandler, Initialised, Connected
<1> QED BY <1>1, <1>2

-----------------------------------------------------------------------------
IInv == TypeOK /\ Safe(unit)

LEMMA InitIInv == Init => IInv
<1> SUFFICES ASSUME Init PROVE IInv
  OBVIOUS
<1>1. unit \in Unit
  BY DEF Init, Constructed, Unit, Status
<1>2. Safe(unit)
  BY <1>1 DEF Init, Constructed, Safe
<1>3. TimersFit(unit)
  BY MaxTimersAssumption DEF Init, Constructed, TimersFit
<1> QED BY <1>1, <1>2, <1>3 DEF Init, IInv, TypeOK

LEMMA UnitStep ==
  IInv /\ unit' \in Unit /\ Safe(unit') /\ TimersFit(unit') /\ proc' \in {"running", "hung", "aborted"}
  /\ shots' \in BOOLEAN => IInv'
  BY DEF IInv, TypeOK, TimersFit

LEMMA NextIInv == IInv /\ [Next]_vars => IInv'
<1> SUFFICES ASSUME IInv, [Next]_vars
             PROVE  IInv'
  OBVIOUS
<1>0. Safe(unit) /\ unit \in Unit
  BY DEF IInv, Safe
<1>do. ASSUME Safe(unit'), TimersFit(unit'), UNCHANGED <<proc, shots>>
       PROVE  IInv'
  <2>1. unit' \in Unit
    BY <1>do DEF Safe
  <2> QED BY <1>do, <2>1, UnitStep DEF IInv, TypeOK
<1>1. CASE SystemConfig
  BY <1>0, <1>1, <1>do, ConfigSafe DEF SystemConfig, Do
<1>2. CASE CallConfig
  <2>1. PICK how \in ConfigOutcome, ok \in Serial, ok2 \in Serial :
          Do(IF ConfigFails(unit, how) THEN Terminate(ConfigHandler(unit, how, ok), ok2)
                                       ELSE ConfigHandler(unit, how, ok))
    BY <1>2 DEF CallConfig
  <2>2. Safe(ConfigHandler(unit, how, ok))
        /\ Safe(Terminate(ConfigHandler(unit, how, ok), ok2))
    BY <1>0, ConfigSafe, TerminateSafe
  <2> QED BY <2>1, <2>2, <1>do DEF Do
<1>3. CASE CallInit
  BY <1>0, <1>3, <1>do, InitSafe DEF CallInit, Do
<1>4. CASE CallStop
  BY <1>0, <1>4, <1>do, StopSafe DEF CallStop, Do
<1>5. CASE CallTerminate
  BY <1>0, <1>5, <1>do, TerminateSafe DEF CallTerminate, Do
<1>6. CASE CallPause
  BY <1>0, <1>6, <1>do, PauseSafe DEF CallPause, Do
<1>7. CASE CallStandby
  BY <1>0, <1>7, <1>do, StandbySafe DEF CallStandby, Do
<1>8. CASE CallResume
  BY <1>0, <1>8, <1>do, ResumeSafe DEF CallResume, Do
<1>9. CASE CallStartCib
  BY <1>0, <1>9, <1>do, StartSafe DEF CallStartCib, Do
<1>10. CASE CallSwitchLaserShutter
  BY <1>0, <1>10, <1>do, SwitchLaserShutterSafe DEF CallSwitchLaserShutter, Do
<1>11. CASE CallForceExtShutter
  BY <1>0, <1>11, <1>do, ForceExtShutterSafe DEF CallForceExtShutter, Do
\* A unit that is ready is dark, so a single shot may call it lasing.
<1>12. CASE SingleShotFails
  <2> DEFINE lasing == SetStatus(unit, "lasing")
  <2>1. /\ Safe(lasing) /\ lasing.sleeping = unit.sleeping /\ lasing.due = unit.due
    <3>1. ~unit.cib_fire
      BY <1>0, <1>12 DEF SingleShotFails, Safe
    <3>2. Safe(lasing)
      BY <1>0, <3>1, DarkStatusSafe DEF Status
    <3> QED BY <1>0, <3>2 DEF SetStatus, Timed, Unit
  <2>2. /\ Safe(SetQswitch(lasing, FALSE))
        /\ SetQswitch(lasing, FALSE).sleeping = unit.sleeping
        /\ SetQswitch(lasing, FALSE).due = unit.due
    <3>1. lasing \in Unit
      BY <2>1 DEF Safe
    <3> HIDE DEF lasing
    <3>2. SetQswitch(lasing, FALSE).sleeping = lasing.sleeping
          /\ SetQswitch(lasing, FALSE).due = lasing.due
      BY <3>1 DEF SetQswitch, Unit
    <3> QED BY <2>1, <3>2, DarkeningSafe
  <2>3. unit' \in {lasing, SetQswitch(lasing, FALSE)}
        /\ proc' \in {proc, "hung"} /\ shots' = shots
    BY <1>12 DEF SingleShotFails
  <2> HIDE DEF lasing
  <2>4. Safe(unit') /\ unit' \in Unit /\ unit'.sleeping = unit.sleeping /\ unit'.due = unit.due
    BY <2>1, <2>2, <2>3 DEF Safe
  <2>5. TimersFit(unit')
    BY <2>4 DEF TimersFit, IInv, TypeOK
  <2> QED BY <2>3, <2>4, <2>5, UnitStep DEF IInv, TypeOK
<1>13. CASE FireDiscreteShots
  <2>1. PICK ok \in Serial, ok2 \in Serial :
          LET resumed == ResumeHandler(unit, ok, ok2)
          IN  unit' \in {resumed, StandbyHandler(resumed, ok2)}
    BY <1>13 DEF FireDiscreteShots
  <2>2. Safe(unit') /\ unit' \in Unit
    <3>1. Safe(ResumeHandler(unit, ok, ok2))
      BY <1>0, ResumeSafe
    <3>2. Safe(StandbyHandler(ResumeHandler(unit, ok, ok2), ok2))
      BY <3>1, StandbySafe
    <3>3. Safe(unit')
      BY <2>1, <3>1, <3>2
    <3> QED BY <3>3 DEF Safe
  <2>3. TimersFit(unit') /\ proc' = proc /\ shots' \in BOOLEAN
    BY <1>13 DEF FireDiscreteShots, CanResume
  <2> QED BY <2>2, <2>3, UnitStep DEF IInv, TypeOK
<1>14. CASE ShotsCounted
  <2>1. Safe(unit') /\ unit' \in Unit
    <3>1. PICK ok \in Serial : unit' = PauseHandler(unit, ok)
      BY <1>14 DEF ShotsCounted
    <3>2. Safe(unit')
      BY <1>0, <3>1, PauseSafe
    <3> QED BY <3>2 DEF Safe
  <2>2. TimersFit(unit') /\ proc' = proc /\ shots' = FALSE
    BY <1>14 DEF ShotsCounted
  <2> QED BY <2>1, <2>2, UnitStep DEF IInv, TypeOK
\* The timers count threads, which safety does not depend on.
<1>15. ASSUME NEW k \in Timed, TimerPolls(k)
       PROVE  IInv'
  <2>1. ASSUME TimerGivesUp(k)
        PROVE  Safe([unit EXCEPT !.sleeping[k] = @ - 1])
    BY <1>0, <1>15, <2>1 DEF TimerGivesUp, Safe, Unit
  <2>2. ASSUME TimerLastPoll(k)
        PROVE  Safe([unit EXCEPT !.sleeping[k] = @ - 1, !.due[k] = @ + 1])
    <3> DEFINE fewer == [unit.sleeping EXCEPT ![k] = @ - 1]
               more  == [unit.due EXCEPT ![k] = @ + 1]
    <3>1. fewer \in [Timed -> Nat] /\ more \in [Timed -> Nat]
      BY <1>0, <1>15, <2>2 DEF TimerLastPoll, Unit
    <3>2. [unit EXCEPT !.sleeping[k] = @ - 1, !.due[k] = @ + 1]
            = [unit EXCEPT !.sleeping = fewer, !.due = more]
      BY <1>0 DEF Unit
    <3> HIDE DEF fewer, more
    <3> QED BY <1>0, <3>1, <3>2 DEF Safe, Unit
  <2> QED BY <1>15, <1>do, <2>1, <2>2 DEF TimerPolls, TimerGivesUp, TimerLastPoll, Do
<1>16. ASSUME NEW k \in Timed, unit.due[k] > 0
       PROVE  Safe(Woken(k)) /\ Woken(k).status = unit.status
  BY <1>0, <1>16 DEF Woken, Safe, Unit
<1>17. CASE PauseTimeout
  BY <1>16, <1>17, <1>do, StandbySafe DEF PauseTimeout, Do, Timed
<1>18. CASE WarmupComplete
  <2>1. Safe(Woken("warmup")) /\ Woken("warmup").status = unit.status
    BY <1>16, <1>18 DEF WarmupComplete, Timed
  <2>2. ASSUME unit.status = "warmup"
        PROVE  Safe(SetStatus(Woken("warmup"), "standby"))
    <3> DEFINE w == Woken("warmup")
    <3>1. w.status = "warmup" /\ Safe(w)
      BY <2>1, <2>2
    <3> HIDE DEF w
    <3>2. ~w.cib_fire \/ ~w.cib_qswitch \/ w.cib_shutter \/ w.laser_shutter_closed
      BY <3>1 DEF Safe
    <3>3. Safe(SetStatus(w, "standby"))
      BY <3>1, <3>2, DarkStatusSafe DEF Status
    <3> QED BY <3>3 DEF w
  <2> QED BY <1>18, <1>do, <2>1, <2>2 DEF WarmupComplete, Do
<1>19. CASE StandbyTimeout
  BY <1>16, <1>19, <1>do, StopSafe DEF StandbyTimeout, Do, Timed
<1>20. CASE StandbyTimeoutAborts
  BY <1>20 DEF StandbyTimeoutAborts, IInv, TypeOK
\* A safe unit shows what the registers hold, so an update changes nothing.
<1>21. CASE Update
  <2>1. Safe([unit EXCEPT !.ext_shutter_closed = unit.cib_shutter,
                          !.qswitch_enable = unit.cib_qswitch,
                          !.fire_enable = unit.cib_fire])
    BY <1>0 DEF Safe, Unit
  <2> QED BY <1>21, <1>do, <2>1 DEF Update, Do
<1>22. CASE UNCHANGED vars
  BY <1>22 DEF vars, IInv, TypeOK
<1> QED
  BY <1>1, <1>2, <1>3, <1>4, <1>5, <1>6, <1>7, <1>8, <1>9, <1>10, <1>11, <1>12, <1>13,
     <1>14, <1>15, <1>17, <1>18, <1>19, <1>20, <1>21, <1>22
  DEF Next, Call, Timer

-----------------------------------------------------------------------------
\* The types of LaserUnit hold in every reachable state, and no timer kind
\* exceeds its bound, whatever the bound is.
THEOREM Typing == Spec => []TypeOK
<1>1. IInv => TypeOK
  BY DEF IInv
<1> QED BY InitIInv, NextIInv, <1>1, PTL DEF Spec

\* Light leaves the laser only while the unit reports lasing, for any
\* interleaving of calls, failures and timer threads of LaserUnit.
THEOREM LightMeansLasing == Spec => []EmissionOnlyWhenLasing
<1>1. IInv => EmissionOnlyWhenLasing
  BY DEF IInv, Safe, EmissionOnlyWhenLasing, Beam
<1> QED BY InitIInv, NextIInv, <1>1, PTL DEF Spec

\* An offline or ready unit does not fire: what stop, terminate and every
\* failed configuration of LaserUnit end in.
FireOffWhenIdle == unit.status \in {"offline", "ready"} => ~unit.cib_fire

THEOREM IdleDoesNotFire == Spec => []FireOffWhenIdle
<1>1. IInv => FireOffWhenIdle
  BY DEF IInv, Safe, FireOffWhenIdle
<1> QED BY InitIInv, NextIInv, <1>1, PTL DEF Spec

\* A unit that fires has its driver object and its registers, so that some
\* handler of LaserUnit can still stop it.
THEOREM FiringCanBeStopped == Spec => []FireNeedsLaser
<1>1. IInv => FireNeedsLaser
  BY DEF IInv, Safe, FireNeedsLaser
<1> QED BY InitIInv, NextIInv, <1>1, PTL DEF Spec

\* A paused unit blocks the beam with the external shutter.
THEOREM PauseIsDark == Spec => []PauseBlocksBeam
<1>1. IInv => PauseBlocksBeam
  BY DEF IInv, Safe, PauseBlocksBeam
<1> QED BY InitIInv, NextIInv, <1>1, PTL DEF Spec

-----------------------------------------------------------------------------
(* What a handler does to the fire register: that, and a safe state before    *)
(* and after, is all that module Light sees.                                  *)

Keeps(u, v) == v.cib_fire = u.cib_fire
Quits(v)    == ~v.cib_fire /\ v.status \in {"offline", "ready"}
Starts(v)   == v.cib_fire /\ v.status = "warmup"
FireChange(u, v) == Keeps(u, v) \/ Quits(v) \/ Starts(v)

LEMMA StatusFire ==
  ASSUME NEW u \in Unit, NEW s \in Status
  PROVE  SetStatus(u, s).cib_fire = u.cib_fire
  BY SetStatusEffect DEF SameHardware

LEMMA StandbyFire ==
  ASSUME NEW u \in Unit, NEW ok \in Serial
  PROVE  Keeps(u, StandbyHandler(u, ok))
<1> DEFINE noq  == SetQswitch(u, FALSE)
           dark == CloseLaserShutter(noq, ok)
           shut == SetExtShutter(dark, TRUE)
<1>1. noq \in Unit /\ noq.cib_fire = u.cib_fire
  BY QswitchEffect
<1>2. dark \in Unit /\ dark.cib_fire = u.cib_fire
  BY <1>1, CloseLaserShutterEffect
<1>3. shut \in Unit /\ shut.cib_fire = u.cib_fire
  BY <1>2, ExtShutterEffect
<1>4. \/ StandbyHandler(u, ok) = u
      \/ \E s \in Status : StandbyHandler(u, ok) = SetStatus(shut, s)
  BY DEF StandbyHandler, Status
<1> HIDE DEF shut
<1> QED BY <1>3, <1>4, StatusFire DEF Keeps

LEMMA PauseFire ==
  ASSUME NEW u \in Unit, NEW ok \in Serial
  PROVE  Keeps(u, PauseHandler(u, ok))
<1> DEFINE shut   == SetExtShutter(u, TRUE)
           opened == OpenLaserShutter(shut, TRUE)
           on     == SetQswitch(opened, TRUE)
<1>1. shut \in Unit /\ shut.cib_fire = u.cib_fire
  BY ExtShutterEffect
<1>2. opened \in Unit /\ opened.cib_fire = u.cib_fire
  BY <1>1, OpenLaserShutterEffect DEF Serial
<1>3. on \in Unit /\ on.cib_fire = u.cib_fire
  BY <1>2, QswitchEffect
<1>4. \/ PauseHandler(u, ok) \in {u, shut}
      \/ \E s \in Status : PauseHandler(u, ok) \in {SetStatus(on, s), SetStatus(opened, s)}
  BY DEF PauseHandler, Status
<1> HIDE DEF shut, opened, on
<1> QED BY <1>1, <1>2, <1>3, <1>4, StatusFire DEF Keeps

LEMMA ResumeFire ==
  ASSUME NEW u \in Unit, NEW ok \in Serial, NEW ok2 \in Serial
  PROVE  Keeps(u, ResumeHandler(u, ok, ok2))
<1> DEFINE opened == OpenLaserShutter(u, TRUE)
           lit    == SetExtShutter(opened, FALSE)
<1>1. opened \in Unit /\ opened.cib_fire = u.cib_fire
  BY OpenLaserShutterEffect DEF Serial
<1>2. lit \in Unit /\ lit.cib_fire = u.cib_fire
  BY <1>1, ExtShutterEffect
<1>3. \/ ResumeHandler(u, ok, ok2) \in {u, StandbyHandler(u, ok2)}
      \/ ResumeHandler(u, ok, ok2) = SetStatus(lit, "lasing")
  BY DEF ResumeHandler
<1> HIDE DEF lit
<1> QED BY <1>2, <1>3, StatusFire, StandbyFire DEF Keeps, Status

LEMMA SwitchLaserShutterFire ==
  ASSUME NEW u \in Unit, NEW close \in BOOLEAN, NEW ok \in Serial
  PROVE  Keeps(u, SwitchLaserShutter(u, close, ok))
<1> DEFINE noq    == SetQswitch(u, FALSE)
           closed == CloseLaserShutter(noq, ok)
           dark   == SetStatus(closed, "standby")
           opened == OpenLaserShutter(u, ok)
           on     == SetQswitch(opened, TRUE)
<1>1. noq \in Unit /\ noq.cib_fire = u.cib_fire
  BY QswitchEffect
<1>2. closed \in Unit /\ closed.cib_fire = u.cib_fire
  BY <1>1, CloseLaserShutterEffect
<1>3. dark \in Unit /\ dark.cib_fire = u.cib_fire
  <2> HIDE DEF closed
  <2> QED BY <1>2, SetStatusEffect DEF SameHardware, Status
<1>4. SetExtShutter(dark, FALSE).cib_fire = u.cib_fire
  <2> HIDE DEF dark
  <2> QED BY <1>3, ExtShutterEffect
<1>5. opened \in Unit /\ opened.cib_fire = u.cib_fire
  BY OpenLaserShutterEffect
<1>6. on \in Unit /\ on.cib_fire = u.cib_fire
  BY <1>5, QswitchEffect
<1>7. \/ SwitchLaserShutter(u, close, ok) \in {u, dark, SetExtShutter(dark, FALSE), opened}
      \/ \E s \in Status : SwitchLaserShutter(u, close, ok) = SetStatus(on, s)
  <2>1. on.fire_enable \in BOOLEAN /\ on.ext_shutter_closed \in BOOLEAN
        /\ on.fire_enable = u.fire_enable /\ on.ext_shutter_closed = u.ext_shutter_closed
    <3>1. opened.fire_enable = u.fire_enable /\ opened.ext_shutter_closed = u.ext_shutter_closed
      BY OpenLaserShutterEffect
    <3> HIDE DEF opened
    <3> QED BY <1>5, <3>1, QswitchEffect DEF Unit
  <2>2. CASE ~close /\ u.m_regs /\ u.status # "offline" /\ u.m_laser
    <3> DEFINE s == CASE ~u.fire_enable -> "ready"
                      [] u.fire_enable /\ u.ext_shutter_closed  -> "pause"
                      [] u.fire_enable /\ ~u.ext_shutter_closed -> "lasing"
    <3>1. s \in Status
      BY <2>1 DEF Status
    <3>2. SwitchLaserShutter(u, close, ok) = SetStatus(on, s)
      BY <2>2 DEF SwitchLaserShutter
    <3> QED BY <3>1, <3>2
  <2> QED BY <2>2 DEF SwitchLaserShutter
<1> HIDE DEF dark, opened, on
<1> QED BY <1>3, <1>4, <1>5, <1>6, <1>7, StatusFire DEF Keeps

LEMMA StopFire ==
  ASSUME NEW u, Safe(u), NEW ok \in Serial
  PROVE  Keeps(u, Stop(u, ok)) \/ Quits(Stop(u, ok))
<1>1. CASE ~u.m_regs
  BY <1>1 DEF Stop, Keeps
<1>2. CASE u.m_regs
  <2> DEFINE off  == SetQswitch(ForceExtShutter(u, TRUE), FALSE)
             cold == SetFire(off, FALSE)
             dark == CloseLaserShutter(cold, ok)
             open == ForceExtShutter(dark, FALSE)
  <2>1. Safe(off) /\ off \in Unit
    BY ForceExtShutterSafe, DarkeningSafe DEF Safe
  <2>2. Safe(cold)
    <3> HIDE DEF off
    <3> QED BY <2>1, DarkeningSafe
  <2>3. Safe(dark)
    <3> HIDE DEF cold
    <3> QED BY <2>2, DarkeningSafe
  <2>4. Safe(open) /\ open \in Unit
    <3> HIDE DEF dark
    <3> QED BY <2>3, ForceExtShutterSafe DEF Safe
  <2>5. Stop(u, ok) = SetStatus(open, "ready")
    BY <1>2 DEF Stop
  <2> HIDE DEF open
  <2>6. Stop(u, ok).status = "ready"
    BY <2>4, <2>5, SetStatusEffect DEF Status
  <2>7. Safe(Stop(u, ok))
    BY StopSafe
  <2> QED BY <2>6, <2>7 DEF Safe, Quits
<1> QED BY <1>1, <1>2

LEMMA TerminateFire ==
  ASSUME NEW u, Safe(u), NEW ok \in Serial
  PROVE  Keeps(u, Terminate(u, ok)) \/ Quits(Terminate(u, ok))
<1>0. u \in Unit
  BY DEF Safe
<1>1. CASE u.status = "offline" \/ ~u.m_regs
  BY <1>0, <1>1 DEF Terminate, Keeps, Unit
<1>2. CASE u.status # "offline" /\ u.m_regs
  <2> DEFINE noq  == SetQswitch(u, FALSE)
             cold == SetFire(noq, FALSE)
             off  == SetExtShutter(cold, FALSE)
             dark == CloseLaserShutter(off, ok)
             idle == SetStatus(dark, "offline")
  <2>1. noq \in Unit
    BY <1>0, QswitchEffect
  <2>2. cold \in Unit
    BY <2>1, FireEffect
  <2>3. off \in Unit
    BY <2>2, ExtShutterEffect
  <2>4. dark \in Unit
    BY <2>3, CloseLaserShutterEffect
  <2>5. idle \in Unit /\ idle.status = "offline"
    <3> HIDE DEF dark
    <3> QED BY <2>4, SetStatusEffect DEF Status
  <2>6. Terminate(u, ok) = [idle EXCEPT !.m_laser = FALSE, !.m_config_completed = FALSE,
                                        !.m_is_terminating = FALSE]
    BY <1>2 DEF Terminate
  <2> HIDE DEF idle
  <2>7. Terminate(u, ok).status = "offline"
    BY <2>5, <2>6 DEF Unit
  <2>8. Safe(Terminate(u, ok))
    BY TerminateSafe
  <2> QED BY <2>7, <2>8 DEF Safe, Quits
<1> QED BY <1>1, <1>2

LEMMA StartFire ==
  ASSUME NEW u, Safe(u), NEW shut \in Serial, NEW fire \in Serial, NEW dark \in Serial
  PROVE  FireChange(u, StartHandler(u, shut, fire, dark))
<1> DEFINE noq    == SetQswitch(u, FALSE)
           closed == CloseLaserShutter(noq, shut)
           safe   == IF u.ext_shutter_closed THEN closed ELSE SetExtShutter(closed, TRUE)
           lit    == SetFire(safe, TRUE)
<1>0. u \in Unit
  BY DEF Safe
<1>1. Safe(noq) /\ noq \in Unit /\ noq.cib_fire = u.cib_fire
  BY <1>0, DarkeningSafe, QswitchEffect
<1>2. Safe(closed) /\ closed \in Unit /\ closed.cib_fire = u.cib_fire
  <2> HIDE DEF noq
  <2>1. Safe(closed)
    BY <1>1, DarkeningSafe
  <2> QED BY <1>1, <2>1, CloseLaserShutterEffect
<1>3. \/ StartHandler(u, shut, fire, dark) \in {u, closed, Stop(closed, dark)}
      \/ StartHandler(u, shut, fire, dark) = SetStatus(lit, "warmup")
  BY DEF StartHandler
<1> HIDE DEF closed
<1>4. safe \in Unit
  BY <1>2, ExtShutterEffect
<1> HIDE DEF safe
<1>5. lit \in Unit /\ lit.cib_fire
  BY <1>4, FireEffect
<1> HIDE DEF lit
<1>6. Starts(SetStatus(lit, "warmup"))
  BY <1>5, SetStatusEffect DEF Starts, SameHardware, Status
<1>7. Keeps(closed, Stop(closed, dark)) \/ Quits(Stop(closed, dark))
  BY <1>2, StopFire
<1> QED BY <1>2, <1>3, <1>6, <1>7 DEF FireChange, Keeps

\* Connecting and configuring start from a unit that is offline, hence dark.
LEMMA ConnectedFire ==
  ASSUME NEW u, Safe(u), u.status = "offline"
  PROVE  LET connected == SetStatus([u EXCEPT !.m_laser = TRUE], "ready")
         IN  /\ connected \in Unit /\ u.cib_fire = FALSE /\ connected.cib_fire = FALSE
             /\ [connected EXCEPT !.m_regs = TRUE].cib_fire = FALSE
             /\ [[connected EXCEPT !.m_regs = TRUE] EXCEPT !.m_config_completed = TRUE].cib_fire = FALSE
             /\ SetStatus([connected EXCEPT !.m_regs = FALSE], "offline").cib_fire = FALSE
<1> DEFINE live      == [u EXCEPT !.m_laser = TRUE]
           connected == SetStatus(live, "ready")
<1>1. u \in Unit /\ u.cib_fire = FALSE /\ live \in Unit /\ live.cib_fire = FALSE
  BY DEF Safe, Unit
<1>2. connected \in Unit /\ connected.cib_fire = FALSE
  <2> HIDE DEF live
  <2> QED BY <1>1, SetStatusEffect DEF SameHardware, Status
<1> HIDE DEF connected
<1>3. /\ [connected EXCEPT !.m_regs = TRUE].cib_fire = FALSE
      /\ [[connected EXCEPT !.m_regs = TRUE] EXCEPT !.m_config_completed = TRUE].cib_fire = FALSE
  BY <1>2 DEF Unit
<1>4. SetStatus([connected EXCEPT !.m_regs = FALSE], "offline").cib_fire = FALSE
  <2> DEFINE bare == [connected EXCEPT !.m_regs = FALSE]
  <2>1. bare \in Unit /\ bare.cib_fire = FALSE
    BY <1>2 DEF Unit
  <2> HIDE DEF bare
  <2>2. SetStatus(bare, "offline").cib_fire = FALSE
    BY <2>1, StatusFire DEF Status
  <2> QED BY <2>2 DEF bare
<1> QED BY <1>1, <1>2, <1>3, <1>4 DEF connected

LEMMA ConfigFire ==
  ASSUME NEW u, Safe(u), NEW how \in ConfigOutcome, NEW ok \in Serial
  PROVE  Keeps(u, ConfigHandler(u, how, ok))
<1> DEFINE connected == SetStatus([u EXCEPT !.m_laser = TRUE], "ready")
           mapped    == [connected EXCEPT !.m_regs = TRUE]
<1>0. u \in Unit
  BY DEF Safe
<1>1. CASE u.status # "offline" \/ u.m_laser \/ how = "rejected"
  BY <1>1 DEF ConfigHandler, ConfigRefused, Configured, Connected, Keeps
<1>2. CASE u.status = "offline" /\ ~u.m_laser /\ how = "noLaser"
  <2>1. ConfigHandler(u, how, ok) = Terminate(u, ok)
    BY <1>2 DEF ConfigHandler, ConfigRefused, Configured, Connected
  <2>2. Terminate(u, ok).cib_fire = u.cib_fire
    BY <1>0, <1>2 DEF Terminate, Unit
  <2> QED BY <2>1, <2>2 DEF Keeps
<1>3. CASE u.status = "offline" /\ ~u.m_laser /\ how = "badMap"
  <2>1. ConfigHandler(u, how, ok) = SetStatus([connected EXCEPT !.m_regs = FALSE], "offline")
    BY <1>3 DEF ConfigHandler, ConfigRefused, Configured, Connected
  <2> HIDE DEF mapped
  <2> QED BY <1>3, <2>1, ConnectedFire DEF Keeps
<1>4. CASE u.status = "offline" /\ ~u.m_laser /\ how = "badValue"
  <2>1. Safe(mapped) /\ ~mapped.cib_fire /\ ~u.cib_fire
    BY <1>4, ConnectedFire, ConnectedSafe
  <2>2. ConfigHandler(u, how, ok) = Terminate(mapped, ok)
    BY <1>4 DEF ConfigHandler, ConfigRefused, Configured, Connected
  <2> HIDE DEF mapped
  <2>3. ~Terminate(mapped, ok).cib_fire /\ Safe(Terminate(mapped, ok))
    BY <2>1, TerminateFire, TerminateSafe DEF Keeps, Quits
  <2> QED BY <1>0, <2>1, <2>2, <2>3 DEF Keeps, Safe, Unit
<1>5. CASE u.status = "offline" /\ ~u.m_laser /\ how = "accepted"
  <2>1. ConfigHandler(u, how, ok) = [mapped EXCEPT !.m_config_completed = TRUE]
    BY <1>5 DEF ConfigHandler, ConfigRefused, Configured, Connected
  <2> QED BY <1>5, <2>1, ConnectedFire DEF Keeps
<1> QED BY <1>1, <1>2, <1>3, <1>4, <1>5 DEF ConfigOutcome

LEMMA InitFire ==
  ASSUME NEW u, Safe(u), NEW how \in InitOutcome, NEW ok \in Serial
  PROVE  Keeps(u, InitHandler(u, how, ok)) \/ Quits(InitHandler(u, how, ok))
<1> DEFINE connected == SetStatus([u EXCEPT !.m_laser = TRUE], "ready")
<1>1. CASE u.status # "offline" \/ how = "noLaser"
  BY <1>1, TerminateFire DEF InitHandler, Initialised, Connected
<1>2. CASE u.status = "offline" /\ how # "noLaser"
  <2>1. Safe(connected) /\ ~connected.cib_fire /\ ~u.cib_fire
        /\ connected \in Unit /\ u \in Unit
    BY <1>2, ConnectedFire, ConnectedSafe DEF Safe
  <2>2. InitHandler(u, how, ok) \in {connected, Terminate(connected, ok)}
    BY <1>2 DEF InitHandler, Initialised, Connected
  <2> HIDE DEF connected
  <2>3. Keeps(connected, Terminate(connected, ok)) \/ Quits(Terminate(connected, ok))
    BY <2>1, TerminateFire
  <2> QED BY <2>1, <2>2, <2>3 DEF Keeps, Unit, Safe
<1> QED BY <1>1, <1>2

LEMMA NextFire == IInv /\ [Next]_vars => FireChange(unit, unit')
<1> SUFFICES ASSUME IInv, [Next]_vars
             PROVE  FireChange(unit, unit')
  OBVIOUS
<1> USE DEF FireChange
<1>0. Safe(unit) /\ unit \in Unit
  BY DEF IInv, Safe
<1>1. CASE SystemConfig
  BY <1>0, <1>1, ConfigFire DEF SystemConfig, Do
<1>2. CASE CallConfig
  <2>1. PICK how \in ConfigOutcome, ok \in Serial, ok2 \in Serial :
          unit' \in {Terminate(ConfigHandler(unit, how, ok), ok2), ConfigHandler(unit, how, ok)}
    BY <1>2 DEF CallConfig, Do
  <2> DEFINE u == ConfigHandler(unit, how, ok)
  <2>2. Safe(u) /\ Keeps(unit, u)
    BY <1>0, ConfigSafe, ConfigFire
  <2> HIDE DEF u
  <2>3. Keeps(u, Terminate(u, ok2)) \/ Quits(Terminate(u, ok2))
    BY <2>2, TerminateFire
  <2> QED BY <2>1, <2>2, <2>3 DEF Keeps, u
<1>3. CASE CallInit
  BY <1>0, <1>3, InitFire DEF CallInit, Do
<1>4. CASE CallStop
  BY <1>0, <1>4, StopFire DEF CallStop, Do
<1>5. CASE CallTerminate
  BY <1>0, <1>5, TerminateFire DEF CallTerminate, Do
<1>6. CASE CallPause
  BY <1>0, <1>6, PauseFire DEF CallPause, Do
<1>7. CASE CallStandby
  BY <1>0, <1>7, StandbyFire DEF CallStandby, Do
<1>8. CASE CallResume
  BY <1>0, <1>8, ResumeFire DEF CallResume, Do
<1>9. CASE CallStartCib
  BY <1>0, <1>9, StartFire DEF CallStartCib, Do
<1>10. CASE CallSwitchLaserShutter
  BY <1>0, <1>10, SwitchLaserShutterFire DEF CallSwitchLaserShutter, Do
<1>11. CASE CallForceExtShutter
  BY <1>0, <1>11, ForceExtShutterFire DEF CallForceExtShutter, Do, Keeps
<1>12. CASE SingleShotFails
  <2> DEFINE lasing == SetStatus(unit, "lasing")
  <2>1. lasing \in Unit /\ lasing.cib_fire = unit.cib_fire
    BY <1>0, SetStatusEffect DEF SameHardware, Status
  <2>2. unit' \in {lasing, SetQswitch(lasing, FALSE)}
    BY <1>12 DEF SingleShotFails
  <2> HIDE DEF lasing
  <2>3. SetQswitch(lasing, FALSE).cib_fire = lasing.cib_fire
    BY <2>1, QswitchEffect
  <2> QED BY <2>1, <2>2, <2>3 DEF Keeps
<1>13. CASE FireDiscreteShots
  <2>1. PICK ok \in Serial, ok2 \in Serial :
          unit' \in {ResumeHandler(unit, ok, ok2), StandbyHandler(ResumeHandler(unit, ok, ok2), ok2)}
    BY <1>13 DEF FireDiscreteShots
  <2> DEFINE u == ResumeHandler(unit, ok, ok2)
  <2>2. Safe(u) /\ u \in Unit /\ Keeps(unit, u)
    BY <1>0, ResumeSafe, ResumeFire DEF Safe
  <2> HIDE DEF u
  <2>3. Keeps(u, StandbyHandler(u, ok2))
    BY <2>2, StandbyFire
  <2> QED BY <2>1, <2>2, <2>3 DEF Keeps, u
<1>14. CASE ShotsCounted
  BY <1>0, <1>14, PauseFire DEF ShotsCounted
<1>15. ASSUME NEW k \in Timed, TimerPolls(k)
       PROVE  FireChange(unit, unit')
  BY <1>0, <1>15 DEF TimerPolls, TimerGivesUp, TimerLastPoll, Do, Keeps, Unit
<1>16. ASSUME NEW k \in Timed, unit.due[k] > 0
       PROVE  /\ Safe(Woken(k)) /\ Woken(k) \in Unit
              /\ Woken(k).cib_fire = unit.cib_fire
  BY <1>0, <1>16 DEF Woken, Safe, Unit
<1>17. CASE PauseTimeout
  BY <1>16, <1>17, StandbyFire DEF PauseTimeout, Do, Timed, Keeps
<1>18. CASE WarmupComplete
  BY <1>16, <1>18, StatusFire DEF WarmupComplete, Do, Timed, Keeps, Status
<1>19. CASE StandbyTimeout
  BY <1>16, <1>19, StopFire DEF StandbyTimeout, Do, Timed, Keeps
<1>20. CASE StandbyTimeoutAborts
  BY <1>20 DEF StandbyTimeoutAborts, Keeps
\* The view and the register agree, so reading it back changes neither.
<1>21. CASE Update
  BY <1>0, <1>21 DEF Update, Do, Keeps, Unit
<1>22. CASE UNCHANGED vars
  BY <1>22 DEF vars, Keeps
<1> QED
  BY <1>1, <1>2, <1>3, <1>4, <1>5, <1>6, <1>7, <1>8, <1>9, <1>10, <1>11, <1>12, <1>13,
     <1>14, <1>15, <1>17, <1>18, <1>19, <1>20, <1>21, <1>22
  DEF Next, Call, Timer

\* Two safe states that are one change of the fire register apart are a step
\* of Light.
LEMMA LightStep ==
  ASSUME Safe(unit), Safe(unit)', FireChange(unit, unit')
  PROVE  Promise!Next
<1> USE DEF Safe, Beam, Report, Keeps, Quits, Starts
<1>1. Report \in Promise!Report /\ Report' \in Promise!Report
  BY DEF Promise!Report
<1>2. unit.cib_fire \in BOOLEAN /\ unit'.cib_fire \in BOOLEAN /\ unit'.status \in Status
  BY DEF Unit
<1>3. CASE ~unit.cib_fire /\ ~unit'.cib_fire
  BY <1>1, <1>3 DEF Promise!Next, Promise!StaysOff
<1>4. CASE ~unit.cib_fire /\ unit'.cib_fire
  BY <1>4 DEF Promise!Next, Promise!Ignites, FireChange
<1>5. CASE unit.cib_fire /\ unit'.cib_fire
  <2>1. Beam' \in BOOLEAN
    BY <1>2 DEF Unit
  <2>2. Report' \in {"armed", "lasing"} /\ (Beam' => Report' = "lasing")
    BY <1>5
  <2> QED BY <1>5, <2>1, <2>2 DEF Promise!Next, Promise!Operates
<1>6. CASE unit.cib_fire /\ ~unit'.cib_fire
  BY <1>6 DEF Promise!Next, Promise!Ends, FireChange
<1> QED BY <1>2, <1>3, <1>4, <1>5, <1>6

-----------------------------------------------------------------------------
\* The unit implements Light: every step of LaserUnit, with all its handlers
\* call, is a step of Light or none.
THEOREM UnitImplementsLight == Spec => LightPromised
<1>1. Init => Promise!Init
  BY DEF Init, Constructed, Promise!Init, Beam, Report
<1>2. IInv /\ IInv' /\ [Next]_vars => [Promise!Next]_Promise!vars
  <2> SUFFICES ASSUME IInv, IInv', [Next]_vars
               PROVE  Promise!Next
    OBVIOUS
  <2>1. FireChange(unit, unit')
    BY NextFire
  <2>2. Safe(unit) /\ Safe(unit)'
    BY DEF IInv
  <2> QED BY <2>1, <2>2, LightStep
<1> QED BY InitIInv, NextIInv, <1>1, <1>2, PTL DEF Spec, LightPromised, Promise!Spec
==============================================================================
