--------------------------- MODULE LaserSystemProofs ---------------------------
(* The tasks of the laser system, for any motors, positions and plans.  The   *)
(* unit is proved about first, as far as the tasks rely on it: a paused one   *)
(* has its external shutter closed.  Then comes the invariant of the tasks,   *)
(* one step for each action, and last what follows from it.                   *)
EXTENDS LaserSystem, SequenceTheorems, TLAPS

-----------------------------------------------------------------------------
(* The unit: a lemma for each primitive and each handler the system calls.    *)

Synced(u) == u \in Laser!Unit /\ u.ext_shutter_closed = u.cib_shutter
Shut(u)   == /\ Synced(u)
             /\ u.status = "pause" => u.cib_shutter = TRUE

\* Two states of the unit agree on what Shut looks at.
SameShut(u, v) == /\ v \in Laser!Unit /\ v.status = u.status
                  /\ v.cib_shutter = u.cib_shutter
                  /\ v.ext_shutter_closed = u.ext_shutter_closed

LEMMA StatusEffect ==
  ASSUME NEW u \in Laser!Unit, NEW s \in Laser!Status
  PROVE  /\ Laser!SetStatus(u, s) \in Laser!Unit
         /\ Laser!SetStatus(u, s).status = s
         /\ Laser!SetStatus(u, s).cib_shutter = u.cib_shutter
         /\ Laser!SetStatus(u, s).ext_shutter_closed = u.ext_shutter_closed
<1>1. CASE u.status = s
  BY <1>1 DEF Laser!SetStatus
<1>2. CASE u.status # s /\ s \notin Laser!Timed
  <2>1. Laser!SetStatus(u, s) = [u EXCEPT !.status = s]
    BY <1>2 DEF Laser!SetStatus
  <2> QED BY <2>1 DEF Laser!Unit
<1>3. CASE u.status # s /\ s \in Laser!Timed
  <2> DEFINE timers == [u.sleeping EXCEPT ![s] = @ + 1]
  <2>1. timers \in [Laser!Timed -> Nat]
    BY <1>3 DEF Laser!Unit
  <2>2. Laser!SetStatus(u, s) = [u EXCEPT !.status = s, !.sleeping = timers]
    BY <1>3 DEF Laser!SetStatus, Laser!Unit
  <2> HIDE DEF timers
  <2> QED BY <2>1, <2>2 DEF Laser!Unit
<1> QED BY <1>1, <1>2, <1>3

LEMMA ShutterEffect ==
  ASSUME NEW u \in Laser!Unit, NEW b \in BOOLEAN
  PROVE  LET v == Laser!SetExtShutter(u, b)
         IN  v \in Laser!Unit /\ v.status = u.status /\ v.cib_shutter = b /\ v.ext_shutter_closed = b
BY DEF Laser!SetExtShutter, Laser!Unit

LEMMA OtherEffects ==
  ASSUME NEW u \in Laser!Unit, NEW b \in BOOLEAN
  PROVE  /\ SameShut(u, Laser!SetQswitch(u, b))
         /\ SameShut(u, Laser!SetFire(u, b))
         /\ SameShut(u, Laser!CloseLaserShutter(u, b))
         /\ SameShut(u, Laser!OpenLaserShutter(u, b))
<1>1. SameShut(u, Laser!SetQswitch(u, b)) /\ SameShut(u, Laser!SetFire(u, b))
  BY DEF SameShut, Laser!SetQswitch, Laser!SetFire, Laser!Unit
<1>2. /\ SameShut(u, [u EXCEPT !.laser_shutter_closed = TRUE])
      /\ SameShut(u, [u EXCEPT !.laser_shutter_closed = FALSE])
      /\ SameShut(u, u)
  BY DEF SameShut, Laser!Unit
<1> QED BY <1>1, <1>2 DEF Laser!CloseLaserShutter, Laser!OpenLaserShutter

\* A status other than pause is safe to enter from anywhere, pause with the
\* shutter closed.
LEMMA StatusShut ==
  ASSUME NEW u, Synced(u), NEW s \in Laser!Status, s = "pause" => u.cib_shutter = TRUE
  PROVE  Shut(Laser!SetStatus(u, s))
BY StatusEffect DEF Shut, Synced

LEMMA ForceShut ==
  ASSUME NEW u, Shut(u), NEW close \in BOOLEAN
  PROVE  Shut(Laser!ForceExtShutter(u, close))
<1> USE DEF Synced
<1> DEFINE v == Laser!SetExtShutter(u, close)
<1>1. Synced(v) /\ v.cib_shutter = close
  BY ShutterEffect DEF Shut
<1>2. \/ Laser!ForceExtShutter(u, close) = u
      \/ \E s \in Laser!Status : /\ Laser!ForceExtShutter(u, close) = Laser!SetStatus(v, s)
                                 /\ s = "pause" => close = TRUE
  BY DEF Laser!ForceExtShutter, Laser!Status, Laser!Unit, Shut
<1> HIDE DEF v
<1> QED BY <1>1, <1>2, StatusShut

LEMMA StopShut ==
  ASSUME NEW u, Shut(u), NEW ok \in BOOLEAN
  PROVE  Shut(Laser!Stop(u, ok))
<1> USE DEF Synced
<1> DEFINE shut == Laser!ForceExtShutter(u, TRUE)
           noq  == Laser!SetQswitch(shut, FALSE)
           off  == Laser!SetFire(noq, FALSE)
           dark == Laser!CloseLaserShutter(off, ok)
           open == Laser!ForceExtShutter(dark, FALSE)
<1>1. Shut(shut)
  BY ForceShut
<1> HIDE DEF shut
<1>2. Shut(noq)
  BY <1>1, OtherEffects DEF Shut, SameShut
<1> HIDE DEF noq
<1>3. Shut(off)
  BY <1>2, OtherEffects DEF Shut, SameShut
<1> HIDE DEF off
<1>4. Shut(dark)
  BY <1>3, OtherEffects DEF Shut, SameShut
<1> HIDE DEF dark
<1>5. Shut(open)
  BY <1>4, ForceShut
<1> HIDE DEF open
<1>6. Shut(Laser!SetStatus(open, "ready"))
  BY <1>5, StatusShut DEF Shut, Laser!Status
<1>7. Laser!Stop(u, ok) \in {u, Laser!SetStatus(open, "ready")}
  BY DEF Laser!Stop, open, dark, off, noq, shut
<1> QED BY <1>6, <1>7

LEMMA TerminateShut ==
  ASSUME NEW u, Shut(u), NEW ok \in BOOLEAN
  PROVE  Shut(Laser!Terminate(u, ok))
<1> USE DEF Synced
<1> DEFINE noq  == Laser!SetQswitch(u, FALSE)
           off  == Laser!SetFire(noq, FALSE)
           open == Laser!SetExtShutter(off, FALSE)
           dark == Laser!CloseLaserShutter(open, ok)
           done == Laser!SetStatus(dark, "offline")
<1>1. Synced(noq)
  BY OtherEffects DEF Shut, SameShut
<1> HIDE DEF noq
<1>2. Synced(off)
  BY <1>1, OtherEffects DEF SameShut
<1> HIDE DEF off
<1>3. Synced(open)
  BY <1>2, ShutterEffect
<1> HIDE DEF open
<1>4. Synced(dark)
  BY <1>3, OtherEffects DEF SameShut
<1> HIDE DEF dark
<1>5. Synced(done) /\ done.status = "offline"
  BY <1>4, StatusEffect DEF Laser!Status
<1> HIDE DEF done
<1>6. \/ Laser!Terminate(u, ok) = [u EXCEPT !.m_laser = FALSE, !.m_is_terminating = TRUE]
      \/ Laser!Terminate(u, ok) = [u EXCEPT !.m_is_terminating = TRUE]
      \/ Laser!Terminate(u, ok) = [done EXCEPT !.m_laser = FALSE, !.m_config_completed = FALSE,
                                               !.m_is_terminating = FALSE]
  BY DEF Laser!Terminate, done, dark, open, off, noq
<1>7. /\ Shut([u EXCEPT !.m_laser = FALSE, !.m_is_terminating = TRUE])
      /\ Shut([u EXCEPT !.m_is_terminating = TRUE])
  BY DEF Shut, Laser!Unit
<1>8. Shut([done EXCEPT !.m_laser = FALSE, !.m_config_completed = FALSE, !.m_is_terminating = FALSE])
  BY <1>5 DEF Shut, Laser!Unit
<1> QED BY <1>6, <1>7, <1>8

LEMMA StandbyShut ==
  ASSUME NEW u, Shut(u), NEW ok \in BOOLEAN
  PROVE  Shut(Laser!StandbyHandler(u, ok))
<1> USE DEF Synced
<1> DEFINE noq  == Laser!SetQswitch(u, FALSE)
           dark == Laser!CloseLaserShutter(noq, ok)
           shut == Laser!SetExtShutter(dark, TRUE)
<1>1. Synced(noq)
  BY OtherEffects DEF Shut, SameShut
<1> HIDE DEF noq
<1>2. Synced(dark)
  BY <1>1, OtherEffects DEF SameShut
<1> HIDE DEF dark
<1>3. Synced(shut)
  BY <1>2, ShutterEffect
<1> HIDE DEF shut
<1>4. Laser!StandbyHandler(u, ok) \in {u, Laser!SetStatus(shut, "standby"), Laser!SetStatus(shut, "ready")}
  BY DEF Laser!StandbyHandler, shut, dark, noq
<1> QED BY <1>3, <1>4, StatusShut DEF Laser!Status

\* A pause does nothing or closes the shutter; one that answers well leaves it
\* closed.
LEMMA PauseShut ==
  ASSUME NEW u, Shut(u), NEW ok \in BOOLEAN
  PROVE  /\ Shut(Laser!PauseHandler(u, ok))
         /\ Laser!PauseHandler(u, ok) = u \/ Laser!PauseHandler(u, ok).cib_shutter = TRUE
         /\ PauseGood(u, ok) => Laser!PauseHandler(u, ok).cib_shutter = TRUE
<1> USE DEF Synced
<1> DEFINE shut   == Laser!SetExtShutter(u, TRUE)
           opened == Laser!OpenLaserShutter(shut, TRUE)
           on     == Laser!SetQswitch(opened, TRUE)
<1>1. Synced(shut) /\ shut.cib_shutter = TRUE
  BY ShutterEffect DEF Shut
<1> HIDE DEF shut
<1>2. Synced(opened) /\ opened.cib_shutter = TRUE
  BY <1>1, OtherEffects DEF SameShut
<1> HIDE DEF opened
<1>3. Synced(on) /\ on.cib_shutter = TRUE
  BY <1>2, OtherEffects DEF SameShut
<1> HIDE DEF on
<1>4. \/ /\ Laser!PauseHandler(u, ok) = u
         /\ ~(u.status \in {"standby", "lasing"} /\ u.m_laser /\ u.m_regs)
      \/ Laser!PauseHandler(u, ok) = shut
      \/ Laser!PauseHandler(u, ok) = Laser!SetStatus(on, "pause")
      \/ Laser!PauseHandler(u, ok) = Laser!SetStatus(opened, "ready")
  BY DEF Laser!PauseHandler, on, opened, shut
<1>5. Shut(shut)
  BY <1>1 DEF Shut
<1>6. Shut(Laser!SetStatus(on, "pause")) /\ Laser!SetStatus(on, "pause").cib_shutter = TRUE
  BY <1>3, StatusEffect, StatusShut DEF Laser!Status
<1>7. Shut(Laser!SetStatus(opened, "ready")) /\ Laser!SetStatus(opened, "ready").cib_shutter = TRUE
  BY <1>2, StatusEffect, StatusShut DEF Laser!Status
<1> QED BY <1>1, <1>4, <1>5, <1>6, <1>7 DEF PauseGood, Shut

LEMMA ResumeShut ==
  ASSUME NEW u, Shut(u), NEW ok \in BOOLEAN, NEW ok2 \in BOOLEAN
  PROVE  Shut(Laser!ResumeHandler(u, ok, ok2))
<1> USE DEF Synced
<1> DEFINE opened == Laser!OpenLaserShutter(u, TRUE)
           lit    == Laser!SetExtShutter(opened, FALSE)
<1>1. Synced(opened)
  BY OtherEffects DEF Shut, SameShut
<1> HIDE DEF opened
<1>2. Synced(lit)
  BY <1>1, ShutterEffect
<1> HIDE DEF lit
<1>3. Laser!ResumeHandler(u, ok, ok2)
        \in {u, Laser!SetStatus(lit, "lasing"), Laser!StandbyHandler(u, ok2)}
  BY DEF Laser!ResumeHandler, lit, opened
<1> QED BY <1>2, <1>3, StatusShut, StandbyShut DEF Laser!Status

LEMMA StartShut ==
  ASSUME NEW u, Shut(u), NEW shut \in BOOLEAN, NEW fire \in BOOLEAN, NEW dark \in BOOLEAN
  PROVE  Shut(Laser!StartHandler(u, shut, fire, dark))
<1> USE DEF Synced
<1> DEFINE noq    == Laser!SetQswitch(u, FALSE)
           closed == Laser!CloseLaserShutter(noq, shut)
           safe   == IF u.ext_shutter_closed THEN closed ELSE Laser!SetExtShutter(closed, TRUE)
           lit    == Laser!SetFire(safe, TRUE)
<1>1. Shut(noq)
  BY OtherEffects DEF Shut, SameShut
<1> HIDE DEF noq
<1>2. Shut(closed) /\ Synced(closed)
  BY <1>1, OtherEffects DEF Shut, SameShut
<1> HIDE DEF closed
<1>3. Synced(safe)
  BY <1>2, ShutterEffect
<1> HIDE DEF safe
<1>4. Synced(lit)
  BY <1>3, OtherEffects DEF SameShut
<1> HIDE DEF lit
<1>5. Laser!StartHandler(u, shut, fire, dark)
        \in {u, closed, Laser!Stop(closed, dark), Laser!SetStatus(lit, "warmup")}
  BY DEF Laser!StartHandler, lit, safe, closed, noq
<1> QED BY <1>2, <1>4, <1>5, StopShut, StatusShut DEF Laser!Status

LEMMA ConfigShut ==
  ASSUME NEW u, Shut(u), NEW how \in Laser!ConfigOutcome, NEW ok \in BOOLEAN
  PROVE  Shut(Laser!ConfigHandler(u, how, ok))
<1> USE DEF Synced
<1> DEFINE live      == [u EXCEPT !.m_laser = TRUE]
           connected == Laser!SetStatus(live, "ready")
           mapped    == [connected EXCEPT !.m_regs = TRUE]
           unmapped  == [connected EXCEPT !.m_regs = FALSE]
<1>1. Synced(live)
  BY DEF Shut, Laser!Unit
<1> HIDE DEF live
<1>2. Synced(connected) /\ connected.status = "ready"
  BY <1>1, StatusEffect DEF Laser!Status
<1> HIDE DEF connected
<1>3. Shut(mapped) /\ Shut([mapped EXCEPT !.m_config_completed = TRUE]) /\ Synced(unmapped)
  BY <1>2 DEF Shut, Laser!Unit
<1> HIDE DEF mapped, unmapped
<1>4. Laser!ConfigHandler(u, how, ok)
        \in {u, Laser!Terminate(u, ok), Laser!SetStatus(unmapped, "offline"),
             Laser!Terminate(mapped, ok), [mapped EXCEPT !.m_config_completed = TRUE]}
  BY DEF Laser!ConfigHandler, Laser!ConfigRefused, Laser!Configured, Laser!Connected, Laser!ConfigOutcome, unmapped, mapped, connected, live
<1> QED BY <1>3, <1>4, TerminateShut, StatusShut DEF Laser!Status

LEMMA SwitchShut ==
  ASSUME NEW u, Shut(u), NEW close \in BOOLEAN, NEW ok \in BOOLEAN
  PROVE  Shut(Laser!SwitchLaserShutter(u, close, ok))
<1> USE DEF Synced
<1> DEFINE noq    == Laser!SetQswitch(u, FALSE)
           closed == Laser!CloseLaserShutter(noq, ok)
           dark   == Laser!SetStatus(closed, "standby")
           opened == Laser!OpenLaserShutter(u, ok)
           on     == Laser!SetQswitch(opened, TRUE)
<1>1. Synced(noq)
  BY OtherEffects DEF Shut, SameShut
<1> HIDE DEF noq
<1>2. Synced(closed)
  BY <1>1, OtherEffects DEF SameShut
<1> HIDE DEF closed
<1>3. Shut(dark) /\ dark.status = "standby"
  BY <1>2, StatusShut, StatusEffect DEF Laser!Status
<1> HIDE DEF dark
<1>4. Shut(Laser!SetExtShutter(dark, FALSE))
  BY <1>3, ShutterEffect DEF Shut
<1>5. Shut(opened) /\ opened.cib_shutter = u.cib_shutter
  BY OtherEffects DEF Shut, SameShut
<1> HIDE DEF opened
<1>6. Synced(on) /\ on.cib_shutter = u.cib_shutter
  BY <1>5, OtherEffects DEF SameShut, Shut
<1> HIDE DEF on
<1>7. \/ Laser!SwitchLaserShutter(u, close, ok) \in {u, dark, Laser!SetExtShutter(dark, FALSE), opened}
      \/ \E s \in Laser!Status : /\ Laser!SwitchLaserShutter(u, close, ok) = Laser!SetStatus(on, s)
                                 /\ s = "pause" => u.ext_shutter_closed = TRUE
  BY DEF Laser!SwitchLaserShutter, Laser!Status, Laser!Unit, Shut, on, opened, dark, closed, noq
<1> QED BY <1>3, <1>4, <1>5, <1>6, <1>7, StatusShut DEF Shut

-----------------------------------------------------------------------------
(* Types. *)

PC == {"begin", "setBusy", "enter", "scanPause", "pause", "toStandby", "toPause", "fail", "failMove",
       "quit", "next", "moved", "look", "done", "report", "lastPause", "parting", "approach",
       "overstep", "lastLeg", "moveFrom", "waitFrom", "light", "moveTo", "waitTo", "dark", "shots",
       "over"}

Op == {"segment", "scan", "point", "move"}

Task == [op : Op \cup {"none"}, plan : Seq(Leg), pc : PC, axis : Motors, interim : Int,
         mine : SUBSET Motors, failed : BOOLEAN]

MotorType == motor \in [Motors -> [pos : Position, goal : Position]]
PastType  == past \in [lamp : Tasks \cup {"others"}, missed : SUBSET (Tasks \cup {"server", "main"})]

TypeInv ==
  /\ Shut(unit) /\ m_state \in State /\ MotorType
  /\ task \in [Tasks -> Task]
  /\ server \in {"free", "ready", "clear", "offline"} /\ main \in State \cup {NoEcho}
  /\ PastType

(* The records of the tasks. *)

\* What no step but the start of a segment changes of a task, or of it and its
\* failure.
Same(k, r) == r \in Task /\ r.op = k.op /\ r.plan = k.plan /\ r.interim = k.interim /\ r.failed = k.failed

LEMMA IdleType == Idle \in Task /\ Idle.pc = "over" /\ Idle.mine = {}
<1>1. 1 \in Motors /\ <<>> \in Seq(Leg)
  BY SystemAssumption DEF Motors
<1> HIDE DEF Leg, Motors
<1> QED BY <1>1 DEF Idle, Task, PC

LEMMA WentEffect ==
  ASSUME NEW k \in Task, NEW pc \in PC
  PROVE  LET r == Went(k, pc)
         IN  Same(k, r) /\ r.pc = pc /\ r.axis = 1 /\ r.mine = k.mine
<1>1. 1 \in Motors
  BY SystemAssumption DEF Motors
<1> HIDE DEF PC, Leg, Motors
<1> QED BY <1>1 DEF Task, Went, Same

LEMMA NextAxisEffect ==
  ASSUME NEW k \in Task, NEW pc \in PC, NEW after \in PC
  PROVE  LET r == NextAxis(k, pc, after)
         IN  /\ Same(k, r) /\ r.mine = k.mine
             /\ \/ k.axis < NumMotors /\ r.pc = pc /\ r.axis = k.axis + 1
                \/ k.axis = NumMotors /\ r.pc = after /\ r.axis = 1
<1>1. k.axis \in 1 .. NumMotors /\ NumMotors \in Nat
  BY SystemAssumption DEF Task, Motors
<1>2. CASE k.axis < NumMotors
  <2>1. k.axis + 1 \in Motors
    BY <1>1, <1>2 DEF Motors
  <2> HIDE DEF PC, Leg, Motors
  <2>2. NextAxis(k, pc, after) = [k EXCEPT !.axis = k.axis + 1, !.pc = pc]
    BY <1>2 DEF NextAxis, Task
  <2> QED BY <1>2, <2>1, <2>2 DEF Task, Same
<1>3. CASE ~(k.axis < NumMotors)
  <2>1. k.axis = NumMotors /\ NextAxis(k, pc, after) = Went(k, after)
    BY <1>1, <1>3 DEF NextAxis
  <2> QED BY <2>1, WentEffect
<1> QED BY <1>2, <1>3

LEMMA MineEffect ==
  ASSUME NEW k \in Task, NEW ms \in SUBSET Motors
  PROVE  LET r == [k EXCEPT !.mine = ms]
         IN  Same(k, r) /\ r.pc = k.pc /\ r.axis = k.axis /\ r.mine = ms
<1> HIDE DEF PC, Leg, Motors
<1> QED BY DEF Task, Same

LEMMA BecomesEffect ==
  ASSUME task \in [Tasks -> Task], NEW t \in Tasks, NEW r \in Task, Becomes(t, r)
  PROVE  /\ task' \in [Tasks -> Task] /\ task'[t] = r
         /\ \A s \in Tasks : s # t => task'[s] = task[s]
BY DEF Becomes

LEMMA RestOfPlan ==
  ASSUME NEW S, NEW plan \in Seq(S), Len(plan) > 1
  PROVE  Tail(plan) \in Seq(S) /\ Tail(plan) # <<>>
<1>1. Tail(plan) \in Seq(S) /\ Len(Tail(plan)) = Len(plan) - 1
  OBVIOUS
<1>2. \A n \in Nat : n > 1 => n - 1 # 0
  OBVIOUS
<1>3. Len(plan) \in Nat
  OBVIOUS
<1>4. Len(Tail(plan)) # 0
  BY <1>1, <1>2, <1>3, Zenon
<1> QED BY <1>1, <1>4, EmptySeq, Zenon

-----------------------------------------------------------------------------
(* The light. *)

LEMMA HandleEffect ==
  ASSUME NEW v, Shut(v), NEW x \in Tasks \cup {"others"}, PastType, Handle(x, v)
  PROVE  /\ Shut(unit)' /\ PastType' /\ past'.missed = past.missed
         /\ v.cib_shutter = TRUE => ~Laser!Beam'
         /\ v = unit => (Laser!Beam' <=> Laser!Beam)
         /\ Laser!Beam' => past'.lamp = IF Laser!Beam THEN past.lamp ELSE x
<1> DEFINE none == [k \in Laser!Timed |-> 0]
<1>1. none \in [Laser!Timed -> Nat]
  OBVIOUS
<1>2. unit' = [v EXCEPT !.sleeping = none, !.m_is_terminating = FALSE, !.m_config_completed = FALSE]
  BY DEF Handle
<1> HIDE DEF none
<1>3. /\ unit'.status = v.status /\ unit'.ext_shutter_closed = v.ext_shutter_closed
      /\ unit'.cib_shutter = v.cib_shutter /\ unit'.cib_fire = v.cib_fire
      /\ unit'.cib_qswitch = v.cib_qswitch /\ unit'.laser_shutter_closed = v.laser_shutter_closed
      /\ unit' \in Laser!Unit
  BY <1>1, <1>2 DEF Shut, Synced, Laser!Unit
<1>4. Shut(unit)'
  BY <1>3 DEF Shut, Synced
<1>5. past' = [past EXCEPT !.lamp = IF ~Laser!Beam' THEN "others" ELSE IF Laser!Beam THEN @ ELSE x]
  BY DEF Handle
<1> QED BY <1>3, <1>4, <1>5 DEF Laser!Beam, PastType

\* A handler that runs for x lets out no light that is another task's.
LEMMA HandleLamp ==
  ASSUME NEW v, Shut(v), NEW x \in Tasks \cup {"others"}, PastType, Handle(x, v),
         NEW t \in Tasks, t # x, Laser!Beam', past'.lamp = t
  PROVE  Laser!Beam /\ past.lamp = t
BY HandleEffect

\* What clients and timers make the unit do.
LEMMA HandlersShut ==
  ASSUME NEW u, Shut(u)
  PROVE  /\ \A how \in Laser!ConfigOutcome, ok \in BOOLEAN : Shut(Laser!ConfigHandler(u, how, ok))
         /\ \A shut, fire, dark \in BOOLEAN : Shut(Laser!StartHandler(u, shut, fire, dark))
         /\ \A ok, ok2 \in BOOLEAN :
              /\ Shut(Laser!Stop(u, ok)) /\ Shut(Laser!Terminate(u, ok))
              /\ Shut(Laser!PauseHandler(u, ok)) /\ Shut(Laser!StandbyHandler(u, ok))
              /\ Shut(Laser!ResumeHandler(u, ok, ok2))
              /\ Shut(Laser!ForceExtShutter(u, ok)) /\ Shut(Laser!SwitchLaserShutter(u, ok, ok2))
         /\ Shut(Laser!SetStatus(u, "standby"))
<1>1. Shut(Laser!SetStatus(u, "standby"))
  BY StatusShut DEF Shut, Laser!Status
<1> QED BY <1>1, ConfigShut, StartShut, StopShut, TerminateShut, PauseShut, StandbyShut, ResumeShut,
           ForceShut, SwitchShut

-----------------------------------------------------------------------------
(* The invariant.  A motor that is the task's own was sent where the task      *)
(* wanted it or stands still; one that was waited for is near to that place    *)
(* and so is its goal, also when it is stopped half-way.                       *)

From(k, m) == Head(k.plan).from[m]
To(k, m)   == Head(k.plan).to[m]

Sent(m, x) == motor[m].goal = x \/ AtRest(m)
Stays(m, x) == Near(motor[m].pos, x) /\ Near(motor[m].goal, x)
Within(k, m) == /\ Between(motor[m].pos, From(k, m), To(k, m))
                /\ Between(motor[m].goal, From(k, m), To(k, m))

\* What holds of the motor m, being k's own.
There(k, m) ==
  /\ k.pc \notin {"begin", "setBusy", "enter", "scanPause", "pause"}
  /\ k.pc \in {"approach", "moveFrom"} => m < k.axis /\ Sent(m, From(k, m))
  /\ k.pc \in {"overstep", "lastLeg"} => m <= k.axis /\ (m < k.axis => Sent(m, From(k, m)))
  /\ k.pc \in {"failMove", "moved"} => Sent(m, From(k, m))
  /\ k.pc = "waitFrom" => IF m < k.axis THEN Stays(m, From(k, m)) ELSE Sent(m, From(k, m))
  /\ k.pc \in {"look", "light", "shots"} => Stays(m, From(k, m))
  /\ k.pc \in {"moveTo", "waitTo", "dark"} /\ k.op # "point" => Within(k, m)

\* A motor on the side that it is to come from, and not going past the target.
OnSide(m, x, approach) ==
  /\ approach = "u" => \/ motor[m].pos < x /\ motor[m].goal < x
                       \/ motor[m].pos = x /\ motor[m].goal = x
  /\ approach = "d" => \/ motor[m].pos > x /\ motor[m].goal > x
                       \/ motor[m].pos = x /\ motor[m].goal = x

\* An interim point so far from the target that whatever is near to it is on
\* the side that was asked for.
FarSide(interim, x, approach) ==
  /\ approach = "u" => interim + Tolerance < x
  /\ approach = "d" => interim - Tolerance > x

\* The motor that oversteps, while it does and when it has.
Side(k) ==
  LET m        == k.axis
      approach == Head(k.plan).approach[m]
  IN  m \in k.mine =>
        /\ k.pc = "overstep" =>
             \/ AtRest(m) /\ motor[m].pos = k.interim /\ OnSide(m, From(k, m), approach)
             \/ Sent(m, k.interim) /\ FarSide(k.interim, From(k, m), approach)
        /\ k.pc = "lastLeg" => OnSide(m, From(k, m), approach)

\* Where a task may have its light on.
LitPC == {"moveTo", "waitTo", "dark", "shots", "toPause", "toStandby", "fail", "failMove", "quit", "over"}

Unlit(k, t) == ~k.failed /\ k.pc \notin LitPC /\ Laser!Beam => past.lamp # t

\* A task that is not over has something to do; only a point is fired at.
Purposeful(k) == /\ k.pc # "over" => k.op # "none" /\ k.plan # <<>>
                 /\ k.pc = "shots" => k.op = "point"

Fine(t) == /\ Purposeful(task[t])
           /\ \A m \in task[t].mine : There(task[t], m)
           /\ Side(task[t])
           /\ Unlit(task[t], t)

\* Who looked before the error came is remembered.
LookedBefore == m_state = "error" => Looked \subseteq past.missed

Inv == TypeInv /\ (\A t \in Tasks : Fine(t)) /\ LookedBefore

\* Where the task is on its way to.
LEMMA PlanType ==
  ASSUME NEW k \in Task, Purposeful(k), k.pc # "over"
  PROVE  /\ Head(k.plan) \in Leg /\ k.op \in Op
         /\ \A m \in Motors : /\ From(k, m) \in Position /\ To(k, m) \in Position
                              /\ Head(k.plan).approach[m] \in {"u", "d", "-"}
<1>1. k.plan \in Seq(Leg) /\ k.plan # <<>> /\ k.op \in Op
  BY DEF Task, Purposeful
<1>2. Head(k.plan) \in Leg
  <2> HIDE DEF Leg
  <2> QED BY <1>1
<1> QED BY <1>1, <1>2 DEF Leg, Point, From, To

LEMMA Numbers ==
  /\ Motors = 1 .. NumMotors /\ NumMotors \in Nat \ {0} /\ 1 \in Motors
  /\ Position \subseteq Int /\ Tolerance \in Nat /\ Overstep \in Nat /\ Overstep > Tolerance
  /\ MotorType => \A m \in Motors : motor[m].pos \in Int /\ motor[m].goal \in Int
BY SystemAssumption DEF Motors, Position, MotorType

-----------------------------------------------------------------------------
(* What the others do.  A motor that is still the task's own is left alone,    *)
(* goes one position on, or is told to stay where it is.                       *)

Drifts(m) ==
  /\ motor'[m].goal \in {motor[m].goal, motor[m].pos}
  /\ motor'[m].pos # motor[m].pos => motor'[m].goal = motor[m].goal /\ ~AtRest(m)
  /\ motor[m].pos <= motor[m].goal => motor[m].pos <= motor'[m].pos /\ motor'[m].pos <= motor[m].goal
  /\ motor[m].pos >= motor[m].goal => motor[m].pos >= motor'[m].pos /\ motor'[m].pos >= motor[m].goal

Passive(t) ==
  /\ task'[t] = task[t] \/ \E ms \in SUBSET task[t].mine : task'[t] = [task[t] EXCEPT !.mine = ms]
  /\ \A m \in task'[t].mine : Drifts(m)
  /\ Laser!Beam' /\ past'.lamp = t => Laser!Beam /\ past.lamp = t

LEMMA DriftKeeps ==
  ASSUME MotorType, MotorType', NEW m \in Motors, Drifts(m), NEW x \in Int, NEW y \in Int
  PROVE  /\ AtRest(m) => motor'[m].pos = motor[m].pos /\ AtRest(m)'
         /\ Sent(m, x) => motor'[m].goal = x \/ AtRest(m)'
         /\ Stays(m, x) => Near(motor'[m].pos, x) /\ Near(motor'[m].goal, x)
         /\ Between(motor[m].pos, x, y) /\ Between(motor[m].goal, x, y) =>
              Between(motor'[m].pos, x, y) /\ Between(motor'[m].goal, x, y)
         /\ motor[m].pos < x /\ motor[m].goal < x => motor'[m].pos < x /\ motor'[m].goal < x
         /\ motor[m].pos > x /\ motor[m].goal > x => motor'[m].pos > x /\ motor'[m].goal > x
         /\ motor[m].pos = x /\ motor[m].goal = x => motor'[m].pos = x /\ motor'[m].goal = x
<1>1. /\ motor[m].pos \in Int /\ motor[m].goal \in Int /\ motor'[m].pos \in Int /\ motor'[m].goal \in Int
      /\ Tolerance \in Nat
  BY SystemAssumption DEF MotorType, Position
<1>2. \/ motor'[m].goal = motor[m].goal
      \/ motor'[m].goal = motor[m].pos /\ motor'[m].pos = motor[m].pos
  BY DEF Drifts
<1> QED BY <1>1, <1>2 DEF Drifts, AtRest, Sent, Stays, Near, Between

LEMMA PassiveFine ==
  ASSUME TypeInv, MotorType', NEW t \in Tasks, Fine(t), Passive(t)
  PROVE  Fine(t)' /\ task'[t] \in Task
<1> DEFINE k == task[t]  r == task'[t]
<1>1. k \in Task /\ MotorType
  BY DEF TypeInv
<1>2. /\ Same(k, r) /\ r.pc = k.pc /\ r.axis = k.axis /\ r.mine \subseteq k.mine /\ k.mine \subseteq Motors
  <2>1. CASE r = k
    BY <1>1, <2>1 DEF Same, Task
  <2>2. CASE r # k
    <3>1. PICK ms \in SUBSET k.mine : r = [k EXCEPT !.mine = ms]
      BY <2>2 DEF Passive
    <3>2. ms \in SUBSET Motors /\ k.mine \subseteq Motors
      BY <1>1 DEF Task
    <3> QED BY <1>1, <3>1, <3>2, MineEffect
  <2> QED BY <2>1, <2>2
<1>3. \A m \in r.mine : m \in k.mine /\ m \in Motors /\ Drifts(m)
  BY <1>2 DEF Passive
<1>4. /\ Laser!Beam' /\ past'.lamp = t => Laser!Beam /\ past.lamp = t
      /\ Purposeful(k) /\ Side(k) /\ Unlit(k, t) /\ \A m \in k.mine : There(k, m)
  BY DEF Passive, Fine
<1>5. CASE k.pc = "over"
  BY <1>2, <1>3, <1>4, <1>5 DEF Fine, Same, Purposeful, There, Side, Unlit, LitPC
<1>6. CASE k.pc # "over"
  <2>1. \A m \in Motors : From(k, m) \in Int /\ To(k, m) \in Int
    BY <1>1, <1>4, <1>6, PlanType, Numbers
  <2>2. \A m \in Motors : From(r, m) = From(k, m) /\ To(r, m) = To(k, m)
    BY <1>2 DEF From, To, Same
  <2>3. ASSUME NEW m \in r.mine
        PROVE  There(task[t], m)'
    <3>1. There(k, m) /\ m \in Motors /\ Drifts(m)
      BY <1>3, <1>4
    <3>2. /\ Sent(m, From(k, m)) => Sent(m, From(task[t], m))'
          /\ Stays(m, From(k, m)) => Stays(m, From(task[t], m))'
          /\ Within(k, m) => Within(task[t], m)'
      BY <1>1, <2>1, <2>2, <3>1, DriftKeeps DEF Sent, Stays, Within
    <3> QED BY <1>2, <3>1, <3>2 DEF There, Same
  <2>4. Side(task[t])'
    <3> DEFINE m == k.axis  a == Head(k.plan).approach[m]
    <3>1. CASE m \notin r.mine
      BY <1>2, <3>1 DEF Side
    <3>2. CASE m \in r.mine
      <4>1. m \in k.mine /\ m \in Motors /\ Drifts(m) /\ k.interim \in Int
        BY <1>1, <1>3, <3>2 DEF Task
      <4>2. OnSide(m, From(k, m), a) => OnSide(m, From(task[t], m), Head(task[t].plan).approach[m])'
        BY <1>1, <1>2, <2>1, <2>2, <4>1, DriftKeeps DEF OnSide, Same
      <4>3. FarSide(k.interim, From(k, m), a) =>
              FarSide(task[t].interim, From(task[t], m), Head(task[t].plan).approach[m])'
        BY <1>2, <2>2, <4>1 DEF FarSide, Same
      <4>4. /\ Sent(m, k.interim) => Sent(m, task[t].interim)'
            /\ AtRest(m) /\ motor[m].pos = k.interim => AtRest(m)' /\ motor'[m].pos = task'[t].interim
        BY <1>1, <1>2, <4>1, DriftKeeps DEF Sent, Same
      <4> QED BY <1>2, <1>4, <4>1, <4>2, <4>3, <4>4 DEF Side
    <3> QED BY <3>1, <3>2
  <2>5. Purposeful(task[t])' /\ Unlit(task[t], t)'
    BY <1>2, <1>4 DEF Purposeful, Unlit, Same
  <2> QED BY <1>2, <2>3, <2>4, <2>5 DEF Fine, Same
<1> QED BY <1>5, <1>6

-----------------------------------------------------------------------------
(* What a step of a task makes of the system. *)

LightKept(t) == \A s \in Tasks \ {t} : Laser!Beam' /\ past'.lamp = s => Laser!Beam /\ past.lamp = s

Outcome(t) ==
  /\ Shut(unit)' /\ MotorType' /\ PastType' /\ m_state' \in State
  /\ task' \in [Tasks -> Task] /\ UNCHANGED rest
  /\ Fine(t)'
  /\ \A s \in Tasks : s # t => Passive(s)

LEMMA SetsEffect ==
  ASSUME PastType, NEW s \in State, Sets(s)
  PROVE  /\ m_state' = s /\ PastType' /\ past'.lamp = past.lamp
         /\ past'.missed = IF s = "error" THEN Looked ELSE {}
<1>1. Looked \subseteq Tasks \cup {"server", "main"}
  BY DEF Looked
<1> QED BY <1>1 DEF PastType, Sets

\* A task that changes only itself, and the light.
LEMMA AloneStep ==
  ASSUME TypeInv, NEW t \in Tasks, NEW r \in Task, Becomes(t, r), UNCHANGED motor, UNCHANGED rest,
         Shut(unit)', PastType', m_state' \in State, LightKept(t),
         Purposeful(r), \A m \in r.mine : There(r, m), Side(r),
         r.failed \/ r.pc \in LitPC \/ (Laser!Beam' => past'.lamp # t)
  PROVE  Outcome(t)
<1>1. /\ task' \in [Tasks -> Task] /\ task'[t] = r
      /\ \A s \in Tasks : s # t => task'[s] = task[s]
  BY BecomesEffect DEF TypeInv
<1>2. MotorType'
  BY DEF TypeInv, MotorType
<1>3. Purposeful(task[t])' /\ Unlit(task[t], t)'
  BY <1>1 DEF Purposeful, Unlit
<1>4. ASSUME NEW m \in task'[t].mine PROVE There(task[t], m)'
  BY <1>1, <1>4 DEF There, Sent, Stays, Within, From, To, AtRest
<1>5. Side(task[t])'
  BY <1>1 DEF Side, Sent, OnSide, FarSide, From, AtRest
<1>6. ASSUME NEW s \in Tasks, s # t PROVE Passive(s)
  <2>1. task[s] \in Task /\ MotorType
    BY DEF TypeInv
  <2>2. \A m \in Motors : Drifts(m)
    BY <2>1, Numbers DEF Drifts
  <2> QED BY <1>1, <1>6, <2>1, <2>2 DEF Passive, LightKept, Task
<1> QED BY <1>1, <1>2, <1>3, <1>4, <1>5, <1>6 DEF Outcome, Fine

LEMMA IdleStep ==
  ASSUME TypeInv, NEW t \in Tasks, Becomes(t, Idle), UNCHANGED motor, UNCHANGED rest,
         Shut(unit)', PastType', m_state' \in State, LightKept(t)
  PROVE  Outcome(t)
<1>1. Purposeful(Idle) /\ (\A m \in Idle.mine : There(Idle, m)) /\ Side(Idle) /\ Idle.pc \in LitPC
  BY DEF Purposeful, Idle, Side, LitPC
<1> QED BY <1>1, IdleType, AloneStep

\* At these a task needs nothing of its motors.
Loose == {"toStandby", "toPause", "fail", "quit", "next", "done", "report", "lastPause", "parting"}

\* What k needs of its motors to go to pc.
Ready(k, pc) ==
  \/ pc \in Loose \/ k.mine = {}
  \/ pc \in {"failMove", "moved", "waitFrom"} /\ \A m \in k.mine : Sent(m, From(k, m))
  \/ pc \in {"light", "shots"} /\ \A m \in k.mine : Stays(m, From(k, m))
  \/ pc \in {"moveTo", "dark"} /\ \A m \in k.mine : k.op # "point" => Within(k, m)

LEMMA GotoStep ==
  ASSUME TypeInv, NEW t \in Tasks, Fine(t), task[t].pc # "over",
         NEW pc \in PC \ {"over", "overstep", "lastLeg"}, pc = "shots" => task[t].op = "point",
         Goto(t, pc), UNCHANGED motor, UNCHANGED rest,
         Shut(unit)', PastType', m_state' \in State, LightKept(t),
         task[t].failed \/ pc \in LitPC \/ (Laser!Beam' => past'.lamp # t),
         Ready(task[t], pc)
  PROVE  Outcome(t)
<1> DEFINE k == task[t]  r == Went(k, pc)
<1>1. k \in Task /\ k.mine \subseteq Motors
  BY DEF TypeInv, Task
<1>2. Same(k, r) /\ r.pc = pc /\ r.axis = 1 /\ r.mine = k.mine
  BY <1>1, WentEffect
<1>3. Becomes(t, r)
  BY DEF Goto
<1> HIDE DEF r
<1>4. Purposeful(r) /\ Side(r)
  BY <1>2 DEF Fine, Purposeful, Same, Side
<1>5. ASSUME NEW m \in r.mine PROVE There(r, m)
  <2>1. ~(m < 1)
    BY <1>1, <1>2, <1>5, Numbers
  <2> QED BY <1>2, <1>5, <2>1 DEF Ready, Loose, There, Same, Within, From, To
<1> QED BY <1>2, <1>3, <1>4, <1>5, AloneStep DEF Same

\* Nothing happens to the laser: so much for the light.
LEMMA QuietLight ==
  ASSUME TypeInv, NEW t \in Tasks, Fine(t), UNCHANGED unit,
         (past' = past /\ m_state' = m_state) \/ \E s \in State : Sets(s)
  PROVE  /\ Shut(unit)' /\ PastType' /\ m_state' \in State /\ LightKept(t)
         /\ task[t].failed \/ task[t].pc \in LitPC \/ (Laser!Beam' => past'.lamp # t)
<1>1. Shut(unit)' /\ PastType' /\ m_state' \in State /\ past'.lamp = past.lamp
  BY SetsEffect DEF TypeInv, PastType
<1>2. Laser!Beam' <=> Laser!Beam
  BY DEF Laser!Beam
<1> QED BY <1>1, <1>2 DEF LightKept, Fine, Unlit

\* A task drives the laser.
LEMMA LaserLight ==
  ASSUME TypeInv, NEW t \in Tasks, NEW v, Shut(v), Handle(t, v), UNCHANGED m_state
  PROVE  Shut(unit)' /\ PastType' /\ m_state' \in State /\ LightKept(t)
<1>1. Shut(unit)' /\ PastType' /\ m_state' \in State
  BY HandleEffect DEF TypeInv
<1>2. LightKept(t)
  BY HandleLamp DEF LightKept, TypeInv
<1> QED BY <1>1, <1>2

\* ... with a pause.
LEMMA PauseLight ==
  ASSUME TypeInv, NEW t \in Tasks, Fine(t), NEW ok \in BOOLEAN, Handle(t, Laser!PauseHandler(unit, ok))
  PROVE  /\ PauseGood(unit, ok) => ~Laser!Beam'
         /\ task[t].failed \/ task[t].pc \in LitPC \/ (Laser!Beam' => past'.lamp # t)
<1> DEFINE v == Laser!PauseHandler(unit, ok)
<1>1. /\ Shut(v) /\ PastType
      /\ v = unit \/ v.cib_shutter = TRUE
      /\ PauseGood(unit, ok) => v.cib_shutter = TRUE
  BY PauseShut DEF TypeInv
<1> HIDE DEF v
<1>2. /\ v.cib_shutter = TRUE => ~Laser!Beam'
      /\ v = unit => (Laser!Beam' <=> Laser!Beam)
      /\ Laser!Beam' => past'.lamp = IF Laser!Beam THEN past.lamp ELSE t
  BY <1>1, HandleEffect DEF v
<1> QED BY <1>1, <1>2 DEF Fine, Unlit

\* A step with which a task looks or sets the state, and goes on at pc.
LEMMA LookGoto ==
  ASSUME TypeInv, NEW t \in Tasks, Fine(t), task[t].pc # "over",
         NEW pc \in PC \ {"over", "overstep", "lastLeg", "shots"},
         Goto(t, pc), UNCHANGED unit, UNCHANGED motor, UNCHANGED rest,
         (past' = past /\ m_state' = m_state) \/ \E s \in State : Sets(s),
         task[t].pc \in LitPC => pc \in LitPC, Ready(task[t], pc)
  PROVE  Outcome(t)
BY QuietLight, GotoStep

LEMMA LookIdle ==
  ASSUME TypeInv, NEW t \in Tasks, Fine(t), Becomes(t, Idle),
         UNCHANGED unit, UNCHANGED motor, UNCHANGED rest,
         (past' = past /\ m_state' = m_state) \/ \E s \in State : Sets(s)
  PROVE  Outcome(t)
BY QuietLight, IdleStep

LEMMA StateSteps ==
  ASSUME TypeInv, NEW t \in Tasks, Fine(t),
         Begin(t) \/ SetBusy(t) \/ Enter(t) \/ Fail(t) \/ Quit(t) \/ Report(t)
  PROVE  Outcome(t)
<1> DEFINE k == task[t]
<1>1. k \in Task
  BY DEF TypeInv
<1>2. /\ k.pc \in {"begin", "setBusy", "enter"} => k.mine = {}
      /\ k.pc = "failMove" => \A m \in k.mine : Sent(m, From(k, m))
  BY DEF Fine, There
<1>3. /\ {"setBusy", "enter", "scanPause", "pause", "approach", "moved", "next", "done"}
           \subseteq PC \ ({"over", "overstep", "lastLeg", "shots"} \cup LitPC)
      /\ {"busy", "error", "ready"} \subseteq State
  BY DEF PC, LitPC, State
<1>4. k.pc # "over" => k.op \in Op
  BY <1>1, PlanType DEF Fine
<1>5. CASE Begin(t)
  <2>1. k.pc = "begin" /\ UNCHANGED <<unit, m_state, motor, past>> /\ UNCHANGED rest
    BY <1>5 DEF Begin, At
  <2>2. CASE m_state = "error"
    BY <1>5, <2>1, <2>2, LookIdle DEF Begin
  <2>3. CASE m_state # "error"
    BY <1>2, <1>3, <1>5, <2>1, <2>3, LookGoto DEF Begin, Ready, LitPC
  <2> QED BY <2>2, <2>3
<1>6. CASE SetBusy(t)
  <2>1. k.pc = "setBusy" /\ Sets("busy") /\ UNCHANGED <<unit, motor>> /\ UNCHANGED rest
    BY <1>6 DEF SetBusy, At
  <2>2. PICK pc \in {"enter", "scanPause", "pause", "approach"} : Goto(t, pc)
    BY <1>4, <1>6, <2>1 DEF SetBusy, Op
  <2> QED BY <1>2, <1>3, <2>1, <2>2, LookGoto DEF Ready, LitPC
<1>7. CASE Enter(t)
  BY <1>2, <1>3, <1>7, LookGoto DEF Enter, At, Ready, LitPC
<1>8. CASE Fail(t)
  <2> DEFINE pc == IF At(t, "failMove") /\ task[t].op = "point" THEN "moved" ELSE Home(t)
             w  == Went(k, pc)
             r  == [w EXCEPT !.failed = TRUE]
  <2>1. k.pc \in {"fail", "failMove"} /\ Sets("error") /\ Becomes(t, r) /\ UNCHANGED <<unit, motor>> /\ UNCHANGED rest
    BY <1>8 DEF Fail
  <2>2. pc \in {"moved", "next", "done"} /\ (pc = "moved" => k.pc = "failMove")
    BY DEF Home, At
  <2> HIDE DEF pc
  <2>3. Same(k, w) /\ w.pc = pc /\ w.axis = 1 /\ w.mine = k.mine
    BY <1>1, <1>3, <2>2, WentEffect
  <2> HIDE DEF w
  <2>4. /\ r \in Task /\ r.pc = pc /\ r.mine = k.mine /\ r.op = k.op /\ r.plan = k.plan
        /\ r.failed = TRUE
    <3> HIDE DEF PC, Leg, Motors
    <3> QED BY <2>3 DEF Same, Task
  <2> HIDE DEF r
  <2>5. Purposeful(r) /\ Side(r)
    BY <2>1, <2>2, <2>4 DEF Fine, Purposeful, Side
  <2>6. \A m \in r.mine : There(r, m)
    BY <1>2, <2>2, <2>4 DEF There, From
  <2>7. Shut(unit)' /\ PastType' /\ m_state' \in State /\ LightKept(t)
    BY <1>3, <2>1, QuietLight
  <2> QED BY <2>1, <2>4, <2>5, <2>6, <2>7, AloneStep
<1>9. CASE Quit(t)
  BY <1>3, <1>9, LookIdle DEF Quit
<1>10. CASE Report(t)
  BY <1>3, <1>10, LookIdle DEF Report
<1> QED BY <1>5, <1>6, <1>7, <1>8, <1>9, <1>10

LEMMA LookSteps ==
  ASSUME TypeInv, NEW t \in Tasks, Fine(t),
         NextSegment(t) \/ LookMoved(t) \/ Look(t) \/ Finish(t) \/ ApproachFails(t)
  PROVE  Outcome(t)
<1> DEFINE k == task[t]
<1>1. k \in Task /\ k.mine \subseteq Motors
  BY DEF TypeInv, Task
<1>2. /\ k.pc \in {"moved", "approach"} => \A m \in k.mine : Sent(m, From(k, m))
      /\ k.pc = "look" => \A m \in k.mine : Stays(m, From(k, m))
  BY DEF Fine, There
<1>3. /\ {"next", "lastPause", "waitFrom", "light", "report", "done", "failMove", "pause"}
           \subseteq PC \ {"over", "overstep", "lastLeg", "shots"}
      /\ Home(t) \in {"next", "done"}
  BY DEF PC, Home
<1>4. ASSUME NEW from \in {"next", "moved", "look", "done"}, NEW r1, NEW r2, LookFrom(t, from, r1, r2)
      PROVE  /\ k.pc = from /\ k.pc \notin LitPC /\ k.pc # "over"
             /\ Becomes(t, r1) \/ Becomes(t, r2)
             /\ UNCHANGED <<unit, motor, m_state, past>> /\ UNCHANGED rest
  BY <1>4 DEF LookFrom, At, LitPC
<1>5. CASE NextSegment(t)
  <2> DEFINE w == Went(k, "pause")
             r == [w EXCEPT !.plan = Tail(@), !.mine = {}]
  <2>1. /\ k.pc = "next" /\ k.pc \notin LitPC /\ k.pc # "over"
        /\ Becomes(t, Idle) \/ Goto(t, "lastPause") \/ (Becomes(t, r) /\ Len(k.plan) > 1)
        /\ UNCHANGED <<unit, motor, m_state, past>> /\ UNCHANGED rest
    BY <1>4, <1>5 DEF NextSegment, Goto
  <2>2. CASE Becomes(t, r) /\ Len(k.plan) > 1
    <3>1. Same(k, w) /\ w.pc = "pause"
      BY <1>1, <1>3, WentEffect
    <3> HIDE DEF w
    <3>2. Tail(w.plan) \in Seq(Leg) /\ Tail(w.plan) # <<>>
      <4>1. w.plan \in Seq(Leg) /\ Len(w.plan) > 1
        BY <2>2, <3>1 DEF Same, Task
      <4> QED BY <4>1, RestOfPlan
    <3> DEFINE rests == Tail(w.plan)
    <3>3. r = [w EXCEPT !.plan = rests, !.mine = {}]
      BY <3>1 DEF Same, Task
    <3> HIDE DEF rests, r
    <3>4. /\ r \in Task /\ r.pc = "pause" /\ r.mine = {} /\ r.op = k.op /\ r.plan # <<>>
          /\ r.failed = k.failed
      <4>1. rests \in Seq(Leg) /\ rests # <<>> /\ {} \in SUBSET Motors
        BY <3>2 DEF rests
      <4> HIDE DEF PC, Leg, Motors
      <4> QED BY <3>1, <3>3, <4>1 DEF Same, Task
    <3>5. Purposeful(r) /\ Side(r) /\ \A m \in r.mine : There(r, m)
      BY <2>1, <3>4 DEF Fine, Purposeful, Side
    <3>6. /\ Shut(unit)' /\ PastType' /\ m_state' \in State /\ LightKept(t)
          /\ r.failed \/ (Laser!Beam' => past'.lamp # t)
      BY <2>1, <3>4, QuietLight
    <3> QED BY <2>1, <2>2, <3>4, <3>5, <3>6, AloneStep
  <2>3. CASE Becomes(t, Idle)
    BY <2>1, <2>3, LookIdle
  <2>4. CASE Goto(t, "lastPause")
    BY <1>3, <2>1, <2>4, LookGoto DEF Ready, Loose
  <2> QED BY <2>1, <2>2, <2>3, <2>4
<1>6. CASE LookMoved(t)
  <2>1. /\ k.pc = "moved" /\ k.pc \notin LitPC /\ k.pc # "over"
        /\ Goto(t, Home(t)) \/ Goto(t, "waitFrom")
        /\ UNCHANGED <<unit, motor, m_state, past>> /\ UNCHANGED rest
    BY <1>4, <1>6 DEF LookMoved, Goto
  <2> QED BY <1>2, <1>3, <2>1, LookGoto DEF Ready, Loose
<1>7. CASE Look(t)
  <2>1. /\ k.pc = "look" /\ k.pc \notin LitPC /\ k.pc # "over"
        /\ Goto(t, Home(t)) \/ Goto(t, "light")
        /\ UNCHANGED <<unit, motor, m_state, past>> /\ UNCHANGED rest
    BY <1>4, <1>7 DEF Look, Goto
  <2> QED BY <1>2, <1>3, <2>1, LookGoto DEF Ready, Loose
<1>8. CASE Finish(t)
  <2>1. /\ k.pc = "done" /\ k.pc \notin LitPC /\ k.pc # "over"
        /\ Becomes(t, Idle) \/ Goto(t, "report")
        /\ UNCHANGED <<unit, motor, m_state, past>> /\ UNCHANGED rest
    BY <1>4, <1>8 DEF Finish, Goto
  <2> QED BY <1>3, <2>1, LookGoto, LookIdle DEF Ready, Loose
<1>9. CASE ApproachFails(t)
  <2>1. /\ k.pc = "approach" /\ k.pc \notin LitPC /\ k.pc # "over" /\ Goto(t, "failMove")
        /\ UNCHANGED <<unit, motor, m_state, past>> /\ UNCHANGED rest
    BY <1>9 DEF ApproachFails, At, LitPC
  <2> QED BY <1>2, <1>3, <2>1, LookGoto DEF Ready
<1> QED BY <1>5, <1>6, <1>7, <1>8, <1>9

LEMMA PauseStep ==
  ASSUME TypeInv, NEW t \in Tasks, Fine(t), task[t].pc # "over",
         NEW good \in PC \ {"over", "overstep", "lastLeg", "shots"},
         NEW bad \in PC \ {"over", "overstep", "lastLeg", "shots"},
         PauseThen(t, good, bad), bad \in LitPC \/ task[t].pc \notin LitPC,
         Ready(task[t], good), Ready(task[t], bad)
  PROVE  Outcome(t)
<1>1. PICK ok \in BOOLEAN : /\ Handle(t, Laser!PauseHandler(unit, ok))
                            /\ Goto(t, IF PauseGood(unit, ok) THEN good ELSE bad)
  BY DEF PauseThen
<1>2. UNCHANGED <<m_state, motor>> /\ UNCHANGED rest
  BY DEF PauseThen
<1>3. /\ PauseGood(unit, ok) => ~Laser!Beam'
      /\ task[t].failed \/ task[t].pc \in LitPC \/ (Laser!Beam' => past'.lamp # t)
  BY <1>1, PauseLight
<1>4. Shut(unit)' /\ PastType' /\ m_state' \in State /\ LightKept(t)
  BY <1>1, <1>2, LaserLight, PauseShut DEF TypeInv
<1>5. CASE PauseGood(unit, ok)
  BY <1>1, <1>2, <1>3, <1>4, <1>5, GotoStep
<1>6. CASE ~PauseGood(unit, ok)
  BY <1>1, <1>2, <1>3, <1>4, <1>6, GotoStep
<1> QED BY <1>5, <1>6

LEMMA NearIsBetween ==
  ASSUME NEW x \in Int, NEW a \in Int, NEW b \in Int, Near(x, a)
  PROVE  Between(x, a, b)
BY SystemAssumption DEF Near, Between

LEMMA LaserSteps ==
  ASSUME TypeInv, NEW t \in Tasks, Fine(t),
         \/ ScanPause(t) \/ Pause(t) \/ ToStandby(t) \/ ToPause(t) \/ LightSegment(t)
         \/ LightPoint(t) \/ ShotsDone(t) \/ Dark(t) \/ LastPause(t) \/ Parting(t)
  PROVE  Outcome(t)
<1> DEFINE k == task[t]
<1>1. k \in Task /\ k.mine \subseteq Motors /\ Shut(unit) /\ MotorType
  BY DEF TypeInv, Task
<1>2. /\ k.pc \in {"scanPause", "pause"} => k.mine = {}
      /\ k.pc = "light" => \A m \in k.mine : Stays(m, From(k, m))
      /\ k.pc = "shots" => k.op = "point"
  BY DEF Fine, There, Purposeful
<1>3. /\ {"pause", "quit", "approach", "moveFrom", "toStandby", "toPause", "fail", "dark", "next",
           "done", "parting", "moveTo"} \subseteq PC \ {"over", "overstep", "lastLeg", "shots"}
      /\ "shots" \in PC \ {"over", "overstep", "lastLeg"}
      /\ Home(t) \in {"next", "done"}
      /\ {"quit", "toStandby", "toPause", "fail", "moveTo", "shots"} \subseteq LitPC
  BY DEF PC, Home, LitPC
<1>4. CASE ScanPause(t)
  BY <1>2, <1>3, <1>4, PauseStep DEF ScanPause, At, Ready
<1>5. CASE Pause(t)
  <2> DEFINE good == IF task[t].op = "point" THEN "approach" ELSE "moveFrom"
  <2>1. good \in {"approach", "moveFrom"}
    OBVIOUS
  <2>2. k.pc = "pause" /\ PauseThen(t, good, "toStandby")
    BY <1>5 DEF Pause, At
  <2> HIDE DEF good
  <2> QED BY <1>2, <1>3, <2>1, <2>2, PauseStep DEF Ready
<1>6. CASE ToStandby(t)
  <2>1. PICK ok \in BOOLEAN : Handle(t, Laser!StandbyHandler(unit, ok))
    BY <1>6 DEF ToStandby
  <2>2. k.pc = "toStandby" /\ Goto(t, "fail") /\ UNCHANGED <<m_state, motor>> /\ UNCHANGED rest
    BY <1>6 DEF ToStandby, At
  <2>3. Shut(unit)' /\ PastType' /\ m_state' \in State /\ LightKept(t)
    BY <1>1, <2>1, <2>2, LaserLight, StandbyShut
  <2> QED BY <1>3, <2>2, <2>3, GotoStep DEF Ready, Loose
<1>7. CASE ToPause(t)
  BY <1>3, <1>7, PauseStep DEF ToPause, At, Ready, Loose
<1>8. CASE LightSegment(t)
  <2>1. PICK ok \in BOOLEAN, ok2 \in BOOLEAN :
          /\ Handle(t, Laser!ResumeHandler(unit, ok, ok2))
          /\ Goto(t, IF ResumeGood(unit, ok) THEN "moveTo" ELSE "toPause")
    BY <1>8 DEF LightSegment
  <2>2. k.pc = "light" /\ UNCHANGED <<m_state, motor>> /\ UNCHANGED rest
    BY <1>8 DEF LightSegment, At
  <2>3. Shut(unit)' /\ PastType' /\ m_state' \in State /\ LightKept(t)
    BY <1>1, <2>1, <2>2, LaserLight, ResumeShut
  <2>4. Ready(k, "moveTo") /\ Ready(k, "toPause")
    <3>1. \A m \in Motors : /\ From(k, m) \in Int /\ To(k, m) \in Int
                            /\ motor[m].pos \in Int /\ motor[m].goal \in Int
      BY <1>1, <2>2, PlanType, Numbers DEF Fine
    <3>2. \A m \in k.mine : Within(k, m)
      BY <1>1, <1>2, <2>2, <3>1, NearIsBetween DEF Stays, Within
    <3> QED BY <3>2 DEF Ready, Loose
  <2> QED BY <1>3, <2>1, <2>2, <2>3, <2>4, GotoStep
<1>9. CASE LightPoint(t)
  <2>1. /\ k.pc = "light" /\ k.op = "point"
        /\ UNCHANGED <<m_state, motor>> /\ UNCHANGED rest
    BY <1>9 DEF LightPoint, At
  <2>2. Ready(k, "shots") /\ Ready(k, "toPause")
    BY <1>2, <2>1 DEF Ready, Loose
  <2>3. CASE Goto(t, "toPause") /\ UNCHANGED <<unit, past>>
    BY <1>3, <2>1, <2>2, <2>3, LookGoto
  <2>4. ASSUME NEW ok \in BOOLEAN, NEW ok2 \in BOOLEAN, NEW pc \in {"shots", "toPause"}, Goto(t, pc),
               \/ Handle(t, Laser!ResumeHandler(unit, ok, ok2))
               \/ Handle(t, Laser!StandbyHandler(Laser!ResumeHandler(unit, ok, ok2), ok2))
        PROVE  Outcome(t)
    <3>1. Shut(Laser!ResumeHandler(unit, ok, ok2))
      BY <1>1, ResumeShut
    <3>2. Shut(Laser!StandbyHandler(Laser!ResumeHandler(unit, ok, ok2), ok2))
      BY <3>1, StandbyShut
    <3>3. Shut(unit)' /\ PastType' /\ m_state' \in State /\ LightKept(t)
      BY <2>1, <2>4, <3>1, <3>2, LaserLight
    <3> QED BY <1>3, <2>1, <2>2, <2>4, <3>3, GotoStep
  <2> QED BY <1>9, <2>3, <2>4 DEF LightPoint
<1>10. CASE ShotsDone(t)
  BY <1>2, <1>3, <1>10, PauseStep DEF ShotsDone, At, Ready, Loose
<1>11. CASE Dark(t)
  <2>1. PICK bad \in {"toStandby", "toPause"} : k.pc = "dark" /\ PauseThen(t, Home(t), bad)
    BY <1>11 DEF Dark, At
  <2> QED BY <1>3, <2>1, PauseStep DEF Ready, Loose
<1>12. CASE LastPause(t)
  BY <1>3, <1>12, PauseStep DEF LastPause, At, Ready, Loose
<1>13. CASE Parting(t)
  <2>1. "parting" \notin LitPC
    BY DEF LitPC
  <2> QED BY <1>3, <1>13, <2>1, PauseStep DEF Parting, At, Ready, Loose
<1> QED BY <1>4, <1>5, <1>6, <1>7, <1>8, <1>9, <1>10, <1>11, <1>12, <1>13

-----------------------------------------------------------------------------
(* The steps that move motors. *)

\* What a request to move leaves of the task: it goes on, with the motor among
\* its own or not, or fails.
MoveResult(t, dest, claim, next, fails) ==
  LET m == Axis(t)
      k == task[t]
      r == task'[t]
  IN  \/ /\ Same(next, r) /\ r.pc = next.pc /\ r.axis = next.axis /\ r.mine = next.mine \cup claim
         /\ \/ motor'[m].goal = dest
            \/ motor'[m].goal = motor[m].goal /\ AtRest(m)
      \/ /\ Same(next, r) /\ r.pc = next.pc /\ r.axis = next.axis /\ r.mine = next.mine \ {m}
      \/ /\ Same(k, r) /\ r.pc = fails /\ r.axis = 1 /\ r.mine = k.mine \ {m}

LEMMA MoveEffect ==
  ASSUME TypeInv, NEW t \in Tasks, NEW dest, NEW claim \in SUBSET {Axis(t)}, NEW next \in Task,
         NEW fails \in PC, next.mine = task[t].mine,
         Move(t, dest, claim, next, fails), UNCHANGED unit, UNCHANGED past
  PROVE  /\ MotorType' /\ task' \in [Tasks -> Task]
         /\ \A n \in Motors : /\ motor'[n].pos = motor[n].pos
                              /\ n # Axis(t) => motor'[n] = motor[n]
         /\ \A s \in Tasks : s # t => Passive(s)
         /\ MoveResult(t, dest, claim, next, fails)
<1> DEFINE m      == Axis(t)
           k      == task[t]
           w      == Went(k, fails)
           bad    == [w EXCEPT !.mine = @ \ {m}]
           good   == [next EXCEPT !.mine = @ \cup claim]
           unsure == [next EXCEPT !.mine = @ \ {m}]
<1>1. k \in Task /\ m \in Motors /\ k.mine \subseteq Motors /\ task \in [Tasks -> Task] /\ MotorType
  BY DEF TypeInv, Task, Axis
<1>2. Same(k, w) /\ w.pc = fails /\ w.axis = 1 /\ w.mine = k.mine
  BY <1>1, WentEffect
<1> HIDE DEF w
<1>3. Same(k, bad) /\ bad.pc = fails /\ bad.axis = 1 /\ bad.mine = k.mine \ {m}
  <2> DEFINE ms == k.mine \ {m}
  <2>1. ms \in SUBSET Motors /\ w \in Task /\ bad = [w EXCEPT !.mine = ms]
    BY <1>1, <1>2 DEF Same, Task
  <2> HIDE DEF ms, bad
  <2>2. Same(w, bad) /\ bad.pc = w.pc /\ bad.axis = w.axis /\ bad.mine = ms
    BY <2>1, MineEffect
  <2> QED BY <1>2, <2>2 DEF Same, ms
<1>4. /\ Same(next, good) /\ good.pc = next.pc /\ good.axis = next.axis /\ good.mine = next.mine \cup claim
      /\ Same(next, unsure) /\ unsure.pc = next.pc /\ unsure.axis = next.axis /\ unsure.mine = next.mine \ {m}
  <2> DEFINE more == next.mine \cup claim
             less == next.mine \ {m}
  <2>1. /\ more \in SUBSET Motors /\ good = [next EXCEPT !.mine = more]
        /\ less \in SUBSET Motors /\ unsure = [next EXCEPT !.mine = less]
    BY <1>1 DEF Task
  <2> HIDE DEF more, less, good, unsure
  <2> QED BY <2>1, MineEffect DEF more, less
<1> HIDE DEF bad, good, unsure
<1>5. bad \in Task /\ good \in Task /\ unsure \in Task
  BY <1>3, <1>4 DEF Same
<1>6. \/ /\ dest \in Position /\ motor' = [motor EXCEPT ![m].goal = dest]
         /\ \E r \in {good, bad} : task' = [Lost(m) EXCEPT ![t] = r]
      \/ /\ UNCHANGED motor
         /\ \/ Becomes(t, good) /\ (AtRest(m) \/ motor[m].goal = dest)
            \/ Becomes(t, unsure) \/ Becomes(t, bad)
  BY DEF Move, good, bad, unsure, w
<1>7. CASE /\ UNCHANGED motor
            /\ \/ Becomes(t, good) /\ (AtRest(m) \/ motor[m].goal = dest)
               \/ Becomes(t, unsure) \/ Becomes(t, bad)
  <2>1. PICK r \in {good, bad, unsure} : /\ Becomes(t, r)
                                         /\ r = good => AtRest(m) \/ motor[m].goal = dest
                                                        \/ r = unsure \/ r = bad
    BY <1>7
  <2>2. /\ task' \in [Tasks -> Task] /\ task'[t] = r
        /\ \A s \in Tasks : s # t => task'[s] = task[s]
    BY <1>1, <1>5, <2>1, BecomesEffect
  <2>3. \A n \in Motors : Drifts(n)
    BY <1>1, <1>7, Numbers DEF Drifts
  <2>4. \A s \in Tasks : s # t => Passive(s)
    BY <1>1, <2>2, <2>3 DEF Passive, Laser!Beam, Task
  <2>5. MoveResult(t, dest, claim, next, fails)
    BY <1>3, <1>4, <1>7, <2>1, <2>2 DEF MoveResult
  <2> QED BY <1>1, <1>7, <2>2, <2>4, <2>5 DEF MotorType
<1>8. CASE /\ dest \in Position /\ motor' = [motor EXCEPT ![m].goal = dest]
            /\ \E r \in {good, bad} : task' = [Lost(m) EXCEPT ![t] = r]
  <2>1. PICK r \in {good, bad} : /\ dest \in Position /\ motor' = [motor EXCEPT ![m].goal = dest]
                                 /\ task' = [Lost(m) EXCEPT ![t] = r]
    BY <1>8
  <2>2. /\ MotorType' /\ motor'[m].goal = dest
        /\ \A n \in Motors : motor'[n].pos = motor[n].pos /\ (n # m => motor'[n] = motor[n])
    BY <1>1, <2>1 DEF MotorType
  <2>3. \A s \in Tasks : /\ [task[s] EXCEPT !.mine = task[s].mine \ {m}] \in Task
                         /\ Lost(m)[s] = [task[s] EXCEPT !.mine = task[s].mine \ {m}]
                         /\ [task[s] EXCEPT !.mine = task[s].mine \ {m}].mine = task[s].mine \ {m}
                         /\ task[s].mine \subseteq Motors
    <3>1. \A s \in Tasks : task[s] \in Task /\ task[s].mine \subseteq Motors /\ task[s].mine \ {m} \in SUBSET Motors
      BY <1>1 DEF Task
    <3> QED BY <3>1, MineEffect DEF Same, Lost
  <2>4. /\ task' \in [Tasks -> Task] /\ task'[t] = r
        /\ \A s \in Tasks : s # t => task'[s] = [task[s] EXCEPT !.mine = task[s].mine \ {m}]
    BY <1>5, <2>1, <2>3 DEF Lost
  <2>5. \A n \in Motors : n # m => Drifts(n)
    BY <1>1, <2>2, Numbers DEF Drifts
  <2>6. \A s \in Tasks : s # t => Passive(s)
    BY <2>3, <2>4, <2>5 DEF Passive, Laser!Beam
  <2> QED BY <1>3, <1>4, <2>1, <2>2, <2>4, <2>6 DEF MoveResult
<1> QED BY <1>6, <1>7, <1>8

\* A task that moves a motor, or waits for one, and leaves the laser alone.
LEMMA OwnStep ==
  ASSUME TypeInv, NEW t \in Tasks, Fine(t), UNCHANGED <<unit, m_state, past>>, UNCHANGED rest,
         MotorType', task' \in [Tasks -> Task], \A s \in Tasks : s # t => Passive(s),
         task'[t].failed = task[t].failed,
         task[t].pc \in LitPC => task'[t].pc \in LitPC,
         Purposeful(task'[t]), \A m \in task'[t].mine : There(task[t], m)', Side(task[t])'
  PROVE  Outcome(t)
<1>1. Shut(unit)' /\ PastType' /\ m_state' \in State
  BY DEF TypeInv, PastType, Shut, Synced
<1>2. Purposeful(task[t])' /\ Unlit(task[t], t)'
  BY DEF Purposeful, Fine, Unlit, Laser!Beam
<1> QED BY <1>1, <1>2 DEF Outcome, Fine

\* A request to a motor leaves what it says of where the motor goes.
LEMMA SentThere ==
  ASSUME TypeInv, NEW t \in Tasks, task[t] \in Task, NEW dest, NEW claim \in SUBSET {Axis(t)}, NEW next,
         NEW fails, next.mine = task[t].mine, MoveResult(t, dest, claim, next, fails),
         \A n \in Motors : /\ motor'[n].pos = motor[n].pos
                           /\ n # Axis(t) => motor'[n] = motor[n],
         NEW m \in task'[t].mine
  PROVE  /\ m \in Motors
         /\ m # Axis(t) => m \in task[t].mine /\ motor'[m] = motor[m]
         /\ m = Axis(t) => /\ motor'[m].pos = motor[m].pos
                           /\ \/ motor'[m].goal = dest
                              \/ motor'[m].goal = motor[m].goal /\ AtRest(m)
BY DEF MoveResult, Axis, Task

LEMMA MoveSteps ==
  ASSUME TypeInv, NEW t \in Tasks, Fine(t), MoveFrom(t) \/ MoveTo(t) \/ LastLeg(t)
  PROVE  Outcome(t)
<1> DEFINE k == task[t]
           a == Axis(t)
<1>1. k \in Task /\ a \in Motors /\ a = k.axis /\ k.mine \subseteq Motors
  BY DEF TypeInv, Task, Axis
<1>2. UNCHANGED <<unit, m_state, past>> /\ UNCHANGED rest
  BY DEF MoveFrom, MoveTo, LastLeg
<1>3. k.pc \in {"moveFrom", "moveTo", "lastLeg"}
  BY DEF MoveFrom, MoveTo, LastLeg, At
<1>4. /\ k.op \in Op
      /\ \A m \in Motors : /\ From(k, m) \in Int /\ To(k, m) \in Int
                           /\ motor[m].pos \in Int /\ motor[m].goal \in Int
  BY <1>1, <1>3, PlanType, Numbers DEF Fine, TypeInv
<1>5. /\ Purposeful(k) /\ \A m \in k.mine : There(k, m)
      /\ Tolerance \in Nat /\ Motors = 1 .. NumMotors /\ NumMotors \in Nat
  BY Numbers DEF Fine
<1> DEFINE one == {a}
<1>0. /\ one \in SUBSET {Axis(t)} /\ {} \in SUBSET {Axis(t)}
      /\ {"moveFrom", "waitFrom", "moveTo", "waitTo", "fail"} \subseteq PC
  BY DEF PC
<1>6. CASE MoveFrom(t)
  <2> DEFINE next == NextAxis(task[t], "moveFrom", "waitFrom")
  <2>1. k.pc = "moveFrom" /\ Move(t, From(k, a), {a}, next, "fail")
    BY <1>6 DEF MoveFrom, At, From, Here, Axis
  <2>2. /\ Same(k, next) /\ next.mine = k.mine
        /\ \/ k.axis < NumMotors /\ next.pc = "moveFrom" /\ next.axis = k.axis + 1
           \/ k.axis = NumMotors /\ next.pc = "waitFrom" /\ next.axis = 1
    BY <1>0, <1>1, NextAxisEffect
  <2> HIDE DEF next
  <2>3. /\ MotorType' /\ task' \in [Tasks -> Task]
        /\ \A n \in Motors : motor'[n].pos = motor[n].pos /\ (n # a => motor'[n] = motor[n])
        /\ \A s \in Tasks : s # t => Passive(s)
        /\ MoveResult(t, From(k, a), {a}, next, "fail")
    BY <1>0, <1>2, <2>1, <2>2, MoveEffect DEF Same
  <2>4. /\ task'[t].plan = k.plan /\ task'[t].op = k.op /\ task'[t].failed = k.failed
        /\ \/ task'[t].pc = "fail"
           \/ task'[t].pc = "moveFrom" /\ task'[t].axis = k.axis + 1
           \/ task'[t].pc = "waitFrom" /\ task'[t].axis = 1
    BY <2>2, <2>3 DEF MoveResult, Same
  <2>5. ASSUME NEW m \in task'[t].mine PROVE There(task[t], m)'
    <3>0. next.mine = task[t].mine
      BY <2>2
    <3>1. /\ m \in Motors
          /\ m # a => m \in k.mine /\ motor'[m] = motor[m]
          /\ m = a => /\ motor'[m].pos = motor[m].pos
                      /\ \/ motor'[m].goal = From(k, a)
                         \/ motor'[m].goal = motor[m].goal /\ AtRest(m)
      BY <1>0, <1>1, <2>3, <2>5, <3>0, SentThere
    <3>2. m # a => m < k.axis /\ Sent(m, From(k, m))
      BY <1>5, <2>1, <3>1 DEF There
    <3>3. Sent(m, From(task[t], m))'
      BY <2>4, <3>1, <3>2 DEF Sent, AtRest, From
    <3>4. m < k.axis + 1 /\ ~(m < 1)
      BY <1>1, <1>5, <3>1, <3>2
    <3> QED BY <2>4, <3>3, <3>4 DEF There
  <2>6. Purposeful(task'[t]) /\ Side(task[t])' /\ (k.pc \in LitPC => task'[t].pc \in LitPC)
    BY <1>5, <2>1, <2>4 DEF Purposeful, Side, LitPC
  <2> QED BY <1>2, <2>3, <2>4, <2>5, <2>6, OwnStep
<1>7. CASE MoveTo(t)
  <2> DEFINE next == NextAxis(task[t], "moveTo", "waitTo")
  <2>1. k.pc = "moveTo" /\ Move(t, To(k, a), {}, next, "fail")
    BY <1>7 DEF MoveTo, At, To, Here, Axis
  <2>2. /\ Same(k, next) /\ next.mine = k.mine
        /\ next.pc \in {"moveTo", "waitTo"}
    BY <1>0, <1>1, NextAxisEffect
  <2> HIDE DEF next
  <2>3. /\ MotorType' /\ task' \in [Tasks -> Task]
        /\ \A n \in Motors : motor'[n].pos = motor[n].pos /\ (n # a => motor'[n] = motor[n])
        /\ \A s \in Tasks : s # t => Passive(s)
        /\ MoveResult(t, To(k, a), {}, next, "fail")
    BY <1>0, <1>2, <2>1, <2>2, MoveEffect DEF Same
  <2>4. /\ task'[t].plan = k.plan /\ task'[t].op = k.op /\ task'[t].failed = k.failed
        /\ task'[t].pc \in {"fail", "moveTo", "waitTo"}
        /\ task'[t].mine \subseteq k.mine
    BY <2>2, <2>3 DEF MoveResult, Same
  <2>5. ASSUME NEW m \in task'[t].mine PROVE There(task[t], m)'
    <3>1. /\ m \in Motors
          /\ m # a => m \in k.mine /\ motor'[m] = motor[m]
          /\ m = a => /\ motor'[m].pos = motor[m].pos
                      /\ \/ motor'[m].goal = To(k, a)
                         \/ motor'[m].goal = motor[m].goal /\ AtRest(m)
      BY <1>0, <1>1, <2>2, <2>3, <2>5, SentThere
    <3>2. k.op # "point" => Within(k, m)
      BY <1>5, <2>1, <2>4, <2>5 DEF There
    <3>3. k.op # "point" => Within(task[t], m)'
      <4>1. Between(To(k, m), From(k, m), To(k, m))
        BY <1>4, <1>5, <3>1 DEF Between
      <4>2. motor'[m].pos = motor[m].pos /\ motor'[m].goal \in {motor[m].goal, To(k, m)}
        BY <3>1
      <4>3. From(task'[t], m) = From(k, m) /\ To(task'[t], m) = To(k, m)
        BY <2>4 DEF From, To
      <4>4. k.op # "point" => /\ Between(motor'[m].pos, From(k, m), To(k, m))
                              /\ Between(motor'[m].goal, From(k, m), To(k, m))
        BY <3>2, <4>1, <4>2 DEF Within
      <4> QED BY <4>3, <4>4 DEF Within, Between, From, To
    <3> QED BY <2>4, <3>3 DEF There
  <2>6. Purposeful(task'[t]) /\ Side(task[t])' /\ (k.pc \in LitPC => task'[t].pc \in LitPC)
    BY <1>5, <2>1, <2>4 DEF Purposeful, Side, LitPC
  <2> QED BY <1>2, <2>3, <2>4, <2>5, <2>6, OwnStep
<1>8. CASE LastLeg(t)
  <2> DEFINE after == IF task[t].op = "point" THEN "moved" ELSE "done"
             zero  == [task[t] EXCEPT !.interim = 0]
             next  == NextAxis(zero, "approach", after)
  <2>1. k.pc = "lastLeg" /\ Move(t, From(k, a), {a}, next, "failMove")
    BY <1>8 DEF LastLeg, At, From, Here, Axis
  <2>2. /\ zero \in Task /\ zero.op = k.op /\ zero.plan = k.plan /\ zero.failed = k.failed
        /\ zero.mine = k.mine /\ zero.axis = k.axis
    <3>1. 0 \in Int
      OBVIOUS
    <3> HIDE DEF PC, Leg, Motors
    <3> QED BY <1>1, <3>1 DEF Task
  <2> HIDE DEF zero
  <2>3. after \in {"moved", "done"} /\ after \in PC /\ "approach" \in PC /\ "failMove" \in PC
    BY DEF PC
  <2> HIDE DEF after
  <2>4. /\ next \in Task /\ next.op = k.op /\ next.plan = k.plan /\ next.failed = k.failed
        /\ next.mine = k.mine
        /\ \/ next.pc = "approach" /\ next.axis = k.axis + 1
           \/ next.pc = after /\ next.axis = 1
    <3>1. /\ Same(zero, next) /\ next.mine = zero.mine
          /\ \/ zero.axis < NumMotors /\ next.pc = "approach" /\ next.axis = zero.axis + 1
             \/ zero.axis = NumMotors /\ next.pc = after /\ next.axis = 1
      BY <2>2, <2>3, NextAxisEffect
    <3> HIDE DEF next
    <3> QED BY <2>2, <3>1 DEF Same
  <2> HIDE DEF next
  <2>5. /\ MotorType' /\ task' \in [Tasks -> Task]
        /\ \A n \in Motors : motor'[n].pos = motor[n].pos /\ (n # a => motor'[n] = motor[n])
        /\ \A s \in Tasks : s # t => Passive(s)
        /\ MoveResult(t, From(k, a), {a}, next, "failMove")
    BY <1>2, <2>1, <2>3, <2>4, MoveEffect
  <2>6. /\ task'[t].plan = k.plan /\ task'[t].op = k.op /\ task'[t].failed = k.failed
        /\ \/ task'[t].pc = "failMove" /\ a \notin task'[t].mine
           \/ task'[t].pc = "approach" /\ task'[t].axis = k.axis + 1
           \/ task'[t].pc \in {"moved", "done"} /\ task'[t].axis = 1
    BY <2>3, <2>4, <2>5 DEF MoveResult, Same
  <2>7. ASSUME NEW m \in task'[t].mine PROVE There(task[t], m)'
    <3>1. /\ m \in Motors
          /\ m # a => m \in k.mine /\ motor'[m] = motor[m]
          /\ m = a => /\ motor'[m].pos = motor[m].pos
                      /\ \/ motor'[m].goal = From(k, a)
                         \/ motor'[m].goal = motor[m].goal /\ AtRest(m)
      BY <1>0, <1>1, <2>4, <2>5, <2>7, SentThere
    <3>2. m # a => m < k.axis /\ Sent(m, From(k, m))
      BY <1>1, <1>5, <2>1, <3>1 DEF There
    <3>3. Sent(m, From(task[t], m))'
      BY <2>6, <3>1, <3>2 DEF Sent, AtRest, From
    <3>4. m < k.axis + 1
      BY <1>1, <1>5, <3>1, <3>2
    <3> QED BY <2>6, <3>3, <3>4 DEF There
  <2>8. Purposeful(task'[t]) /\ Side(task[t])' /\ (k.pc \in LitPC => task'[t].pc \in LitPC)
    BY <1>5, <2>1, <2>6 DEF Purposeful, Side, LitPC
  <2> QED BY <1>2, <2>5, <2>6, <2>7, <2>8, OwnStep
<1> QED BY <1>6, <1>7, <1>8

LEMMA ApproachStep ==
  ASSUME TypeInv, NEW t \in Tasks, Fine(t), Approach(t)
  PROVE  Outcome(t)
<1> DEFINE k       == task[t]
           a       == Axis(t)
           side    == Head(k.plan).approach[a]
           interim == Interim(a, From(k, a), side)
           next    == [task[t] EXCEPT !.pc = "overstep", !.interim = interim]
<1>1. k \in Task /\ a \in Motors /\ a = k.axis /\ k.mine \subseteq Motors
  BY DEF TypeInv, Task, Axis
<1>2. UNCHANGED <<unit, m_state, past>> /\ UNCHANGED rest /\ k.pc = "approach"
  BY DEF Approach, At
<1>3. /\ k.op \in Op /\ side \in {"u", "d", "-"}
      /\ \A m \in Motors : /\ From(k, m) \in Int
                           /\ motor[m].pos \in Int /\ motor[m].goal \in Int
  BY <1>1, <1>2, PlanType, Numbers DEF Fine, TypeInv
<1>4. /\ Purposeful(k) /\ \A m \in k.mine : m < k.axis /\ Sent(m, From(k, m))
      /\ Tolerance \in Nat /\ Overstep \in Nat /\ Overstep > Tolerance
      /\ Motors \subseteq Int
  BY <1>2, Numbers DEF Fine, There
<1>5. /\ interim \in Int
      /\ interim # motor[a].pos => FarSide(interim, From(k, a), side)
      /\ interim = motor[a].pos /\ AtRest(a) => OnSide(a, From(k, a), side)
  BY <1>1, <1>3, <1>4 DEF Interim, FarSide, OnSide, AtRest
<1>6. \/ interim = motor[a].pos /\ UNCHANGED motor
         /\ Becomes(t, [next EXCEPT !.mine = IF AtRest(a) THEN @ \cup {a} ELSE @ \ {a}])
      \/ interim # motor[a].pos /\ Move(t, interim, {a}, next, "failMove")
  BY DEF Approach, From, Here, Axis
<1> HIDE DEF interim
<1>7. /\ next \in Task /\ next.op = k.op /\ next.plan = k.plan /\ next.failed = k.failed
      /\ next.mine = k.mine /\ next.axis = k.axis /\ next.pc = "overstep" /\ next.interim = interim
  <2>1. "overstep" \in PC
    BY DEF PC
  <2> HIDE DEF PC, Leg, Motors
  <2> QED BY <1>1, <1>5, <2>1 DEF Task
<1> HIDE DEF next
<1>8. CASE interim = motor[a].pos
  <2> DEFINE ms == IF AtRest(a) THEN k.mine \cup {a} ELSE k.mine \ {a}
             r  == [next EXCEPT !.mine = ms]
  <2>1. ms \in SUBSET Motors
    BY <1>1
  <2>2. UNCHANGED motor /\ Becomes(t, r)
    BY <1>6, <1>7, <1>8
  <2>3. /\ r \in Task /\ r.op = k.op /\ r.plan = k.plan /\ r.failed = k.failed
        /\ r.axis = a /\ r.pc = "overstep" /\ r.interim = interim /\ r.mine = ms
    <3> HIDE DEF ms
    <3> QED BY <1>1, <1>7, <2>1, MineEffect DEF Same
  <2> HIDE DEF r
  <2>4. Purposeful(r)
    BY <1>2, <1>4, <2>3 DEF Purposeful
  <2>5. ASSUME NEW m \in r.mine PROVE There(r, m)
    <3>1. m # a => m < a /\ Sent(m, From(k, m))
      BY <1>1, <1>4, <2>3, <2>5
    <3>2. m \in Int /\ r.axis \in Int
      BY <1>1, <1>4, <2>3, <2>5
    <3>3. m <= r.axis /\ (m < r.axis => Sent(m, From(k, m)))
      BY <2>3, <3>1, <3>2
    <3> QED BY <2>3, <3>3 DEF There, From
  <2>6. Side(r)
    BY <1>5, <1>8, <2>3 DEF Side, From
  <2>7. /\ Shut(unit)' /\ PastType' /\ m_state' \in State /\ LightKept(t)
        /\ k.failed \/ k.pc \in LitPC \/ (Laser!Beam' => past'.lamp # t)
    BY <1>2, QuietLight
  <2> QED BY <1>2, <2>2, <2>3, <2>4, <2>5, <2>6, <2>7, AloneStep DEF LitPC
<1>9. CASE interim # motor[a].pos
  <2> DEFINE one == {a}
  <2>0. one \in SUBSET {Axis(t)} /\ "failMove" \in PC
    BY DEF PC
  <2>1. Move(t, interim, one, next, "failMove")
    BY <1>6, <1>9
  <2>2. /\ MotorType' /\ task' \in [Tasks -> Task]
        /\ \A n \in Motors : motor'[n].pos = motor[n].pos /\ (n # a => motor'[n] = motor[n])
        /\ \A s \in Tasks : s # t => Passive(s)
        /\ MoveResult(t, interim, one, next, "failMove")
    BY <1>2, <1>7, <2>0, <2>1, MoveEffect
  <2>3. /\ task'[t].plan = k.plan /\ task'[t].op = k.op /\ task'[t].failed = k.failed
        /\ \/ task'[t].pc = "failMove" /\ a \notin task'[t].mine
           \/ task'[t].pc = "overstep" /\ task'[t].axis = a /\ task'[t].interim = interim
    BY <1>1, <1>7, <2>2 DEF MoveResult, Same
  <2>4. ASSUME NEW m \in task'[t].mine
        PROVE  /\ m \in Motors
               /\ m # a => m \in k.mine /\ motor'[m] = motor[m]
               /\ m = a => /\ motor'[m].pos = motor[m].pos
                           /\ \/ motor'[m].goal = interim
                              \/ motor'[m].goal = motor[m].goal /\ AtRest(m)
    <3>1. next.mine = task[t].mine
      BY <1>7
    <3> QED BY <1>1, <2>0, <2>2, <2>4, <3>1, SentThere
  <2>5. ASSUME NEW m \in task'[t].mine PROVE There(task[t], m)'
    <3>1. m # a => m < a /\ Sent(m, From(task[t], m))'
      BY <1>1, <1>4, <2>3, <2>4, <2>5 DEF Sent, From, AtRest
    <3>2. m \in Int /\ k.axis \in Int
      BY <1>1, <1>4, <2>4, <2>5
    <3>3. m <= k.axis /\ (m < k.axis => Sent(m, From(task[t], m))')
      BY <1>1, <3>1, <3>2
    <3> QED BY <1>1, <2>3, <2>5, <3>1, <3>3 DEF There
  <2>6. Side(task[t])'
    <3>1. CASE task'[t].pc = "overstep" /\ a \in task'[t].mine
      <4>1. motor'[a].goal = interim \/ motor'[a].pos = motor'[a].goal
        BY <2>4, <3>1 DEF AtRest
      <4>2. FarSide(interim, From(k, a), side)
        BY <1>5, <1>9
      <4> QED BY <2>3, <3>1, <4>1, <4>2 DEF Side, From, Sent, FarSide, AtRest
    <3>2. CASE task'[t].pc # "overstep" \/ a \notin task'[t].mine
      BY <2>3, <3>2 DEF Side
    <3> QED BY <3>1, <3>2
  <2>7. Purposeful(task'[t]) /\ (k.pc \in LitPC => task'[t].pc \in LitPC)
    BY <1>2, <1>4, <2>3 DEF Purposeful, LitPC
  <2> QED BY <1>2, <2>2, <2>3, <2>5, <2>6, <2>7, OwnStep
<1> QED BY <1>8, <1>9

\* A motor that arrived, or only seemed to.
LEMMA WaitSteps ==
  ASSUME TypeInv, NEW t \in Tasks, Fine(t), Wait(t) \/ Misled(t)
  PROVE  Outcome(t)
<1> DEFINE k  == task[t]
           a  == Axis(t)
           w  == Waited(t)
           ms == k.mine \ {a}
<1>1. k \in Task /\ a \in Motors /\ a = k.axis /\ k.mine \subseteq Motors
  BY DEF TypeInv, Task, Axis
<1>2. /\ UNCHANGED <<unit, m_state, motor, past>> /\ UNCHANGED rest
      /\ k.pc \in {"overstep", "waitFrom", "waitTo"}
  BY DEF Wait, Misled, Waits
<1>3. /\ k.op \in Op
      /\ \A m \in Motors : /\ From(k, m) \in Int /\ To(k, m) \in Int
                           /\ motor[m].pos \in Int /\ motor[m].goal \in Int
  BY <1>1, <1>2, PlanType, Numbers DEF Fine, TypeInv
<1>4. /\ Purposeful(k) /\ (\A m \in k.mine : There(k, m)) /\ Side(k)
      /\ Tolerance \in Nat /\ Motors = 1 .. NumMotors /\ NumMotors \in Nat
  BY Numbers DEF Fine
<1>5. /\ w \in Task /\ w.op = k.op /\ w.plan = k.plan /\ w.failed = k.failed /\ w.mine = k.mine
      /\ \/ k.pc = "overstep" /\ w.pc = "lastLeg" /\ w.axis = a
         \/ k.pc = "waitFrom" /\ w.pc = "waitFrom" /\ w.axis = a + 1
         \/ k.pc = "waitTo" /\ w.pc = "waitTo"
         \/ k.pc = "waitFrom" /\ a = NumMotors /\ w.pc \in {"light", "look"}
         \/ k.pc = "waitTo" /\ w.pc = "dark"
  <2>1. CASE k.pc = "overstep"
    <3>1. w = [k EXCEPT !.pc = "lastLeg"] /\ "lastLeg" \in PC
      BY <2>1 DEF Waited, At, PC
    <3> HIDE DEF PC, Leg, Motors, w
    <3> QED BY <1>1, <2>1, <3>1 DEF Task
  <2>2. CASE k.pc = "waitFrom"
    <3> DEFINE after == IF task[t].op = "point" THEN "light" ELSE "look"
    <3>1. w = NextAxis(k, "waitFrom", after) /\ "waitFrom" \in PC /\ after \in PC /\ after \in {"light", "look"}
      BY <2>2 DEF Waited, At, PC
    <3> HIDE DEF after, w
    <3>2. /\ Same(k, w) /\ w.mine = k.mine
          /\ \/ k.axis < NumMotors /\ w.pc = "waitFrom" /\ w.axis = k.axis + 1
             \/ k.axis = NumMotors /\ w.pc = after /\ w.axis = 1
      BY <1>1, <3>1, NextAxisEffect
    <3> QED BY <1>1, <2>2, <3>1, <3>2 DEF Same
  <2>3. CASE k.pc = "waitTo"
    <3>1. w = NextAxis(k, "waitTo", "dark") /\ "waitTo" \in PC /\ "dark" \in PC
      BY <2>3 DEF Waited, At, PC
    <3> HIDE DEF w
    <3>2. /\ Same(k, w) /\ w.mine = k.mine
          /\ \/ k.axis < NumMotors /\ w.pc = "waitTo" /\ w.axis = k.axis + 1
             \/ k.axis = NumMotors /\ w.pc = "dark" /\ w.axis = 1
      BY <1>1, <3>1, NextAxisEffect
    <3> QED BY <1>1, <2>3, <3>2 DEF Same
  <2> QED BY <1>2, <2>1, <2>2, <2>3
<1>6. ASSUME NEW m \in k.mine, m = a => Near(motor[a].pos, Awaited(t))
      PROVE  There(w, m)
  <2>1. There(k, m) /\ m \in Motors
    BY <1>1, <1>4, <1>6
  <2>2. CASE k.pc = "overstep"
    BY <1>1, <1>5, <2>1, <2>2 DEF There, From
  <2>3. CASE k.pc = "waitTo"
    BY <1>5, <2>1, <2>3 DEF There, Within, From, To
  <2>4. CASE k.pc = "waitFrom"
    <3>1. m = a => Near(motor[m].pos, From(k, m))
      BY <1>6, <2>4 DEF Awaited, At, From, Here
    <3>2. m = a => Stays(m, From(k, m))
      BY <1>1, <1>3, <1>4, <2>1, <2>4, <3>1 DEF There, Sent, Stays, Near, AtRest
    <3>3. m < a + 1 => Stays(m, From(k, m))
      BY <1>1, <1>4, <2>1, <2>4, <3>2 DEF There
    <3>4. ~(m < a + 1) => Sent(m, From(k, m))
      BY <1>1, <1>4, <2>1, <2>4 DEF There
    <3>5. a = NumMotors => m < a + 1
      BY <1>1, <1>4, <2>1
    <3> QED BY <1>5, <2>4, <3>3, <3>4, <3>5 DEF There, From
  <2> QED BY <1>2, <2>2, <2>3, <2>4
<1>7. a \in k.mine /\ k.pc = "overstep" /\ Near(motor[a].pos, Awaited(t)) =>
        OnSide(a, From(k, a), Head(k.plan).approach[a])
  <2> SUFFICES ASSUME a \in k.mine, k.pc = "overstep", Near(motor[a].pos, Awaited(t))
               PROVE  OnSide(a, From(k, a), Head(k.plan).approach[a])
    OBVIOUS
  <2>1. Awaited(t) = k.interim /\ k.interim \in Int
    BY <1>1 DEF Awaited, At, Task
  <2>2. \/ OnSide(a, From(k, a), Head(k.plan).approach[a])
        \/ /\ Sent(a, k.interim)
           /\ FarSide(k.interim, From(k, a), Head(k.plan).approach[a])
    BY <1>1, <1>4 DEF Side
  <2> DEFINE p == motor[a].pos  g == motor[a].goal  x == From(k, a)  i == k.interim
             side == Head(k.plan).approach[a]
  <2>3. p \in Int /\ g \in Int /\ x \in Int /\ i \in Int /\ p - i <= Tolerance /\ i - p <= Tolerance
    BY <1>1, <1>3, <2>1 DEF Near
  <2>4. \/ OnSide(a, x, side)
        \/ (g = i \/ p = g) /\ (side = "u" => i + Tolerance < x) /\ (side = "d" => i - Tolerance > x)
    BY <2>2 DEF Sent, AtRest, FarSide
  <2>5. OnSide(a, x, side) <=> /\ side = "u" => (p < x /\ g < x) \/ (p = x /\ g = x)
                               /\ side = "d" => (p > x /\ g > x) \/ (p = x /\ g = x)
    BY DEF OnSide
  <2>6. OnSide(a, x, side)
    <3> HIDE DEF p, g, x, i, side
    <3> QED BY <1>4, <2>3, <2>4, <2>5
  <2> QED BY <2>6
<1>8. Purposeful(w) /\ w.pc # "overstep"
  BY <1>2, <1>4, <1>5 DEF Purposeful
<1>9. /\ Shut(unit)' /\ PastType' /\ m_state' \in State /\ LightKept(t)
      /\ k.failed \/ k.pc \in LitPC \/ (Laser!Beam' => past'.lamp # t)
  BY <1>2, QuietLight
<1>10. k.pc \in LitPC => w.pc \in LitPC
  BY <1>5 DEF LitPC
<1> HIDE DEF w
<1>11. CASE Wait(t)
  <2>1. Becomes(t, w) /\ Near(motor[a].pos, Awaited(t))
    BY <1>11 DEF Wait, w
  <2>2. Side(w)
    BY <1>5, <1>7, <1>8, <2>1 DEF Side, From
  <2>3. \A m \in w.mine : There(w, m)
    BY <1>5, <1>6, <2>1
  <2> QED BY <1>2, <1>5, <1>8, <1>9, <1>10, <2>1, <2>2, <2>3, AloneStep
<1>12. CASE Misled(t)
  <2> DEFINE r == [w EXCEPT !.mine = ms]
  <2>1. Becomes(t, r)
    BY <1>5, <1>12 DEF Misled, w
  <2>2. ms \in SUBSET Motors
    BY <1>1
  <2>3. Same(w, r) /\ r.pc = w.pc /\ r.axis = w.axis /\ r.mine = ms
    <3> HIDE DEF ms
    <3> QED BY <1>5, <2>2, MineEffect
  <2> HIDE DEF r
  <2>4. \A m \in r.mine : There(r, m)
    <3>1. ASSUME NEW m \in r.mine PROVE There(w, m)
      BY <1>6, <2>3, <3>1
    <3> QED BY <2>3, <3>1 DEF There, Within, From, To, Same
  <2>5. Side(r) /\ Purposeful(r)
    BY <1>5, <1>8, <2>3 DEF Side, Purposeful, Same
  <2>6. r \in Task /\ r.failed = k.failed
    BY <1>5, <2>3 DEF Same
  <2> QED BY <1>2, <1>9, <1>10, <2>1, <2>3, <2>4, <2>5, <2>6, AloneStep
<1> QED BY <1>11, <1>12

LEMMA TaskSteps ==
  ASSUME TypeInv, NEW t \in Tasks, Fine(t), TaskStep(t) \/ Misled(t)
  PROVE  Outcome(t)
BY StateSteps, LookSteps, LaserSteps, MoveSteps, ApproachStep, WaitSteps DEF TaskStep

-----------------------------------------------------------------------------
(* Who has looked at the state.                                               *)

LEMMA MovePc ==
  ASSUME TypeInv, NEW t \in Tasks, NEW dest, NEW claim, NEW next, "pc" \in DOMAIN next,
         NEW fails, Move(t, dest, claim, next, fails)
  PROVE  task'[t].pc \in {next.pc, fails}
<1> DEFINE w      == Went(task[t], fails)
           bad    == [w EXCEPT !.mine = @ \ {Axis(t)}]
           good   == [next EXCEPT !.mine = @ \cup claim]
           unsure == [next EXCEPT !.mine = @ \ {Axis(t)}]
<1>1. bad.pc = fails
  <2>1. "pc" \in DOMAIN w /\ w.pc = fails
    BY DEF TypeInv, Task, Went
  <2> HIDE DEF w
  <2> QED BY <2>1
<1>2. good.pc = next.pc /\ unsure.pc = next.pc
  OBVIOUS
<1> HIDE DEF w, bad, good, unsure
<1>3. \E r \in {bad, good, unsure} : task'[t] = r
  <2>1. DOMAIN task = Tasks
    BY DEF TypeInv
  <2>2. \/ \E r \in {good, bad} : task' = [Lost(Axis(t)) EXCEPT ![t] = r]
        \/ \E r \in {good, bad, unsure} : Becomes(t, r)
    BY DEF Move, good, bad, unsure, w
  <2> QED BY <2>1, <2>2 DEF Lost, Becomes
<1> QED BY <1>1, <1>2, <1>3

\* A task goes on to write busy or ready only after a look that found no error.
LEMMA WritersLooked ==
  ASSUME TypeInv, NEW t \in Tasks, Fine(t), TaskStep(t) \/ Misled(t)
  PROVE  task'[t].pc \in {"setBusy", "report"} => m_state # "error" /\ UNCHANGED m_state
<1> DEFINE k == task[t]
<1>1. k \in Task /\ DOMAIN task = Tasks
  BY DEF TypeInv
<1>2. \A pc : Goto(t, pc) => task'[t].pc = pc
  BY <1>1 DEF Goto, Becomes, Went, Task
<1>3. Becomes(t, Idle) => task'[t].pc = "over"
  BY <1>1, IdleType DEF Becomes
<1>4. \A pc, after : NextAxis(k, pc, after).pc \in {pc, after} /\ "pc" \in DOMAIN NextAxis(k, pc, after)
  BY <1>1 DEF NextAxis, Went, Task
<1>5. Home(t) \in {"next", "done"} /\ (Active(t) => k.op \in Op)
  BY <1>1, PlanType DEF Home, Fine, Active
<1>6. ASSUME Begin(t) \/ Finish(t) PROVE task'[t].pc = "over" \/ (m_state # "error" /\ UNCHANGED m_state)
  BY <1>3, <1>6 DEF Begin, Finish, LookFrom
<1>7. ASSUME NEW from, NEW pc1, NEW pc2, LookFrom(t, from, Went(k, pc1), Went(k, pc2))
      PROVE  task'[t].pc \in {pc1, pc2}
  BY <1>2, <1>7 DEF LookFrom, Goto
<1>8. ASSUME NEW good, NEW bad, PauseThen(t, good, bad) PROVE task'[t].pc \in {good, bad}
  BY <1>2, <1>8 DEF PauseThen
<1>9. CASE Begin(t) \/ Finish(t)
  BY <1>6, <1>9
<1>10. CASE SetBusy(t) \/ Enter(t)
  <2>1. CASE Enter(t)
    BY <1>2, <2>1 DEF Enter
  <2>2. CASE SetBusy(t)
    BY <1>2, <1>5, <2>2 DEF SetBusy, Op, Active, At
  <2> QED BY <1>10, <2>1, <2>2
<1>11. CASE Fail(t) \/ Quit(t) \/ Report(t)
  <2>1. CASE Fail(t)
    <3> DEFINE pc == IF At(t, "failMove") /\ task[t].op = "point" THEN "moved" ELSE Home(t)
    <3>1. Becomes(t, [Went(task[t], pc) EXCEPT !.failed = TRUE])
      BY <2>1 DEF Fail
    <3>2. pc \in {"moved", "next", "done"}
      BY <1>5
    <3> HIDE DEF pc
    <3>3. [Went(task[t], pc) EXCEPT !.failed = TRUE].pc = pc
      BY <1>1 DEF Went, Task
    <3> QED BY <1>1, <3>1, <3>2, <3>3 DEF Becomes
  <2>2. CASE Quit(t) \/ Report(t)
    BY <1>3, <2>2 DEF Quit, Report
  <2> QED BY <1>11, <2>1, <2>2
<1>12. CASE NextSegment(t)
  <2> DEFINE w == Went(k, "pause")
             r == [w EXCEPT !.plan = Tail(@), !.mine = {}]
  <2>1. Becomes(t, Idle) \/ Becomes(t, r) \/ Goto(t, "lastPause")
    BY <1>12 DEF NextSegment, LookFrom, Goto
  <2>2. r.pc = "pause"
    <3>1. "pc" \in DOMAIN w /\ w.pc = "pause"
      BY <1>1 DEF Went, Task
    <3> HIDE DEF w
    <3> QED BY <3>1
  <2> HIDE DEF r
  <2> QED BY <1>1, <1>2, <1>3, <2>1, <2>2 DEF Becomes
<1>13. CASE LookMoved(t) \/ Look(t)
  BY <1>5, <1>7, <1>13 DEF LookMoved, Look
<1>14. CASE ScanPause(t) \/ ToPause(t) \/ ShotsDone(t) \/ LastPause(t) \/ Parting(t)
  BY <1>8, <1>14 DEF ScanPause, ToPause, ShotsDone, LastPause, Parting
<1>15. CASE Pause(t) \/ Dark(t)
  BY <1>5, <1>8, <1>15 DEF Pause, Dark
<1>16. CASE ToStandby(t) \/ LightSegment(t) \/ LightPoint(t) \/ ApproachFails(t)
  BY <1>2, <1>16 DEF ToStandby, LightSegment, LightPoint, ApproachFails
<1>17. CASE Approach(t)
  <2> DEFINE interim == Interim(Axis(t), Here(t).from[Axis(t)], Here(t).approach[Axis(t)])
             next    == [task[t] EXCEPT !.pc = "overstep", !.interim = interim]
             ms      == IF AtRest(Axis(t)) THEN next.mine \cup {Axis(t)} ELSE next.mine \ {Axis(t)}
  <2>1. \/ Becomes(t, [next EXCEPT !.mine = ms])
        \/ Move(t, interim, {Axis(t)}, next, "failMove")
    BY <1>17 DEF Approach
  <2> HIDE DEF interim, ms
  <2>2. next.pc = "overstep" /\ "pc" \in DOMAIN next
    BY <1>1 DEF Task
  <2> HIDE DEF next
  <2>3. [next EXCEPT !.mine = ms].pc = "overstep"
    BY <2>2
  <2> QED BY <1>1, <2>1, <2>2, <2>3, MovePc DEF Becomes
<1>18. CASE MoveFrom(t)
  <2> DEFINE next == NextAxis(task[t], "moveFrom", "waitFrom")
  <2>1. next.pc \in {"moveFrom", "waitFrom"} /\ "pc" \in DOMAIN next
    BY <1>4
  <2>2. \E dest, claim : Move(t, dest, claim, next, "fail")
    BY <1>18 DEF MoveFrom
  <2> HIDE DEF next
  <2> QED BY <2>1, <2>2, MovePc
<1>19. CASE MoveTo(t)
  <2> DEFINE next == NextAxis(task[t], "moveTo", "waitTo")
  <2>1. next.pc \in {"moveTo", "waitTo"} /\ "pc" \in DOMAIN next
    BY <1>4
  <2>2. \E dest, claim : Move(t, dest, claim, next, "fail")
    BY <1>19 DEF MoveTo
  <2> HIDE DEF next
  <2> QED BY <2>1, <2>2, MovePc
<1>20. CASE LastLeg(t)
  <2> DEFINE after == IF task[t].op = "point" THEN "moved" ELSE "done"
             zero  == [task[t] EXCEPT !.interim = 0]
             next  == NextAxis(zero, "approach", after)
  <2>1. after \in {"moved", "done"}
    OBVIOUS
  <2>2. zero \in Task
    BY <1>1 DEF Task
  <2> HIDE DEF zero, after
  <2>3. next.pc \in {"approach", after} /\ "pc" \in DOMAIN next
    BY <2>2 DEF NextAxis, Went, Task
  <2>4. \E dest, claim : Move(t, dest, claim, next, "failMove")
    BY <1>20 DEF LastLeg, zero, after
  <2> HIDE DEF next
  <2> QED BY <2>1, <2>3, <2>4, MovePc
<1>21. CASE Wait(t) \/ Misled(t)
  <2> DEFINE w == Waited(t)
             r == [w EXCEPT !.mine = @ \ {Axis(t)}]
  <2>1. w.pc \in {"lastLeg", "waitFrom", "light", "look", "waitTo", "dark"} /\ "pc" \in DOMAIN w
    <3>1. task[t].pc \in {"overstep", "waitFrom", "waitTo"}
      BY <1>21 DEF Wait, Misled, Waits
    <3>2. CASE task[t].pc = "overstep"
      BY <1>1, <3>2 DEF Waited, At, Task
    <3>3. CASE task[t].pc = "waitFrom"
      BY <1>4, <3>3 DEF Waited, At
    <3>4. CASE task[t].pc = "waitTo"
      BY <1>4, <3>4 DEF Waited, At
    <3> QED BY <3>1, <3>2, <3>3, <3>4
  <2>2. Becomes(t, w) \/ Becomes(t, r)
    BY <1>21 DEF Wait, Misled
  <2> HIDE DEF w
  <2>3. r.pc = w.pc
    BY <2>1
  <2> HIDE DEF r
  <2> QED BY <1>1, <2>1, <2>2, <2>3 DEF Becomes
<1> QED BY <1>9, <1>10, <1>11, <1>12, <1>13, <1>14, <1>15, <1>16, <1>17, <1>18, <1>19, <1>20, <1>21
        DEF TaskStep

\* What a step of a task does to the state and its history.
LEMMA TaskWrites ==
  ASSUME TypeInv, NEW t \in Tasks, TaskStep(t) \/ Misled(t)
  PROVE  \/ m_state' = m_state /\ past'.missed = past.missed
         \/ m_state' # "error"
         \/ past'.missed = Looked
<1>1. PastType
  BY DEF TypeInv
<1>2. ASSUME NEW v, Handle(t, v) PROVE past'.missed = past.missed
  BY <1>1, <1>2 DEF Handle, PastType
<1>3. ASSUME NEW s, Sets(s) PROVE m_state' # "error" \/ past'.missed = Looked
  BY <1>1, <1>3 DEF Sets, PastType
<1>4. ASSUME NEW good, NEW bad, PauseThen(t, good, bad)
      PROVE  m_state' = m_state /\ past'.missed = past.missed
  BY <1>2, <1>4 DEF PauseThen
<1>5. CASE SetBusy(t) \/ Enter(t) \/ Fail(t) \/ Quit(t) \/ Report(t)
  BY <1>3, <1>5 DEF SetBusy, Enter, Fail, Quit, Report
<1>6. CASE \/ Begin(t) \/ NextSegment(t) \/ LookMoved(t) \/ Look(t) \/ Finish(t)
           \/ Approach(t) \/ ApproachFails(t) \/ LastLeg(t) \/ MoveFrom(t) \/ MoveTo(t)
           \/ Wait(t) \/ Misled(t)
  BY <1>6 DEF Begin, LookFrom, NextSegment, LookMoved, Look, Finish, Approach, ApproachFails,
              LastLeg, MoveFrom, MoveTo, Wait, Misled
<1>7. CASE \/ ScanPause(t) \/ Pause(t) \/ ToPause(t) \/ ShotsDone(t) \/ Dark(t)
           \/ LastPause(t) \/ Parting(t)
  BY <1>4, <1>7 DEF ScanPause, Pause, ToPause, ShotsDone, Dark, LastPause, Parting
<1>8. CASE ToStandby(t) \/ LightSegment(t) \/ LightPoint(t)
  BY <1>2, <1>8 DEF ToStandby, LightSegment, LightPoint
<1> QED BY <1>5, <1>6, <1>7, <1>8 DEF TaskStep

LEMMA OutcomeInv ==
  ASSUME Inv, NEW t \in Tasks, Outcome(t), LookedBefore'
  PROVE  Inv'
<1>1. TypeInv /\ TypeInv'
  BY DEF Inv, TypeInv, Outcome, rest
<1>2. ASSUME NEW s \in Tasks PROVE Fine(s)'
  <2>1. CASE s = t
    BY <2>1 DEF Outcome
  <2>2. CASE s # t
    BY <1>1, <1>2, <2>2, PassiveFine DEF Outcome, Inv
  <2> QED BY <2>1, <2>2
<1> QED BY <1>1, <1>2 DEF Inv

LEMMA TaskInv ==
  ASSUME Inv, NEW t \in Tasks, TaskStep(t) \/ Misled(t)
  PROVE  Inv'
<1>1. TypeInv /\ Fine(t) /\ Outcome(t)
  BY TaskSteps DEF Inv
<1>2. ASSUME m_state' = "error" PROVE Looked' \subseteq past'.missed
  <2>1. \A s \in Tasks : s # t => task'[s].pc = task[s].pc
    <3>1. ASSUME NEW s \in Tasks, s # t PROVE task'[s].pc = task[s].pc
      <4>1. Passive(s) /\ task[s] \in Task
        BY <1>1, <3>1 DEF Outcome, TypeInv
      <4> QED BY <4>1 DEF Passive, Task
    <3> QED BY <3>1
  <2>2. task'[t].pc \notin {"setBusy", "report"}
    BY <1>1, <1>2, WritersLooked
  <2>3. Looked' \subseteq Looked
    BY <1>1, <2>1, <2>2 DEF Looked, At, Outcome, rest
  <2>4. past'.missed = Looked \/ (m_state = "error" /\ past'.missed = past.missed)
    BY <1>1, <1>2, TaskWrites
  <2> QED BY <2>3, <2>4 DEF Inv, LookedBefore
<1> QED BY <1>1, <1>2, OutcomeInv DEF LookedBefore

-----------------------------------------------------------------------------
(* Clients, timers, motors and the main loop.                                 *)

\* Nobody's light is made theirs, and the history of the state is kept.
LEMMA OthersHandle ==
  ASSUME TypeInv, NEW v, Shut(v), Handle("others", v)
  PROVE  /\ Shut(unit)' /\ PastType' /\ past'.missed = past.missed
         /\ \A t \in Tasks : Laser!Beam' /\ past'.lamp = t => Laser!Beam /\ past.lamp = t
<1>1. PastType /\ \A t \in Tasks : t # "others"
  BY SystemAssumption DEF TypeInv
<1> QED BY <1>1, HandleEffect, HandleLamp

\* Steps that leave the tasks to themselves.
LEMMA PassiveStep ==
  ASSUME Inv, \A t \in Tasks : Passive(t),
         Shut(unit)', MotorType', PastType', m_state' \in State, task' \in [Tasks -> Task],
         server' \in {"free", "ready", "clear", "offline"}, main' \in State \cup {NoEcho},
         LookedBefore'
  PROVE  Inv'
<1>1. \A t \in Tasks : Fine(t)'
  BY PassiveFine DEF Inv
<1> QED BY <1>1 DEF Inv, TypeInv

\* ... and the motors too.
LEMMA StillStep ==
  ASSUME Inv, UNCHANGED <<motor, task>>, Shut(unit)', PastType', m_state' \in State,
         \A t \in Tasks : Laser!Beam' /\ past'.lamp = t => Laser!Beam /\ past.lamp = t,
         server' \in {"free", "ready", "clear", "offline"}, main' \in State \cup {NoEcho},
         LookedBefore'
  PROVE  Inv'
<1>1. MotorType /\ MotorType' /\ task' \in [Tasks -> Task] /\ TypeInv
  BY DEF Inv, TypeInv, MotorType
<1>2. ASSUME NEW t \in Tasks PROVE Passive(t)
  <2>1. task[t] \in Task
    BY <1>1 DEF TypeInv
  <2>2. \A m \in Motors : Drifts(m)
    BY <1>1, Numbers DEF Drifts
  <2> QED BY <2>1, <2>2 DEF Passive, Task
<1> QED BY <1>1, <1>2, PassiveStep

\* The state and its history are as they were, and nobody has looked.
LEMMA NobodyLooked ==
  ASSUME Inv, UNCHANGED m_state, past'.missed = past.missed, Looked' \subseteq Looked \/ m_state # "error"
  PROVE  LookedBefore'
BY DEF Inv, LookedBefore

LEMMA UnitSteps ==
  ASSUME Inv, UnitTimer \/ CallWarmup \/ CallUnit \/ CallLoad_config \/ CallShutdown
  PROVE  Inv'
<1>1. TypeInv /\ Shut(unit) /\ m_state \in State /\ unit.status \in Laser!Status
  BY DEF Inv, TypeInv, Shut, Synced, Laser!Unit
<1>2. UNCHANGED <<m_state, motor, task, main>>
  BY DEF UnitTimer, CallWarmup, CallUnit, CallLoad_config, CallShutdown, rest
<1>3. \E v : Shut(v) /\ Handle("others", v)
  <2>1. CASE UnitTimer
    BY <1>1, <2>1, HandlersShut DEF UnitTimer
  <2>2. CASE CallWarmup
    BY <1>1, <2>2, HandlersShut DEF CallWarmup
  <2>3. CASE CallUnit
    <3>1. PICK c \in UnitCalls, ok \in BOOLEAN, ok2 \in BOOLEAN : Handle("others", Called(c, ok, ok2))
      BY <2>3 DEF CallUnit
    <3>2. c \in ClientCalls
      BY SystemAssumption
    <3> QED BY <1>1, <3>1, <3>2, HandlersShut DEF Called, ClientCalls
  <2>4. CASE CallLoad_config
    BY <1>1, <2>4, HandlersShut DEF CallLoad_config
  <2>5. CASE CallShutdown
    BY <1>1, <2>5, HandlersShut DEF CallShutdown
  <2> QED BY <2>1, <2>2, <2>3, <2>4, <2>5
<1>4. /\ Shut(unit)' /\ PastType' /\ past'.missed = past.missed
      /\ \A t \in Tasks : Laser!Beam' /\ past'.lamp = t => Laser!Beam /\ past.lamp = t
  BY <1>1, <1>3, OthersHandle
<1>5. /\ server' \in {server, "ready", "free", "offline"}
      /\ server' = "ready" => server = "ready" \/ m_state # "error"
  BY DEF UnitTimer, CallWarmup, CallUnit, CallLoad_config, CallShutdown, rest
<1>6. Looked' \subseteq Looked \/ m_state # "error"
  BY <1>2, <1>5 DEF Looked, At
<1>7. LookedBefore'
  BY <1>2, <1>4, <1>6, NobodyLooked
<1> QED BY <1>1, <1>2, <1>4, <1>5, <1>7, StillStep DEF TypeInv

LEMMA WriteSteps ==
  ASSUME Inv, \/ ServerSets \/ MainReads \/ MainSays \/ CallClear_error
              \/ Sets("error") /\ UNCHANGED <<unit, motor, task>> /\ UNCHANGED rest
  PROVE  Inv'
<1>1. TypeInv /\ PastType
  BY DEF Inv, TypeInv
<1>2. /\ UNCHANGED <<unit, motor, task>>
      /\ server' \in {"free", "ready", "clear", "offline"}
      /\ main' \in State \cup {NoEcho}
  BY <1>1 DEF ServerSets, MainReads, MainSays, CallClear_error, TypeInv, rest
<1>3. \/ UNCHANGED <<m_state, past>> /\ (m_state = "error" => Looked' \subseteq Looked)
      \/ \E s \in State : Sets(s) /\ Looked' \subseteq Looked
  <2>1. CASE ServerSets
    <3>1. \E s \in State : Sets(s)
      BY <2>1 DEF ServerSets, State
    <3>2. server' = "free" /\ UNCHANGED <<task, main>>
      BY <2>1 DEF ServerSets
    <3> QED BY <3>1, <3>2 DEF Looked, At
  <2>2. CASE MainReads
    <3>1. UNCHANGED <<m_state, past, task, server>> /\ main' = m_state
      BY <2>2 DEF MainReads
    <3> QED BY <3>1 DEF Looked, At
  <2>3. CASE MainSays
    <3>1. \E s \in State : Sets(s)
      BY <1>1, <2>3 DEF MainSays, TypeInv
    <3>2. main' = NoEcho /\ UNCHANGED <<task, server>>
      BY <2>3 DEF MainSays
    <3> QED BY <3>1, <3>2 DEF Looked, At
  <2>4. CASE CallClear_error
    <3>1. server' = "clear" /\ UNCHANGED <<m_state, past, task, main>>
      BY <2>4 DEF CallClear_error
    <3> QED BY <3>1 DEF Looked, At
  <2>5. CASE Sets("error") /\ UNCHANGED <<unit, motor, task>> /\ UNCHANGED rest
    <3>1. "error" \in State
      BY DEF State
    <3> QED BY <2>5, <3>1 DEF Looked, At, rest
  <2> QED BY <2>1, <2>2, <2>3, <2>4, <2>5
<1>4. m_state' \in State /\ PastType' /\ past'.lamp = past.lamp
  BY <1>1, <1>3, SetsEffect DEF TypeInv, PastType
<1>5. LookedBefore'
  <2>1. ASSUME NEW s \in State, Sets(s), Looked' \subseteq Looked PROVE LookedBefore'
    <3>1. m_state' = s /\ (s = "error" => past'.missed = Looked)
      BY <1>1, <2>1, SetsEffect
    <3> QED BY <2>1, <3>1 DEF LookedBefore
  <2>2. CASE UNCHANGED <<m_state, past>>
    BY <1>3, <2>1, <2>2, NobodyLooked
  <2> QED BY <1>3, <2>1, <2>2
<1>6. Shut(unit)' /\ (Laser!Beam' <=> Laser!Beam)
  BY <1>1, <1>2 DEF TypeInv, Shut, Synced, Laser!Beam
<1> QED BY <1>1, <1>2, <1>4, <1>5, <1>6, StillStep

LEMMA MotorSteps ==
  ASSUME Inv, CallStop \/ CallMotorMove \/ CallMotorStop \/ \E m \in Motors : MotorStep(m)
  PROVE  Inv'
<1>1. TypeInv /\ MotorType /\ PastType /\ task \in [Tasks -> Task] /\ Shut(unit)
  BY DEF Inv, TypeInv
<1>2. UNCHANGED m_state /\ UNCHANGED rest
  BY DEF CallStop, CallMotorMove, CallMotorStop, MotorStep
<1>3. /\ Shut(unit)' /\ PastType' /\ past'.missed = past.missed
      /\ \A t \in Tasks : Laser!Beam' /\ past'.lamp = t => Laser!Beam /\ past.lamp = t
  <2>1. CASE CallStop
    <3>1. PICK ok \in BOOLEAN : Handle("others", Laser!Stop(unit, ok))
      BY <2>1 DEF CallStop
    <3> QED BY <1>1, <3>1, StopShut, OthersHandle
  <2>2. CASE ~CallStop
    <3>1. UNCHANGED <<unit, past>>
      BY <2>2 DEF CallMotorMove, CallMotorStop, MotorStep
    <3> QED BY <1>1, <3>1 DEF Shut, Synced, PastType, Laser!Beam
  <2> QED BY <2>1, <2>2
<1>4. /\ MotorType' /\ task' \in [Tasks -> Task]
      /\ \A t \in Tasks :
           /\ task'[t] = task[t] \/ \E ms \in SUBSET task[t].mine : task'[t] = [task[t] EXCEPT !.mine = ms]
           /\ \A m \in task'[t].mine : Drifts(m)
      /\ \A t \in Tasks : task'[t].pc = task[t].pc
  <2>0. /\ \A m \in Motors : /\ motor[m] \in [pos : Position, goal : Position]
                             /\ motor[m].pos \in Int /\ motor[m].goal \in Int
        /\ \A t \in Tasks : task[t].mine \subseteq Motors /\ task[t] \in Task
    BY <1>1, Numbers DEF MotorType, Task
  <2>1. ASSUME NEW ms \in SUBSET Motors, motor' = Halted(ms), UNCHANGED task
        PROVE  MotorType' /\ task' \in [Tasks -> Task] /\ \A m \in Motors : Drifts(m)
    <3>1. \A m \in Motors : motor'[m] \in {motor[m], [motor[m] EXCEPT !.goal = motor[m].pos]}
      BY <2>1 DEF Halted
    <3>2. \A m \in Motors : /\ motor'[m] \in [pos : Position, goal : Position]
                            /\ motor'[m].pos = motor[m].pos
                            /\ motor'[m].goal \in {motor[m].goal, motor[m].pos}
      BY <2>0, <3>1
    <3>3. MotorType'
      BY <2>1, <3>2 DEF MotorType, Halted
    <3>4. \A m \in Motors : Drifts(m)
      BY <2>0, <3>2 DEF Drifts
    <3> QED BY <1>1, <2>1, <3>3, <3>4
  <2>2. CASE CallStop
    <3>1. PICK ms \in SUBSET (IF unit.m_regs THEN Moving ELSE {}) : motor' = Halted(ms)
      BY <2>2 DEF CallStop
    <3>2. ms \in SUBSET Motors /\ UNCHANGED task
      BY <2>2 DEF Moving, CallStop
    <3> QED BY <2>0, <2>1, <3>1, <3>2
  <2>3. CASE CallMotorStop
    <3>1. PICK m \in Moving : motor' = Halted({m})
      BY <2>3 DEF CallMotorStop
    <3> DEFINE one == {m}
    <3>2. one \in SUBSET Motors /\ UNCHANGED task /\ motor' = Halted(one)
      BY <2>3, <3>1 DEF Moving, CallMotorStop
    <3> HIDE DEF one
    <3> QED BY <2>0, <2>1, <3>2
  <2>4. CASE \E m \in Motors : MotorStep(m)
    <3>1. PICK m \in Motors : MotorStep(m)
      BY <2>4
    <3> DEFINE p == motor[m].pos  g == motor[m].goal
               q == IF p < g THEN p + 1 ELSE p - 1
    <3>2. motor' = [motor EXCEPT ![m].pos = q] /\ UNCHANGED task /\ p # g
      BY <3>1 DEF MotorStep, AtRest
    <3>3. p \in 0 .. MaxPos /\ g \in 0 .. MaxPos /\ MaxPos \in Nat
      BY <2>0, SystemAssumption DEF Position
    <3>4. /\ q \in 0 .. MaxPos
          /\ p <= g => p <= q /\ q <= g
          /\ p >= g => p >= q /\ q >= g
      <4> HIDE DEF p, g
      <4> QED BY <3>2, <3>3
    <3> HIDE DEF q
    <3>5. /\ motor'[m].pos = q /\ motor'[m].goal = g
          /\ \A n \in Motors : n # m => motor'[n] = motor[n]
          /\ MotorType'
      BY <1>1, <3>2, <3>4 DEF MotorType, Position
    <3>6. Drifts(m)
      BY <3>2, <3>4, <3>5 DEF Drifts, AtRest
    <3>7. \A n \in Motors : Drifts(n)
      BY <2>0, <3>5, <3>6 DEF Drifts
    <3> QED BY <1>1, <2>0, <3>2, <3>5, <3>7
  <2>5. CASE CallMotorMove
    <3>1. PICK call \in MotorCalls : motor' = [motor EXCEPT ![call[1]].goal = call[2]] /\ task' = Lost(call[1])
      BY <2>5 DEF CallMotorMove
    <3> DEFINE m == call[1]
    <3>2. m \in Motors /\ call[2] \in Position
      BY SystemAssumption
    <3>3. MotorType' /\ \A n \in Motors : n # m => motor'[n] = motor[n]
      BY <1>1, <3>1, <3>2 DEF MotorType
    <3>4. \A n \in Motors : n # m => Drifts(n)
      BY <2>0, <3>3 DEF Drifts
    <3>5. ASSUME NEW t \in Tasks
          PROVE  LET ms == task[t].mine \ {m}
                     r  == [task[t] EXCEPT !.mine = ms]
                 IN  /\ ms \in SUBSET task[t].mine /\ task'[t] = r
                     /\ r \in Task /\ r.mine = ms /\ r.pc = task[t].pc
      <4> DEFINE ms == task[t].mine \ {m}
      <4>1. task'[t] = [task[t] EXCEPT !.mine = ms]
        BY <3>1 DEF Lost
      <4>2. ms \in SUBSET task[t].mine /\ ms \in SUBSET Motors
        BY <2>0
      <4> HIDE DEF ms
      <4>3. LET r == [task[t] EXCEPT !.mine = ms]
            IN  r \in Task /\ r.mine = ms /\ r.pc = task[t].pc
        BY <2>0, <4>2, MineEffect DEF Same
      <4> QED BY <4>1, <4>2, <4>3 DEF ms
    <3>6. task' \in [Tasks -> Task]
      BY <3>1, <3>5 DEF Lost
    <3>7. \A t \in Tasks : /\ \E ms \in SUBSET task[t].mine : task'[t] = [task[t] EXCEPT !.mine = ms]
                           /\ task'[t].mine = task[t].mine \ {m} /\ task'[t].pc = task[t].pc
      BY <3>5
    <3>8. \A t \in Tasks : \A n \in task'[t].mine : Drifts(n)
      BY <2>0, <3>4, <3>7
    <3> QED BY <3>3, <3>6, <3>7, <3>8
  <2> QED BY <2>2, <2>3, <2>4, <2>5
<1>5. LookedBefore'
  <2>1. Looked' \subseteq Looked
    BY <1>2, <1>4 DEF Looked, At, rest
  <2> QED BY <1>2, <1>3, <2>1, NobodyLooked
<1>6. \A t \in Tasks : Passive(t)
  BY <1>3, <1>4 DEF Passive
<1> QED BY <1>1, <1>2, <1>3, <1>4, <1>5, <1>6, PassiveStep DEF TypeInv, rest

\* A client starts a thread.
LEMMA SpawnStep ==
  ASSUME Inv, NEW op \in Op, NEW plan \in Seq(Leg) \ {<<>>}, Spawn(op, plan),
         UNCHANGED <<unit, m_state, motor>>, UNCHANGED rest
  PROVE  Inv'
<1> DEFINE r == [Idle EXCEPT !.op = op, !.plan = plan, !.pc = "begin"]
<1>1. PICK t \in Tasks : /\ ~Active(t) /\ Becomes(t, r)
                         /\ past' = [past EXCEPT !.lamp = IF @ = t THEN "others" ELSE @]
  BY DEF Spawn
<1>2. /\ TypeInv /\ PastType /\ Shut(unit) /\ m_state \in State
      /\ \A s \in Tasks : s # "others"
  BY SystemAssumption DEF Inv, TypeInv
<1>3. r \in Task /\ r.pc = "begin" /\ r.mine = {} /\ r.op # "none" /\ r.plan # <<>>
  <2>1. Idle \in Task /\ "begin" \in PC /\ op # "none"
    BY IdleType DEF PC, Op
  <2>2. Idle.mine = {}
    BY DEF Idle
  <2> HIDE DEF PC, Leg, Motors, Idle, Op
  <2> QED BY <2>1, <2>2 DEF Task
<1> HIDE DEF r
<1>4. Purposeful(r) /\ Side(r) /\ \A m \in r.mine : There(r, m)
  BY <1>3 DEF Purposeful, Side
<1>5. PastType' /\ past'.lamp # t /\ past'.missed = past.missed
      /\ \A s \in Tasks : past'.lamp = s => past.lamp = s
  BY <1>1, <1>2 DEF PastType
<1>6. Shut(unit)' /\ m_state' \in State /\ (Laser!Beam' <=> Laser!Beam)
  BY <1>2 DEF Shut, Synced, Laser!Beam
<1>7. Outcome(t)
  BY <1>1, <1>2, <1>3, <1>4, <1>5, <1>6, AloneStep DEF LightKept
<1>8. Looked' \subseteq Looked
  <2>1. task'[t] = r /\ \A s \in Tasks : s # t => task'[s] = task[s]
    BY <1>1, <1>2, <1>3, BecomesEffect DEF TypeInv
  <2> QED BY <1>3, <2>1 DEF Looked, At, rest
<1>9. LookedBefore'
  BY <1>5, <1>8, NobodyLooked
<1> QED BY <1>7, <1>9, OutcomeInv

LEMMA StartSteps ==
  ASSUME Inv, CallFire_segment \/ CallExecute_scan \/ CallFire_at_position \/ CallMove_to_pos
  PROVE  Inv'
<1>1. ASSUME NEW l \in Leg PROVE <<l>> \in Seq(Leg) \ {<<>>}
  <2> HIDE DEF Leg
  <2> QED BY <1>1
<1>2. CASE CallFire_segment
  <2>1. PICK l \in Segments : Spawn("segment", <<l>>)
    BY <1>2 DEF CallFire_segment
  <2>2. l \in Leg
    BY SystemAssumption
  <2> QED BY <1>1, <1>2, <2>1, <2>2, SpawnStep DEF CallFire_segment, Op
<1>3. CASE CallExecute_scan
  <2>1. PICK plan \in Scans : Spawn("scan", plan)
    BY <1>3 DEF CallExecute_scan
  <2>2. plan \in Seq(Leg) \ {<<>>}
    BY SystemAssumption
  <2> QED BY <1>3, <2>1, <2>2, SpawnStep DEF CallExecute_scan, Op
<1>4. CASE CallFire_at_position
  <2>1. CASE \E l \in Targets : Spawn("point", <<l>>) /\ UNCHANGED m_state
    <3>1. PICK l \in Targets : Spawn("point", <<l>>) /\ UNCHANGED m_state
      BY <2>1
    <3>2. l \in Leg
      BY SystemAssumption
    <3> QED BY <1>1, <1>4, <3>1, <3>2, SpawnStep DEF CallFire_at_position, Op
  <2>2. CASE Sets("error") /\ UNCHANGED task
    BY <1>4, <2>2, WriteSteps DEF CallFire_at_position
  <2> QED BY <1>4, <2>1, <2>2 DEF CallFire_at_position
<1>5. CASE CallMove_to_pos
  <2>1. PICK l \in Targets : Spawn("move", <<l>>)
    BY <1>5 DEF CallMove_to_pos
  <2>2. l \in Leg
    BY SystemAssumption
  <2> QED BY <1>1, <1>5, <2>1, <2>2, SpawnStep DEF CallMove_to_pos, Op
<1> QED BY <1>2, <1>3, <1>4, <1>5

LEMMA InitInv == Init => Inv
<1> SUFFICES ASSUME Init PROVE Inv
  OBVIOUS
<1>1. Shut(unit)
  BY DEF Init, Shut, Synced, Laser!Constructed, Laser!Unit, Laser!Status
<1>2. m_state \in State /\ m_state # "error"
  BY DEF Init, State
<1>3. MotorType
  BY SystemAssumption DEF Init, MotorType, Position
<1>4. task \in [Tasks -> Task] /\ \A t \in Tasks : task[t] = Idle
  BY IdleType DEF Init
<1>5. PastType /\ server = "free" /\ main = NoEcho
  BY DEF Init, PastType
<1>6. ASSUME NEW t \in Tasks PROVE Fine(t)
  BY <1>4, IdleType DEF Fine, Purposeful, Side, Unlit, LitPC
<1> QED BY <1>1, <1>2, <1>3, <1>4, <1>5, <1>6 DEF Inv, TypeInv, LookedBefore

LEMMA NextInv == Inv /\ [Next]_vars => Inv'
<1> SUFFICES ASSUME Inv, [Next]_vars PROVE Inv'
  OBVIOUS
<1>1. CASE Next
  BY <1>1, TaskInv, UnitSteps, WriteSteps, MotorSteps, StartSteps DEF Next, SystemCall
<1>2. CASE UNCHANGED vars
  <2>1. TypeInv'
    BY <1>2 DEF Inv, TypeInv, vars, Shut, Synced, MotorType, PastType
  <2>2. LookedBefore'
    BY <1>2 DEF Inv, LookedBefore, Looked, At, vars
  <2>3. ASSUME NEW t \in Tasks PROVE Fine(t)'
    BY <1>2 DEF Inv, Fine, Purposeful, There, Side, Unlit, Sent, Stays, Within, From, To, AtRest,
                OnSide, FarSide, Laser!Beam, vars
  <2> QED BY <2>1, <2>2, <2>3 DEF Inv
<1> QED BY <1>1, <1>2

-----------------------------------------------------------------------------
(* What follows.                                                              *)

\* Type correctness, with what keeps a paused unit shut.
THEOREM SystemTyping == Spec => []TypeInv
BY InitInv, NextInv, PTL DEF Spec, Inv

\* With any number of motors and of tasks that run at once, and whatever clients,
\* timers and failing devices do: along a segment or a scan the beam is within
\* the segment from the request for light to the request for dark, and the shots
\* at a point are fired at it, as far as nobody else has sent the motors.
THEOREM TaskFiresWhereAsked == Spec => []FiresWhereAsked
<1>1. Inv => FiresWhereAsked
  BY DEF Inv, Fine, There, Within, Stays, From, To, Here, FiresWhereAsked
<1> QED BY <1>1, InitInv, NextInv, PTL DEF Spec

\* A task at its report goes on by reporting, and one at its last leg by that.
LEMMA OwnPace ==
  ASSUME Inv, Next, NEW t \in Tasks, task[t].pc \in {"report", "lastLeg"}, task'[t].pc # task[t].pc
  PROVE  \/ task[t].pc = "report" /\ Report(t)
         \/ task[t].pc = "lastLeg" /\ LastLeg(t)
<1>1. TaskStep(t) \/ Misled(t)
  <2>1. ASSUME NEW s \in Tasks, s # t, TaskStep(s) \/ Misled(s) PROVE task'[t].pc = task[t].pc
    <3>1. Passive(t) /\ task[t] \in Task
      BY <2>1, TaskSteps DEF Inv, TypeInv, Outcome
    <3> QED BY <3>1 DEF Passive, Task
  <2>2. ASSUME NEW op, NEW plan, Spawn(op, plan) PROVE task'[t].pc = task[t].pc
    BY <2>2 DEF Spawn, Active, Becomes, Inv, TypeInv
  <2>3. CASE CallMotorMove
    <3>1. \E m : task' = Lost(m)
      BY <2>3 DEF CallMotorMove
    <3> QED BY <3>1 DEF Lost, Inv, TypeInv, Task
  <2>4. CASE CallFire_segment \/ CallExecute_scan \/ CallFire_at_position \/ CallMove_to_pos
    BY <2>2, <2>4 DEF CallFire_segment, CallExecute_scan, CallFire_at_position, CallMove_to_pos
  <2>5. CASE \/ UnitTimer \/ CallWarmup \/ CallUnit \/ CallLoad_config \/ CallShutdown
             \/ CallStop \/ CallMotorStop \/ CallClear_error \/ ServerSets \/ MainReads \/ MainSays
             \/ \E m \in Motors : MotorStep(m)
    BY <2>5 DEF UnitTimer, CallWarmup, CallUnit, CallLoad_config, CallShutdown, CallStop,
                CallMotorStop, CallClear_error, ServerSets, MainReads, MainSays, MotorStep
  <2> QED BY <2>1, <2>3, <2>4, <2>5 DEF Next, SystemCall
<1> QED BY <1>1 DEF TaskStep, Misled, At, Waits, LookFrom, Begin, SetBusy, Enter, Fail, Quit, NextSegment,
                    LookMoved, Look, Finish, ScanPause, Pause, ToStandby, ToPause, LightSegment,
                    LightPoint, ShotsDone, Dark, LastPause, Parting, Approach, ApproachFails,
                    MoveFrom, MoveTo, Wait, Report, LastLeg

\* A task that reports success, and has not failed on its way, has put out the
\* light that it let out, for any number of tasks and motors.
THEOREM SuccessLeavesDark == Spec => SuccessIsDark
<1> DEFINE Dim == \A t \in Tasks : At(t, "report") /\ ~At(t, "report")' /\ ~task[t].failed /\ Laser!Beam'
                                     => past'.lamp # t
<1>1. Inv /\ [Next]_vars => Dim
  <2> SUFFICES ASSUME Inv, [Next]_vars, NEW t \in Tasks, At(t, "report"), ~At(t, "report")',
                      ~task[t].failed, Laser!Beam'
               PROVE  past'.lamp # t
    OBVIOUS
  <2>1. task[t].pc = "report" /\ task'[t].pc # task[t].pc
    BY DEF At
  <2>2. Next
    BY <2>1 DEF vars
  <2>3. Report(t)
    BY <2>1, <2>2, OwnPace
  <2>4. past'.lamp = past.lamp /\ Laser!Beam
    BY <2>3, SetsEffect DEF Report, Laser!Beam, Inv, TypeInv, State
  <2>5. Unlit(task[t], t) /\ "report" \notin LitPC
    BY DEF Inv, Fine, LitPC
  <2> QED BY <2>1, <2>4, <2>5 DEF Unlit
<1> QED BY <1>1, InitInv, NextInv, PTL DEF Spec, SuccessIsDark

\* The last leg of a move or a point goes the way that was asked for, or
\* nowhere, for any motors and range and any number of tasks at once, unless
\* somebody else has sent the motor.
THEOREM LastLegFromTheSide == Spec => ApproachRespected
<1> DEFINE Way == \A t \in Tasks :
                    /\ At(t, "lastLeg") /\ ~At(t, "lastLeg")'
                    /\ Axis(t) \in task[t].mine
                    /\ motor' # motor
                    => LET m == Axis(t)
                       IN  Here(t).approach[m] \in {"-", IF motor'[m].goal > motor[m].pos THEN "u" ELSE "d"}
<1>1. Inv /\ [Next]_vars => Way
  <2> SUFFICES ASSUME Inv, [Next]_vars, NEW t \in Tasks, At(t, "lastLeg"), ~At(t, "lastLeg")',
                      Axis(t) \in task[t].mine, motor' # motor
               PROVE  LET m == Axis(t)
                      IN  Here(t).approach[m] \in {"-", IF motor'[m].goal > motor[m].pos THEN "u" ELSE "d"}
    OBVIOUS
  <2> DEFINE k == task[t]
             m == k.axis
             a == Head(k.plan).approach[m]
  <2>1. k.pc = "lastLeg" /\ task'[t].pc # k.pc /\ m \in k.mine /\ k \in Task
    BY DEF At, Axis, Inv, TypeInv
  <2>2. Next
    BY <2>1 DEF vars
  <2>3. LastLeg(t)
    BY <2>1, <2>2, OwnPace
  <2>4. motor' = [motor EXCEPT ![m].goal = From(k, m)]
    BY <2>3 DEF LastLeg, Move, From, Here, Axis
  <2>5. /\ m \in Motors /\ From(k, m) \in Int /\ a \in {"u", "d", "-"}
        /\ motor[m].pos \in Int /\ motor[m].goal \in Int /\ MotorType
    BY <2>1, PlanType, Numbers DEF Inv, Fine, TypeInv, Task
  <2>6. OnSide(m, From(k, m), a)
    BY <2>1 DEF Inv, Fine, Side
  <2>7. motor'[m].goal = From(k, m) /\ motor[m].goal # From(k, m)
    BY <2>4, <2>5 DEF MotorType
  <2>8. a \in {"-", IF motor'[m].goal > motor[m].pos THEN "u" ELSE "d"}
    BY <2>5, <2>6, <2>7 DEF OnSide
  <2> QED BY <2>8 DEF Axis, Here
<1> QED BY <1>1, InitInv, NextInv, PTL DEF Spec, ApproachRespected

\* An error is overwritten by those who had looked at the state before it came,
\* by the second setting of busy of a segment, and by nobody else but clear_error
\* and shutdown, for any number of tasks.
THEOREM TasksKeepErrors == Spec => ErrorSticks
<1> DEFINE Kept == m_state = "error" /\ m_state' # "error" =>
                     \/ server \in {"clear", "offline"} /\ Acts("server")
                     \/ \E t \in Tasks : At(t, "enter") /\ Acts(t)
                     \/ \E x \in past.missed : Acts(x)
<1>1. Inv /\ [Next]_vars => Kept
  <2> SUFFICES ASSUME Inv, [Next]_vars, m_state = "error", m_state' # "error"
               PROVE  \/ server \in {"clear", "offline"} /\ Acts("server")
                      \/ \E t \in Tasks : At(t, "enter") /\ Acts(t)
                      \/ \E x \in past.missed : Acts(x)
    OBVIOUS
  <2>1. Next /\ TypeInv /\ Looked \subseteq past.missed /\ PastType
    BY DEF vars, Inv, LookedBefore, TypeInv
  <2>2. ASSUME NEW t \in Tasks, SetBusy(t) \/ Enter(t) \/ Report(t)
        PROVE  (\E s \in Tasks : At(s, "enter") /\ Acts(s)) \/ \E x \in past.missed : Acts(x)
    <3>1. task[t] \in Task /\ task[t].pc \in {"setBusy", "enter", "report"}
      BY <2>1, <2>2 DEF TypeInv, SetBusy, Enter, Report, At
    <3>2. task'[t].pc # task[t].pc
      <4>1. CASE Report(t)
        BY <2>1, <3>1, <4>1, IdleType DEF Report, Becomes, TypeInv
      <4>2. CASE SetBusy(t) \/ Enter(t)
        <5>1. \E pc \in {"enter", "scanPause", "pause", "approach"} : pc # task[t].pc /\ Goto(t, pc)
          BY <2>1, <4>2, PlanType DEF SetBusy, Enter, At, Inv, Fine, TypeInv, Op
        <5> QED BY <2>1, <3>1, <5>1 DEF Goto, Becomes, Went, Task, TypeInv
      <4> QED BY <2>2, <4>1, <4>2
    <3>3. Acts(t)
      BY <3>2, SystemAssumption DEF Acts
    <3> QED BY <2>1, <3>1, <3>3 DEF Looked, At
  <2>3. CASE ServerSets
    <3>1. server \in {"ready", "clear", "offline"} /\ Acts("server")
      BY <2>1, <2>3 DEF ServerSets, Free, TypeInv, Acts
    <3> QED BY <2>1, <3>1 DEF Looked
  <2>4. CASE MainSays
    <3>1. main \notin {NoEcho, "error"} /\ Acts("main")
      BY <2>1, <2>4, SetsEffect DEF MainSays, Sets, Acts
    <3> QED BY <2>1, <3>1 DEF Looked
  <2>5. ASSUME NEW t \in Tasks, TaskStep(t) \/ Misled(t) PROVE SetBusy(t) \/ Enter(t) \/ Report(t)
    <3>1. CASE Fail(t) \/ Quit(t)
      BY <3>1 DEF Fail, Quit, Sets
    <3>2. CASE \/ ScanPause(t) \/ Pause(t) \/ ToPause(t) \/ ShotsDone(t) \/ Dark(t)
               \/ LastPause(t) \/ Parting(t)
      BY <3>2 DEF ScanPause, Pause, ToPause, ShotsDone, Dark, LastPause, Parting, PauseThen
    <3>3. CASE \/ Begin(t) \/ NextSegment(t) \/ LookMoved(t) \/ Look(t) \/ Finish(t)
               \/ Approach(t) \/ ApproachFails(t) \/ LastLeg(t) \/ MoveFrom(t) \/ MoveTo(t)
               \/ Wait(t) \/ Misled(t) \/ ToStandby(t) \/ LightSegment(t) \/ LightPoint(t)
      BY <3>3 DEF Begin, LookFrom, NextSegment, LookMoved, Look, Finish, Approach, ApproachFails,
                  LastLeg, MoveFrom, MoveTo, Wait, Misled, ToStandby, LightSegment, LightPoint
    <3> QED BY <2>5, <3>1, <3>2, <3>3 DEF TaskStep
  <2>6. ~CallFire_at_position
    BY DEF CallFire_at_position, Sets
  <2>7. ~(\/ UnitTimer \/ CallWarmup \/ CallUnit \/ CallLoad_config \/ CallShutdown
          \/ CallStop \/ CallMotorStop \/ CallMotorMove \/ CallClear_error \/ MainReads
          \/ CallFire_segment \/ CallExecute_scan \/ CallMove_to_pos
          \/ \E m \in Motors : MotorStep(m))
    BY DEF UnitTimer, CallWarmup, CallUnit, CallLoad_config, CallShutdown, CallStop, CallMotorStop,
           CallMotorMove, CallClear_error, MainReads, CallFire_segment, CallExecute_scan,
           CallMove_to_pos, MotorStep
  <2> QED BY <2>1, <2>2, <2>3, <2>4, <2>5, <2>6, <2>7 DEF Next, SystemCall
<1> QED BY <1>1, InitInv, NextInv, PTL DEF Spec, ErrorSticks
================================================================================
