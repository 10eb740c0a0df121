----------------------------- MODULE LaserSystem -----------------------------
(***************************************************************************)
(* The ionization laser system (DIoLaserSystem): the laser unit, the       *)
(* motors that point the beam, and the tasks that move and fire.  A task   *)
(* is a detached thread; it works through its plan with one call after     *)
(* another, while the server answers clients, the main loop updates the    *)
(* devices and the timers of the laser unit run.  A step is one call to a  *)
(* device, one look at m_state or one write of it: no lock joins a look    *)
(* and the write that follows from it.                                     *)
(*                                                                         *)
(*   segment   fire while the motors travel from one point to another      *)
(*   scan      a sequence of segments                                      *)
(*   point     travel to a point and fire a number of shots                *)
(*   move      travel to a point                                           *)
(*                                                                         *)
(* The unit is the one of module LaserUnit, and a handler of it is one     *)
(* step; what handlers do that meet inside is in module LaserRace.  Its    *)
(* timers are abstracted to what they may do, at any time: this includes   *)
(* whatever they do in LaserUnit, and needs no bound on them.              *)
(***************************************************************************)
EXTENDS Integers, Sequences

CONSTANTS NumMotors,    \* the motors, in the order of the configuration
          MaxPos,       \* their range is 0 .. MaxPos
          Tolerance,    \* a motor this near to its target has arrived
          Overstep,     \* how far a task oversteps a target
          Tasks,        \* task threads that may be alive at once
          Segments,     \* the segments, points and scans clients ask for
          Targets,
          Scans,
          MotorCalls,   \* <<motor, position>>: where they send a motor themselves
          UnitCalls,    \* what they call of the unit, of ClientCalls
          Echoes        \* the states that the main loop may be late to write back

VARIABLES unit,      \* the laser unit
          m_state,   \* the state of the system
          motor,     \* where each motor is and where it is going
          task,      \* the task threads
          server,    \* what the server's thread has yet to write
          main,      \* what the main loop has read and is to write back
          past       \* history, see below

vars == <<unit, m_state, motor, task, server, main, past>>

Laser == INSTANCE LaserUnit
           WITH MaxTimers <- [k \in {"pause", "standby", "warmup"} |-> 1],
                proc <- "running",
                shots <- \E t \in Tasks : task[t].pc = "shots"

Motors   == 1 .. NumMotors
Position == 0 .. MaxPos
Point    == [Motors -> Position]

State == {"offline", "ready", "busy", "error"}

ClientCalls == {"pause", "standby", "resume", "shutter", "laser shutter"}

\* What a task has to do: where to go, and for a segment where to fire until.
\* approach says from which side a motor must arrive, upwards, downwards or any.
Leg == [from : Point, to : Point, approach : [Motors -> {"u", "d", "-"}]]

\* A segment differs from its start in one axis; a point and a move go nowhere;
\* what a scan is made of is not checked.
IsSegment(l) == \E a \in Motors : \A b \in Motors : l.from[b] # l.to[b] <=> a = b

ASSUME SystemAssumption ==
  /\ NumMotors \in Nat \ {0} /\ MaxPos \in Nat
  /\ Tolerance \in Nat /\ Overstep \in Nat /\ Overstep > Tolerance
  /\ Segments \subseteq {l \in Leg : IsSegment(l)}
  /\ Targets \subseteq {l \in Leg : l.to = l.from}
  /\ Scans \subseteq Seq(Leg) \ {<<>>}
  /\ MotorCalls \subseteq Motors \X Position
  /\ UnitCalls \subseteq ClientCalls /\ Echoes \subseteq State
  /\ Tasks \cap {"server", "main", "others"} = {}

\* Two fields are history.  mine: the motors that went where the task told them,
\* and nobody else has told anything since, as far as it was not misled; failed:
\* it has set sError.
Idle == [op |-> "none", plan |-> <<>>, pc |-> "over", axis |-> 1, interim |-> 0,
         mine |-> {}, failed |-> FALSE]

Active(t) == task[t].pc # "over"
Here(t)   == Head(task[t].plan)
Axis(t)   == task[t].axis
At(t, pc) == task[t].pc = pc

NoEcho == "none"

-----------------------------------------------------------------------------
(* Writing the state and driving the unit.  The history of m_state is missed: *)
(* who had looked at it, and found no error, when the error came that is      *)
(* there now.  That of the unit is lamp: the task that has let out the light  *)
(* there is, or "others".                                                     *)

Looked ==
  {t \in Tasks : At(t, "setBusy") \/ At(t, "report")}
    \cup {x \in {"server"} : server = "ready"}
    \cup {x \in {"main"} : main \notin {NoEcho, "error"}}

Sets(s) ==
  /\ m_state' = s
  /\ past' = [past EXCEPT !.missed = IF s = "error" THEN Looked ELSE {}]

\* A handler of the unit ran for x.  The timers it started are forgotten, and so
\* is what only the unit's update looks at.
Handle(x, next) ==
  /\ unit' = [next EXCEPT !.sleeping = [k \in Laser!Timed |-> 0],
                          !.m_is_terminating = FALSE, !.m_config_completed = FALSE]
  /\ past' = [past EXCEPT !.lamp = IF ~Laser!Beam' THEN "others" ELSE IF Laser!Beam THEN @ ELSE x]

(* How a task goes on. *)

Went(k, pc) == [k EXCEPT !.pc = pc, !.axis = 1]
NextAxis(k, pc, after) ==
  IF k.axis < NumMotors THEN [k EXCEPT !.axis = @ + 1, !.pc = pc] ELSE Went(k, after)

Becomes(t, k) == task' = [task EXCEPT ![t] = k]
Goto(t, pc)   == Becomes(t, Went(task[t], pc))

\* Where segment_task and fire_point_task return to.
Home(t) == IF task[t].op = "scan" THEN "next" ELSE "done"

(* Motors. *)

AtRest(m)  == motor[m].pos = motor[m].goal
Near(x, y) == x - y <= Tolerance /\ y - x <= Tolerance

\* A motor that x sends is lost to every task.
Lost(m) == [s \in Tasks |-> [task[s] EXCEPT !.mine = @ \ {m}]]

\* move_wrapper, for the motor of the axis.  It asks for the speed first, and
\* refuses a motor that seems to move, but a moving one may seem at rest; it
\* refuses what is out of range.  A motor believed to be there, by a cached
\* position that may be old, is told nothing.  The answer to the request may
\* get lost, whether or not the motor has heard it.
Move(t, dest, claim, next, fails) ==
  LET m      == Axis(t)
      bad    == [Went(task[t], fails) EXCEPT !.mine = @ \ {m}]
      good   == [next EXCEPT !.mine = @ \cup claim]
      unsure == [next EXCEPT !.mine = @ \ {m}]
  IN  \/ /\ dest \in Position
         /\ motor' = [motor EXCEPT ![m].goal = dest]
         /\ \E k \in {good, bad} : task' = [Lost(m) EXCEPT ![t] = k]
      \/ /\ dest \in Position
         /\ Becomes(t, IF AtRest(m) \/ motor[m].goal = dest THEN good ELSE unsure)
         /\ UNCHANGED motor
      \/ Becomes(t, bad) /\ UNCHANGED motor

-----------------------------------------------------------------------------
(* The steps of the tasks: how they begin and end. *)

rest == <<server, main>>

\* Variant: the thread does not look at the state.
BeginUnchecked(t) ==
  /\ At(t, "begin")
  /\ Goto(t, "setBusy")
  /\ UNCHANGED <<unit, m_state, motor, past>> /\ UNCHANGED rest

Begin(t) ==
  /\ At(t, "begin")
  /\ IF m_state = "error" THEN Becomes(t, Idle) ELSE Goto(t, "setBusy")
  /\ UNCHANGED <<unit, m_state, motor, past>> /\ UNCHANGED rest

SetBusy(t) ==
  /\ At(t, "setBusy")
  /\ Sets("busy")
  /\ Goto(t, CASE task[t].op = "segment" -> "enter"
               [] task[t].op = "scan"    -> "scanPause"
               [] task[t].op = "point"   -> "pause"
               [] task[t].op = "move"    -> "approach")
  /\ UNCHANGED <<unit, motor>> /\ UNCHANGED rest

\* init_segment_task sets sBusy once more, without looking.
Enter(t) ==
  /\ At(t, "enter")
  /\ Sets("busy")
  /\ Goto(t, "pause")
  /\ UNCHANGED <<unit, motor>> /\ UNCHANGED rest

\* Every failure ends with update_state(sError).  One in move_task returns to
\* fire_point_task, which looks at the state; the scan's own returns.
Fail(t) ==
  /\ task[t].pc \in {"fail", "failMove"}
  /\ Sets("error")
  /\ Becomes(t, [Went(task[t], IF At(t, "failMove") /\ task[t].op = "point" THEN "moved" ELSE Home(t))
                  EXCEPT !.failed = TRUE])
  /\ UNCHANGED <<unit, motor>> /\ UNCHANGED rest

Quit(t) ==
  /\ At(t, "quit")
  /\ Sets("error")
  /\ Becomes(t, Idle)
  /\ UNCHANGED <<unit, motor>> /\ UNCHANGED rest

\* A look at the state: where the task goes on an error, and where otherwise.
LookFrom(t, pc, onError, next) ==
  /\ At(t, pc)
  /\ Becomes(t, IF m_state = "error" THEN onError ELSE next)
  /\ UNCHANGED <<unit, m_state, motor, past>> /\ UNCHANGED rest

\* After a segment of a scan: the next one, or the end.
NextSegment(t) ==
  LookFrom(t, "next", Idle,
    IF Len(task[t].plan) > 1 THEN [Went(task[t], "pause") EXCEPT !.plan = Tail(@), !.mine = {}]
                             ELSE Went(task[t], "lastPause"))

\* A point after its move; a segment before its light.
LookMoved(t) == LookFrom(t, "moved", Went(task[t], Home(t)), Went(task[t], "waitFrom"))
Look(t)      == LookFrom(t, "look", Went(task[t], Home(t)), Went(task[t], "light"))

\* The end of the thread: it reports success unless it finds an error.
Finish(t) == LookFrom(t, "done", Idle, Went(task[t], "report"))

Report(t) ==
  /\ At(t, "report")
  /\ Sets("ready")
  /\ Becomes(t, Idle)
  /\ UNCHANGED <<unit, motor>> /\ UNCHANGED rest

-----------------------------------------------------------------------------
(* The laser, driven by a task. *)

\* What pause and resume answer, given how the serial line does.
ResumeGood(u, ok) == u.status = "lasing" \/ (Laser!CanResume(u) /\ ok)
PauseGood(u, ok) ==
  \/ u.status = "pause"
  \/ u.status \in {"standby", "lasing"} /\ u.m_laser /\ u.m_regs /\ ok

PauseThen(t, good, bad) ==
  /\ \E ok \in BOOLEAN : /\ Handle(t, Laser!PauseHandler(unit, ok))
                         /\ Goto(t, IF PauseGood(unit, ok) THEN good ELSE bad)
  /\ UNCHANGED <<m_state, motor>> /\ UNCHANGED rest

ScanPause(t) == At(t, "scanPause") /\ PauseThen(t, "pause", "quit")

Pause(t) ==
  /\ At(t, "pause")
  /\ PauseThen(t, IF task[t].op = "point" THEN "approach" ELSE "moveFrom", "toStandby")

\* Giving up: standby or pause once more, whatever they answer.
ToStandby(t) ==
  /\ At(t, "toStandby")
  /\ \E ok \in BOOLEAN : Handle(t, Laser!StandbyHandler(unit, ok))
  /\ Goto(t, "fail")
  /\ UNCHANGED <<m_state, motor>> /\ UNCHANGED rest

ToPause(t) == At(t, "toPause") /\ PauseThen(t, "fail", "fail")

LightSegment(t) ==
  /\ At(t, "light") /\ task[t].op # "point"
  /\ \E ok, ok2 \in BOOLEAN :
       /\ Handle(t, Laser!ResumeHandler(unit, ok, ok2))
       /\ Goto(t, IF ResumeGood(unit, ok) THEN "moveTo" ELSE "toPause")
  /\ UNCHANGED <<m_state, motor>> /\ UNCHANGED rest

\* fire_discrete_shots: resume, count the shots, pause; it waits for as long as
\* the CIB counts no more shots.
LightPoint(t) ==
  /\ At(t, "light") /\ task[t].op = "point"
  /\ \/ /\ ~(unit.m_laser /\ unit.fire_enable)
        /\ Goto(t, "toPause") /\ UNCHANGED <<unit, past>>
     \/ /\ unit.m_laser /\ unit.fire_enable
        /\ \E ok, ok2 \in BOOLEAN :
             LET resumed == Laser!ResumeHandler(unit, ok, ok2)
             IN  IF ResumeGood(unit, ok)
                 THEN Handle(t, resumed) /\ Goto(t, "shots")
                 ELSE Handle(t, Laser!StandbyHandler(resumed, ok2)) /\ Goto(t, "toPause")
  /\ UNCHANGED <<m_state, motor>> /\ UNCHANGED rest

ShotsDone(t) == At(t, "shots") /\ unit.cib_fire /\ PauseThen(t, "dark", "toPause")

\* Variant: the laser is left to the end of the scan.
DarkSkipped(t) ==
  /\ At(t, "dark")
  /\ Goto(t, Home(t))
  /\ UNCHANGED <<unit, m_state, motor, past>> /\ UNCHANGED rest

\* Variant: a pause that fails is tried again.
DarkRetried(t) == At(t, "dark") /\ PauseThen(t, Home(t), "dark")

\* The end of a segment or of a point.
Dark(t) ==
  /\ At(t, "dark")
  /\ PauseThen(t, Home(t), IF task[t].op = "point" THEN "toStandby" ELSE "toPause")

\* The two pauses at the end of a scan; the second may fail.
LastPause(t) == At(t, "lastPause") /\ PauseThen(t, "parting", "quit")
Parting(t)   == At(t, "parting") /\ PauseThen(t, "done", "done")

-----------------------------------------------------------------------------
(* The motors, driven by a task. *)

\* Variant: d for a rising approach, u for a falling one.
InterimSwapped(m, dest, approach) ==
  CASE motor[m].pos < dest /\ approach = "u" -> dest + Overstep
    [] motor[m].pos > dest /\ approach = "d" -> dest - Overstep
    [] OTHER -> motor[m].pos

\* move_task, one motor after the other: overstep the target when it would
\* be reached from the wrong side, wait, and only then go there.
Interim(m, dest, approach) ==
  CASE motor[m].pos < dest /\ approach = "d" -> dest + Overstep
    [] motor[m].pos > dest /\ approach = "u" -> dest - Overstep
    [] OTHER -> motor[m].pos

\* A motor that need not overstep is left where it is; if it moves, somebody
\* else has sent it.
Approach(t) ==
  LET m       == Axis(t)
      interim == Interim(m, Here(t).from[m], Here(t).approach[m])
      next    == [task[t] EXCEPT !.pc = "overstep", !.interim = interim]
  IN  /\ At(t, "approach")
      /\ IF interim = motor[m].pos
         THEN /\ Becomes(t, [next EXCEPT !.mine = IF AtRest(m) THEN @ \cup {m} ELSE @ \ {m}])
              /\ UNCHANGED motor
         ELSE Move(t, interim, {m}, next, "failMove")
      /\ UNCHANGED <<unit, m_state, past>> /\ UNCHANGED rest

\* The position is asked for first, and the query may fail.
ApproachFails(t) ==
  /\ At(t, "approach")
  /\ Goto(t, "failMove")
  /\ UNCHANGED <<unit, m_state, motor, past>> /\ UNCHANGED rest

\* A move is over when the last motor is told to go: nobody waits for it.
LastLeg(t) ==
  /\ At(t, "lastLeg")
  /\ Move(t, Here(t).from[Axis(t)], {Axis(t)},
          NextAxis([task[t] EXCEPT !.interim = 0], "approach",
                   IF task[t].op = "point" THEN "moved" ELSE "done"),
          "failMove")
  /\ UNCHANGED <<unit, m_state, past>> /\ UNCHANGED rest

MoveFrom(t) ==
  /\ At(t, "moveFrom")
  /\ Move(t, Here(t).from[Axis(t)], {Axis(t)}, NextAxis(task[t], "moveFrom", "waitFrom"), "fail")
  /\ UNCHANGED <<unit, m_state, past>> /\ UNCHANGED rest

\* A failure here leaves the laser as it is.
MoveTo(t) ==
  /\ At(t, "moveTo")
  /\ Move(t, Here(t).to[Axis(t)], {}, NextAxis(task[t], "moveTo", "waitTo"), "fail")
  /\ UNCHANGED <<unit, m_state, past>> /\ UNCHANGED rest

(* wait_for_motor *)

Waits(t)   == task[t].pc \in {"overstep", "waitFrom", "waitTo"}
Awaited(t) == CASE At(t, "overstep") -> task[t].interim
                [] At(t, "waitTo")   -> Here(t).to[Axis(t)]
                [] OTHER             -> Here(t).from[Axis(t)]
Waited(t) ==
  CASE At(t, "overstep") -> [task[t] EXCEPT !.pc = "lastLeg"]
    [] At(t, "waitFrom") -> NextAxis(task[t], "waitFrom",
                                     IF task[t].op = "point" THEN "light" ELSE "look")
    [] At(t, "waitTo")   -> NextAxis(task[t], "waitTo", "dark")

\* Variant: a motor that has stopped has arrived.
WaitStopped(t) ==
  /\ Waits(t) /\ AtRest(Axis(t))
  /\ Becomes(t, Waited(t))
  /\ UNCHANGED <<unit, m_state, motor, past>> /\ UNCHANGED rest

\* The position read is near enough, and the motor seems not to move.
Wait(t) ==
  /\ Waits(t) /\ Near(motor[Axis(t)].pos, Awaited(t))
  /\ Becomes(t, Waited(t))
  /\ UNCHANGED <<unit, m_state, motor, past>> /\ UNCHANGED rest

\* A query that fails leaves the cached position of before, which may be near
\* when the motor no longer is.
Misled(t) ==
  /\ Waits(t) /\ ~Near(motor[Axis(t)].pos, Awaited(t))
  /\ Becomes(t, [Waited(t) EXCEPT !.mine = @ \ {Axis(t)}])
  /\ UNCHANGED <<unit, m_state, motor, past>> /\ UNCHANGED rest

TaskStep(t) ==
  \/ Begin(t) \/ SetBusy(t) \/ Enter(t) \/ Fail(t) \/ Quit(t)
  \/ NextSegment(t) \/ LookMoved(t) \/ Look(t) \/ Finish(t) \/ Report(t)
  \/ ScanPause(t) \/ Pause(t) \/ ToStandby(t) \/ ToPause(t)
  \/ LightSegment(t) \/ LightPoint(t) \/ ShotsDone(t)
  \/ Dark(t) \/ LastPause(t) \/ Parting(t)
  \/ Approach(t) \/ ApproachFails(t) \/ LastLeg(t) \/ MoveFrom(t) \/ MoveTo(t) \/ Wait(t)

-----------------------------------------------------------------------------
(* The methods of the system, called by clients one at a time. *)

Free == server = "free"

\* A thread is new: what a former one did to the laser is not its doing.
Spawn(op, plan) ==
  \E t \in Tasks :
    /\ ~Active(t)
    /\ Becomes(t, [Idle EXCEPT !.op = op, !.plan = plan, !.pc = "begin"])
    /\ past' = [past EXCEPT !.lamp = IF @ = t THEN "others" ELSE @]

\* is_ready() and good_for_operation(): what firing asks of the unit.  The
\* other devices may refuse as well: then nothing happens.
ReadyToFire == Free /\ unit.status \in {"pause", "standby"}

CallFire_segment ==
  /\ ReadyToFire
  /\ \E l \in Segments : Spawn("segment", <<l>>)
  /\ UNCHANGED <<unit, m_state, motor>> /\ UNCHANGED rest

CallExecute_scan ==
  /\ ReadyToFire
  /\ \E plan \in Scans : Spawn("scan", plan)
  /\ UNCHANGED <<unit, m_state, motor>> /\ UNCHANGED rest

\* The CIB is asked again before the thread is started.
CallFire_at_position ==
  /\ ReadyToFire
  /\ \/ \E l \in Targets : Spawn("point", <<l>>) /\ UNCHANGED m_state
     \/ Sets("error") /\ UNCHANGED task
  /\ UNCHANGED <<unit, motor>> /\ UNCHANGED rest

CallMove_to_pos ==
  /\ Free
  /\ \E l \in Targets : Spawn("move", <<l>>)
  /\ UNCHANGED <<unit, m_state, motor>> /\ UNCHANGED rest

\* The devices are configured in the order of their keys, and what was done
\* before a failure stays: attenuator and CIB, the laser, motors and meter.  At
\* the end it looks at the state.
CallLoad_config ==
  /\ Free /\ m_state = "offline"
  /\ \E how \in Laser!ConfigOutcome, ok, good \in BOOLEAN :
       /\ Handle("others", Laser!ConfigHandler(unit, how, ok))
       /\ server' = IF good /\ ~Laser!ConfigFails(unit, how) THEN "ready" ELSE "free"
  /\ UNCHANGED <<m_state, motor, task, main>>

CallWarmup ==
  /\ Free /\ unit.status = "ready"
  /\ \E shut, fire, dark \in BOOLEAN : Handle("others", Laser!StartHandler(unit, shut, fire, dark))
  /\ UNCHANGED <<m_state, motor, task>> /\ UNCHANGED rest

Halted(ms) == [m \in Motors |-> IF m \in ms THEN [motor[m] EXCEPT !.goal = motor[m].pos] ELSE motor[m]]
Moving     == {m \in Motors : ~AtRest(m)}

\* A stop that the unit fails returns before the motors; a motor that does
\* not answer is passed over in silence.
CallStop ==
  /\ Free
  /\ \E ok \in BOOLEAN : Handle("others", Laser!Stop(unit, ok))
  /\ \E ms \in SUBSET (IF unit.m_regs THEN Moving ELSE {}) : motor' = Halted(ms)
  /\ UNCHANGED <<m_state, task>> /\ UNCHANGED rest

\* The system's pause, standby and resume pass the call on; the unit has
\* methods of its own for its shutters.
Called(c, ok, ok2) ==
  CASE c = "pause"         -> Laser!PauseHandler(unit, ok)
    [] c = "standby"       -> Laser!StandbyHandler(unit, ok)
    [] c = "resume"        -> Laser!ResumeHandler(unit, ok, ok2)
    [] c = "shutter"       -> Laser!ForceExtShutter(unit, ok)
    [] c = "laser shutter" -> Laser!SwitchLaserShutter(unit, ok, ok2)

CallUnit ==
  /\ Free
  /\ \E c \in UnitCalls, ok, ok2 \in BOOLEAN : Handle("others", Called(c, ok, ok2))
  /\ UNCHANGED <<m_state, motor, task>> /\ UNCHANGED rest

\* A motor's own methods; a motor that refuses, or does not answer, does nothing.
CallMotorMove ==
  /\ Free
  /\ \E call \in MotorCalls : /\ motor' = [motor EXCEPT ![call[1]].goal = call[2]]
                              /\ task' = Lost(call[1])
  /\ UNCHANGED <<unit, m_state, past>> /\ UNCHANGED rest

CallMotorStop ==
  /\ Free
  /\ \E m \in Moving : motor' = Halted({m})
  /\ UNCHANGED <<unit, m_state, task, past>> /\ UNCHANGED rest

\* The devices are terminated; the tasks are not.
CallShutdown ==
  /\ Free
  /\ \E ok \in BOOLEAN : Handle("others", Laser!Terminate(unit, ok))
  /\ server' = "offline"
  /\ UNCHANGED <<m_state, motor, task, main>>

CallClear_error ==
  /\ Free /\ m_state = "error"
  /\ server' = "clear"
  /\ UNCHANGED <<unit, m_state, motor, task, main, past>>

\* The write that load_config, clear_error or shutdown ends with.
ServerSets ==
  /\ ~Free
  /\ Sets(IF server = "offline" THEN "offline" ELSE "ready")
  /\ server' = "free"
  /\ UNCHANGED <<unit, motor, task, main>>

SystemCall ==
  \/ CallLoad_config \/ CallWarmup \/ CallShutdown \/ CallClear_error \/ ServerSets
  \/ CallStop \/ CallUnit \/ CallMotorMove \/ CallMotorStop
  \/ CallFire_segment \/ CallExecute_scan \/ CallFire_at_position \/ CallMove_to_pos

-----------------------------------------------------------------------------
(* Timers, motors and the main loop. *)

MotorStep(m) ==
  /\ ~AtRest(m)
  /\ motor' = [motor EXCEPT ![m].pos = IF @ < motor[m].goal THEN @ + 1 ELSE @ - 1]
  /\ UNCHANGED <<unit, m_state, task, past>> /\ UNCHANGED rest

\* A timer thread of the unit acts, one of a state it may have left long ago
\* included: the one of pause asks for standby, the one of standby stops.
UnitTimer ==
  /\ \E ok \in BOOLEAN :
       \/ Handle("others", Laser!StandbyHandler(unit, ok))
       \/ unit.status = "warmup" /\ Handle("others", Laser!SetStatus(unit, "standby"))
       \/ Handle("others", Laser!Stop(unit, ok))
  /\ UNCHANGED <<m_state, motor, task>> /\ UNCHANGED rest

\* update() passes the state to the method that sets it: it writes back what
\* it has read.
MainReads ==
  /\ main = NoEcho /\ m_state \in Echoes
  /\ main' = m_state
  /\ UNCHANGED <<unit, m_state, motor, task, server, past>>

MainSays ==
  /\ main # NoEcho
  /\ Sets(main)
  /\ main' = NoEcho
  /\ UNCHANGED <<unit, motor, task, server>>

Init ==
  /\ unit = Laser!Constructed(FALSE, FALSE, FALSE)
  /\ m_state = "offline"
  /\ motor = [m \in Motors |-> [pos |-> 0, goal |-> 0]]
  /\ task = [t \in Tasks |-> Idle]
  /\ server = "free"
  /\ main = NoEcho
  /\ past = [lamp |-> "others", missed |-> {}]

Next ==
  \/ \E t \in Tasks : TaskStep(t) \/ Misled(t)
  \/ \E m \in Motors : MotorStep(m)
  \/ UnitTimer
  \/ SystemCall
  \/ MainReads \/ MainSays

Spec == Init /\ [][Next]_vars

\* Threads run, motors travel and answer sooner or later; nobody has to call, no
\* timer has to act, no query has to fail.
Fairness ==
  /\ \A t \in Tasks : WF_vars(TaskStep(t))
  /\ \A m \in Motors : WF_vars(MotorStep(m))

FairSpec == Spec /\ Fairness

-----------------------------------------------------------------------------
(* Properties. *)

Between(x, a, b) == \/ a - Tolerance <= x /\ x <= b + Tolerance
                    \/ b - Tolerance <= x /\ x <= a + Tolerance

\* A task that fires along a segment has the beam inside of the segment from
\* the moment it asks for light until it has asked for dark, and fires its shots
\* with every motor at the point, as near as wait_for_motor wants it: whatever
\* clients, timers, failing devices and other tasks do to the laser and the
\* state meanwhile, for all motors that nobody else has sent.
FiresWhereAsked ==
  \A t \in Tasks : \A m \in task[t].mine :
    /\ task[t].pc \in {"moveTo", "waitTo", "dark"} /\ task[t].op # "point" =>
         Between(motor[m].pos, Here(t).from[m], Here(t).to[m])
    /\ task[t].pc = "shots" => Near(motor[m].pos, Here(t).from[m])

\* A task that reports success, and has not failed on its way, has not left on
\* the light that it let out: if there is light then somebody else lit it later.
SuccessIsDark ==
  [][\A t \in Tasks :
       At(t, "report") /\ ~At(t, "report")' /\ ~task[t].failed /\ Laser!Beam' => past'.lamp # t]_vars

\* An error stays until clear_error or shutdown, but for the second
\* update_state(sBusy) of a segment and for those who had looked at the state
\* before the error came.  Who looks while it is there does not overwrite it.
Acts(x) == IF x = "server" THEN server' # server
           ELSE IF x = "main" THEN main' # main ELSE task'[x] # task[x]
ErrorSticks ==
  [][m_state = "error" /\ m_state' # "error" =>
       \/ server \in {"clear", "offline"} /\ Acts("server")
       \/ \E t \in Tasks : At(t, "enter") /\ Acts(t)
       \/ \E x \in past.missed : Acts(x)]_vars

\* A motor that a move or a point leaves at its target came from the side it
\* was asked to come from: its last leg goes that way, or nowhere, unless
\* somebody else has sent it meanwhile.
ApproachRespected ==
  [][\A t \in Tasks :
       /\ At(t, "lastLeg") /\ ~At(t, "lastLeg")'
       /\ Axis(t) \in task[t].mine
       /\ motor' # motor
       => LET m == Axis(t)
          IN  Here(t).approach[m] \in {"-", IF motor'[m].goal > motor[m].pos THEN "u" ELSE "d"}]_vars

\* What can keep a task for ever: a motor sent, or stopped, elsewhere than where
\* the task waits for it, or a CIB that does not fire and so counts no shots.
Stranded(t) ==
  \/ Waits(t) /\ ~Near(motor[Axis(t)].goal, Awaited(t))
  \/ At(t, "shots") /\ ~unit.cib_fire

\* Nothing else does: every task comes to its end.
TaskEnds == \A t \in Tasks : Active(t) ~> ~Active(t) \/ Stranded(t)

\* segment_task, when a motor refuses to set out along the segment: "nothing is
\* being done, so just terminate this task".
AbortIsDark ==
  [][\A t \in Tasks : At(t, "moveTo") /\ At(t, "fail")' => ~Laser!Beam']_vars
==============================================================================
