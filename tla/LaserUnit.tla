------------------------------ MODULE LaserUnit ------------------------------
(***************************************************************************)
(* The laser unit of the ionization laser system (DIoLLaserUnit): a        *)
(* pulsed laser reached over a serial line, two shutters, and the CIB      *)
(* registers that let the laser fire (fire_enable) and the Q-switch open   *)
(* (qswitch_enable).  Light leaves the system when the laser is fired, the *)
(* Q-switch is on and both the laser's own shutter and the external one    *)
(* are open.                                                               *)
(*                                                                         *)
(* A handler is one action, with every call it makes: the server executes  *)
(* its method calls one at a time, and the scan tasks of the laser system  *)
(* call the same methods.  The three wind-down timers are detached threads *)
(* that read the state, sleep and act: they are separate actions.  A       *)
(* serial command may fail (the driver throws), and then did nothing.      *)
(* Handlers are operators from a state of the unit to the next one,        *)
(* because they call each other: stop forces the shutter, resume falls     *)
(* back to standby, a failed configuration terminates.                     *)
(***************************************************************************)
EXTENDS Naturals

CONSTANT MaxTimers   \* bounds the timer threads of each kind alive at once

VARIABLES unit,      \* the members of DIoLLaserUnit, and the CIB registers it writes
          proc,      \* the server process: running, hung on its own mutex, aborted
          shots      \* a task thread is inside the loop of fire_discrete_shots

vars == <<unit, proc, shots>>

\* sError is left out: the unit reaches it only when the map of the CIB's
\* memory regions has no entry, and the constructor always inserts four.
Status == {"offline", "ready", "warmup", "lasing", "pause", "standby"}

\* Entering one of these states starts a timer thread for it.
Timed == {"pause", "standby", "warmup"}

ASSUME MaxTimersAssumption == MaxTimers \in [Timed -> Nat \ {0}]

\* The serial driver did what it was told, or threw.
Serial == BOOLEAN

Unit == [status: Status,
         m_laser: BOOLEAN,                \* there is a driver object
         m_regs: BOOLEAN,                 \* the CIB registers are mapped by name
         ext_shutter_closed: BOOLEAN,     \* m_part_state, the cached view
         laser_shutter_closed: BOOLEAN,
         qswitch_enable: BOOLEAN,
         fire_enable: BOOLEAN,
         cib_shutter: BOOLEAN,            \* the registers themselves
         cib_qswitch: BOOLEAN,
         cib_fire: BOOLEAN,
         m_is_terminating: BOOLEAN,
         m_config_completed: BOOLEAN,
         sleeping: [Timed -> Nat],        \* timer threads in their polling loop
         due: [Timed -> Nat]]             \* ... past their last poll, about to act

\* A freshly constructed unit; what the registers hold is not its to choose.
Constructed(shutter, qswitch, fire) ==
  [status |-> "offline", m_laser |-> FALSE, m_regs |-> FALSE,
   ext_shutter_closed |-> FALSE, laser_shutter_closed |-> TRUE,
   qswitch_enable |-> FALSE, fire_enable |-> FALSE,
   cib_shutter |-> shutter, cib_qswitch |-> qswitch, cib_fire |-> fire,
   m_is_terminating |-> FALSE, m_config_completed |-> FALSE,
   sleeping |-> [k \in Timed |-> 0], due |-> [k \in Timed |-> 0]]

-----------------------------------------------------------------------------
(* The primitives every handler is made of. *)

\* Variant: pause does not start its timer.
SetStatusNoPauseTimer(u, s) ==
  IF u.status = s THEN u
  ELSE IF s \in Timed \ {"pause"}
       THEN [u EXCEPT !.status = s, !.sleeping[s] = @ + 1]
       ELSE [u EXCEPT !.status = s]

SetStatus(u, s) ==
  IF u.status = s THEN u
  ELSE IF s \in Timed
       THEN [u EXCEPT !.status = s, !.sleeping[s] = @ + 1]
       ELSE [u EXCEPT !.status = s]

SetExtShutter(u, closed) == [u EXCEPT !.ext_shutter_closed = closed, !.cib_shutter = closed]
SetQswitch(u, on)        == [u EXCEPT !.qswitch_enable = on, !.cib_qswitch = on]
SetFire(u, on)           == [u EXCEPT !.fire_enable = on, !.cib_fire = on]

\* Both are refused without a driver object, and leave the cached view alone
\* when the driver throws.
CloseLaserShutter(u, ok) ==
  IF u.m_laser /\ ok THEN [u EXCEPT !.laser_shutter_closed = TRUE] ELSE u
OpenLaserShutter(u, ok) ==
  IF u.m_laser /\ ok THEN [u EXCEPT !.laser_shutter_closed = FALSE] ELSE u

-----------------------------------------------------------------------------
(* The handlers.  Writing a register that is not mapped throws: std::map::at *)
(* is the first thing the setters do.                                        *)

\* Variant: the states for an open shutter taken the wrong way round.
ForceExtShutterSwapped(u, close) ==
  IF close = u.ext_shutter_closed \/ ~u.m_regs THEN u
  ELSE SetStatus(SetExtShutter(u, close),
         CASE ~u.fire_enable           -> "ready"
           [] u.fire_enable /\ close   -> "standby"
           [] u.fire_enable /\ ~close  -> IF u.laser_shutter_closed THEN "pause" ELSE "lasing")

ForceExtShutter(u, close) ==
  IF close = u.ext_shutter_closed \/ ~u.m_regs THEN u
  ELSE SetStatus(SetExtShutter(u, close),
         CASE ~u.fire_enable                            -> "ready"
           [] u.fire_enable /\ close                    -> "pause"
           [] u.fire_enable /\ ~close /\ u.laser_shutter_closed  -> "standby"
           [] u.fire_enable /\ ~close /\ ~u.laser_shutter_closed -> "lasing")

Stop(u, ok) ==
  IF ~u.m_regs THEN u
  ELSE LET shut == ForceExtShutter(u, TRUE)
           off  == SetFire(SetQswitch(shut, FALSE), FALSE)
           dark == CloseLaserShutter(off, ok)
       IN  SetStatus(ForceExtShutter(dark, FALSE), "ready")

\* Variant: the registers are left to the next configuration.
TerminateKeepsFire(u, ok) ==
  IF u.status = "offline" THEN [u EXCEPT !.m_laser = FALSE, !.m_is_terminating = TRUE]
  ELSE [SetStatus(CloseLaserShutter(u, ok), "offline") EXCEPT !.m_laser = FALSE]

\* In the two early returns m_is_terminating stays set, and so it does when
\* the registers are not mapped and the first write throws.
Terminate(u, ok) ==
  IF u.status = "offline" THEN [u EXCEPT !.m_laser = FALSE, !.m_is_terminating = TRUE]
  ELSE IF ~u.m_regs THEN [u EXCEPT !.m_is_terminating = TRUE]
  ELSE LET off  == SetExtShutter(SetFire(SetQswitch(u, FALSE), FALSE), FALSE)
           dark == CloseLaserShutter(off, ok)
       IN  [SetStatus(dark, "offline") EXCEPT
              !.m_laser = FALSE, !.m_config_completed = FALSE, !.m_is_terminating = FALSE]

StandbyHandler(u, ok) ==
  IF ~(u.status \in {"lasing", "pause"} /\ u.m_laser /\ u.m_regs) THEN u
  ELSE LET dark == CloseLaserShutter(SetQswitch(u, FALSE), ok)
       IN  SetStatus(SetExtShutter(dark, TRUE),
                     IF u.fire_enable THEN "standby" ELSE "ready")

\* Variant: pause relies on the Q-switch and leaves the external shutter open.
PauseKeepsShutter(u, ok) ==
  IF ~(u.status \in {"standby", "lasing"} /\ u.m_laser /\ u.m_regs /\ ok) THEN u
  ELSE SetStatus(SetQswitch(OpenLaserShutter(u, TRUE), TRUE),
                 IF u.fire_enable THEN "pause" ELSE "ready")

PauseHandler(u, ok) ==
  IF ~(u.status \in {"standby", "lasing"} /\ u.m_laser /\ u.m_regs) THEN u
  ELSE LET shut == SetExtShutter(u, TRUE)
       IN  IF ~ok THEN shut
           ELSE IF u.fire_enable
           THEN SetStatus(SetQswitch(OpenLaserShutter(shut, TRUE), TRUE), "pause")
           ELSE SetStatus(OpenLaserShutter(shut, TRUE), "ready")

\* resume opens the laser's shutter, then the external one; when the first
\* fails it falls back to standby, whose own command may fail too.
CanResume(u) == u.status \in {"pause", "standby"} /\ u.m_laser /\ u.fire_enable

ResumeHandler(u, ok, ok2) ==
  IF ~CanResume(u) THEN u
  ELSE IF ok THEN SetStatus(SetExtShutter(OpenLaserShutter(u, TRUE), FALSE), "lasing")
             ELSE StandbyHandler(u, ok2)

\* Opening opens the shutter before the Q-switch register is written, so an
\* unmapped register stops it half-way.
SwitchLaserShutter(u, close, ok) ==
  IF u.status = "offline" \/ ~u.m_laser THEN u
  ELSE IF close
  THEN IF ~u.m_regs THEN u
       ELSE LET dark == SetStatus(CloseLaserShutter(SetQswitch(u, FALSE), ok), "standby")
            IN  IF u.ext_shutter_closed THEN SetExtShutter(dark, FALSE) ELSE dark
  ELSE LET opened == OpenLaserShutter(u, ok)
       IN  IF ~u.m_regs THEN opened
           ELSE SetStatus(SetQswitch(opened, TRUE),
                  CASE ~u.fire_enable -> "ready"
                    [] u.fire_enable /\ u.ext_shutter_closed  -> "pause"
                    [] u.fire_enable /\ ~u.ext_shutter_closed -> "lasing")

\* Variant: the CIB fires before the laser is told to, and what fails leaves it so.
StartHandlerFiresFirst(u, shut, fire, dark) ==
  IF ~(u.m_laser /\ u.status = "ready" /\ u.m_regs) THEN u
  ELSE LET closed == SetFire(CloseLaserShutter(SetQswitch(u, FALSE), shut), TRUE)
       IN  IF ~shut THEN closed
           ELSE IF ~fire THEN Stop(closed, dark)
           ELSE SetStatus(SetExtShutter(closed, TRUE), "warmup")

\* The laser is told to close its shutter (shut), then to fire (fire); a
\* failure of the second stops everything (dark).
StartHandler(u, shut, fire, dark) ==
  IF ~(u.m_laser /\ u.status = "ready" /\ u.m_regs) THEN u
  ELSE LET closed == CloseLaserShutter(SetQswitch(u, FALSE), shut)
       IN  IF ~shut THEN closed
           ELSE IF ~fire THEN Stop(closed, dark)
           ELSE LET safe == IF u.ext_shutter_closed THEN closed ELSE SetExtShutter(closed, TRUE)
                IN  SetStatus(SetFire(safe, TRUE), "warmup")

\* How a configuration document fares: rejected by the checks, no laser at the
\* port (the driver's constructor throws), registers that cannot be mapped, a
\* setting the laser or the CIB refuses, or accepted.
ConfigOutcome == {"rejected", "noLaser", "badMap", "badValue", "accepted"}

\* A driver object was built.
Connected(u) == SetStatus([u EXCEPT !.m_laser = TRUE], "ready")

\* What follows: the map of the registers, then the settings.
Configured(u, how, ok) ==
  LET mapped == [u EXCEPT !.m_regs = TRUE]
  IN  CASE how = "badMap"   -> SetStatus([u EXCEPT !.m_regs = FALSE], "offline")
        [] how = "badValue" -> Terminate(mapped, ok)
        [] how = "accepted" -> [mapped EXCEPT !.m_config_completed = TRUE]

ConfigRefused(u, how) == u.status # "offline" \/ u.m_laser \/ how = "rejected"

ConfigHandler(u, how, ok) ==
  IF ConfigRefused(u, how) THEN u
  ELSE IF how = "noLaser" THEN Terminate(u, ok)
  ELSE Configured(Connected(u), how, ok)

\* callConfig answers every failure with terminate, "not offline" included.
ConfigFails(u, how) == u.status # "offline" \/ u.m_laser \/ how # "accepted"

\* The outcomes of connecting again with the settings kept from before.
InitOutcome == {"noLaser", "badValue", "accepted"}

\* A setting that fails, or a register that is not mapped, ends it.
Initialised(u, how, ok) == IF how = "accepted" /\ u.m_regs THEN u ELSE Terminate(u, ok)

InitHandler(u, how, ok) ==
  IF u.status # "offline" \/ how = "noLaser" THEN Terminate(u, ok)
  ELSE Initialised(Connected(u), how, ok)

-----------------------------------------------------------------------------
(* The actions: calls of a client or of the laser system, and threads. *)

TimersFit(u) == \A k \in Timed : u.sleeping[k] + u.due[k] <= MaxTimers[k]

\* A handler runs to its end; the timers it starts fit in the bound.
Do(next) ==
  /\ proc = "running"
  /\ TimersFit(next)
  /\ unit' = next
  /\ UNCHANGED <<proc, shots>>

\* The laser system configures the unit as part of its own configuration.
SystemConfig == \E how \in ConfigOutcome, ok \in Serial : Do(ConfigHandler(unit, how, ok))

CallConfig ==
  \E how \in ConfigOutcome, ok, ok2 \in Serial :
    LET next == ConfigHandler(unit, how, ok)
    IN  Do(IF ConfigFails(unit, how) THEN Terminate(next, ok2) ELSE next)

CallInit == \E how \in InitOutcome, ok \in Serial : Do(InitHandler(unit, how, ok))

CallStop      == \E ok \in Serial : Do(Stop(unit, ok))
CallTerminate == \E ok \in Serial : Do(Terminate(unit, ok))
CallPause     == \E ok \in Serial : Do(PauseHandler(unit, ok))
CallStandby   == \E ok \in Serial : Do(StandbyHandler(unit, ok))
CallResume    == \E ok, ok2 \in Serial : Do(ResumeHandler(unit, ok, ok2))
CallStartCib  == \E shut, fire, dark \in Serial : Do(StartHandler(unit, shut, fire, dark))
CallSwitchLaserShutter ==
  \E close \in BOOLEAN, ok \in Serial : Do(SwitchLaserShutter(unit, close, ok))
CallForceExtShutter == \E close \in BOOLEAN : Do(ForceExtShutter(unit, close))

\* A shot that the driver refuses calls standby with m_serial_mutex held;
\* standby takes it again to close the shutter.  (A shot that succeeds leaves
\* the unit as it was.)
SingleShotFails ==
  /\ proc = "running"
  /\ unit.m_laser /\ unit.status = "ready"
  /\ ~unit.laser_shutter_closed /\ ~unit.ext_shutter_closed
  /\ IF unit.m_regs
     THEN /\ unit' = SetQswitch(SetStatus(unit, "lasing"), FALSE)
          /\ proc' = "hung"
     ELSE /\ unit' = SetStatus(unit, "lasing")
          /\ UNCHANGED proc
  /\ UNCHANGED shots

\* fire_discrete_shots resumes, counts the CIB's shots, and pauses; when it
\* cannot resume it falls back to standby.
FireDiscreteShots ==
  /\ proc = "running" /\ ~shots
  /\ unit.m_laser /\ unit.fire_enable
  /\ \E ok, ok2 \in Serial :
       LET good    == unit.status = "lasing" \/ (CanResume(unit) /\ ok)
           resumed == ResumeHandler(unit, ok, ok2)
           next    == IF good THEN resumed ELSE StandbyHandler(resumed, ok2)
       IN  TimersFit(next) /\ unit' = next /\ shots' = good
  /\ UNCHANGED proc

\* The counter the loop waits for advances only while the CIB fires.
ShotsCounted ==
  /\ shots /\ unit.cib_fire /\ proc = "running"
  /\ \E ok \in Serial :
       LET next == PauseHandler(unit, ok)
       IN  TimersFit(next) /\ unit' = next
  /\ shots' = FALSE
  /\ UNCHANGED proc

\* Variant: fire_state is not read back.
UpdateWithoutFire ==
  /\ ~unit.m_is_terminating /\ unit.m_config_completed
  /\ unit.status # "offline" /\ unit.m_regs
  /\ Do([unit EXCEPT !.ext_shutter_closed = unit.cib_shutter,
                     !.qswitch_enable = unit.cib_qswitch])

\* The main loop's update reads the registers back into the cached view.
Update ==
  /\ ~unit.m_is_terminating /\ unit.m_config_completed
  /\ unit.status # "offline" /\ unit.m_regs
  /\ Do([unit EXCEPT !.ext_shutter_closed = unit.cib_shutter,
                     !.qswitch_enable = unit.cib_qswitch,
                     !.fire_enable = unit.cib_fire])

\* What a timer thread of kind k wants to see each time it wakes up.
KeepsWaiting(u, k) == IF k = "pause" THEN u.ext_shutter_closed ELSE u.status = k

TimerGivesUp(k) ==
  /\ unit.sleeping[k] > 0 /\ ~KeepsWaiting(unit, k)
  /\ Do([unit EXCEPT !.sleeping[k] = @ - 1])

\* The last poll before the timeout; the thread sleeps once more.
TimerLastPoll(k) ==
  /\ unit.sleeping[k] > 0 /\ KeepsWaiting(unit, k)
  /\ Do([unit EXCEPT !.sleeping[k] = @ - 1, !.due[k] = @ + 1])

TimerPolls(k) == TimerGivesUp(k) \/ TimerLastPoll(k)

\* Variant: the wrong counter of threads.
WokenFromPolls(k) == [unit EXCEPT !.sleeping[k] = @ - 1]

Woken(k) == [unit EXCEPT !.due[k] = @ - 1]

PauseTimeout == unit.due["pause"] > 0 /\ \E ok \in Serial : Do(StandbyHandler(Woken("pause"), ok))
WarmupComplete ==
  /\ unit.due["warmup"] > 0
  /\ Do(IF unit.status = "warmup" THEN SetStatus(Woken("warmup"), "standby") ELSE Woken("warmup"))

StandbyTimeout == unit.due["standby"] > 0 /\ unit.m_regs /\ \E ok \in Serial : Do(Stop(Woken("standby"), ok))

\* stop throws in a thread that has no handler for it: std::terminate.
StandbyTimeoutAborts ==
  /\ proc = "running" /\ unit.due["standby"] > 0 /\ ~unit.m_regs
  /\ proc' = "aborted"
  /\ UNCHANGED <<unit, shots>>

\* systemd starts the server again after it died, at any moment.  The
\* registers keep what they held; the new unit assumes the defaults.
Restart ==
  /\ unit' = Constructed(unit.cib_shutter, unit.cib_qswitch, unit.cib_fire)
  /\ proc' = "running"
  /\ shots' = FALSE

Init ==
  /\ unit = Constructed(FALSE, FALSE, FALSE)
  /\ proc = "running"
  /\ shots = FALSE

Call ==
  \/ SystemConfig \/ CallConfig \/ CallInit
  \/ CallStop \/ CallTerminate
  \/ CallPause \/ CallStandby \/ CallResume \/ CallStartCib
  \/ CallSwitchLaserShutter \/ CallForceExtShutter
  \/ SingleShotFails \/ FireDiscreteShots \/ ShotsCounted

Timer ==
  \/ \E k \in Timed : TimerPolls(k)
  \/ PauseTimeout \/ WarmupComplete \/ StandbyTimeout \/ StandbyTimeoutAborts

Next == Call \/ Timer \/ Update

Spec == Init /\ [][Next]_vars

\* The timer threads keep running; nobody has to call.  A thread polls a
\* bounded number of times, so it gives up or comes to its last poll.
Fairness ==
  /\ \A k \in Timed : WF_vars(TimerPolls(k))
  /\ WF_vars(PauseTimeout) /\ WF_vars(WarmupComplete) /\ WF_vars(StandbyTimeout)

FairSpec == Spec /\ Fairness

\* The same unit under a server that may die and come back.  The main loop
\* updates it every half second.
RestartSpec == Init /\ [][Next \/ Restart]_vars /\ WF_vars(Update)

-----------------------------------------------------------------------------
(* Properties. *)

\* Every member has its type; the timers of each kind stay in the bound.
TypeOK ==
  /\ unit \in Unit
  /\ TimersFit(unit)
  /\ proc \in {"running", "hung", "aborted"}
  /\ shots \in BOOLEAN

\* Light comes out: the CIB fires, the Q-switch and both shutters are open.
Beam == /\ unit.cib_fire /\ unit.cib_qswitch
        /\ ~unit.cib_shutter /\ ~unit.laser_shutter_closed

\* No history of calls, failed serial commands and timers lets light out in a
\* state other than lasing: what a client reads is what the hardware does.
EmissionOnlyWhenLasing == Beam => unit.status = "lasing"

\* A paused unit keeps the external shutter closed, which is also all that its
\* timer looks at: paused with the shutter open would last for ever.
PauseBlocksBeam == unit.status = "pause" => unit.cib_shutter

\* The CIB is never left firing by a unit that has lost its driver object, and
\* with it the ability to stop the laser or to leave pause and standby.
FireNeedsLaser == unit.cib_fire => unit.m_laser /\ unit.m_regs

\* The unit implements the promise of module Light, step by step: every handler
\* with all it calls, every failure on the way, and every timer, is one of its
\* steps or none.
Report == CASE unit.status \in {"offline", "ready"} -> "idle"
            [] unit.status = "lasing" -> "lasing"
            [] OTHER -> "armed"
Promise == INSTANCE Light WITH fire <- unit.cib_fire, light <- Beam, report <- Report
LightPromised == Promise!Spec

\* Paused, on standby or warming up is never for ever: each ends by a call or
\* by its timer, although threads of earlier visits are still about, a handler
\* may fail on the serial line and a timer may see its state come and go.
TimedStatesEnd == \A k \in Timed : unit.status = k ~> unit.status # k

\* Whatever a crashed server left in the registers, a unit that is configured
\* and monitored comes to show it.
Monitored == /\ proc = "running" /\ unit.m_config_completed /\ ~unit.m_is_terminating
             /\ unit.status # "offline"
InSync == /\ unit.ext_shutter_closed = unit.cib_shutter
          /\ unit.qswitch_enable = unit.cib_qswitch
          /\ unit.fire_enable = unit.cib_fire
MonitoredSyncs == Monitored ~> (InSync \/ ~Monitored)

==============================================================================
