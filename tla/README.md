# The ionization laser server, in TLA+

Models, model-checking runs and proofs for the slow-control server of the
ionization laser system (IoLS). The server speaks OPC-UA to its clients and
drives a pulsed laser (serial line), three motors (HTTP), an attenuator and a
power meter (USB serial), and the CIB, an FPGA board whose registers, mapped
into memory, fire the laser. All line numbers refer to the files of this
repository.

## The system

| Component | Its state | Its operations | Talks to |
|---|---|---|---|
| Laser unit, `DIoLLaserUnit` | status (offline, ready, warmup, lasing, pause, standby), driver object, cached view of shutters, Q-switch and fire, timers | config, init, start_cib, pause, standby, resume, stop, terminate, the two shutter methods, shots | the laser by serial line, the CIB by registers |
| Laser system, `DIoLaserSystem` | state (offline, ready, busy, error), the message queue, running task threads | load_config, warmup, fire_segment, execute_scan, execute_grid_scan, fire_at_position, move_to_pos, stop, pause, standby, resume, shutdown, clear_error | calls the methods of every device, from the server's thread and from its tasks |
| Motor, `DIoLMotor` | cached position and speed, set point, range, three monitor threads | config, move, stop, terminate | a motor controller by HTTP, position registers of the CIB |
| CIB, `DIoLCIB` | mapped memory regions and registers | config, readiness of the timing link, DAC threshold, queues and pulse widths | registers, I2C |
| Attenuator, `DIoLAttenuator` | driver object, transmission, position | connection, set transmission and position, stop | serial line |
| Power meter, `DIoLPowerMeter` | driver object, settings, reading thread | init, config, start and stop readings, terminate | serial line |
| Piezo controller | none | a stub | |
| Server | main loop, thread pool, shutdown | update of every device each half second | systemd restarts it when it fails |
| quasar framework (address space, configuration, calculated variables, logging, meta) | generated or third-party | | |
| Clients, tests | a console client; programs that print structures | | |

Method calls of clients are synchronous and come one at a time, from the one
server thread (`src/Server/src/BaseQuasarServer.cpp:170`). Beside it run the main
loop, which updates every device in the main thread (line 177 and
`src/Server/src/QuasarServer.cpp:53`), a detached thread for each task of the laser
system, a detached thread for each timer of the laser unit, and the monitors of
motors and power meter. Few locks protect what they share.

What is hard here: calls of clients, tasks and timers meet in any order; serial
and HTTP commands fail half-way through a handler; timers act on a state they
saw a while ago; tasks wait without a timeout; the server dies with the laser
firing. `PROJECT.json` lists the hazards at their lines.

What makes each part correct:

- laser unit: light leaves the system in state lasing only; an idle unit does
  not fire; pause, standby and warmup end; a restarted server comes to see what
  the registers hold; a stop is final, and repairs what handlers that met left;
- laser system: a task has the beam inside of its segment while it fires, fires
  its shots at the point, ends dark or in error, and ends at all; errors stay
  until cleared;
- grid scan: the segments cover the grid asked for, once, in the order asked for;
- motors: the CIB holds the motor's position; the cached position catches up;
  a monitor is started once and ends when it is stopped;
- power meter and attenuator: no use of a driver object that is gone, one
  reading thread, settings that survive a reset;
- CIB: the threshold that was set stays; a configuration without its registers is
  not accepted;
- a configuration of the whole: reported good it means that all parts work, and
  what one that failed left behind does not bar the next;
- thread pool: every accepted job is taken once and in order, no job waits for
  workers that all sleep, and the destructor returns.

## The modules

**LaserUnit** is the laser unit. `unit` is a record of the members of the class
and of the three registers it writes, so that the cached view
(`ext_shutter_closed`, `qswitch_enable`, `fire_enable`) and the hardware
(`cib_shutter`, `cib_qswitch`, `cib_fire`) may differ. A handler is an operator
from one such record to the next, because handlers call each other (stop forces
the shutter, resume falls back to standby, a failed callConfig terminates), and
each method is an action that applies it with an outcome for every serial
command. A command that throws is taken to have done nothing. `update_status`
starts a timer thread on entering pause, standby or warmup: `sleeping` counts
the threads of a kind that are polling, `due` those past their last poll, which
will act whatever the state is by then. The setters of registers throw when the
registers are not mapped; a map that fails half-way counts as not mapped.
`proc` says whether the server runs, hangs on its own mutex (a refused single
shot) or aborted (an exception in a timer thread).

| Code | Model |
|---|---|
| `update_status` and the `start_*_timer` threads | `SetStatus`; `TimerPolls`, `PauseTimeout`, `WarmupComplete`, `StandbyTimeout` |
| `pause`, `standby`, `resume`, `stop`, `start_cib`, `terminate` | `PauseHandler` ... `Terminate`, and `Call...` |
| `switch_laser_shutter`, `force_ext_shutter` | `SwitchLaserShutter`, `ForceExtShutter` |
| `config`, `callConfig`, `init` | `ConfigHandler` with an outcome, `CallConfig`, `SystemConfig`, `InitHandler` |
| `single_shot`, `fire_discrete_shots` | `SingleShotFails`, `FireDiscreteShots`, `ShotsCounted` |
| `update` in the main loop, systemd | `Update`, `Restart` |

**Light** is what the unit promises to somebody who sees its status only: the
laser begins to fire under a status that is neither idle nor lasing, and in the
dark; while it fires the status is not idle, and light means lasing; it ends
idle and dark. LaserUnit implements it with the register of fire, the beam and
three classes of status.

**LaserRace** is the laser unit once more, with the handlers in steps: a thread
(the server's, a task's, a timer's, the main loop) has a sequence of steps it
has yet to do, each of which writes a register, keeps a flag, commands the
laser, sets the status, or looks at the flags and chooses what follows. The flags
of `m_part_state` are bits of one byte, so to keep one is to load the byte in one
step and to store it in the next. The unit is configured and stays so. `past` is
history: how often handlers have met since the last stop that ran alone, and
whether a start began after the last stop.

**LaserSystem** is the laser system with its tasks. It uses the handlers of
LaserUnit by INSTANCE. A task is a record with its operation, the plan that is
left, what it does next (`pc`) and the motor it is at; each call to a device, each
look at `m_state` and each write of it is an action of its own, because no lock
joins a look to the write that follows. A motor has a position and a goal, and is
at rest when they agree; `wait_for_motor` is content within `Tolerance` steps (10
in the code). The timers of the unit are abstracted to "may act at any time",
which includes all they do in LaserUnit and needs no bound: so what is shown here
holds whatever the timeouts are. Clients use the methods of the system, those of
the unit (`UnitCalls`) and those of the motors (`CallMotorMove`, `CallMotorStop`)
meanwhile, and the main loop says the state it read again (`MainReads`,
`MainSays`). Four things are history: the motors that a task sent itself and
nobody else since (`mine`), whether it set sError (`failed`), who let out the
light there is (`lamp`), and who had looked at the state before the error came
(`missed`).

| Code | Model |
|---|---|
| `init_segment_task`, `segment_task` | `Begin`, `SetBusy`, `Enter`, `Pause`, `MoveFrom`, `Wait`, `Look`, `LightSegment`, `MoveTo`, `Dark` |
| `init_scan_task` | `ScanPause`, the segment, `NextSegment`, `LastPause`, `Parting` |
| `init_fire_point_task`, `fire_point_task`, `move_task` | `Pause`, `Approach`, `LastLeg`, `LookMoved`, `LightPoint`, `ShotsDone`, `Dark` |
| the end of every task | `Fail` or `Quit`; `Finish`, `Report` |
| the methods, `update` | `Call...` and `ServerSets`; `MainReads`, `MainSays` |

**GridScan** is execute_grid_scan: three loops in words of 2 * `Half`
values (2^32 in the code), an action an iteration, and the segments made of what they found.

**Motor** is one motor, between the server's thread, a thread that moves it, and
its monitors. `motor` and `cib` are the hardware: the motor steps towards its
goal, and the CIB counts in the direction it was told, in a register that wraps.
A move is three actions after its checks (`MoveAims`, `MoveLoads`, `MoveSent`),
since the cached position is read again for each and anything may come between;
so are the two halves of a stop and of a configuration, and the question and the
storing of a monitor. A configuration need not map every register: the one that
loads a position is not mandatory and may be switched off with -1
(`src/Device/src/DIoLMotor.cpp:1411`, 1479), which `Fragments` stands for.
`synced` is history: the last position loaded into the CIB was true. Whether a
motor seems to be at rest is left free, because a query that fails leaves the
last judgement standing.

| Code | Model |
|---|---|
| `move_wrapper`, `motor_move` | `MoveCalled`; `MoveAims`, `MoveLoads`, `MoveSent` |
| `motor_position_monitor`, `motor_stats_monitor`, `cib_movement_monitor` | `MonitorAsks` ... `MonitorEnds`, `MonitorAborts`; a thread is a slot of its kind |
| `config`, `map_registers` | `ConfigMaps`, `ConfigFails`, `ConfigCompletes` |
| `motor_stop`, `terminate`, `set_refresh_period(0)` | `StopSent`, `StopLoads`; `Terminate`, `RefreshOff` |
| `get_position_motor` of the tasks | `PositionRead` |

**PowerMeter** is the life of the driver object of the power meter and of the
threads that take readings with it. A method that deletes the object is a
sequence of actions (`server` holds what is left of it), and a reading thread
goes through its look at the flag, its look at the state, the lock and the
device. `late` is history: the readings whose look at the state was before the
readings were stopped.

| Code | Model |
|---|---|
| `init`, `config`, `terminate`, `reset`, `start_measurements`, `stop_measurements` | `CallInit` ... `CallStop_measurements`; the rest of a method in `server`: `ResetMeter`, `Delete`, `Reinit` |
| the reading thread | `Loop`, `Look`, `Enter`, `Leave`, `Wake`; `Survive`, `Crash` when the object is gone |

**Attenuator**, **Cib**, **MeterSetting** are small: the driver object of the
attenuator; the map of registers and the threshold of the DAC; a setting of the
power meter as the class keeps it, as the device has it and as a client was told
it. Their steps are operators, for clients and for the laser system. A method of
the attenuator is a list of steps that the server's thread takes one by one
(`todo`: forget, delete, build the object, set the status), and the main loop reads
the status in one step and writes it in another (`echo`); `stale` is history, that
the written one replaced a method's. The DAC is closed, open and about to be set,
or open: `set_dac_threshold` may come in between, and then `early` is true. In the
meter, `unsaid` is history: a reset missed a setting and answered Good.

**Commissioning** composes these three, the configuration of LaserUnit and the
coordinates of the motors: `load_config` goes through the parts in the order of
their keys, and the first failure ends it; `shutdown` is one action; clients call
the parts on their own between the two. Two threads do not wait for any of it.
Tasks change `m_state`. The main loop updates one device at a time
(`UpdateAttenuator`, `UpdateCib`, `UpdateLaser`), and says the status of the
attenuator and of the laser unit again as it read it: the methods of the unit
that it may meet half-way are split where they connect to the laser (`call`,
`echo`, `stale`). The server may die (`Restart`); the devices keep what they were
set to. Two things are history: the motors that the last configuration named
(`named`), and the coordinates that were in the map before it (`older`).

**ThreadPool** is the pool of the framework: what a thread does with the lock
held is an action, and so are the look at `m_quit` and the notifications, which
happen without it.

**LaserUnitMC**, **LaserRaceMC**, **LaserSystemMC**, **GridScanMC**, **MotorMC**,
**PowerMeterMC**, **ThreadPoolMC**, **CommissioningMC** hold bounds and inputs.
**LaserUnitProofs**, **LaserRaceProofs**, **LaserSystemProofs**, **GridScanProofs**,
**MotorProofs**, **PowerMeterProofs**, **ThreadPoolProofs**, **CommissioningProofs**
hold the theorems.

Definitions whose comment begins with "Variant" are mistakes put beside the
definition they would replace; each property fails with at least one of them.

## The runs

| Run | Shows | Bounds |
|---|---|---|
| `laser_unit` | types, `EmissionOnlyWhenLasing`, `PauseBlocksBeam`, `FireNeedsLaser`; `LightPromised`, the refinement of Light; `TimedStatesEnd` | two pause timers at once, one of the others |
| `laser_restart` | `MonitoredSyncs`: after a crash a configured, monitored unit comes to show the registers | one timer of each kind |
| `laser_race` | handlers step by step: `AloneIsSound`, `LightIsAnnounced`, `WaitsAreTimed` when none met since the last stop; `StopIsFinal` whatever met | two handlers at once, once until a stop heals it; two pause timers (symmetric), one of the others |
| `laser_race_pause` | violated: a task's resume in the midst of a client's pause leaves the unit paused with the external shutter open | one timer of each kind |
| `laser_system` | `FiresWhereAsked`, `SuccessIsDark`, `ErrorSticks`, `ApproachRespected`, `TaskEnds` | two motors with four positions, a tolerance of one, an overstep of two; one task at a time, a segment, a scan of two, a point; clients may send a resume to the unit and the first motor to its end; the main loop may be late with busy |
| `system_abort` | violated: a segment that cannot move on ends in error, with the laser firing | as above |
| `grid_scan` | `SegmentsCoverGrid`, `FirstAxesInOrder`, `GridEnds` | words of six bits; seven ranges for each axis, two approaches, each scan axis |
| `motor` | `CibTracksMotor`, `MonitorsBounded`; `CacheCatchesUp`, `MonitorsEnd` | two positions, a register of three values, all registers or all but the load, one flag cleared; two threads of the CIB's kind, one of the others |
| `power_meter` | `ReadersUseLiveDriver`, `DriverFollowsStatus`, `ReadersBounded`; `ReadingsEnd` | three reading threads, three stops while one lives |
| `thread_pool` | `TakenInOrder`, `NoLostWakeUp`; `JobsStart`, `DestructorEnds` | two workers, two producers, three jobs, a queue of two |
| `commissioning` | `AttenuatorReadyIsLive`, `CibDacKept`, `MeterSettingSurvives`, `OkMeansAllParts`, `ShutdownUnlocks` | two motors in any arrangement at two coordinates, two values of each setting, two thresholds, a setting handled with care (range) and one kept before it is tried (pulse); one part at a time goes all its ways |
| `coordinate_map` | violated: the map of coordinates keeps the motor of an earlier configuration | two motors, each at a coordinate of its own of two, one value of anything else |

Why the bounds are enough. Two timers of pause are what it takes for one of an
earlier pause to meet that of the next; the status of the unit, the shutters and
the registers are complete. In LaserSystem two motors let a task wait for one
while the other is still on its way; four positions give a segment an inside and
ends that a tolerance of one tells apart, and a target a wrong side from which it
is overstepped by more than the tolerance, into the range or out of it. A scan of
two segments passes from one to the next, upwards and then downwards. The calls
of clients that touch what a task does are a resume, which brings light, and a
motor that is sent away; stops, pauses and timers are there besides. The other
calls and any number of tasks are in the theorems. Six bits leave room for grids
of a dozen lines and for ranges that touch the end of a word, or run over it.
A motor with two positions can be at the wrong one, counted the wrong way (then
the register wraps) and stopped on its way; the theorems do without the bounds.
Two monitors that ask (one for the position, one for everything) are what late
answers need, two of the CIB's what a missed flag needs. Two handlers that run at
once is what it takes for one to come in between the steps of another, a second
meeting adds to a state that already promises nothing, and timers of one kind
have nothing to tell them apart. Three reading threads let two late ones live
beside the one that was started last. Two workers let one take the wake-up of
the other, two producers let one notify for a job that is gone, and three jobs
fill a queue of two. In `commissioning` the constraint `OneVaries`
lets one part at a time go all its ways, and the others be as a configuration or a
shutdown leaves them: the parts touch each other only through the order of
load_config. Two motors can be exchanged, share a coordinate, or be passed over by
a configuration. The theorems do without these bounds.

`CacheCatchesUp` asks that the motor stay at rest and the flag be set, and leaves
one way out: queries of the position that fail again and again. `CibTracksMotor`
says that staleness is the only way to a wrong position in the CIB. A stop is a
common one: `motor_stop` loads the CIB with the cached position
(`src/Device/src/DIoLMotor.cpp:867`), which is up to half a second old.

`TaskEnds` says what can keep a task for ever, since the code's own answer is
"something can": a motor sent, or stopped, elsewhere than where the task waits for
it, or a CIB that counts no shots because it does not fire.

`FiresWhereAsked` and `ApproachRespected` speak of the motors that the task has
sent and nobody else since: the code keeps neither a client's `move_absolute` nor a
second task from them (`src/Device/src/DIoLaserSystem.cpp:1366`), and
`get_position_motor` answers with an old position when its query fails. "At the
point" is what `wait_for_motor` makes of it, ten steps around it
(`DIoLaserSystem.cpp:3121`).

`SuccessIsDark` speaks of the light that the task let out itself, and of tasks that
have not failed on their way. A client's resume between the task's last pause and
its `update_state(sReady)` does give a success with the beam on, which is the
client's doing. A failed task may report success nevertheless, when the error was
cleared before its end, and then it may have left the laser on
(`system_abort`).

`ErrorSticks` names its exceptions: clear_error and shutdown, the second
`update_state(sBusy)` of a segment, which looks at nothing, and every thread that
had looked at the state before the error came. No lock joins the look and the
write (`DIoLaserSystem.cpp:1425`, 1463, 1774, 1886, 2362, 2407, 2946, 2989), so an
error set in between is lost; so is one set between the main loop's read and its
write. What is shown is that nobody else overwrites an error, and that a thread
which looks while it is there does not.

`AloneIsSound` and its two neighbours say that handlers of LaserRace which did
not meet leave what LaserUnit has them do in one action, so that a stop alone
repairs what met handlers left. What met handlers can leave is left to
`laser_race_pause` and to the list below. `StopIsFinal` makes one exception, a
stop that meets a start.

`ReadersUseLiveDriver` makes one exception too: `terminate` deletes the object
without the lock of the serial line, under a thread that looked at the state
before. `DestructorEnds` asks that no worker be between its look at `m_quit` and
the lock when the destructor notifies; with one there it may never return.

`AttenuatorReadyIsLive` says that the methods of the attenuator leave no status of
ready without a driver object. A status that the main loop said again after a
method had changed it is excepted (`stale`): set_conn deletes the object
(`src/Device/src/DIoLAttenuator.cpp:1104`) and sets the status in the next line,
and update, between its look and its write, may set it back to ready
(`DIoLAttenuator.cpp:1698`). That update may use the deleted object is modelled as
the end of the server at any time (`Restart`).

`CibDacKept` has one exception, `early`: a client whose threshold came between the
opening of the DAC (`src/Device/src/DIoLCIB.cpp:490`) and its setting to 4095 (503)
in the main loop finds 4095 afterwards, unnoticed.

`OkMeansAllParts` says what Good is worth, with two ways out: a status that the
main loop said again, and a coordinate that was in the map before (see
`coordinate_map`). Of the motors it speaks of those that the configuration named.
config compares the number of motors only, so a configuration that names one
twice passes over another and is accepted
(`src/Device/src/DIoLaserSystem.cpp:867`).

`MeterSettingSurvives` speaks of range, wavelength and pulse width, whose
handlers send what was asked for and keep what they sent. average_query is sent
the average of before, a threshold equal to the device's is not kept, and the
mode is never kept by its setter. Its exception is `unsaid`: a reset whose init
missed a setting answers Good all the same
(`src/Device/src/DIoLPowerMeter.cpp:1073`, 1120), with the meter on line at
another setting than the client was told. `ShutdownUnlocks` makes its exception
for a laser that was initialised without its registers: terminate throws in it.

**Disagreements between code and comments** are the three runs that expect a
violation. Others were met in writing the models and have no run:

- an offline unit keeps its driver object when its registers cannot be mapped
  (`src/Device/src/DIoLLaserUnit.cpp:2898`), and refuses the next configuration;
- a shutter method ends the warmup (`DIoLLaserUnit.cpp:1001`);
- `m_is_terminating` survives two returns of terminate (`DIoLLaserUnit.cpp:1307`),
  and update is skipped from then on;
- the main loop says again the status it read before (`DIoLLaserUnit.cpp:2560`),
  which may undo a change in between; a flag stored from a byte loaded earlier
  undoes another, and nothing ever refreshes `laser_shutter_closed`; a late
  standby timer whose stop meets a start leaves a ready unit that fires;
- the third axis of a grid scan looks at the approach of the second
  (`src/Device/src/DIoLaserSystem.cpp:3363`);
- set_connection of an attenuator in use deletes the driver object, keeps the
  pointer and answers that all is well (`src/Device/src/DIoLAttenuator.cpp:1104`),
  and config forgets the object without deleting it (`DIoLAttenuator.cpp:803`);
- the main loop may bring back the status of ready between the deletion of the
  attenuator's object and the end of set_connection (`DIoLAttenuator.cpp:1104`,
  1698), and use the object that is gone;
- a threshold that is configured before the DAC could be opened is lost, since
  setting it always returns Good, and becomes 4095 when the DAC opens; one set
  between the opening and that write is answered as done, and lost
  (`src/Device/src/DIoLCIB.cpp:490`, 503);
- reset of the power meter ignores what its init answers
  (`src/Device/src/DIoLPowerMeter.cpp:1073`);
- an error set between a task's look at the state and its next write is lost, and
  a success may be reported in its place (`DIoLaserSystem.cpp:1463`).

**Fairness.** Timer threads poll a bounded number of times and then act, so they
are weakly fair; what clients do is not fair at all, and may be nothing. The
main loop's update is weakly fair in `RestartSpec`, where the server may die
again and again. Task threads and travelling motors are weakly fair. So are the
monitors of a motor while the server runs: each query ends, answered or failed.
Reading threads of the power meter and the workers, notifications and the
destructor of the pool are weakly fair, as threads are; producers add what they
like, and clients start and stop readings when they like. LaserRace and
Commissioning have safety properties only.

**Deadlock** is not checked: the server may hang or abort, a task may wait for
ever, clients need not call, and a bound on the timers may stop the rest. A motor
stops for good when the server aborts. A pool that was destroyed does nothing
more, and bounds on timers, meetings, stops and jobs stop the rest.

## The proofs

`LaserUnitProofs` proves, for every bound on the timers, that `Spec` implies

- `Typing`: `TypeOK`, the bound on the timers included;
- `LightMeansLasing`: `EmissionOnlyWhenLasing`;
- `IdleDoesNotFire`: an offline or ready unit does not fire;
- `FiringCanBeStopped`: `FireNeedsLaser`;
- `PauseIsDark`: `PauseBlocksBeam`;
- `UnitImplementsLight`: `LightPromised`, the refinement of Light.

None of these safety properties is inductive. They follow from
`IInv == TypeOK /\ Safe(unit)`. `Safe` adds that the cached view agrees with the
registers, what a ready unit and a standby unit have switched off, and what
firing requires. Since handlers are operators on records and call each other,
the proof has a lemma for each of them: it takes a safe record to a safe record,
for every outcome of the serial line. The steps then cite the lemma of their
handler. For the refinement each handler has a second lemma, on how it may change
the register of fire and what the status is then (`NextFire`); with the invariant
before and after the step, that is a step of Light or leaves it alone. The
assumption is the one of the module: `MaxTimers` is a positive number for each
kind.

`LaserSystemProofs` proves, for any number of motors, any range and tolerance, any
segments, targets and scans within the range, any calls of clients, any lateness of
the main loop and any number of tasks at once,

- `SystemTyping`: types, and a unit in pause has its external shutter closed;
- `TaskFiresWhereAsked` (`FiresWhereAsked`) and `LastLegFromTheSide`
  (`ApproachRespected`);
- `SuccessLeavesDark` (`SuccessIsDark`) and `TasksKeepErrors` (`ErrorSticks`).

The invariant is `Inv`: types, `Fine` of each task, and `LookedBefore`. `Fine`
has a part for each property. `There` says for each `pc` of a task where the
motors that are its own are or are bound for: at the start of the segment before
the request for light, between its ends until the request for dark has been
answered, at the target while shots are fired. `Purposeful` says what the plan
that is left can still be, since a scan passes from segment to segment. `Side`
says that a motor bound for an interim point stands on the side that the last
leg is to come from. `Unlit` says that a task which has not failed has light of
its own only between its request for light and the answer to its pause, or on
the way to an error. `LookedBefore` says that whoever has looked at the state
and not yet written it is remembered when an error stands. A step of another
task, a client or the main loop takes motors from a task or leaves it alone
(`Lost`), and that is why no hypothesis on the number of tasks is needed. The
assumption is `SystemAssumption`: the inputs have their types, and the overstep
is larger than the tolerance.

`LaserRaceProofs` proves, for any timer threads, any number of handlers at once and
any number of meetings,

- `StopIsFinalAlways` (`StopIsFinal`), whatever meets the stop;
- `AloneIsSoundAlways` (`AloneIsSound`), `LightIsAnnouncedAlways`
  (`LightIsAnnounced`) and `WaitsAreTimedAlways` (`WaitsAreTimed`), of handlers that
  run one at a time since the start or since a stop that ran alone.

For the first, `RaceInv` is about the steps that threads have yet to do: only the
steps of a start contain one that fires or one that leads to it, those are in the
server's thread, and the history knows of them; a stop that met no start has, until
it ends the firing, that write ahead of it and only steps before it that cannot cut
the handler short. A list of steps is followed by position, so the proof needs what
heads, tails and concatenations keep of such sets of lists.

For the others, `Stage` says for each list that a handler which runs alone can have
left what registers and status go with it, and `StepsAre` and `AnswersAre` that the
handlers and their looks make no other lists. `Alone` has one busy thread, whose
list fits, or one step more that is to bring the flags up to date; where nothing is
left, the flags show the registers, the status fits them and its timer lives.
`Heals` does the same for a stop that began alone among whatever handlers that met
have left: it closes the shutter before it looks at the flag again, and so comes to
reopen it with all four flags right. A timer that gives up takes nothing from this,
because the state it was started for is not the present one. Besides
`ServerCallsAssumption` these proofs use `NoneIsNoTimer`: the history's `None` is no
thread.

`GridScanProofs` proves, for words of any size, any oversteps and any requests,

- `GridTyping`: no coordinate leaves a word, whatever is asked for;
- `OrderKept`: `FirstAxesInOrder`;
- `GridCovered`: `SegmentsCoverGrid`, for every sane request.

`GridInv` is the invariant of the loops: the axes before the current one are
finished, those after it have no entries, and the entries of the current one are
the lines of the grid below the loop variable, in order. That an iteration adds one
line and passes over none is a fact about multiples of the step
(`NextMultiple`). From finished axes to segments it takes that the nested
loops number the triples of entries one to one (`RowMajor`, `RowMajorBack`), and
that the sums for the ends of a segment do not wrap (`SidesCross`).

`MotorProofs` proves, for every range of the motor, every register wide enough
for it and any number of threads,

- `MotorTyping`: `TypeOK`;
- `CibIsTrue`: `CibTracksMotor`;
- `MonitorCountBounded`: `MonitorsBounded`.

`CibTracksMotor` is not inductive: that the CIB counts on truly needs that a
motor under way is counted in its direction, so a move about to be sent must have
set it from rest and from a true position, and the set point may have changed
since only to where the motor is (config). `IInv` says this. `CInv` counts the
threads of a kind: no more than the times its flag was cleared, and one while it
is set. The assumption is the module's: constants have their types, the
register is wider than the range, and a configuration maps registers of the motor.

`PowerMeterProofs` proves, for any number of threads and stops, `MeterTyping`,
`DriverIsLive` (`ReadersUseLiveDriver`), `NoDriverLeftBehind`
(`DriverFollowsStatus`) and `ThreadsAreCounted` (`ReadersBounded`). What carries
the induction is what each step that is left of a method finds (`Steps`), that
the object is there in every state but offline, and that a thread past its look
counts as late once the state left operating.

`ThreadPoolProofs` proves, for any workers, producers, jobs and limit,
`PoolTyping`, `JobsAreTakenInOrder` (`TakenInOrder`) and `WakeUpsAreNotLost`
(`NoLostWakeUp`). The invariant adds that workers end only after the flag is up
and that the destructor takes jobs only when every worker has ended. There must
be a worker.

`CommissioningProofs` proves, for any motors, coordinates, values and thresholds,

- `ReadyAttenuatorIsLive` (`AttenuatorReadyIsLive`), by what is left of a method: `Sound`
  says which lists of steps end with a status that fits the pointer, and `AttInv`
  that the list at hand is one of them, whatever the main loop writes meanwhile;
- `ThresholdIsKept` (`CibDacKept`), by `CibInv`: what was told and not early is what the
  device has, and the DAC is open;
- `SettingSurvivesResets` (`MeterSettingSurvives`), by `MeterInv`: what a client was told
  is kept also while the meter is off line (`ToldIsKept`);
- `GoodConfigIsWhole` (`OkMeansAllParts`). The invariant `PartsBefore` says that the
  parts that load_config has passed work, or were overruled by the main loop; a
  step of a part that answers well adds its own, and what else runs in between,
  tasks, the main loop's updates and a restart, takes none away;
- `ShutdownClearsTheWay`: `ShutdownUnlocks`.

It assumes that arrangements give motors coordinates, that coordinate 0 exists,
that `None` is no motor, and that the highest threshold is one.

Only model-checked: what is about progress, since fairness and ENABLED are out of
reach of the prover (`TimedStatesEnd`, `MonitoredSyncs`, `TaskEnds`, `GridEnds` and
their like). Every invariant and every other action property of a passing run is
proved.

## Not modelled

- In LaserUnit the steps inside of a handler: they are in LaserRace, which leaves
  out configuration, termination and shots.
- sError of the unit: it needs an empty map of the CIB's memory regions, and the
  constructor fills it.
- Parameters of the laser (delays, rate, voltage), temperature, flash counts.
- The text of answers, and the message queue of the tasks, a json object that
  several threads write without a lock.
- Calls that use devices which were never configured, beyond their refusal.
- In Motor: a second move at the same time, settings changed outside of config,
  alarms, temperature and torque, the state shown to clients, and answers that
  are no proper JSON, which throw in the position monitor and abort the server.
- The ramp of a motor: one that moves slower than the threshold counts as at
  rest in the code; in LaserSystem a motor is at rest at its goal.
- In Cib: the setters of the trigger, the light-based system and the alignment
  laser, the reset of the timing endpoint, the polls of memory and load. In
  Attenuator and PowerMeter: the values that are set, measured and averaged.
- Words of registers that several setters read, change and write. Some are shared:
  in `src/Extra/configs/iols_p1_config.json` the laser's `force_shutter` is in one
  word with the trigger and queue bits of the CIB (lines 13-22 and 138), `fire_state`
  with the widths of fire and Q-switch, and `qs_state` with its delay. A task or a
  timer that forces the shutter while a client sets such a bit may undo the bit,
  or have the shutter undone; here each register is written on its own.
- In Commissioning: that a task left over from before touches the unit while
  load_config runs (in LaserSystem it may), and the first update of the power
  meter, which fills its settings from the address space, under a client's call.
- The piezo controller (a stub), the framework, the client and the tests.

Most of the lines under `src/` are vendored or generated: open62541, json.hpp,
muParser, LogIt, the parser of the XML configuration. They are no part of the
program's own logic, and nothing of them is mapped.

## Plan

1. LaserUnit and Motor with their proofs, LaserSystem, GridScan (done).
2. PowerMeter, ThreadPool, LaserRace, Light and the refinement, and the
   configuration of all parts (done).
3. Proofs of LaserSystem, GridScan and LaserRace (done).
4. Proofs: what progress rests on and needs no fairness, such as a measure that
   every round of the loops of GridScan lowers.
