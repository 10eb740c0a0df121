-------------------------------- MODULE Motor --------------------------------
(***************************************************************************)
(* One motor (DIoLMotor).  The server knows where the motor is by asking   *)
(* it over HTTP, and keeps the last answer in m_position_motor.  The CIB   *)
(* counts the steps of the motor by itself, from an initial position and   *)
(* in a direction that the server writes into registers: both are taken    *)
(* from the cached answer.                                                 *)
(*                                                                         *)
(* Four kinds of threads meet here: the server's thread (config, stop,     *)
(* terminate, the refresh period), one that moves the motor (a client's    *)
(* call or a task of the laser system, one at a time), and the monitors,   *)
(* detached threads that loop until their flag is cleared.  A monitor      *)
(* stores an answer some time after the motor gave it, and sleeps long     *)
(* enough to miss that its flag was cleared and set again.                 *)
(***************************************************************************)
EXTENDS Integers, FiniteSets

CONSTANTS MaxPos,       \* the range of the motor is 0 .. MaxPos
          CibSize,      \* the values of the CIB's position register
          Targets,      \* destinations asked for
          Fragments,    \* sets of registers that a configuration maps
          MaxThreads,   \* threads of each kind of monitor alive at once
          MaxCleared    \* times a flag of a monitor is cleared

VARIABLES motor,     \* the motor: where it is and where it goes
          cib,       \* the registers: position counted, direction
          m,         \* the members of the class
          flag,      \* m_position_monitor, m_stats_monitor, m_cib_monitor
          thread,    \* the monitor threads
          mover,     \* the call of move_wrapper under way
          server,    \* what the server's thread is doing
          synced,    \* the CIB was last told the truth (history)
          cleared    \* flags cleared so far (history)

vars == <<motor, cib, m, flag, thread, mover, server, synced, cleared>>

Kinds    == {"position", "stats", "cib"}
Position == 0 .. MaxPos
Unknown  == -1                    \* -999999 in the code, out of every range
Cached   == Position \cup {Unknown}
Slots(k) == 1 .. MaxThreads[k]

\* "load" stands for init_pos and load, which are written together.
Registers == {"direction", "load", "cur_pos"}

ASSUME MotorAssumption ==
  /\ MaxPos \in Nat \ {0}
  /\ CibSize \in Nat /\ CibSize > MaxPos + 1
  /\ Targets \subseteq Int
  /\ Fragments \subseteq SUBSET Registers
  /\ MaxThreads \in [Kinds -> Nat \ {0}]
  /\ MaxCleared \in Nat

\* A monitor is awake (at the head of its loop), holds an answer it has not
\* stored yet, or sleeps after a query that failed.
Thread == [pc : {"none", "awake", "asked", "failed"}, pos : Position]
NoThread == [pc |-> "none", pos |-> 0]
Awake    == [NoThread EXCEPT !.pc = "awake"]

Members == [position   : Cached,     \* m_position_motor
            setpoint   : Cached,     \* m_position_setpoint
            monitor_ok : BOOLEAN,    \* m_monitor_status is good
            host       : BOOLEAN,    \* m_server_host and m_server_port are set
            regs       : SUBSET Registers]   \* m_regs: those mapped

\* move_wrapper, after its checks; aimed is history: the direction was set for a
\* motor at rest, from its position.
Mover   == [pc : {"idle", "aim", "load", "send"}, aimed : BOOLEAN]
Resting == [pc |-> "idle", aimed |-> FALSE]

AtRest == motor.pos = motor.goal
Fresh  == m.position = motor.pos

Init ==
  /\ motor \in {[pos |-> p, goal |-> p] : p \in Position}
  /\ cib = [pos |-> 0, up |-> FALSE]
  /\ m = [position |-> Unknown, setpoint |-> Unknown,
          monitor_ok |-> FALSE, host |-> FALSE, regs |-> {}]
  /\ flag = [k \in Kinds |-> FALSE]
  /\ thread = [k \in Kinds |-> [i \in Slots(k) |-> NoThread]]
  /\ mover = Resting
  /\ server = "idle"
  /\ synced = FALSE
  /\ cleared = 0
-----------------------------------------------------------------------------
(* The hardware: the motor takes a step, and the CIB counts it in the        *)
(* direction it was told.                                                    *)

MotorSteps ==
  /\ ~AtRest
  /\ LET d == IF motor.goal > motor.pos THEN 1 ELSE -1
     IN motor' = [motor EXCEPT !.pos = @ + d]
  /\ cib' = [cib EXCEPT !.pos = (IF cib.up THEN @ + 1 ELSE @ - 1) % CibSize]
  /\ UNCHANGED <<m, flag, thread, mover, server, synced, cleared>>

\* Variant: the mask is forgotten.
WordUnmasked(p) == p

\* cast_from_signed: the position as a word of the register.
Word(p) == p % CibSize

\* cib_set_init_position with the cached position.  It told the truth if the
\* position was that of the motor; while a motor is moving, or a move is about
\* to be sent, what it says of the steps to come rests on the move.
LoadPosition ==
  /\ cib' = [cib EXCEPT !.pos = Word(m.position)]
  /\ synced' = (Fresh /\ (synced \/ (AtRest /\ mover.pc # "send")))
-----------------------------------------------------------------------------
(* Moving.                                                                   *)

\* callMove_absolute, callMove_relative, or a task of the laser system.  The
\* speed is asked for first, and a motor that seems to move is refused; but a
\* moving motor may seem at rest, as a query that fails or brings a speed that
\* cannot be right leaves the last judgement standing.  Then come the status
\* of the monitor and the range.  A motor believed to be at the destination is
\* told nothing, and its position is loaded; registers that are not mapped are
\* an exception.
MoveCalled ==
  /\ mover.pc = "idle" /\ m.host /\ m.monitor_ok
  /\ \E dest \in Targets \cap Position :
       /\ m' = [m EXCEPT !.setpoint = dest]
       /\ IF m.position = dest
          THEN /\ IF "load" \in m.regs THEN LoadPosition ELSE UNCHANGED <<cib, synced>>
               /\ UNCHANGED mover
          ELSE /\ mover' = [mover EXCEPT !.pc = "aim"]
               /\ UNCHANGED <<cib, synced>>
  /\ UNCHANGED <<motor, flag, thread, server, cleared>>

\* Variant: the comparison is the other way round.
UpwardsSwapped == m.setpoint < m.position

\* motor_move: the direction, from the cached position as well.
Upwards == m.setpoint > m.position

MoveAims ==
  /\ mover.pc = "aim"
  /\ IF "direction" \in m.regs
     THEN /\ cib' = [cib EXCEPT !.up = Upwards]
          /\ mover' = [mover EXCEPT !.pc = "load", !.aimed = Fresh /\ AtRest]
          /\ synced' = (synced /\ AtRest)
     ELSE mover' = Resting /\ UNCHANGED <<cib, synced>>
  /\ UNCHANGED <<motor, m, flag, thread, server, cleared>>

MoveLoads ==
  /\ mover.pc = "load"
  /\ IF "load" \in m.regs
     THEN /\ cib' = [cib EXCEPT !.pos = Word(m.position)]
          /\ synced' = (Fresh /\ mover.aimed)
          /\ mover' = [mover EXCEPT !.pc = "send"]
     ELSE mover' = Resting /\ UNCHANGED <<cib, synced>>
  /\ UNCHANGED <<motor, m, flag, thread, server, cleared>>

\* The motor is sent to the set point as it is now, or cannot be reached.
MoveSent ==
  /\ mover.pc = "send"
  /\ \E ok \in BOOLEAN :
       motor' = IF ok THEN [motor EXCEPT !.goal = m.setpoint] ELSE motor
  /\ mover' = Resting
  /\ UNCHANGED <<cib, m, flag, thread, server, synced, cleared>>

\* get_position_motor, as the tasks use it between moves.
PositionRead ==
  /\ mover.pc = "idle" /\ m.host
  /\ m' = [m EXCEPT !.position = motor.pos]
  /\ UNCHANGED <<motor, cib, flag, thread, mover, server, synced, cleared>>

Moving == MoveCalled \/ MoveAims \/ MoveLoads \/ MoveSent \/ PositionRead
-----------------------------------------------------------------------------
(* The monitors.                                                             *)

SetThread(k, i, t) == thread' = [thread EXCEPT ![k][i] = t]

\* The position or the whole information is asked for; the answer is stored
\* once the connection is given back.
MonitorAsks(k, i) ==
  /\ k # "cib" /\ thread[k][i].pc = "awake" /\ flag[k]
  /\ SetThread(k, i, [pc |-> "asked", pos |-> motor.pos])
  /\ UNCHANGED <<motor, cib, m, flag, mover, server, synced, cleared>>

\* Variant: the first answer is kept.
MonitorStoresOnce(k, i) ==
  /\ k # "cib" /\ thread[k][i].pc = "asked"
  /\ m' = [m EXCEPT !.position = IF @ = Unknown THEN thread[k][i].pos ELSE @,
                    !.monitor_ok = @ \/ k = "stats"]
  /\ SetThread(k, i, Awake)
  /\ UNCHANGED <<motor, cib, flag, mover, server, synced, cleared>>

MonitorStores(k, i) ==
  /\ k # "cib" /\ thread[k][i].pc = "asked"
  /\ m' = [m EXCEPT !.position = thread[k][i].pos, !.monitor_ok = @ \/ k = "stats"]
  /\ SetThread(k, i, Awake)
  /\ UNCHANGED <<motor, cib, flag, mover, server, synced, cleared>>

MonitorFails(k, i) ==
  /\ k # "cib" /\ thread[k][i].pc = "awake" /\ flag[k]
  /\ m' = IF k = "stats" THEN [m EXCEPT !.monitor_ok = FALSE] ELSE m
  /\ SetThread(k, i, [Awake EXCEPT !.pc = "failed"])
  /\ UNCHANGED <<motor, cib, flag, mover, server, synced, cleared>>

MonitorSlept(k, i) ==
  /\ thread[k][i].pc = "failed"
  /\ SetThread(k, i, Awake)
  /\ UNCHANGED <<motor, cib, m, flag, mover, server, synced, cleared>>

\* Variant: a thread that is to end goes round once more.
MonitorEndsLate(k, i) ==
  /\ thread[k][i].pc = "awake" /\ ~flag[k]
  /\ SetThread(k, i, [Awake EXCEPT !.pc = "failed"])
  /\ UNCHANGED <<motor, cib, m, flag, mover, server, synced, cleared>>

\* The flag is looked at between two rounds.
MonitorEnds(k, i) ==
  /\ thread[k][i].pc = "awake" /\ ~flag[k]
  /\ SetThread(k, i, NoThread)
  /\ UNCHANGED <<motor, cib, m, flag, mover, server, synced, cleared>>

\* The CIB's monitor reads a register; without the register the map throws,
\* and an exception in a detached thread aborts the server.
MonitorAborts(i) ==
  /\ thread["cib"][i].pc = "awake" /\ flag["cib"] /\ "cur_pos" \notin m.regs
  /\ server' = "aborted"
  /\ UNCHANGED <<motor, cib, m, flag, thread, mover, synced, cleared>>

Monitor(k, i) ==
  MonitorAsks(k, i) \/ MonitorStores(k, i) \/ MonitorFails(k, i) \/ MonitorSlept(k, i)
    \/ MonitorEnds(k, i)
-----------------------------------------------------------------------------
(* The server's thread.                                                      *)

Free(k)  == {i \in Slots(k) : thread[k][i].pc = "none"}
Alive(k) == Slots(k) \ Free(k)

\* Variant: the flag is not looked at.
StartsAlways(k) == TRUE

\* A monitor is started unless its flag says that it runs.
Starts(k) == ~flag[k]

Started(k) ==
  IF Starts(k) /\ Free(k) # {}
  THEN [thread[k] EXCEPT ![CHOOSE i \in Free(k) : TRUE] = Awake]
  ELSE thread[k]

\* config maps the registers first: those of before are dropped.
ConfigMaps ==
  /\ server = "idle"
  /\ \A k \in Kinds : flag[k] \/ Free(k) # {}
  /\ m' = [m EXCEPT !.regs = {}]
  /\ server' = "mapping"
  /\ UNCHANGED <<motor, cib, flag, thread, mover, synced, cleared>>

\* It fails at the registers, or at a later key, before or after the address.
ConfigFails ==
  /\ server = "mapping"
  /\ \E mapped \in Fragments \cup {{}}, host \in BOOLEAN :
       m' = [m EXCEPT !.regs = mapped, !.host = @ \/ host]
  /\ server' = "idle"
  /\ UNCHANGED <<motor, cib, flag, thread, mover, synced, cleared>>

\* It completes without the load register, which is not asked for, and without
\* any that the configuration disables.
ConfigCompletes ==
  /\ server = "mapping"
  /\ \E mapped \in Fragments, answers \in BOOLEAN :
       m' = [m EXCEPT !.regs = mapped, !.host = TRUE,
                      !.position = IF answers THEN motor.pos ELSE @,
                      !.setpoint = IF answers THEN motor.pos ELSE @]
  /\ thread' = [k \in Kinds |-> Started(k)]
  /\ flag' = [k \in Kinds |-> TRUE]
  /\ server' = "idle"
  /\ UNCHANGED <<motor, cib, mover, synced, cleared>>

\* motor_stop: the motor halts where it is, or does not hear; the cached
\* position is loaded afterwards in either case.
StopSent ==
  /\ server = "idle"
  /\ \E ok \in {FALSE, m.host} :
       motor' = IF ok THEN [motor EXCEPT !.goal = motor.pos] ELSE motor
  /\ server' = "stopping"
  /\ UNCHANGED <<cib, m, flag, thread, mover, synced, cleared>>

StopLoads ==
  /\ server = "stopping"
  /\ IF "load" \in m.regs THEN LoadPosition ELSE UNCHANGED <<cib, synced>>
  /\ server' = "idle"
  /\ UNCHANGED <<motor, m, flag, thread, mover, cleared>>

Clear(kinds) ==
  /\ cleared < MaxCleared
  /\ flag' = [k \in Kinds |-> flag[k] /\ k \notin kinds]
  /\ cleared' = cleared + 1

\* terminate, at the shutdown of the laser system.  The address, the status of
\* the monitor and the registers stay.
Terminate ==
  /\ server = "idle"
  /\ Clear(Kinds)
  /\ UNCHANGED <<motor, cib, m, thread, mover, server, synced>>

\* A refresh period of zero.
RefreshOff ==
  /\ server = "idle"
  /\ Clear({"stats"})
  /\ UNCHANGED <<motor, cib, m, thread, mover, server, synced>>

Server == ConfigMaps \/ ConfigFails \/ ConfigCompletes \/ StopSent \/ StopLoads
            \/ Terminate \/ RefreshOff
-----------------------------------------------------------------------------
Next ==
  \/ MotorSteps
  \/ /\ server # "aborted"
     /\ \/ Moving
        \/ Server
        \/ \E k \in Kinds : \E i \in Slots(k) : Monitor(k, i)
        \/ \E i \in Slots("cib") : MonitorAborts(i)

\* A monitor goes on while the server runs.
MonitorRuns(k, i) == server # "aborted" /\ Monitor(k, i)

Fairness == \A k \in Kinds : \A i \in Slots(k) : WF_vars(MonitorRuns(k, i))

Spec == Init /\ [][Next]_vars /\ Fairness
-----------------------------------------------------------------------------
TypeOK ==
  /\ motor \in [pos : Position, goal : Position]
  /\ cib \in [pos : 0 .. CibSize - 1, up : BOOLEAN]
  /\ m \in Members
  /\ flag \in [Kinds -> BOOLEAN]
  /\ DOMAIN thread = Kinds
  /\ \A k \in Kinds : thread[k] \in [Slots(k) -> Thread]
  /\ mover \in Mover
  /\ server \in {"idle", "mapping", "stopping", "aborted"}
  /\ synced \in BOOLEAN
  /\ cleared \in 0 .. MaxCleared

\* The position in the CIB's register is that of the motor, step by step, since
\* the last time it was loaded from a cached position that was true: however
\* the monitors, a stop, a new configuration and a move interleave, a wrong
\* position in the CIB comes of a stale one (cib_set_init_position,
\* cib_set_direction in motor_move and motor_stop).
CibTracksMotor == synced => cib.pos = Word(motor.pos)

\* A kind of monitor has more than one thread only after its flag was cleared,
\* one more for each time: a thread asleep across terminate and config goes on
\* beside the new one (the guards of motor_position_monitor,
\* motor_stats_monitor and cib_movement_monitor).
MonitorsBounded ==
  \A k \in Kinds : Cardinality(Alive(k)) <= 1 + cleared

\* The cached position of a motor that stays at rest comes to be its position
\* and stays that, unless the monitor's queries go on failing: no late answer
\* is the last one stored.
CacheCatchesUp ==
  <>[](AtRest /\ flag["position"] /\ server # "aborted")
    => \/ <>[]Fresh
       \/ []<>(\E i \in Slots("position") : thread["position"][i].pc = "failed")

\* Monitors whose flag was cleared end, unless they are wanted again.
MonitorsEnd ==
  \A k \in Kinds :
    ~flag[k] ~> \/ flag[k] \/ server = "aborted"
                \/ Alive(k) = {}

=============================================================================
