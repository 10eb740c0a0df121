----------------------------- MODULE Commissioning -----------------------------
(***************************************************************************)
(* load_config and shutdown of the laser system over the parts they call:  *)
(* attenuator, CIB, laser unit, motors and power meter, each with calls of *)
(* its own that a client may make at any time.  load_config applies the    *)
(* parts in the order of their keys and returns at the first that fails;   *)
(* nothing is undone, and the laser and the meter refuse to be configured  *)
(* a second time.                                                          *)
(*                                                                         *)
(* Methods come one at a time in the server's thread, and so does the      *)
(* configuration, whose parts are steps of their own.  The main loop has   *)
(* another thread, and updates one device after the other whatever the     *)
(* server is doing: it says again the status of the attenuator and of the  *)
(* laser unit as it read it, and opens the DAC of the CIB.  The methods    *)
(* that such an update may meet half done, those of the attenuator and of  *)
(* the laser unit, are split into steps.  The tasks, which have threads    *)
(* too, change m_state in between.  The server may die, and systemd starts *)
(* it again.                                                               *)
(***************************************************************************)
EXTENDS Naturals

CONSTANTS Motors, Coordinates,
          Arrangements,          \* the ways to give motors their coordinates
          Value, Level, Highest, Setting

None == "none"

ASSUME CommissioningAssumption ==
  /\ 0 \in Coordinates /\ Arrangements \subseteq [Motors -> Coordinates]
  /\ None \notin Motors
  /\ Highest \in Level

VARIABLES m_state,      \* of the laser system
          loading,      \* the number of the part that load_config is at, or 0
          answer,       \* of the attenuator's configuration, once all of it is done
          att, cib, unit, meter,
          call,         \* what is left to do of a method of the laser unit
          echo,         \* the status of the unit that update has read and not yet written
          stale,        \* history: since the laser was connected, update replaced the status
          coordinate,   \* of each motor, by the last configuration it was given
          m_map_motor_coordinates,
          named,        \* history: the motors that the last load_config named
          older         \* history: the coordinates that were in the map before them

laser  == <<unit, call, echo, stale>>
motors == <<coordinate, m_map_motor_coordinates, named, older>>
vars   == <<m_state, loading, answer, att, cib, laser, meter, motors>>

A == INSTANCE Attenuator
C == INSTANCE Cib
M == INSTANCE MeterSetting
L == INSTANCE LaserUnit WITH MaxTimers <- [k \in {"pause", "standby", "warmup"} |-> 1],
                             proc <- "running", shots <- FALSE

-----------------------------------------------------------------------------
(* The laser unit.  A method that connects to the laser goes on in another   *)
(* step: an update may say, after it, the status of before.                  *)

Connects(next) ==
  /\ unit' = L!Connected(unit) /\ stale' = FALSE
  /\ call' = next
  /\ UNCHANGED echo

\* A method, or what is left of one, is done.
Ends(next) == unit' = next /\ call' = "idle" /\ UNCHANGED <<echo, stale>>

\* Without a laser at the port config has terminated; callConfig does it again.
Refusal(how) == L!ConfigRefused(unit, how) \/ how = "noLaser"

CallConfig ==
  \/ \E how \in L!ConfigOutcome, closes, closes2 \in BOOLEAN :
       Refusal(how) /\ Ends(L!Terminate(L!ConfigHandler(unit, how, closes), closes2))
  \/ ~L!ConfigRefused(unit, "accepted") /\ Connects("config")

CallInit ==
  \/ \E closes \in BOOLEAN : Ends(L!InitHandler(unit, "noLaser", closes))
  \/ unit.status = "offline" /\ Connects("init")

CallTerminate == \E closes \in BOOLEAN : Ends(L!Terminate(unit, closes))

\* What follows a connection, and a configuration that failed.
Connection == {"badMap", "badValue", "accepted"}

GoesOn ==
  \E closes \in BOOLEAN :
    \/ /\ call = "config"
       /\ \E how \in Connection :
            /\ unit' = L!Configured(unit, how, closes)
            /\ call' = IF how = "accepted" THEN "idle" ELSE "terminate"
       /\ UNCHANGED <<echo, stale>>
    \/ call = "init" /\ \E how \in L!InitOutcome : Ends(L!Initialised(unit, how, closes))
    \/ call = "terminate" /\ Ends(L!Terminate(unit, closes))

-----------------------------------------------------------------------------
(* The parts of a configuration; ok is what the part answers.                *)

ConfigCib(ok) ==
  \E regs \in SUBSET C!Registers, v \in Level, dac \in C!DacOutcome, how \in C!ConfigOutcome :
    /\ ok <=> C!ConfigOk(regs, how)
    /\ cib' = C!ConfigHandler(cib, regs, v, dac, how)

\* The unit ends its part in one step or in two.
ConfigLaser(ok) ==
  \E closes \in BOOLEAN :
    \/ /\ call = "idle" /\ ~ok
       /\ \E how \in L!ConfigOutcome : Refusal(how) /\ Ends(L!ConfigHandler(unit, how, closes))
    \/ /\ call = "config"
       /\ \E how \in Connection : /\ ok <=> how = "accepted"
                                 /\ Ends(L!Configured(unit, how, closes))

\* std::map::insert does nothing where there is an entry.
Enter(some, arrangement) ==
  [c \in Coordinates |->
     IF m_map_motor_coordinates[c] = None /\ \E m \in some : arrangement[m] = c
     THEN CHOOSE m \in some : arrangement[m] = c
     ELSE m_map_motor_coordinates[c]]

\* The motors are configured one after the other; one that fails may have been
\* given its coordinate by then, but is not entered in the map.  The sizes are
\* compared, not the names: a configuration may pass over a motor.
ConfigMotors(ok) ==
  \E arrangement \in Arrangements, some, given \in SUBSET Motors :
    /\ named' \in SUBSET Motors
    /\ ok <=> some = named'
    /\ some \subseteq given /\ given \subseteq named'
    /\ \A m, n \in given \ some : m = n
    /\ coordinate' = [m \in Motors |-> IF m \in given THEN arrangement[m] ELSE coordinate[m]]
    /\ m_map_motor_coordinates' = Enter(some, arrangement)
    /\ older' = {c \in Coordinates : m_map_motor_coordinates[c] # None}

ConfigMeter(ok) ==
  \E how \in M!BeginOutcome, v, x \in Value, reached \in M!Reached :
    /\ ok <=> M!ConfigOk(meter, how)
    /\ meter' = M!ConfigHandler(meter, v, how, x, reached)

-----------------------------------------------------------------------------
(* load_config. *)

\* The server's thread is free.
Called == loading = 0 /\ call = "idle" /\ A!Idle(att)

\* The attenuator comes first.
CallLoad_config ==
  /\ Called /\ m_state = "offline"
  /\ loading' = 1
  /\ \E how \in A!ConfigOutcome : /\ att' = A!Begins(att, A!ConfigHandler(att.m_att, how))
                                /\ answer' = (how = "accepted")
  /\ UNCHANGED <<m_state, cib, laser, meter, motors>>

\* Variant: the next part is tried although this one failed.
EndsPartAnyway(i, ok) ==
  /\ loading' = IF i < 5 THEN i + 1 ELSE 0
  /\ m_state' = IF i = 5 /\ m_state # "error" THEN "ready" ELSE m_state

\* The first failure ends it; after the last part the system is ready.
EndsPart(i, ok) ==
  /\ loading' = IF ok /\ i < 5 THEN i + 1 ELSE 0
  /\ m_state' = IF ok /\ i = 5 /\ m_state # "error" THEN "ready" ELSE m_state

ConfigPart ==
  \/ /\ loading = 1 /\ A!Idle(att) /\ EndsPart(1, answer)
     /\ answer' = FALSE
     /\ UNCHANGED <<att, cib, laser, meter, motors>>
  \/ /\ loading = 3 /\ call = "idle" /\ ~L!ConfigRefused(unit, "accepted") /\ Connects("config")
     /\ UNCHANGED <<m_state, loading, answer, att, cib, meter, motors>>
  \/ \E ok \in BOOLEAN :
       /\ \/ loading = 2 /\ ConfigCib(ok) /\ EndsPart(2, ok) /\ UNCHANGED <<laser, meter, motors>>
          \/ loading = 3 /\ ConfigLaser(ok) /\ EndsPart(3, ok) /\ UNCHANGED <<cib, meter, motors>>
          \/ loading = 4 /\ ConfigMotors(ok) /\ EndsPart(4, ok) /\ UNCHANGED <<cib, laser, meter>>
          \/ loading = 5 /\ ConfigMeter(ok) /\ EndsPart(5, ok) /\ UNCHANGED <<cib, laser, motors>>
       /\ UNCHANGED <<answer, att>>

-----------------------------------------------------------------------------

\* Variant: the power meter is left as it is.
CallShutdownKeepsMeter ==
  /\ Called
  /\ CallTerminate
  /\ att' = A!Begins(att, A!Terminate(att.m_att))
  /\ m_state' = "offline"
  /\ UNCHANGED <<loading, answer, cib, meter, motors>>

\* The CIB is left as it is; the motors keep their coordinates.
CallShutdown ==
  /\ Called
  /\ CallTerminate
  /\ att' = A!Begins(att, A!Terminate(att.m_att))
  /\ meter' = M!Terminate(meter)
  /\ m_state' = "offline"
  /\ UNCHANGED <<loading, answer, cib, motors>>

\* Tasks, the methods that start them, and the main loop, which says again the
\* state it read; what is neither off line nor an error counts as ready.
OtherState ==
  /\ m_state' \in {"offline", "ready", "error"}
  /\ UNCHANGED <<loading, answer, att, cib, laser, meter, motors>>

CallAttenuator ==
  /\ Called
  /\ A!Call
  /\ UNCHANGED <<m_state, loading, answer, cib, laser, meter, motors>>

\* The steps of an attenuator's method, called by a client or by the system.
AttenuatorProceeds ==
  /\ A!Proceed
  /\ UNCHANGED <<m_state, loading, answer, cib, laser, meter, motors>>

CallCib ==
  /\ Called
  /\ C!CallSet_dac_threshold
  /\ UNCHANGED <<m_state, loading, answer, att, laser, meter, motors>>

\* configure, terminate and init of the laser unit; what else it does is in
\* module LaserUnit.
CallLaser ==
  /\ Called
  /\ CallConfig \/ CallInit \/ CallTerminate
  /\ UNCHANGED <<m_state, loading, answer, att, cib, meter, motors>>

LaserGoesOn ==
  /\ loading = 0
  /\ GoesOn
  /\ UNCHANGED <<m_state, loading, answer, att, cib, meter, motors>>

CallMotor ==
  /\ Called
  /\ \E arrangement \in Arrangements, m \in Motors : coordinate' = [coordinate EXCEPT ![m] = arrangement[m]]
  /\ UNCHANGED <<m_state, loading, answer, att, cib, laser, meter, m_map_motor_coordinates, named, older>>

CallMeter ==
  /\ Called
  /\ M!Call \/ M!PowerCycle
  /\ UNCHANGED <<m_state, loading, answer, att, cib, laser, motors>>

-----------------------------------------------------------------------------
(* The main loop, which is at one device at a time. *)

MainFree == att.echo = A!NoEcho /\ echo = None /\ cib.dac # "opening"

UpdateAttenuator ==
  /\ MainFree \/ att.echo # A!NoEcho
  /\ A!Update
  /\ UNCHANGED <<m_state, loading, answer, cib, laser, meter, motors>>

UpdateCib ==
  /\ (MainFree /\ C!UpdateOpens) \/ C!UpdateSets
  /\ UNCHANGED <<m_state, loading, answer, att, laser, meter, motors>>

\* Not while the unit terminates; what else an update does is in module LaserUnit.
UpdateLaser ==
  /\ \/ /\ MainFree /\ ~unit.m_is_terminating
        /\ echo' = unit.status
        /\ UNCHANGED <<unit, stale>>
     \/ /\ echo # None
        /\ unit' = L!SetStatus(unit, echo)
        /\ stale' = (stale \/ unit.status # echo)
        /\ echo' = None
  /\ UNCHANGED <<m_state, loading, answer, att, cib, call, meter, motors>>

-----------------------------------------------------------------------------

\* The server dies, of the use of a deleted driver object for one, and begins
\* anew.  The devices keep what they were set to.
Restart ==
  /\ m_state' = "offline" /\ loading' = 0 /\ answer' = FALSE
  /\ call' = "idle" /\ echo' = None /\ stale' = FALSE
  /\ att' = A!Constructed
  /\ cib' = C!Constructed(cib.level)
  /\ unit' = L!Constructed(unit.cib_shutter, unit.cib_qswitch, unit.cib_fire)
  /\ \E v \in Value : meter' = M!Constructed(meter.kind, v, meter.device)
  /\ coordinate' = [m \in Motors |-> 0]
  /\ m_map_motor_coordinates' = [c \in Coordinates |-> None]
  /\ named' = {} /\ older' = {}

Init ==
  /\ m_state = "offline" /\ loading = 0 /\ answer = FALSE
  /\ call = "idle" /\ echo = None /\ stale = FALSE
  /\ att = A!Constructed
  /\ \E l \in Level : cib = C!Constructed(l)
  /\ unit = L!Constructed(FALSE, FALSE, FALSE)
  /\ \E k \in Setting, v, x \in Value : meter = M!Constructed(k, v, x)
  /\ coordinate = [m \in Motors |-> 0]
  /\ m_map_motor_coordinates = [c \in Coordinates |-> None]
  /\ named = {} /\ older = {}

Next ==
  \/ CallLoad_config \/ ConfigPart \/ CallShutdown \/ OtherState
  \/ CallAttenuator \/ AttenuatorProceeds \/ CallCib \/ CallLaser \/ LaserGoesOn
  \/ CallMotor \/ CallMeter
  \/ UpdateAttenuator \/ UpdateCib \/ UpdateLaser \/ Restart

Spec == Init /\ [][Next]_vars

-----------------------------------------------------------------------------
(* Properties. *)

\* The properties of the parts, whatever is done to them here.
AttenuatorReadyIsLive == A!ReadyIsLive
CibDacKept == C!DacKept
MeterSettingSurvives == M!SettingSurvives

\* What it means for a part to be in working order.  The status of attenuator
\* and laser unit may be one that the main loop said again.
AttenuatorWorks == att.m_att = "live" /\ (att.status = "ready" \/ att.stale)
CibWorks        == cib.status = "ready" /\ "align" \in cib.m_regs
LaserWorks      == /\ unit.m_laser /\ unit.m_regs /\ unit.m_config_completed
                   /\ unit.status = "ready" \/ stale
MeterWorks      == meter.online

\* The map leads from the coordinate of a motor to one that was named and has
\* it; to any motor, when the coordinate was in the map before.
MotorsWork ==
  \A m \in named :
    LET there == m_map_motor_coordinates[coordinate[m]]
    IN  /\ there # None
        /\ coordinate[m] \notin older => there \in named /\ coordinate[there] = coordinate[m]

AllPartsWork == AttenuatorWorks /\ CibWorks /\ LaserWorks /\ MotorsWork /\ MeterWorks

\* When load_config makes the system ready, no part was left behind: the driver
\* objects exist, the registers are mapped, every part has the status that its
\* configuration gave it and the map finds each motor that is alone at its
\* coordinate, whatever states failures, clients and updates had left the parts
\* in before.  There are two ways out of it, and no other: the main loop may
\* have said again the status from before the part was configured, and an entry
\* that an earlier configuration made is not replaced (MapFollowsConfig).
OkMeansAllParts ==
  [][loading = 5 /\ loading' = 0 /\ m_state = "offline" /\ m_state' = "ready" => AllPartsWork']_vars

\* A shutdown takes back what a configuration that failed left behind: neither
\* the laser nor the meter refuses the next one.  The exception is a laser that
\* was initialised without a map of its registers, which cannot terminate and
\* is in the way until the server starts again.  The main loop may bring back a
\* status it read before, after the shutdown.
Refuses == unit.status # "offline" \/ unit.m_laser \/ meter.online
ShutdownUnlocks ==
  [][CallShutdown /\ (unit.m_regs \/ unit.status = "offline") => ~Refuses']_vars

\* config: "if it configured well, add the entry to the coordinate map": after
\* the motors were configured the map holds each of those that were named, at
\* its coordinate.
MapFollowsConfig ==
  loading = 5 => \A m \in named : m_map_motor_coordinates[coordinate[m]] = m
==============================================================================
