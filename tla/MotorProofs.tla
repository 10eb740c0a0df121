----------------------------- MODULE MotorProofs -----------------------------
(* The CIB tracks the motor, for every range of the motor, every width of the *)
(* register and every number of monitor threads.                              *)
EXTENDS Motor, FiniteSetTheorems, TLAPS

\* What carries the induction.  A motor under way is counted in its direction;
\* a move that is about to be sent starts from rest, in the direction that was
\* set for it, or goes nowhere because config has reset the set point.
Headed(goal) == goal = motor.pos \/ (cib.up <=> goal > motor.pos)

IInv ==
  /\ TypeOK
  /\ CibTracksMotor
  /\ synced => Headed(motor.goal)
  /\ mover.pc \in {"load", "send"} /\ mover.aimed => AtRest /\ Headed(m.setpoint)
  /\ mover.pc = "send" /\ synced => mover.aimed
  /\ mover.pc \in {"aim", "load", "send"} => m.setpoint \in Position

LEMMA WordType == ASSUME NEW p \in Cached PROVE Word(p) \in 0 .. CibSize - 1
  BY MotorAssumption DEF Word, Cached, Position, Unknown

\* In the range of the motor the register does not wrap.
LEMMA WordOfPosition == ASSUME NEW p \in Position PROVE Word(p) = p
  BY MotorAssumption DEF Word, Position

LEMMA InitInv == Init => IInv
<1> SUFFICES ASSUME Init PROVE IInv
  OBVIOUS
<1>1. motor \in [pos : Position, goal : Position] /\ AtRest
  BY DEF Init, AtRest
<1>2. TypeOK
  <2>1. cib \in [pos : 0 .. CibSize - 1, up : BOOLEAN] /\ cleared \in 0 .. MaxCleared
    BY MotorAssumption DEF Init
  <2>2. m \in Members
    BY DEF Init, Members, Cached
  <2>3. NoThread \in Thread
    BY MotorAssumption DEF NoThread, Thread, Position
  <2>4. DOMAIN thread = Kinds /\ \A k \in Kinds : thread[k] \in [Slots(k) -> Thread]
    BY <2>3 DEF Init
  <2>5. mover \in Mover /\ flag \in [Kinds -> BOOLEAN]
    BY DEF Init, Mover, Resting
  <2> QED BY <1>1, <2>1, <2>2, <2>4, <2>5 DEF Init, TypeOK
<1> QED BY <1>1, <1>2 DEF Init, IInv, CibTracksMotor, Resting

\* A step that leaves the motor, the CIB, the move and what is known of them
\* alone keeps all but the types.
LEMMA Bystander ==
  ASSUME IInv, TypeOK', UNCHANGED <<motor, cib, mover, synced>>,
         m'.setpoint = m.setpoint
  PROVE  IInv'
  BY DEF IInv, CibTracksMotor, Headed, AtRest, Word

LEMMA MotorStepsInv == ASSUME IInv, MotorSteps PROVE IInv'
<1> USE DEF IInv, MotorSteps
<1> DEFINE d == IF motor.goal > motor.pos THEN 1 ELSE -1
<1>1. /\ motor.pos \in Position /\ motor.goal \in Position
      /\ motor.pos + d \in Position
      /\ motor' = [motor EXCEPT !.pos = motor.pos + d]
  <2>1. motor \in [pos : Position, goal : Position] /\ motor.pos # motor.goal
    BY DEF TypeOK, AtRest
  <2>2. motor.pos \in 0 .. MaxPos /\ motor.goal \in 0 .. MaxPos
    BY <2>1 DEF Position
  <2>3. motor.pos + d \in 0 .. MaxPos
    BY <2>1, <2>2, MotorAssumption
  <2> QED BY <2>2, <2>3 DEF Position
<1>2. /\ cib' = [cib EXCEPT !.pos = (IF cib.up THEN cib.pos + 1 ELSE cib.pos - 1) % CibSize]
      /\ cib.pos \in 0 .. CibSize - 1 /\ cib.up \in BOOLEAN
      /\ cib'.pos = (IF cib.up THEN cib.pos + 1 ELSE cib.pos - 1) % CibSize
      /\ cib'.up = cib.up
  BY DEF TypeOK
<1>3. cib'.pos \in 0 .. CibSize - 1
  BY <1>2, MotorAssumption
<1>4. TypeOK'
  BY <1>1, <1>2, <1>3 DEF TypeOK
<1>5. motor'.pos = motor.pos + d /\ motor'.goal = motor.goal /\ motor'.pos \in Position
  BY <1>1 DEF TypeOK
<1>6. synced' => CibTracksMotor' /\ Headed(motor.goal)'
  <2> SUFFICES ASSUME synced PROVE cib'.pos = Word(motor'.pos) /\ Headed(motor.goal)'
    BY DEF CibTracksMotor, Word
  <2>1. cib.pos = motor.pos /\ (cib.up <=> motor.goal > motor.pos)
    BY <1>1, WordOfPosition DEF CibTracksMotor, Headed, AtRest, Position
  <2>2. cib'.pos = Word(motor.pos + d)
    BY <2>1, <1>2 DEF Word
  <2>3. Headed(motor.goal)'
    <3>1. motor.pos \in Int /\ motor.goal \in Int /\ motor.pos # motor.goal
      BY <1>1, MotorAssumption DEF Position, AtRest
    <3>2. motor.goal = motor.pos + d \/ (motor.goal > motor.pos <=> motor.goal > motor.pos + d)
      BY <3>1
    <3> QED BY <2>1, <1>2, <1>5, <3>2 DEF Headed
  <2> QED BY <2>2, <2>3, <1>5
<1>7. ~(mover.pc \in {"load", "send"} /\ mover.aimed)
  OBVIOUS
<1> QED BY <1>4, <1>6, <1>7 DEF CibTracksMotor

\* Loading the position while no move is about to be loaded or sent, or only
\* one the motor was told of.
LEMMA LoadInv ==
  ASSUME IInv, LoadPosition
  PROVE  /\ cib' \in [pos : 0 .. CibSize - 1, up : BOOLEAN]
         /\ cib'.up = cib.up /\ synced' \in BOOLEAN
         /\ synced' => /\ cib'.pos = Word(motor.pos) /\ Headed(motor.goal)
                       /\ mover.pc = "send" => mover.aimed
<1>1. m.position \in Cached /\ Word(m.position) \in 0 .. CibSize - 1
  BY WordType DEF IInv, TypeOK, Members
<1>2. cib' = [cib EXCEPT !.pos = Word(m.position)]
  BY DEF LoadPosition
<1>3. cib' \in [pos : 0 .. CibSize - 1, up : BOOLEAN] /\ cib'.up = cib.up
      /\ cib'.pos = Word(m.position)
  BY <1>1, <1>2 DEF IInv, TypeOK
<1> QED BY <1>3 DEF LoadPosition, IInv, Fresh, AtRest, Headed

LEMMA MoveCalledInv == ASSUME IInv, MoveCalled PROVE IInv'
<1> PICK dest \in Targets \cap Position : m' = [m EXCEPT !.setpoint = dest]
  BY DEF MoveCalled
<1>1. m' \in Members /\ m'.setpoint = dest /\ m'.setpoint \in Position
  BY DEF IInv, TypeOK, Members, Cached
<1>2. CASE UNCHANGED <<cib, synced>>
  BY <1>1, <1>2 DEF MoveCalled, IInv, TypeOK, Mover, CibTracksMotor, Headed, AtRest, Word
<1>3. CASE LoadPosition /\ UNCHANGED mover
  <2>1. TypeOK'
    BY <1>1, <1>3, LoadInv DEF MoveCalled, IInv, TypeOK
  <2> QED BY <1>1, <1>3, <2>1, LoadInv
          DEF MoveCalled, IInv, CibTracksMotor, Headed, AtRest, Word
<1> QED BY <1>2, <1>3 DEF MoveCalled

LEMMA MoveAimsInv == ASSUME IInv, MoveAims PROVE IInv'
<1>1. CASE "direction" \in m.regs
  <2>1. /\ cib' = [cib EXCEPT !.up = Upwards]
        /\ mover' = [mover EXCEPT !.pc = "load", !.aimed = Fresh /\ AtRest]
        /\ synced' = (synced /\ AtRest)
        /\ UNCHANGED <<motor, m, flag, thread, server, cleared>>
    BY <1>1 DEF MoveAims
  <2>2. cib'.pos = cib.pos /\ cib'.up = Upwards
    BY <2>1 DEF IInv, TypeOK
  <2>3. mover'.pc = "load" /\ mover'.aimed = (Fresh /\ AtRest)
    BY <2>1 DEF IInv, TypeOK, Mover
  <2>4. TypeOK'
    <3>1. Upwards \in BOOLEAN /\ (Fresh /\ AtRest) \in BOOLEAN
      BY DEF Upwards, Fresh, AtRest
    <3>2. cib' \in [pos : 0 .. CibSize - 1, up : BOOLEAN]
      BY <2>1, <3>1 DEF IInv, TypeOK
    <3>3. mover' \in Mover
      BY <2>1, <3>1 DEF IInv, TypeOK, Mover
    <3>4. synced' \in BOOLEAN
      BY <2>1 DEF IInv, TypeOK
    <3> QED BY <2>1, <3>2, <3>3, <3>4 DEF IInv, TypeOK
  <2>5. m.setpoint \in Position /\ motor.pos \in Position
    BY DEF IInv, MoveAims, TypeOK
  <2>6. Fresh => Headed(m.setpoint)'
    BY <2>1, <2>2, <2>5 DEF Headed, Upwards, Fresh, Position
  <2>7. synced' => CibTracksMotor' /\ Headed(motor.goal)'
    BY <2>1, <2>2 DEF IInv, CibTracksMotor, Headed, AtRest, Word
  <2> QED BY <2>1, <2>3, <2>4, <2>5, <2>6, <2>7 DEF IInv, CibTracksMotor, AtRest, Headed
<1>2. CASE "direction" \notin m.regs
  <2>1. UNCHANGED <<motor, cib, m, flag, thread, server, synced, cleared>>
    BY <1>2 DEF MoveAims
  <2>2. mover' = Resting
    BY <1>2 DEF MoveAims
  <2>3. TypeOK'
    BY <2>1, <2>2 DEF IInv, TypeOK, Mover, Resting
  <2> QED BY <2>1, <2>2, <2>3 DEF IInv, Resting, CibTracksMotor, Headed, AtRest, Word
<1> QED BY <1>1, <1>2

LEMMA MoveLoadsInv == ASSUME IInv, MoveLoads PROVE IInv'
<1>1. CASE "load" \in m.regs
  <2>1. /\ cib' = [cib EXCEPT !.pos = Word(m.position)]
        /\ synced' = (Fresh /\ mover.aimed)
        /\ mover' = [mover EXCEPT !.pc = "send"]
        /\ UNCHANGED <<motor, m, flag, thread, server, cleared>>
    BY <1>1 DEF MoveLoads
  <2>2. m.position \in Cached /\ Word(m.position) \in 0 .. CibSize - 1
    BY WordType DEF IInv, TypeOK, Members
  <2>3. cib'.pos = Word(m.position) /\ cib'.up = cib.up
    BY <2>1 DEF IInv, TypeOK
  <2>4. mover'.pc = "send" /\ mover'.aimed = mover.aimed
    BY <2>1 DEF IInv, TypeOK, Mover
  <2>5. TypeOK'
    BY <2>1, <2>2 DEF IInv, TypeOK, Mover, Fresh
  <2> QED BY <2>1, <2>3, <2>4, <2>5
          DEF IInv, MoveLoads, CibTracksMotor, Headed, AtRest, Fresh, Word
<1>2. CASE "load" \notin m.regs
  <2>1. UNCHANGED <<motor, cib, m, flag, thread, server, synced, cleared>>
    BY <1>2 DEF MoveLoads
  <2>2. mover' = Resting
    BY <1>2 DEF MoveLoads
  <2>3. TypeOK'
    BY <2>1, <2>2 DEF IInv, TypeOK, Mover, Resting
  <2> QED BY <2>1, <2>2, <2>3 DEF IInv, Resting, CibTracksMotor, Headed, AtRest, Word
<1> QED BY <1>1, <1>2

LEMMA MoveSentInv == ASSUME IInv, MoveSent PROVE IInv'
<1>1. CASE motor' = motor
  BY <1>1 DEF MoveSent, IInv, TypeOK, Mover, Resting, CibTracksMotor, Headed, AtRest, Word
<1>2. CASE motor' = [motor EXCEPT !.goal = m.setpoint]
  <2>1. motor'.pos = motor.pos /\ motor'.goal = m.setpoint /\ m.setpoint \in Position
    BY <1>2 DEF MoveSent, IInv, TypeOK
  <2>2. TypeOK'
    BY <1>2, <2>1 DEF MoveSent, IInv, TypeOK, Mover, Resting
  <2> QED BY <2>1, <2>2 DEF MoveSent, IInv, Resting, CibTracksMotor, Headed, Word
<1> QED BY <1>1, <1>2 DEF MoveSent

LEMMA PositionReadInv == ASSUME IInv, PositionRead PROVE IInv'
<1>1. TypeOK' /\ m'.setpoint = m.setpoint
  BY DEF PositionRead, IInv, TypeOK, Members, Cached
<1> QED BY <1>1, Bystander DEF PositionRead

\* The monitors touch the cached position and their own state only.
LEMMA MonitorInv ==
  ASSUME IInv, NEW k \in Kinds, NEW i \in Slots(k), Monitor(k, i)
  PROVE  IInv'
<1>1. thread[k] \in [Slots(k) -> Thread] /\ thread[k][i] \in Thread
  BY DEF IInv, TypeOK
<1>2. ASSUME NEW t \in Thread, SetThread(k, i, t)
      PROVE  DOMAIN thread' = Kinds /\ \A j \in Kinds : thread'[j] \in [Slots(j) -> Thread]
  <2>1. thread' = [thread EXCEPT ![k] = [thread[k] EXCEPT ![i] = t]]
    BY <1>2 DEF SetThread
  <2>2. [thread[k] EXCEPT ![i] = t] \in [Slots(k) -> Thread]
    BY <1>1
  <2> QED BY <2>1, <2>2 DEF IInv, TypeOK
<1>3. Awake \in Thread /\ NoThread \in Thread /\ [Awake EXCEPT !.pc = "failed"] \in Thread
  <2>1. NoThread \in Thread
    BY MotorAssumption DEF NoThread, Thread, Position
  <2>2. Awake \in Thread
    BY <2>1 DEF Awake, Thread
  <2> QED BY <2>1, <2>2 DEF Thread
<1>4. CASE MonitorAsks(k, i)
  <2>1. [pc |-> "asked", pos |-> motor.pos] \in Thread
    BY DEF IInv, TypeOK, Thread
  <2>2. TypeOK' BY <1>2, <1>4, <2>1 DEF MonitorAsks, IInv, TypeOK
  <2> QED BY <1>4, <2>2, Bystander DEF MonitorAsks
<1>5. CASE MonitorStores(k, i)
  <2>1. thread[k][i].pos \in Cached
    BY <1>1 DEF Thread, Cached
  <2>2. m' \in Members /\ m'.setpoint = m.setpoint
    BY <1>5, <2>1 DEF MonitorStores, IInv, TypeOK, Members
  <2>3. TypeOK' BY <1>2, <1>3, <1>5, <2>2 DEF MonitorStores, IInv, TypeOK
  <2> QED BY <1>5, <2>2, <2>3, Bystander DEF MonitorStores
<1>6. CASE MonitorFails(k, i)
  <2>1. m' \in Members /\ m'.setpoint = m.setpoint
    BY <1>6 DEF MonitorFails, IInv, TypeOK, Members
  <2>2. TypeOK' BY <1>2, <1>3, <1>6, <2>1 DEF MonitorFails, IInv, TypeOK
  <2> QED BY <1>6, <2>1, <2>2, Bystander DEF MonitorFails
<1>7. CASE MonitorSlept(k, i) \/ MonitorEnds(k, i)
  <2>1. TypeOK' BY <1>2, <1>3, <1>7 DEF MonitorSlept, MonitorEnds, IInv, TypeOK
  <2> QED BY <1>7, <2>1, Bystander DEF MonitorSlept, MonitorEnds
<1> QED BY <1>4, <1>5, <1>6, <1>7 DEF Monitor

LEMMA AbortInv ==
  ASSUME IInv, NEW i \in Slots("cib"), MonitorAborts(i)
  PROVE  IInv'
<1>1. TypeOK' BY DEF MonitorAborts, IInv, TypeOK
<1> QED BY <1>1, Bystander DEF MonitorAborts

LEMMA ConfigMapsInv == ASSUME IInv, ConfigMaps \/ ConfigFails PROVE IInv'
<1>1. m' \in Members /\ m'.setpoint = m.setpoint
  <2>1. m \in Members
    BY DEF IInv, TypeOK
  <2>2. CASE ConfigMaps
    BY <2>1, <2>2 DEF ConfigMaps, Members
  <2>3. CASE ConfigFails
    <3>1. PICK mapped \in Fragments \cup {{}}, host \in BOOLEAN :
            m' = [m EXCEPT !.regs = mapped, !.host = m.host \/ host]
      BY <2>3 DEF ConfigFails
    <3>2. mapped \subseteq Registers /\ (m.host \/ host) \in BOOLEAN
      BY MotorAssumption
    <3> QED BY <2>1, <3>1, <3>2 DEF Members
  <2> QED BY <2>2, <2>3
<1>2. TypeOK' BY <1>1 DEF ConfigMaps, ConfigFails, IInv, TypeOK
<1> QED BY <1>1, <1>2, Bystander DEF ConfigMaps, ConfigFails

\* A set point that is reset to the position goes nowhere.
LEMMA ConfigCompletesInv == ASSUME IInv, ConfigCompletes PROVE IInv'
<1>1. PICK mapped \in Fragments, answers \in BOOLEAN :
        m' = [m EXCEPT !.regs = mapped, !.host = TRUE,
                       !.position = IF answers THEN motor.pos ELSE @,
                       !.setpoint = IF answers THEN motor.pos ELSE @]
  BY DEF ConfigCompletes
<1>2. /\ m' \in Members
      /\ m'.setpoint = IF answers THEN motor.pos ELSE m.setpoint
  BY <1>1, MotorAssumption DEF IInv, TypeOK, Members, Cached
<1>3. ASSUME NEW k \in Kinds PROVE Started(k) \in [Slots(k) -> Thread]
  <2>1. Awake \in Thread
    BY MotorAssumption DEF Awake, NoThread, Thread, Position
  <2> QED BY <2>1 DEF IInv, TypeOK, Started
<1>4. TypeOK'
  BY <1>2, <1>3 DEF ConfigCompletes, IInv, TypeOK
<1>5. motor.pos \in Position
  BY DEF IInv, TypeOK
<1> QED BY <1>2, <1>4, <1>5 DEF ConfigCompletes, IInv, CibTracksMotor, Headed, AtRest, Word

LEMMA StopSentInv == ASSUME IInv, StopSent PROVE IInv'
<1>1. /\ motor'.pos = motor.pos /\ motor'.goal \in {motor.goal, motor.pos}
      /\ motor' \in [pos : Position, goal : Position]
  BY DEF StopSent, IInv, TypeOK
<1>2. TypeOK'
  BY <1>1 DEF StopSent, IInv, TypeOK
<1> QED BY <1>1, <1>2 DEF StopSent, IInv, CibTracksMotor, Headed, AtRest, Word

LEMMA StopLoadsInv == ASSUME IInv, StopLoads PROVE IInv'
<1>1. CASE "load" \in m.regs
  <2>1. LoadPosition /\ UNCHANGED <<motor, m, flag, thread, mover, cleared>>
    BY <1>1 DEF StopLoads
  <2>2. TypeOK'
    BY <2>1, LoadInv DEF StopLoads, IInv, TypeOK
  <2> QED BY <2>1, <2>2, LoadInv DEF IInv, CibTracksMotor, Headed, AtRest, Word
<1>2. CASE "load" \notin m.regs
  <2>1. TypeOK' BY <1>2 DEF StopLoads, IInv, TypeOK
  <2> QED BY <1>2, <2>1, Bystander DEF StopLoads
<1> QED BY <1>1, <1>2

LEMMA ClearInv == ASSUME IInv, Terminate \/ RefreshOff PROVE IInv'
<1>1. PICK kinds : Clear(kinds)
  BY DEF Terminate, RefreshOff
<1>2. cleared' \in 0 .. MaxCleared
  BY <1>1, MotorAssumption DEF Clear, IInv, TypeOK
<1>3. flag' \in [Kinds -> BOOLEAN]
  BY <1>1 DEF Clear
<1>4. TypeOK'
  BY <1>2, <1>3 DEF Terminate, RefreshOff, IInv, TypeOK
<1> QED BY <1>4, Bystander DEF Terminate, RefreshOff

LEMMA NextInv == IInv /\ [Next]_vars => IInv'
<1> SUFFICES ASSUME IInv, [Next]_vars PROVE IInv'
  OBVIOUS
<1>1. CASE MotorSteps BY <1>1, MotorStepsInv
<1>2. CASE Moving
  BY <1>2, MoveCalledInv, MoveAimsInv, MoveLoadsInv, MoveSentInv, PositionReadInv DEF Moving
<1>3. CASE Server
  BY <1>3, ConfigMapsInv, ConfigCompletesInv, StopSentInv, StopLoadsInv, ClearInv DEF Server
<1>4. CASE \E k \in Kinds : \E i \in Slots(k) : Monitor(k, i)
  BY <1>4, MonitorInv
<1>5. CASE \E i \in Slots("cib") : MonitorAborts(i)
  BY <1>5, AbortInv
<1>6. CASE UNCHANGED vars
  <2>1. TypeOK' BY <1>6 DEF vars, IInv, TypeOK
  <2> QED BY <1>6, <2>1, Bystander DEF vars
<1> QED BY <1>1, <1>2, <1>3, <1>4, <1>5, <1>6 DEF Next

\* TypeOK and CibTracksMotor, for every value of the constants: the members of
\* DIoLMotor keep their types, and the CIB holds the motor's position since it
\* was last loaded with a true one, whatever stop, config and the monitors do
\* between the steps of motor_move.
THEOREM MotorTyping == Spec => []TypeOK
<1>1. IInv => TypeOK BY DEF IInv
<1> QED BY <1>1, InitInv, NextInv, PTL DEF Spec

THEOREM CibIsTrue == Spec => []CibTracksMotor
<1>1. IInv => CibTracksMotor BY DEF IInv
<1> QED BY <1>1, InitInv, NextInv, PTL DEF Spec

\* One thread for each time the flag was set: it is set once more than it was
\* cleared while the monitor is wanted, and as often while it is not.
CInv == TypeOK /\ \A k \in Kinds :
          Cardinality(Alive(k)) <= cleared + (IF flag[k] THEN 1 ELSE 0)

LEMMA AliveFinite ==
  ASSUME NEW k \in Kinds
  PROVE  IsFiniteSet(Alive(k)) /\ Cardinality(Alive(k)) \in Nat
<1>1. IsFiniteSet(Slots(k))
  BY MotorAssumption, FS_Interval DEF Slots
<1> QED BY <1>1, FS_Subset, FS_CardinalityType DEF Alive

\* A step that starts no thread and clears no flag.
LEMMA FewerThreads ==
  ASSUME CInv, TypeOK', UNCHANGED <<flag, cleared>>, \A k \in Kinds : Alive(k)' \subseteq Alive(k)
  PROVE  CInv'
<1> SUFFICES ASSUME NEW k \in Kinds
             PROVE  Cardinality(Alive(k)') <= cleared + (IF flag[k] THEN 1 ELSE 0)
  BY DEF CInv
<1>1. IsFiniteSet(Alive(k)) /\ Cardinality(Alive(k)) \in Nat
  BY AliveFinite
<1>2. Cardinality(Alive(k)') \in Nat /\ Cardinality(Alive(k)') <= Cardinality(Alive(k))
  BY <1>1, FS_Subset, FS_CardinalityType
<1>3. cleared \in Nat
  BY MotorAssumption DEF CInv, TypeOK
<1> QED BY <1>1, <1>2, <1>3 DEF CInv

LEMMA MonitorCount ==
  ASSUME CInv, TypeOK', NEW k \in Kinds, NEW i \in Slots(k), Monitor(k, i)
  PROVE  CInv'
<1>1. thread[k][i].pc # "none"
  BY DEF Monitor, MonitorAsks, MonitorStores, MonitorFails, MonitorSlept, MonitorEnds
<1>2. PICK t : SetThread(k, i, t)
  BY DEF Monitor, MonitorAsks, MonitorStores, MonitorFails, MonitorSlept, MonitorEnds
<1>3. ASSUME NEW j \in Kinds, NEW n \in Slots(j), ~(j = k /\ n = i)
      PROVE  thread'[j][n] = thread[j][n]
  <2>1. thread[j] \in [Slots(j) -> Thread] /\ DOMAIN thread = Kinds
    BY DEF CInv, TypeOK
  <2> QED BY <1>2, <1>3, <2>1 DEF SetThread
<1>4. ASSUME NEW j \in Kinds PROVE Alive(j)' \subseteq Alive(j)
  BY <1>1, <1>3 DEF Alive, Free
<1>5. UNCHANGED <<flag, cleared>>
  BY DEF Monitor, MonitorAsks, MonitorStores, MonitorFails, MonitorSlept, MonitorEnds
<1> QED BY <1>4, <1>5, FewerThreads

LEMMA OneMore ==
  ASSUME NEW S, IsFiniteSet(S), NEW x
  PROVE  IsFiniteSet(S \cup {x}) /\ Cardinality(S \cup {x}) <= Cardinality(S) + 1
<1>1. Cardinality(S) \in Nat
  BY FS_CardinalityType
<1>2. /\ IsFiniteSet(S \cup {x})
      /\ Cardinality(S \cup {x}) = IF x \in S THEN Cardinality(S) ELSE Cardinality(S) + 1
  BY FS_AddElement, Zenon
<1> QED BY <1>1, <1>2

\* config starts one thread of each kind whose flag is not set, and sets it.
LEMMA ConfigCount == ASSUME CInv, TypeOK', ConfigCompletes PROVE CInv'
<1> SUFFICES ASSUME NEW k \in Kinds PROVE Cardinality(Alive(k)') <= cleared + 1
  BY DEF CInv, ConfigCompletes
<1>1. IsFiniteSet(Alive(k)) /\ Cardinality(Alive(k)) \in Nat
  BY AliveFinite
<1>2. cleared \in Nat /\ Cardinality(Alive(k)) <= cleared + (IF flag[k] THEN 1 ELSE 0)
  BY MotorAssumption DEF CInv, TypeOK
<1>3. thread'[k] = Started(k)
  BY DEF ConfigCompletes
<1>4. CASE flag[k]
  <2>1. Alive(k)' = Alive(k)
    BY <1>3, <1>4 DEF Started, Starts, Alive, Free
  <2> QED BY <1>2, <1>4, <2>1
<1>5. CASE ~flag[k]
  <2>1. PICK i : Alive(k)' \subseteq Alive(k) \cup {i}
    <3>1. thread[k] \in [Slots(k) -> Thread]
      BY DEF CInv, TypeOK
    <3>2. CASE Free(k) = {}
      BY <1>3, <3>2 DEF Started, Alive, Free
    <3>3. CASE Free(k) # {}
      <4> DEFINE i == CHOOSE i \in Free(k) : TRUE
      <4>1. thread'[k] = [thread[k] EXCEPT ![i] = Awake]
        BY <1>3, <1>5, <3>3 DEF Started, Starts
      <4>2. \A n \in Slots(k) : n # i => thread'[k][n] = thread[k][n]
        BY <3>1, <4>1
      <4> QED BY <4>2 DEF Alive, Free
    <3> QED BY <3>2, <3>3
  <2>2. IsFiniteSet(Alive(k) \cup {i}) /\ Cardinality(Alive(k) \cup {i}) <= Cardinality(Alive(k)) + 1
    BY <1>1, OneMore
  <2>3. Cardinality(Alive(k)') <= Cardinality(Alive(k) \cup {i})
    BY <2>1, <2>2, FS_Subset
  <2>4. Cardinality(Alive(k)') \in Nat /\ Cardinality(Alive(k) \cup {i}) \in Nat
    BY <2>1, <2>2, FS_Subset, FS_CardinalityType
  <2> QED BY <1>1, <1>2, <1>5, <2>2, <2>3, <2>4
<1> QED BY <1>4, <1>5

LEMMA ClearCount == ASSUME CInv, TypeOK', Terminate \/ RefreshOff PROVE CInv'
<1>1. PICK kinds : Clear(kinds)
  BY DEF Terminate, RefreshOff
<1>2. UNCHANGED thread
  BY DEF Terminate, RefreshOff
<1> SUFFICES ASSUME NEW k \in Kinds
             PROVE  Cardinality(Alive(k)') <= cleared' + (IF flag'[k] THEN 1 ELSE 0)
  BY DEF CInv
<1>3. Alive(k)' = Alive(k)
  BY <1>2 DEF Alive, Free
<1>4. cleared \in Nat /\ cleared' = cleared + 1 /\ (flag'[k] => flag[k])
  BY <1>1, MotorAssumption DEF Clear, CInv, TypeOK
<1>5. Cardinality(Alive(k)) \in Nat
  BY AliveFinite
<1> QED BY <1>3, <1>4, <1>5 DEF CInv

\* At most one thread of each kind, and one more for each time a flag was
\* cleared, for every number of threads there is room for: the threads that
\* survive terminate and config are no more than that.
THEOREM MonitorCountBounded == Spec => []MonitorsBounded
<1>1. Init /\ TypeOK => CInv
  <2> SUFFICES ASSUME Init, TypeOK, NEW k \in Kinds
               PROVE  Cardinality(Alive(k)) <= cleared + (IF flag[k] THEN 1 ELSE 0)
    BY DEF CInv
  <2>1. Alive(k) = {}
    BY DEF Init, Alive, Free, NoThread
  <2>2. cleared = 0 /\ ~flag[k] /\ Cardinality({}) = 0
    BY FS_EmptySet DEF Init
  <2> QED BY <2>1, <2>2
<1>2. CInv /\ TypeOK' /\ [Next]_vars => CInv'
  <2> SUFFICES ASSUME CInv, TypeOK', [Next]_vars PROVE CInv'
    OBVIOUS
  <2>1. CASE UNCHANGED <<thread, flag, cleared>>
    BY <2>1, FewerThreads DEF Alive, Free
  <2>2. CASE ConfigCompletes BY <2>2, ConfigCount
  <2>3. CASE Terminate \/ RefreshOff BY <2>3, ClearCount
  <2>4. CASE \E k \in Kinds : \E i \in Slots(k) : Monitor(k, i) BY <2>4, MonitorCount
  <2> QED BY <2>1, <2>2, <2>3, <2>4
          DEF Next, vars, MotorSteps, Moving, MoveCalled, MoveAims, MoveLoads, MoveSent,
              PositionRead, Server, ConfigMaps, ConfigFails, StopSent, StopLoads, MonitorAborts
<1>3. CInv => MonitorsBounded
  <2> SUFFICES ASSUME CInv, NEW k \in Kinds PROVE Cardinality(Alive(k)) <= 1 + cleared
    BY DEF MonitorsBounded
  <2>1. Cardinality(Alive(k)) \in Nat /\ cleared \in Nat
    BY AliveFinite, MotorAssumption DEF CInv, TypeOK
  <2> QED BY <2>1 DEF CInv
<1>4. Spec => []TypeOK BY MotorTyping
<1>5. Spec => Init /\ [][Next]_vars BY DEF Spec
<1> QED BY <1>1, <1>2, <1>3, <1>4, <1>5, PTL
==============================================================================
