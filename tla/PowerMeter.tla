------------------------------ MODULE PowerMeter ------------------------------
(***************************************************************************)
(* The power meter (DIoLPowerMeter): the life of its driver object, and    *)
(* the threads that take readings with it.  Method calls come one at a     *)
(* time from the server's thread.  start_readings leaves a detached thread *)
(* behind, which looks at a flag at the top of each turn, and at the state *)
(* before each of its two readings; the lock of the serial line is taken   *)
(* after that look.  terminate deletes the object without the lock.        *)
(*                                                                         *)
(* A method that deletes the object is a sequence of actions; what is left *)
(* of it is kept in server.  What the meter measures, and its settings     *)
(* (module MeterSetting), are left out.                                    *)
(***************************************************************************)
EXTENDS Naturals, Sequences, FiniteSets

CONSTANTS Readers,    \* reading threads that may be alive at once
          MaxStops    \* bound: stops while some reading thread lives on

ASSUME MeterAssumption == IsFiniteSet(Readers) /\ MaxStops \in Nat

VARIABLES m_status,
          m_pm,       \* whether there is a driver object
          m_do,       \* m_do_measurements
          server,     \* what is left of the method that runs
          reader,     \* where each reading thread is
          late,       \* history: readings begun before the state left sOperating
          stops       \* history: how often m_do was cleared since no thread lived

vars == <<m_status, m_pm, m_do, server, reader, late, stops>>

Reading == {"energy", "average"}
Gone    == [at |-> "gone", what |-> "energy"]
Places  == [at : {"gone", "loop", "look", "lock", "inside", "asleep"}, what : Reading]

\* The inits that end a reset, and what may be left of a method.
Again == {"init", "init and start"}

Remaining ==
  {<<>>, <<"delete">>} \cup {<<again>> : again \in Again}
    \cup {<<"delete", again>> : again \in Again}
    \cup {<<"reset", "delete", again>> : again \in Again}

Alive     == {r \in Readers : reader[r].at # "gone"}
Measuring == {r \in Readers : reader[r].at \in {"lock", "inside"}}

\* m_serial_mutex; a method holds it within one action only.
LockFree == \A r \in Readers : reader[r].at # "inside"

-----------------------------------------------------------------------------
(* Pieces of the methods. *)

\* Variant: the flag is cleared, and the state is left to the next update.
LowerKeepsState(s) ==
  /\ m_do => stops < MaxStops
  /\ m_do' = FALSE
  /\ stops' = IF m_do THEN stops + 1 ELSE stops
  /\ UNCHANGED <<m_status, late>>

\* The state becomes s, and the flag is cleared.
Lower(s) ==
  /\ m_do => stops < MaxStops
  /\ m_status' = s
  /\ m_do' = FALSE
  /\ late' = IF m_status = "operating" THEN late \cup Measuring ELSE late
  /\ stops' = IF m_do THEN stops + 1 ELSE stops

\* Variant: the flag is not looked at.
StartAlways ==
  /\ m_status' = "operating" /\ m_do' = TRUE
  /\ \E r \in Readers : /\ reader[r].at = "gone"
                        /\ reader' = [reader EXCEPT ![r].at = "loop"]

\* start_readings: nothing when they run; nothing when the interval is too short.
Start ==
  IF m_do THEN UNCHANGED <<m_status, m_do, reader>>
  ELSE /\ m_status' = "operating" /\ m_do' = TRUE
       /\ \E r \in Readers : /\ reader[r].at = "gone"
                             /\ reader' = [reader EXCEPT ![r].at = "loop"]

StayReady == m_status' = "ready" /\ UNCHANGED <<m_do, reader>>

\* Variant: an exception leaves the driver object to the next configuration.
BuildForgets(start) ==
  /\ server' = <<>>
  /\ \/ m_pm' = TRUE /\ (StayReady \/ (start /\ Start))
     \/ m_pm' \in {m_pm, TRUE} /\ UNCHANGED <<m_status, m_do, reader>>

\* What init and config have in common: build the driver object, talk to the
\* meter, apply the settings.  A setting that is refused ends it in sReady.  An
\* exception terminates, whether the object was built or not.
Build(start) ==
  \/ /\ m_pm' = TRUE
     /\ server' = <<>>
     /\ StayReady \/ (start /\ Start)
  \/ /\ m_pm' \in {m_pm, TRUE}
     /\ server' = <<"delete">>
     /\ UNCHANGED <<m_status, m_do, reader>>

\* The object is built already, or there is no port to build it with.
Refused ==
  /\ server' = <<>>
  /\ UNCHANGED <<m_status, m_pm, m_do, reader>>

-----------------------------------------------------------------------------
(* The methods. *)

Called == server = <<>>

CallInit ==
  /\ Called /\ LockFree
  /\ Refused \/ (m_status = "offline" /\ Build(TRUE))
  /\ UNCHANGED <<late, stops>>

\* set_conn refuses while there is a driver object, in sOffline as well.
CallConfig ==
  /\ Called /\ LockFree
  /\ Refused \/ (m_status = "offline" /\ ~m_pm /\ Build(TRUE))
  /\ UNCHANGED <<late, stops>>

CallStart_measurements ==
  /\ Called /\ m_status # "offline"
  /\ Start
  /\ UNCHANGED <<m_pm, server, late, stops>>

CallStop_measurements ==
  /\ Called /\ m_status # "offline"
  /\ Lower("ready")
  /\ UNCHANGED <<m_pm, server, reader>>

CallTerminate ==
  /\ Called
  /\ Lower("offline")
  /\ server' = <<"delete">>
  /\ UNCHANGED <<m_pm, reader>>

\* Variant: terminate is called by reset, and by its handler again.
CallResetTwice ==
  /\ Called /\ m_status # "offline"
  /\ Lower("ready")
  /\ \E again \in Again :
       server' = <<"reset", "delete", "delete", again>>
  /\ UNCHANGED <<m_pm, reader>>

\* Readings are stopped, the meter is reset, terminate and init follow; when
\* the meter fails to reset, init starts readings again.
CallReset ==
  /\ Called /\ m_status # "offline"
  /\ Lower("ready")
  /\ \E again \in Again : server' = <<"reset", "delete", again>>
  /\ UNCHANGED <<m_pm, reader>>

ResetMeter ==
  /\ server # <<>> /\ Head(server) = "reset" /\ LockFree
  /\ m_status' = "offline"
  /\ server' = Tail(server)
  /\ UNCHANGED <<m_pm, m_do, reader, late, stops>>

\* terminate, when it was not reached with readings under way.
Delete ==
  /\ server # <<>> /\ Head(server) = "delete"
  /\ m_pm' = FALSE
  /\ server' = Tail(server)
  /\ UNCHANGED <<m_status, m_do, reader, late, stops>>

Reinit ==
  /\ server # <<>> /\ Head(server) \in Again /\ LockFree
  /\ Refused \/ Build(Head(server) = "init and start")
  /\ UNCHANGED <<late, stops>>

Method ==
  \/ CallInit \/ CallConfig \/ CallStart_measurements \/ CallStop_measurements
  \/ CallTerminate \/ CallReset \/ ResetMeter \/ Delete \/ Reinit

-----------------------------------------------------------------------------
(* A reading thread. *)

Moves(r, from, place) ==
  /\ reader[r].at = from
  /\ reader' = [reader EXCEPT ![r] = place]
  /\ UNCHANGED <<m_status, m_pm, m_do, server>>

After(r) == IF reader[r].what = "energy" THEN [at |-> "look", what |-> "average"]
                                         ELSE [at |-> "asleep", what |-> "energy"]

\* Variant: the flag is looked at in sOperating only.
LoopOperating(r) ==
  /\ Moves(r, "loop", IF m_do \/ m_status # "operating"
                      THEN [at |-> "look", what |-> "energy"] ELSE Gone)
  /\ stops' = IF Alive' = {} THEN 0 ELSE stops
  /\ UNCHANGED late

\* The top of the loop.
Loop(r) ==
  /\ Moves(r, "loop", IF m_do THEN [at |-> "look", what |-> "energy"] ELSE Gone)
  /\ stops' = IF Alive' = {} THEN 0 ELSE stops
  /\ UNCHANGED late

\* The look at the state, without the lock.
Look(r) ==
  /\ Moves(r, "look", IF m_status = "operating" THEN [reader[r] EXCEPT !.at = "lock"] ELSE After(r))
  /\ late' = late \ {r}
  /\ UNCHANGED stops

\* The lock, and the first use of the object.
Enter(r) ==
  /\ LockFree /\ m_pm
  /\ Moves(r, "lock", [reader[r] EXCEPT !.at = "inside"])
  /\ UNCHANGED <<late, stops>>

\* The meter answers or does not; what it throws is caught.
Leave(r) ==
  /\ Moves(r, "inside", After(r))
  /\ UNCHANGED <<late, stops>>

Wake(r) ==
  /\ Moves(r, "asleep", [at |-> "loop", what |-> "energy"])
  /\ UNCHANGED <<late, stops>>

\* Without an object the use may end in an exception, which is caught.
Survive(r) ==
  /\ ~m_pm /\ LockFree
  /\ Moves(r, "lock", After(r))
  /\ UNCHANGED <<late, stops>>

Turn(r) == Loop(r) \/ Look(r) \/ Enter(r) \/ Leave(r) \/ Wake(r) \/ Survive(r)

-----------------------------------------------------------------------------

Init ==
  /\ m_status = "offline"
  /\ m_pm = FALSE
  /\ m_do = FALSE
  /\ server = <<>>
  /\ reader = [r \in Readers |-> Gone]
  /\ late = {}
  /\ stops = 0

\* The use of an object that is gone may also end the server; systemd starts
\* it again.
Crash ==
  /\ ~m_pm /\ Measuring # {}
  /\ m_status' = "offline" /\ m_pm' = FALSE /\ m_do' = FALSE
  /\ server' = <<>>
  /\ reader' = [r \in Readers |-> Gone]
  /\ late' = {} /\ stops' = 0

Next ==
  \/ Method
  \/ \E r \in Readers : Turn(r)
  \/ Crash

Spec == Init /\ [][Next]_vars

\* Threads run, and the meter answers or times out.  Clients need not call.
FairSpec == Spec /\ \A r \in Readers : WF_vars(Turn(r))

-----------------------------------------------------------------------------
(* Properties. *)

\* Every variable has its type.
TypeOK ==
  /\ m_status \in {"offline", "ready", "operating"}
  /\ m_pm \in BOOLEAN /\ m_do \in BOOLEAN
  /\ server \in Remaining
  /\ reader \in [Readers -> Places]
  /\ late \in SUBSET Readers
  /\ stops \in 0 .. MaxStops

\* A thread that is about to use the driver object finds it, whatever was
\* stopped, reset, terminated and configured again in between; the one that
\* does not had looked at the state before the readings were stopped.
ReadersUseLiveDriver == ~m_pm => Measuring \subseteq late

\* Between method calls the object is there when the state is not sOffline, and
\* only then: what set_conn refuses on, an object in sOffline, is not left behind
\* by a configuration, a reset or an initialisation that failed.
DriverFollowsStatus == Called => (m_pm <=> m_status # "offline")

\* Readings are taken by one thread, and by one more for each stop that no
\* thread has seen the end of.
ReadersBounded == Cardinality(Alive) <= stops + (IF m_do THEN 1 ELSE 0)

\* Once readings are stopped, and not started again, every thread ends.
ReadingsEnd == ~m_do ~> (m_do \/ Alive = {})
==============================================================================
