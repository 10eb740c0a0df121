------------------------------ MODULE LaserRace ------------------------------
(***************************************************************************)
(* The handlers of the laser unit (DIoLLaserUnit) step by step.  They run  *)
(* in the server's thread, in the threads of tasks and timers, and in the  *)
(* main loop, and no lock keeps them apart: the mutex covers one serial    *)
(* command.  Between two steps of one, which may be a tenth of a second    *)
(* apart, those of another come in.                                        *)
(*                                                                         *)
(* A thread has the steps it has yet to do.  A step writes a register,     *)
(* keeps a flag, commands the laser's shutter, sets the status, or looks   *)
(* at flags and chooses the steps that follow.  The flags are four bits of *)
(* one byte, m_part_state: keeping one loads the byte and stores it, and   *)
(* what other threads keep in between is lost.                             *)
(*                                                                         *)
(* The unit is configured and stays so; configuration, termination and     *)
(* what fails in them are in module LaserUnit, where a handler is one      *)
(* action.                                                                 *)
(***************************************************************************)
EXTENDS Naturals, Sequences, FiniteSets

CONSTANTS PauseTimers, StandbyTimers, WarmupTimers,   \* the timer threads there may be
          ServerCalls,   \* what clients call, of ClientCalls
          MaxBusy,       \* bounds the handlers that run at once
          MaxMeetings    \* bounds how often one begins beside another, until a stop heals it

VARIABLES status,   \* m_status
          view,     \* m_part_state; "shutter" and "laser" say closed
          hw,       \* the registers, and the laser's own shutter
          todo,     \* of each thread, the steps yet to do
          timer,    \* whether a timer thread polls, or had its last poll
          past      \* history, see Ended

vars == <<status, view, hw, todo, timer, past>>

Slot   == PauseTimers \cup StandbyTimers \cup WarmupTimers
Thread == {"server", "task", "main"} \cup Slot
Flag   == {"shutter", "laser", "qswitch", "fire"}

Kind(t) == IF t \in PauseTimers THEN "pause" ELSE IF t \in StandbyTimers THEN "standby" ELSE "warmup"

None == "none"

ASSUME NoneIsNoTimer == None \notin Slot

-----------------------------------------------------------------------------
(* Steps. *)

\* A register and then its flag.
Put(f, on) == <<<<"write", f, on>>>>

\* refresh_registers: the flag from the register.
Refresh(f) == <<<<"read", f>>>>

\* The flag, in the byte that was loaded.
Keep(f, on) == <<<<"keep", [view EXCEPT ![f] = on]>>>>

\* The laser is told to close its shutter or to open it; what follows if the
\* driver throws.
Command(close, otherwise) == <<<<"command", close, otherwise>>>>

Say(s) == <<<<"say", s>>>>
Ask(q) == <<<<"ask", q>>>>

-----------------------------------------------------------------------------
(* Handlers: when the first look lets them go on, and their steps then. *)

Accepts(c) ==
  CASE c = "pause"   -> status \in {"standby", "lasing"}
    [] c = "standby" -> status \in {"lasing", "pause"}
    [] c = "resume"  -> status \in {"pause", "standby"} /\ view.fire
    [] c = "start"   -> status = "ready"
    [] c = "warm"    -> status = "warmup"
    [] c = "close"   -> ~view.shutter
    [] c = "open"    -> view.shutter
    [] OTHER         -> TRUE

\* Variant: pause closes the external shutter last.
PauseStepsLate == Command(FALSE, "ends") \o Ask("paused") \o Put("shutter", TRUE)
PauseSteps     == Put("shutter", TRUE) \o Command(FALSE, "ends") \o Ask("paused")

\* Variant: stop leaves the laser firing.
StopStepsKeepFire == Ask("shut") \o Put("qswitch", FALSE) \o Command(TRUE, "goes on")
                       \o Ask("reopened") \o Say("ready")
StopSteps == Ask("shut") \o Put("qswitch", FALSE) \o Put("fire", FALSE) \o Command(TRUE, "goes on")
               \o Ask("reopened") \o Say("ready")

\* The shutter methods work out the status before they write.
Opened == IF ~view.fire THEN "ready" ELSE IF view.laser THEN "standby" ELSE "lasing"
LaserOpened == IF ~view.fire THEN "ready" ELSE IF view.shutter THEN "pause" ELSE "lasing"

Steps(c) ==
  CASE c = "pause"   -> PauseSteps
    [] c = "standby" -> Put("qswitch", FALSE) \o Command(TRUE, "goes on") \o Put("shutter", TRUE)
                          \o Ask("standing by")
    [] c = "resume"  -> Command(FALSE, "stands by") \o Put("shutter", FALSE) \o Say("lasing")
    [] c = "stop"    -> StopSteps
    [] c = "start"   -> Put("qswitch", FALSE) \o Command(TRUE, "ends") \o Ask("fired")
    [] c = "warm"    -> Say("standby")
    [] c = "close"   -> Put("shutter", TRUE) \o Ask("closed")
    [] c = "open"    -> Put("shutter", FALSE) \o Say(Opened)
    [] c = "closeLaser" -> Put("qswitch", FALSE) \o Command(TRUE, "goes on") \o Say("standby") \o Ask("opened")
    [] c = "openLaser"  -> Command(FALSE, "goes on") \o Put("qswitch", TRUE) \o Say(LaserOpened)
    [] c = "update"  -> Ask("status") \o Refresh("shutter") \o Refresh("fire") \o Refresh("qswitch")

\* What a look at the flags puts in its place.  stop forces the shutter by the
\* method of the clients; the laser may refuse to fire, and start stops then;
\* the main loop says again the status it has seen.
Answers(q) ==
  CASE q = "paused"      -> {IF view.fire THEN Put("qswitch", TRUE) \o Say("pause") ELSE Say("ready")}
    [] q = "standing by" -> {Say(IF view.fire THEN "standby" ELSE "ready")}
    [] q = "closed"      -> {Say(IF view.fire THEN "pause" ELSE "ready")}
    [] q = "shut"        -> {IF Accepts("close") THEN Steps("close") ELSE <<>>}
    [] q = "reopened"    -> {IF Accepts("open") THEN Steps("open") ELSE <<>>}
    [] q = "opened"      -> {IF view.shutter THEN Put("shutter", FALSE) ELSE <<>>}
    [] q = "fired"       -> {(IF view.shutter THEN <<>> ELSE Put("shutter", TRUE))
                               \o Put("fire", TRUE) \o Say("warmup"), Steps("stop")}
    [] q = "status"      -> {Say(status)}

-----------------------------------------------------------------------------
(* Threads. *)

Busy == {t \in Thread : todo[t] # <<>>}
Calm == Busy = {}

\* History.  met: how often two handlers have run at once since the last stop
\* that ran alone and was obeyed; healing: a stop that may become one.  started: a start
\* began since the last stop that met none; unmet: stops that may become one;
\* starting: one is under way.
Begun(t, c) ==
  LET unmet == CASE c = "start" -> {}
                 [] c = "stop" /\ ~past.starting -> past.unmet \cup {t}
                 [] OTHER -> past.unmet
  IN  [met     |-> IF Calm THEN past.met ELSE past.met + 1,
       healing |-> IF Calm /\ c = "stop" THEN t ELSE None,
       started |-> past.started \/ c = "start",
       unmet   |-> unmet,
       starting |-> past.starting \/ c = "start"]

Ended(t) ==
  [met     |-> IF past.healing = t THEN 0 ELSE past.met,
   healing |-> IF past.healing = t THEN None ELSE past.healing,
   started |-> past.started /\ t \notin past.unmet,
   unmet   |-> past.unmet \ {t},
   starting |-> past.starting /\ t # "server"]

\* The thread comes to these steps.
Comes(t, steps) ==
  /\ todo' = [todo EXCEPT ![t] = steps]
  /\ past' = IF steps = <<>> THEN Ended(t) ELSE past

Does(t, what) == todo[t] # <<>> /\ todo[t][1][1] = what
Step(t) == todo[t][1]
Rest(t) == Tail(todo[t])

ClientCalls == {"pause", "standby", "resume", "stop", "start", "close", "open", "closeLaser", "openLaser"}

ASSUME ServerCallsAssumption == ServerCalls \subseteq ClientCalls

Calls(t) ==
  CASE t = "server" -> ServerCalls
    [] t = "task"   -> {"pause", "standby", "resume"}
    [] t = "main"   -> {"update"}

Begin(t, c) ==
  /\ Accepts(c)
  /\ Cardinality(Busy) < MaxBusy /\ (Calm \/ past.met < MaxMeetings)
  /\ todo' = [todo EXCEPT ![t] = Steps(c)]
  /\ past' = Begun(t, c)
  /\ UNCHANGED <<status, view, hw>>

CallBegins(t) ==
  /\ t \notin Slot /\ todo[t] = <<>>
  /\ \E c \in Calls(t) : Begin(t, c)
  /\ UNCHANGED timer

\* Variant: the flag is left to the next update.
WritesUnkept(t) ==
  /\ Does(t, "write")
  /\ hw' = [hw EXCEPT ![Step(t)[2]] = Step(t)[3]]
  /\ Comes(t, Rest(t))
  /\ UNCHANGED <<status, view, timer>>

\* The register is written and the byte loaded; then the byte is stored.
Writes(t) ==
  /\ Does(t, "write")
  /\ LET f == Step(t)[2]  on == Step(t)[3]
     IN  /\ hw' = [hw EXCEPT ![f] = on]
         /\ Comes(t, Keep(f, on) \o Rest(t))
  /\ UNCHANGED <<status, view, timer>>

Reads(t) ==
  /\ Does(t, "read")
  /\ LET f == Step(t)[2]
     IN  Comes(t, Keep(f, hw[f]) \o Rest(t))
  /\ UNCHANGED <<status, view, hw, timer>>

Stores(t) ==
  /\ Does(t, "keep")
  /\ view' = Step(t)[2]
  /\ Comes(t, Rest(t))
  /\ UNCHANGED <<status, hw, timer>>

Commands(t) ==
  /\ Does(t, "command")
  /\ hw' = [hw EXCEPT !.laser = Step(t)[2]]
  /\ Comes(t, Keep("laser", Step(t)[2]) \o Rest(t))
  /\ UNCHANGED <<status, view, timer>>

\* A resume that falls back to standby ends in any case.
CommandThrows(t) ==
  /\ Does(t, "command")
  /\ LET after == CASE Step(t)[3] = "goes on"   -> Rest(t)
                    [] Step(t)[3] = "ends"      -> <<>>
                    [] Step(t)[3] = "stands by" -> IF Accepts("standby") THEN Steps("standby") ELSE <<>>
     IN  /\ todo' = [todo EXCEPT ![t] = after]
         /\ past' = [IF after = <<>> THEN Ended(t) ELSE past EXCEPT !.healing = None]
  /\ UNCHANGED <<status, view, hw, timer>>

Looks(t) ==
  /\ Does(t, "ask")
  /\ \E steps \in Answers(Step(t)[2]) : Comes(t, steps \o Rest(t))
  /\ UNCHANGED <<status, view, hw, timer>>

\* update_status starts a timer thread on entering a state that must not last.
Says(t) ==
  /\ Does(t, "say")
  /\ LET s == Step(t)[2]
     IN  IF s = status \/ s \notin {"pause", "standby", "warmup"}
         THEN status' = s /\ UNCHANGED timer
         ELSE /\ status' = s
              /\ \E u \in Slot \ Busy : /\ Kind(u) = s /\ timer[u] = None
                                        /\ timer' = [timer EXCEPT ![u] = "polls"]
  /\ Comes(t, Rest(t))
  /\ UNCHANGED <<view, hw>>

-----------------------------------------------------------------------------
(* Timer threads. *)

\* Variant: the wrong shutter.
KeepsWaitingLaser(t) == IF Kind(t) = "pause" THEN view.laser ELSE status = Kind(t)

KeepsWaiting(t) == IF Kind(t) = "pause" THEN view.shutter ELSE status = Kind(t)

TimerGivesUp(t) ==
  /\ timer[t] = "polls" /\ ~KeepsWaiting(t)
  /\ timer' = [timer EXCEPT ![t] = None]
  /\ UNCHANGED <<status, view, hw, todo, past>>

TimerLastPoll(t) ==
  /\ timer[t] = "polls" /\ KeepsWaiting(t)
  /\ timer' = [timer EXCEPT ![t] = "due"]
  /\ UNCHANGED <<status, view, hw, todo, past>>

TimerCalls(t) == CASE Kind(t) = "pause" -> "standby" [] Kind(t) = "standby" -> "stop" [] OTHER -> "warm"

TimerActs(t) ==
  /\ timer[t] = "due"
  /\ timer' = [timer EXCEPT ![t] = None]
  /\ \/ Begin(t, TimerCalls(t))
     \/ ~Accepts(TimerCalls(t)) /\ UNCHANGED <<status, view, hw, todo, past>>

-----------------------------------------------------------------------------

Init ==
  /\ status = "ready"
  /\ view = [f \in Flag |-> f = "laser"] /\ hw = view
  /\ todo = [t \in Thread |-> <<>>]
  /\ timer = [t \in Slot |-> None]
  /\ past = [met |-> 0, healing |-> None, started |-> FALSE, unmet |-> {}, starting |-> FALSE]

Next ==
  \/ \E t \in Thread :
       CallBegins(t) \/ Writes(t) \/ Reads(t) \/ Stores(t) \/ Commands(t) \/ CommandThrows(t)
         \/ Looks(t) \/ Says(t)
  \/ \E t \in Slot : TimerGivesUp(t) \/ TimerLastPoll(t) \/ TimerActs(t)

Spec == Init /\ [][Next]_vars

-----------------------------------------------------------------------------
(* Properties. *)

Beam == hw.fire /\ hw.qswitch /\ ~hw.shutter /\ ~hw.laser

\* Handlers that have run one at a time, since the start of the server or since
\* the last stop that ran alone, leave what LaserUnit says of a handler that is
\* one action: the status fits the hardware, and the flags show it.  So a stop
\* repairs all that handlers which met may have left.
AloneIsSound ==
  Calm /\ past.met = 0 =>
    /\ view = hw
    /\ Beam => status = "lasing"
    /\ status = "ready" => ~hw.fire
    /\ status = "pause" => hw.shutter

\* Alone, a handler lets light out only under the status lasing, or if it is
\* about to say so.
LightIsAnnounced ==
  past.met = 0 /\ Beam =>
    status = "lasing" \/ \E t \in Busy : <<"say", "lasing">> \in {todo[t][i] : i \in DOMAIN todo[t]}

\* Alone, a handler leaves a state that must not last with a thread that will
\* end it: none of those of before has given up for good in its midst.
WaitsAreTimed ==
  Calm /\ past.met = 0 /\ status \in {"pause", "standby", "warmup"}
    => \E t \in Slot : Kind(t) = status /\ timer[t] # None

\* A stop is final, whatever else meets it: the laser fires again only after a
\* start that began later.  A stop that meets a start promises nothing.
StopIsFinal == hw.fire => past.started

\* pause: "this is a state that closes the external shutter while keeping
\* everything else working".
PausedIsShut == Calm /\ status = "pause" => hw.shutter
==============================================================================
