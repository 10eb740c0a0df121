------------------------------ MODULE Attenuator ------------------------------
(***************************************************************************)
(* The attenuator (DIoLAttenuator): the life of its driver object.  Its    *)
(* methods run in the server's thread, one at a time; update runs in the   *)
(* main loop's, without a lock between the two.  A method deletes or       *)
(* builds the object in one step and sets the status in another; update    *)
(* uses the object and then says again the status it has just read, which  *)
(* may be another by the time it is written.                               *)
(*                                                                         *)
(* A method looks only at the pointer to the object, and two of them leave *)
(* the pointer in a state of their own: a configuration forgets the object *)
(* without deleting it, a change of the connection deletes it without      *)
(* forgetting it.  A deleted object is used by update and by every setter, *)
(* and a status that says ready makes refresh_status use whatever the      *)
(* pointer leads to; either may end the server.  What the attenuator is    *)
(* set to is left out.                                                     *)
(*                                                                         *)
(* The steps are operators from a state of the attenuator to the next one, *)
(* for the laser system to take.                                           *)
(***************************************************************************)
EXTENDS Sequences

VARIABLE att

Status == {"offline", "ready"}

\* What a method does: forget, delete or build the object, set the status.
Step == {"forget", "delete", "build"} \cup Status

NoEcho == "none"

AttType == [status : Status,
            m_att : {"none", "live", "deleted"},   \* what the pointer leads to
            todo : Seq(Step),                      \* of a method, what is left of it
            echo : Status \cup {NoEcho},           \* what update has read and not yet written
            stale : BOOLEAN]                       \* history: update replaced a method's status

Constructed ==
  [status |-> "offline", m_att |-> "none", todo |-> << >>, echo |-> NoEcho, stale |-> FALSE]

-----------------------------------------------------------------------------
(* The methods, as the steps that each has to do when it is called.          *)

\* init_device builds an object where there is none; a pointer to a deleted one
\* will do.  Without a device the constructor of the driver throws.
InitDevice(pointer, found) ==
  IF pointer # "none" THEN << >>
  ELSE IF found THEN <<"build", "ready">> ELSE <<"offline">>

\* Variant: the status is left to init_device.
SetConnectionKeepsStatus(pointer, found) ==
  (IF pointer # "none" THEN <<"delete">> ELSE << >>) \o InitDevice(pointer, found)

SetConnection(pointer, found) ==
  (IF pointer # "none" THEN <<"delete", "offline">> ELSE << >>) \o InitDevice(pointer, found)

Terminate(pointer) ==
  (IF pointer # "none" THEN <<"delete", "forget">> ELSE << >>) \o <<"offline">>

\* How a configuration fares: rejected by its name or by its form, no device at
\* the port, no range in it, a value or a command that fails, accepted.
ConfigOutcome == {"rejected", "noDevice", "noRange", "badValue", "accepted"}

\* The object of before is not deleted; nobody has it any longer.
ConfigHandler(pointer, how) ==
  LET connect == SetConnection("none", how # "noDevice")
  IN  (IF pointer # "none" THEN <<"forget", "offline">> ELSE << >>)
      \o CASE how = "rejected" -> << >>
           [] how = "noDevice" -> connect \o <<"offline">>
           [] how = "noRange"  -> connect \o <<"ready">> \o Terminate("live")
           [] how \in {"badValue", "accepted"} -> connect \o <<"ready">>

-----------------------------------------------------------------------------

\* A method begins; the next one waits for its end.
Idle(a) == a.todo = << >>
Begins(a, steps) == [a EXCEPT !.todo = steps]

Pointer(step) ==
  CASE step = "forget" -> "none" [] step = "delete" -> "deleted" [] step = "build" -> "live"

\* The server's thread takes a step.
Proceeds(a) ==
  LET step == Head(a.todo)
      next == [a EXCEPT !.todo = Tail(@)]
  IN  IF step \in Status THEN [next EXCEPT !.status = step, !.stale = FALSE]
      ELSE [next EXCEPT !.m_att = Pointer(step)]

\* The main loop reads the status, and writes it some time later.
UpdateReads(a) == [a EXCEPT !.echo = a.status]
UpdateWrites(a) ==
  [a EXCEPT !.status = a.echo, !.echo = NoEcho, !.stale = @ \/ a.status # a.echo]

-----------------------------------------------------------------------------

CallConfigure_attenuator ==
  \E how \in ConfigOutcome : att' = Begins(att, ConfigHandler(att.m_att, how))

CallSet_conn_details ==
  \E found \in BOOLEAN : att' = Begins(att, SetConnection(att.m_att, found))

Call == Idle(att) /\ (CallConfigure_attenuator \/ CallSet_conn_details)

Proceed == ~Idle(att) /\ att' = Proceeds(att)

Update ==
  \/ att.echo = NoEcho /\ att' = UpdateReads(att)
  \/ att.echo # NoEcho /\ att' = UpdateWrites(att)

-----------------------------------------------------------------------------
(* Properties. *)

\* Whatever configurations and changes of the connection came and failed, an
\* attenuator that says it is ready has a driver object that exists.  In the
\* midst of a method it may say so for a step without one, and the main loop may
\* undo a change of the status: the methods themselves never leave it so.
ReadyIsLive ==
  Idle(att) /\ ~att.stale /\ att.status = "ready" => att.m_att = "live"
==============================================================================
