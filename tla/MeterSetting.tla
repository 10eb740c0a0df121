----------------------------- MODULE MeterSetting -----------------------------
(***************************************************************************)
(* The settings of the power meter (DIoLPowerMeter): what the class keeps, *)
(* what the device has, and what a client was told.  The setting is one of *)
(* those the class has; which one is chosen at the start, since they do    *)
(* not touch each other.  A reset gives the device settings of its own,    *)
(* and the class applies again what it keeps.                              *)
(*                                                                         *)
(* The driver object and the reading threads are in module PowerMeter,     *)
(* whose DriverFollowsStatus says that online here is m_status there.      *)
(***************************************************************************)

CONSTANTS Setting,   \* of "range", "wavelength", "pulse", "average", "threshold", "mode"
          Value

VARIABLE meter

MeterType == [kind : Setting, online : BOOLEAN,
              kept : Value,                      \* the member
              device : Value,                    \* what the device is set to
              told : Value \cup {"nothing"},     \* history: what was reported done last
              unsaid : BOOLEAN]                  \* history: a reset did not apply what is kept,
                                                 \* and nobody was told

\* What is kept at the start is what the first update finds in the address space.
Constructed(k, default, v) ==
  [kind |-> k, online |-> FALSE, kept |-> default, device |-> v, told |-> "nothing", unsaid |-> FALSE]

-----------------------------------------------------------------------------

\* How setting a value fares: not among those the device offers, done, another
\* value than the one asked for, an exception before or after it was applied.
SetOutcome == {"unknown", "done", "refused", "thrown", "thrownLate"}

\* average_query is sent the average of before, and the member is given the new
\* one; the threshold is written, and kept, when the device has another; the
\* mode is not kept.
Sent(m, v) == IF m.kind = "average" THEN m.kept ELSE v
Kept(m, v) == CASE m.kind = "mode" -> m.kept
                [] m.kind = "threshold" /\ m.device = v -> m.kept
                [] OTHER -> v

\* The client is told of a failure.
Unsure(m, x) == [m EXCEPT !.device = x, !.told = "nothing", !.unsaid = FALSE]

\* The client is told that the value was set.
Reported(m, v) ==
  [m EXCEPT !.device = Sent(m, v), !.kept = Kept(m, v), !.told = v, !.unsaid = FALSE]

\* Variant: the value is kept before it is applied, as the configuration does.
SetFirst(m, v, how, x) ==
  IF ~m.online \/ how = "unknown" THEN m
  ELSE CASE how = "done"    -> Reported(m, v)
         [] how = "refused" -> IF m.kind \in {"range", "wavelength"} THEN [m EXCEPT !.kept = v] ELSE Unsure(m, x)
         [] how = "thrown"  -> Unsure(m, m.device)
         [] how = "thrownLate" -> Unsure(m, Sent(m, v))

\* A refusal leaves a range and a wavelength as they were; the other commands
\* answer with what the device took instead, which may be anything.  A mode the
\* device does not offer is replaced by another.
Set(m, v, how, x) ==
  IF ~m.online \/ (how = "unknown" /\ m.kind # "mode") THEN m
  ELSE CASE how = "done"    -> Reported(m, v)
         [] how = "refused" -> IF m.kind \in {"range", "wavelength"} THEN m ELSE Unsure(m, x)
         [] how = "unknown" -> Unsure(m, x)
         [] how = "thrown"  -> Unsure(m, m.device)
         [] how = "thrownLate" -> Unsure(m, Sent(m, v))

\* How init and config fare: refused at once, an exception that terminates, a
\* setting that does not become what was asked for, all applied.
BeginOutcome == {"refused", "thrown", "missed", "done"}

\* init applies what is kept, each setting whatever became of the others, and
\* says which of these it was.
InitHandler(m, how, x) ==
  IF m.online \/ how = "refused" THEN m
  ELSE CASE how = "thrown" -> Unsure(m, x)
         [] how = "missed" -> Unsure([m EXCEPT !.online = TRUE], x)
         [] how = "done"   -> [m EXCEPT !.online = TRUE, !.device = m.kept, !.unsaid = FALSE]

ConfigOk(m, how) == ~m.online /\ how = "done"

\* config returns at the first setting that fails, and then says so whatever it
\* had applied by then: this setting may have been reached or not, failed itself,
\* or been applied before another failed.
Reached == {"not", "failed", "applied"}

\* The pulse width and the mode are kept before they are tried.
Tried(m, v, x, reached) ==
  CASE reached = "not"     -> m
    [] reached = "failed"  -> [m EXCEPT !.device = x,
                                        !.kept = IF m.kind \in {"pulse", "mode"} THEN v ELSE @]
    [] reached = "applied" -> Reported(m, v)

ConfigHandler(m, v, how, x, reached) ==
  LET tried == Tried(m, v, x, reached)
  IN  IF m.online \/ how = "refused" THEN m
      ELSE CASE how = "thrown" -> Unsure(tried, tried.device)
             [] how = "missed" -> Unsure([tried EXCEPT !.online = TRUE], tried.device)
             [] how = "done"   -> Reported([m EXCEPT !.online = TRUE], v)

Terminate(m) == [m EXCEPT !.online = FALSE]

\* The meter resets, its class terminates and inits.  When the reset itself throws
\* the answer is an error; otherwise it is that all is well, whatever init said.
ResetHandler(m, throws, how, x) ==
  LET again == InitHandler([Terminate(m) EXCEPT !.device = x], how, x)
  IN  IF ~m.online THEN m
      ELSE IF throws THEN again
      ELSE [again EXCEPT !.told = m.told, !.unsaid = how = "missed"]

-----------------------------------------------------------------------------

CallSet       == \E v, x \in Value, how \in SetOutcome : meter' = Set(meter, v, how, x)
CallInit      == \E how \in BeginOutcome, x \in Value : meter' = InitHandler(meter, how, x)
CallReset     == \E throws \in BOOLEAN, how \in BeginOutcome, x \in Value :
                   meter' = ResetHandler(meter, throws, how, x)
CallConfig    == \E how \in BeginOutcome, v, x \in Value, reached \in Reached :
                   meter' = ConfigHandler(meter, v, how, x, reached)
CallTerminate == meter' = Terminate(meter)

\* A meter that is off line may be switched off and on.
PowerCycle == ~meter.online /\ \E x \in Value : meter' = [meter EXCEPT !.device = x]

Call == CallSet \/ CallInit \/ CallReset \/ CallConfig \/ CallTerminate

-----------------------------------------------------------------------------
(* Properties. *)

\* The settings whose handler sends what it is asked and keeps what it sent.
Faithful == {"range", "wavelength", "pulse"}

\* The setting a client was told is the one an online meter has, also after the
\* meter was terminated and brought back, or reset; and the class keeps it, so
\* that the next init applies it again.  The exception is a reset whose init
\* missed a setting: it answers that all is well, and until a later command sets
\* the meter right the device may have another.
SettingSurvives ==
  meter.kind \in Faithful /\ meter.told # "nothing" =>
    /\ meter.kept = meter.told
    /\ meter.online /\ ~meter.unsaid => meter.device = meter.told
==============================================================================
