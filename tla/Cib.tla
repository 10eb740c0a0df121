--------------------------------- MODULE Cib ---------------------------------
(***************************************************************************)
(* The control interface board (DIoLCIB): the map of its registers, and    *)
(* the threshold of its DAC, which is opened by the first update that can. *)
(* Methods run in the server's thread, updates in the main loop's, without *)
(* a lock: an update opens the DAC in one step and sets it to its highest  *)
(* threshold in the next, and a method that finds it open in between may   *)
(* set another.  What the registers hold is left out; those of the laser   *)
(* are in module LaserUnit.                                                *)
(***************************************************************************)

CONSTANTS Level,     \* thresholds of the DAC
          Highest    \* 4095, what the DAC is set to when it is opened

VARIABLE cib         \* the members of DIoLCIB, and the threshold of the device

\* The registers a configuration asks for by name, and those that others do.
Registers == {"align", "pdts_status"}

CibType == [status : {"offline", "ready"},
            m_regs : SUBSET Registers,
            dac : {"closed", "opening", "open"},   \* opening: open, and about to be set
            level : Level,
            told : Level \cup {"nothing"},         \* history: what was reported done last
            early : BOOLEAN]                       \* history: ... while the DAC was opening

Constructed(level) ==
  [status |-> "offline", m_regs |-> {}, dac |-> "closed", level |-> level,
   told |-> "nothing", early |-> FALSE]

-----------------------------------------------------------------------------

\* How setting the threshold fares: a number of more than twelve bits, written
\* and read back, written without effect or without being read back.
DacOutcome == {"tooLarge", "done", "lost", "unread"}

\* set_dac_threshold answers what became of it, and returns that all is well.
SetDac(c, v, how) ==
  IF c.dac = "closed" \/ how = "tooLarge" THEN c
  ELSE CASE how = "done"   -> [c EXCEPT !.level = v, !.told = v, !.early = c.dac = "opening"]
         [] how = "lost"   -> [c EXCEPT !.told = "nothing", !.early = FALSE]
         [] how = "unread" -> [c EXCEPT !.level = v, !.told = "nothing", !.early = FALSE]

\* refresh_dac opens the DAC when it is not open, ...
DacOpens(c) == [c EXCEPT !.dac = "opening"]

\* ... and sets it, which may fail.
DacIsSet(c, sets) == [c EXCEPT !.dac = "open", !.level = IF sets THEN Highest ELSE @]

\* How a configuration fares: rejected before anything is done, a map that
\* breaks off, values of the alignment laser that are missing, a fault after
\* the threshold was set, accepted.
ConfigOutcome == {"rejected", "badMap", "badAlignment", "badWidth", "accepted"}

ConfigOk(regs, how) == how = "accepted" /\ "align" \in regs

\* The map is emptied first; a fault leaves the status as it was.
ConfigHandler(c, regs, v, dac, how) ==
  LET mapped == [c EXCEPT !.m_regs = regs]
  IN  CASE how = "rejected" -> c
        [] how \in {"badMap", "badAlignment"} \/ "align" \notin regs -> mapped
        [] how = "badWidth" -> SetDac(mapped, v, dac)
        [] how = "accepted" -> [SetDac(mapped, v, dac) EXCEPT !.status = "ready"]

-----------------------------------------------------------------------------

CallSet_dac_threshold == \E v \in Level, how \in DacOutcome : cib' = SetDac(cib, v, how)

UpdateOpens == cib.dac = "closed" /\ cib' = DacOpens(cib)

\* Variant: the DAC is set up at every refresh.
UpdateSetsAlways == cib.dac # "closed" /\ \E sets \in BOOLEAN : cib' = DacIsSet(cib, sets)

UpdateSets  == cib.dac = "opening" /\ \E sets \in BOOLEAN : cib' = DacIsSet(cib, sets)

-----------------------------------------------------------------------------
(* Properties. *)

\* The threshold a client was told is set stays: no update, configuration or
\* command that failed replaces it unnoticed.  The one that does is the update
\* that opens the DAC, under a client that found it open already: it leaves the
\* highest threshold in place of the client's, and nothing else ever does.
DacKept ==
  cib.told # "nothing" =>
    IF cib.early THEN cib.level \in {cib.told, Highest} ELSE cib.dac = "open" /\ cib.level = cib.told
==============================================================================
