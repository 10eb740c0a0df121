-------------------------- MODULE CommissioningProofs --------------------------
(* The parts of a configuration, for any motors, coordinates and values: what *)
(* the attenuator, the CIB and the power meter keep true through calls of     *)
(* their own, of the laser system and of the main loop, and what a            *)
(* configuration that is reported good means.                                 *)
EXTENDS Commissioning, SequenceTheorems, TLAPS

-----------------------------------------------------------------------------
(* The attenuator.  A method sets the status last of all, and says ready when *)
(* it has built an object and done nothing to it since.                       *)

Last(todo) == todo[Len(todo)]

Builds(todo) ==
  \E i \in 1 .. Len(todo) : /\ todo[i] = "build"
                            /\ \A j \in 1 .. Len(todo) : j > i => todo[j] \in A!Status

OnlySays(todo) == \A i \in 1 .. Len(todo) : todo[i] \in A!Status

\* A list of steps that is sound whatever the pointer leads to.
Sound(todo) ==
  /\ todo \in Seq(A!Step)
  /\ todo # << >> => Last(todo) \in A!Status /\ (Last(todo) = "ready" => Builds(todo))

AttInv ==
  /\ att \in A!AttType
  /\ ~A!Idle(att) =>
       /\ Last(att.todo) \in A!Status
       /\ Last(att.todo) = "ready" => Builds(att.todo) \/ (att.m_att = "live" /\ OnlySays(att.todo))
  /\ AttenuatorReadyIsLive

Concatenated(s, t) ==
  /\ s \o t \in Seq(A!Step)
  /\ Len(s \o t) = Len(s) + Len(t)
  /\ \A i \in 1 .. Len(s) + Len(t) : (s \o t)[i] = IF i <= Len(s) THEN s[i] ELSE t[i - Len(s)]

LEMMA Concatenation ==
  ASSUME NEW s \in Seq(A!Step), NEW t \in Seq(A!Step)
  PROVE  Concatenated(s, t)
BY ConcatProperties DEF Concatenated

LEMMA SoundOneAfterOther ==
  ASSUME NEW s, NEW t, Sound(s), Sound(t)
  PROVE  Sound(s \o t)
<1>1. s \in Seq(A!Step) /\ t \in Seq(A!Step)
  BY DEF Sound
<1>2. CASE t = << >>
  BY <1>1, <1>2, ConcatEmptySeq
<1>3. CASE t # << >>
  <2>1. /\ s \o t \in Seq(A!Step)
        /\ Len(s \o t) = Len(s) + Len(t) /\ Len(s) \in Nat /\ Len(t) \in Nat /\ Len(t) > 0
        /\ \A i \in 1 .. Len(s) + Len(t) : (s \o t)[i] = IF i <= Len(s) THEN s[i] ELSE t[i - Len(s)]
    BY <1>1, <1>3, Concatenation, EmptySeq DEF Concatenated
  <2>2. s \o t # << >> /\ Last(s \o t) = Last(t)
    BY <2>1 DEF Last
  <2>3. ASSUME Builds(t) PROVE Builds(s \o t)
    <3>1. PICK i \in 1 .. Len(t) : t[i] = "build" /\ \A j \in 1 .. Len(t) : j > i => t[j] \in A!Status
      BY <2>3 DEF Builds
    <3>2. Len(s) + i \in 1 .. Len(s \o t) /\ (s \o t)[Len(s) + i] = "build"
      BY <2>1, <3>1
    <3>3. ASSUME NEW j \in 1 .. Len(s \o t), j > Len(s) + i
          PROVE  (s \o t)[j] \in A!Status
      <4>1. j - Len(s) \in 1 .. Len(t) /\ j - Len(s) > i /\ (s \o t)[j] = t[j - Len(s)]
        BY <2>1, <3>1, <3>3
      <4> QED BY <3>1, <4>1
    <3> QED BY <3>2, <3>3 DEF Builds
  <2> QED BY <1>3, <2>1, <2>2, <2>3 DEF Sound
<1> QED BY <1>2, <1>3

LEMMA ReadyList ==
  LET todo == <<"build", "ready">> \o <<"ready">>
  IN  /\ todo \in Seq(A!Step) /\ Len(todo) = 3
      /\ todo[1] = "build" /\ todo[2] = "ready" /\ todo[3] = "ready"
<1> DEFINE s == <<"build", "ready">>
           t == <<"ready">>
<1>1. /\ s \in Seq(A!Step) /\ t \in Seq(A!Step) /\ Len(s) = 2 /\ Len(t) = 1
      /\ s[1] = "build" /\ s[2] = "ready" /\ t[1] = "ready"
  BY DEF A!Step, A!Status
<1> HIDE DEF s, t
<1>2. Concatenated(s, t)
  BY <1>1, Concatenation
<1>3. /\ s \o t \in Seq(A!Step) /\ Len(s \o t) = 3
      /\ (s \o t)[1] = "build" /\ (s \o t)[2] = "ready" /\ (s \o t)[3] = "ready"
  BY <1>1, <1>2 DEF Concatenated
<1> QED BY <1>3 DEF s, t

\* The lists that the methods are made of.
LEMMA SoundLists ==
  /\ Sound(<< >>)
  /\ Sound(<<"offline">>)
  /\ Sound(<<"forget", "offline">>)
  /\ Sound(<<"delete", "offline">>)
  /\ Sound(<<"delete", "forget">> \o <<"offline">>)
  /\ Sound(<<"build", "ready">>)
  /\ Sound(<<"build", "ready">> \o <<"ready">>)
<1> USE DEF Sound, Last, Builds, A!Status, A!Step
<1>1. Sound(<< >>) /\ Sound(<<"offline">>)
  OBVIOUS
<1>2. Sound(<<"forget", "offline">>)
  OBVIOUS
<1>3. Sound(<<"delete", "offline">>)
  OBVIOUS
<1>4. Sound(<<"build", "ready">>)
  OBVIOUS
<1>5. Sound(<<"delete", "forget">> \o <<"offline">>)
  <2> DEFINE s == <<"delete", "forget">>
             t == <<"offline">>
  <2>1. s \in Seq(A!Step) /\ t \in Seq(A!Step) /\ Len(s) = 2 /\ Len(t) = 1 /\ t[1] = "offline"
    OBVIOUS
  <2> HIDE DEF s, t
  <2>2. Concatenated(s, t)
    BY <2>1, Concatenation
  <2>3. s \o t \in Seq(A!Step) /\ Len(s \o t) = 3 /\ (s \o t)[3] = "offline"
    BY <2>1, <2>2 DEF Concatenated
  <2>4. Sound(s \o t)
    BY <2>3
  <2> QED BY <2>4 DEF s, t
<1>6. Sound(<<"build", "ready">> \o <<"ready">>)
  <2>1. Builds(<<"build", "ready">> \o <<"ready">>)
    BY ReadyList
  <2> QED BY <2>1, ReadyList
<1> QED BY <1>1, <1>2, <1>3, <1>4, <1>5, <1>6

LEMMA SoundMethods ==
  ASSUME NEW pointer, NEW found \in BOOLEAN
  PROVE  /\ Sound(A!SetConnection(pointer, found))
         /\ Sound(A!Terminate(pointer))
<1>1. Sound(A!InitDevice(pointer, found))
  BY SoundLists DEF A!InitDevice
<1>2. Sound(IF pointer # "none" THEN <<"delete", "offline">> ELSE << >>)
  BY SoundLists
<1>3. Sound(A!SetConnection(pointer, found))
  BY <1>1, <1>2, SoundOneAfterOther DEF A!SetConnection
<1>4. CASE pointer # "none"
  BY <1>3, <1>4, SoundLists DEF A!Terminate
<1>5. CASE pointer = "none"
  <2>1. A!Terminate(pointer) = << >> \o <<"offline">>
    BY <1>5 DEF A!Terminate
  <2> QED BY <1>3, <2>1, SoundLists, SoundOneAfterOther
<1> QED BY <1>3, <1>4, <1>5

\* A configuration that is accepted says ready in the end.
LEMMA SoundConfig ==
  ASSUME NEW pointer, NEW how \in A!ConfigOutcome
  PROVE  LET todo == A!ConfigHandler(pointer, how)
         IN  /\ Sound(todo)
             /\ how = "accepted" => todo # << >> /\ Last(todo) = "ready"
<1> DEFINE first   == IF pointer # "none" THEN <<"forget", "offline">> ELSE << >>
           connect == A!SetConnection("none", how # "noDevice")
           rest    == CASE how = "rejected" -> << >>
                        [] how = "noDevice" -> connect \o <<"offline">>
                        [] how = "noRange"  -> connect \o <<"ready">> \o A!Terminate("live")
                        [] how \in {"badValue", "accepted"} -> connect \o <<"ready">>
<1>1. A!ConfigHandler(pointer, how) = first \o rest
  BY DEF A!ConfigHandler
<1>2. Sound(first)
  BY SoundLists
<1>3. Sound(connect) /\ Sound(A!Terminate("live"))
  BY SoundMethods
<1>4. how # "noDevice" => connect \o <<"ready">> = <<"build", "ready">> \o <<"ready">>
  <2>1. how # "noDevice" => connect = << >> \o <<"build", "ready">>
    BY DEF A!SetConnection, A!InitDevice
  <2>2. << >> \o <<"build", "ready">> = <<"build", "ready">>
    BY SoundLists, ConcatEmptySeq DEF Sound
  <2> QED BY <2>1, <2>2
<1> HIDE DEF first, connect
<1>5. Sound(rest)
  <2>1. CASE how = "rejected"
    BY <2>1, SoundLists
  <2>2. CASE how = "noDevice"
    BY <2>2, <1>3, SoundLists, SoundOneAfterOther
  <2>3. CASE how = "noRange"
    <3>1. Sound(connect \o <<"ready">>)
      BY <1>4, <2>3, SoundLists
    <3> QED BY <1>3, <2>3, <3>1, SoundOneAfterOther
  <2>4. CASE how \in {"badValue", "accepted"}
    BY <1>4, <2>4, SoundLists
  <2> QED BY <2>1, <2>2, <2>3, <2>4 DEF A!ConfigOutcome
<1>6. how = "accepted" => rest = <<"build", "ready">> \o <<"ready">>
  BY <1>4
<1> HIDE DEF rest
<1>7. Sound(first \o rest)
  BY <1>2, <1>5, SoundOneAfterOther
<1>8. ASSUME how = "accepted"
      PROVE  first \o rest # << >> /\ Last(first \o rest) = "ready"
  <2>1. rest \in Seq(A!Step) /\ Len(rest) = 3 /\ rest[3] = "ready"
    BY <1>6, <1>8, ReadyList
  <2>2. first \in Seq(A!Step) /\ Len(first) \in Nat
    BY <1>2 DEF Sound
  <2>3. Concatenated(first, rest)
    BY <2>1, <2>2, Concatenation
  <2>4. Len(first \o rest) = Len(first) + 3 /\ (first \o rest)[Len(first) + 3] = rest[3]
    BY <2>1, <2>2, <2>3 DEF Concatenated
  <2>5. first \o rest # << >>
    BY <2>2, <2>4
  <2> QED BY <2>1, <2>4, <2>5 DEF Last
<1> QED BY <1>1, <1>7, <1>8

LEMMA AttBegins ==
  ASSUME AttInv, NEW todo, Sound(todo), A!Idle(att), att' = A!Begins(att, todo)
  PROVE  AttInv'
<1>1. att' \in A!AttType /\ att'.todo = todo /\ att'.m_att = att.m_att
      /\ att'.status = att.status /\ att'.stale = att.stale
  BY DEF AttInv, A!AttType, A!Begins, Sound
<1>2. AttenuatorReadyIsLive'
  BY <1>1 DEF AttInv, AttenuatorReadyIsLive, A!ReadyIsLive, A!Idle
<1> QED BY <1>1, <1>2 DEF AttInv, Sound, A!Idle

LEMMA AttProceeds ==
  ASSUME AttInv, A!Proceed
  PROVE  /\ AttInv'
         /\ Last(att.todo) = "ready" =>
              IF A!Idle(att)' THEN AttenuatorWorks' ELSE Last(att.todo)' = "ready"
<1> DEFINE todo == att.todo
           step == Head(todo)
<1>1. /\ todo \in Seq(A!Step) /\ todo # << >>
      /\ step = todo[1] /\ step \in A!Step
      /\ Len(todo) \in Nat /\ Len(todo) > 0
      /\ Tail(todo) \in Seq(A!Step) /\ Len(Tail(todo)) = Len(todo) - 1
      /\ \A i \in 1 .. Len(todo) - 1 : Tail(todo)[i] = todo[i + 1]
      /\ Tail(todo) = << >> <=> Len(todo) = 1
  <2>1. todo \in Seq(A!Step) /\ todo # << >>
    BY DEF AttInv, A!AttType, A!Proceed, A!Idle
  <2> HIDE DEF todo
  <2>2. step \in A!Step /\ Tail(todo) \in Seq(A!Step) /\ step = todo[1]
    BY <2>1, HeadTailProperties
  <2>3. Len(todo) \in Nat /\ Len(todo) > 0 /\ Len(Tail(todo)) = Len(todo) - 1
    BY <2>1
  <2>4. \A i \in 1 .. Len(todo) - 1 : Tail(todo)[i] = todo[i + 1]
    BY <2>1, <2>3
  <2>5. Tail(todo) = << >> <=> Len(Tail(todo)) = 0
    BY <2>2, EmptySeq
  <2> QED BY <2>1, <2>2, <2>3, <2>4, <2>5
<1>2. Tail(todo) # << >> => Last(Tail(todo)) = Last(todo)
  BY <1>1 DEF Last
<1>3. /\ Last(todo) \in A!Status
      /\ Last(todo) = "ready" => Builds(todo) \/ (att.m_att = "live" /\ OnlySays(todo))
  BY DEF AttInv, A!Proceed
<1>4. att' = A!Proceeds(att) /\ att \in A!AttType
  BY DEF AttInv, A!Proceed
<1>5. OnlySays(todo) => OnlySays(Tail(todo))
  BY <1>1 DEF OnlySays
<1>6. ASSUME Builds(todo)
      PROVE  Builds(Tail(todo)) \/ (step = "build" /\ OnlySays(Tail(todo)))
  <2>1. PICK i \in 1 .. Len(todo) : todo[i] = "build" /\ \A j \in 1 .. Len(todo) : j > i => todo[j] \in A!Status
    BY <1>6 DEF Builds
  <2>2. CASE i = 1
    BY <1>1, <2>1, <2>2 DEF OnlySays
  <2>3. CASE i > 1
    <3>1. i - 1 \in 1 .. Len(todo) - 1 /\ Tail(todo)[i - 1] = "build"
      BY <1>1, <2>1, <2>3
    <3>2. ASSUME NEW j \in 1 .. Len(todo) - 1, j > i - 1
          PROVE  Tail(todo)[j] \in A!Status
      <4>1. j + 1 \in 1 .. Len(todo) /\ j + 1 > i
        BY <1>1, <3>2
      <4> QED BY <1>1, <2>1, <4>1
    <3> QED BY <1>1, <3>1, <3>2 DEF Builds
  <2> QED BY <1>1, <2>2, <2>3
<1> HIDE DEF todo, step
<1>7. CASE step \in A!Status
  <2>1. att' = [att EXCEPT !.todo = Tail(todo), !.status = step, !.stale = FALSE]
    BY <1>4, <1>7 DEF A!Proceeds, todo, step
  <2>2. /\ att' \in A!AttType /\ att'.todo = Tail(todo) /\ att'.status = step
        /\ ~att'.stale /\ att'.m_att = att.m_att
    BY <1>1, <1>4, <1>7, <2>1 DEF A!AttType
  <2>3. step # "build"
    BY <1>7 DEF A!Status
  <2>4. CASE Tail(todo) = << >>
    <3>1. Last(todo) = step /\ (step = "ready" => att.m_att = "live")
      <4>1. Last(todo) = step
        BY <1>1, <2>4 DEF Last
      <4>2. ~Builds(todo)
        BY <1>1, <2>3, <2>4 DEF Builds
      <4> QED BY <1>3, <4>1, <4>2
    <3> QED BY <2>2, <2>4, <3>1
        DEF AttInv, A!Idle, AttenuatorReadyIsLive, A!ReadyIsLive, AttenuatorWorks, todo
  <2>5. CASE Tail(todo) # << >>
    BY <1>2, <1>3, <1>5, <1>6, <2>2, <2>3, <2>5
    DEF AttInv, A!Idle, AttenuatorReadyIsLive, A!ReadyIsLive, todo
  <2> QED BY <2>4, <2>5
<1>8. CASE step \notin A!Status
  <2>1. att' = [att EXCEPT !.todo = Tail(todo), !.m_att = A!Pointer(step)]
    BY <1>4, <1>8 DEF A!Proceeds, todo, step
  <2>2. step \in {"forget", "delete", "build"}
    BY <1>1, <1>8 DEF A!Step
  <2>3. A!Pointer(step) \in {"none", "live", "deleted"} /\ (step = "build" => A!Pointer(step) = "live")
    BY <2>2 DEF A!Pointer
  <2>4. att' \in A!AttType /\ att'.todo = Tail(todo) /\ att'.m_att = A!Pointer(step)
    BY <1>1, <1>4, <2>1, <2>3 DEF A!AttType
  <2>5. Tail(todo) # << >>
    BY <1>1, <1>3, <1>8 DEF Last
  <2>6. ~OnlySays(todo)
    BY <1>1, <1>8 DEF OnlySays
  <2> QED BY <1>2, <1>3, <1>6, <2>3, <2>4, <2>5, <2>6
      DEF AttInv, A!Idle, AttenuatorReadyIsLive, A!ReadyIsLive, todo
<1> QED BY <1>7, <1>8

LEMMA AttUpdate ==
  ASSUME AttInv, A!Update
  PROVE  /\ AttInv'
         /\ att'.todo = att.todo
         /\ AttenuatorWorks => AttenuatorWorks'
<1>1. CASE att.echo = A!NoEcho /\ att' = A!UpdateReads(att)
  <2>1. att' \in A!AttType /\ att' = [att EXCEPT !.echo = att.status]
    BY <1>1 DEF AttInv, A!UpdateReads, A!AttType
  <2> QED BY <2>1 DEF AttInv, A!AttType, A!Idle, AttenuatorReadyIsLive, A!ReadyIsLive, AttenuatorWorks
<1>2. CASE att.echo # A!NoEcho /\ att' = A!UpdateWrites(att)
  <2>1. /\ att' \in A!AttType /\ att'.todo = att.todo /\ att'.m_att = att.m_att
        /\ att'.status = att.echo /\ att'.stale = (att.stale \/ att.status # att.echo)
    BY <1>2 DEF AttInv, A!UpdateWrites, A!AttType, A!NoEcho
  <2> QED BY <2>1 DEF AttInv, A!Idle, AttenuatorReadyIsLive, A!ReadyIsLive, AttenuatorWorks
<1> QED BY <1>1, <1>2 DEF A!Update

LEMMA AttConstructed == A!Constructed \in A!AttType
BY DEF A!Constructed, A!AttType, A!Status, A!NoEcho, A!Step

LEMMA AttStep ==
  ASSUME AttInv, [Next]_vars
  PROVE  AttInv'
<1>1. CASE att' = att
  BY <1>1 DEF AttInv, AttenuatorReadyIsLive, A!ReadyIsLive, A!Idle
<1>2. CASE CallLoad_config
  BY <1>2, SoundConfig, AttBegins DEF CallLoad_config, Called
<1>3. CASE ConfigPart
  BY <1>1, <1>3 DEF ConfigPart
<1>4. CASE CallShutdown
  BY <1>4, SoundMethods, AttBegins DEF CallShutdown, Called
<1>5. CASE CallAttenuator
  BY <1>5, SoundConfig, SoundMethods, AttBegins
  DEF CallAttenuator, A!Call, A!CallConfigure_attenuator, A!CallSet_conn_details
<1>6. CASE AttenuatorProceeds
  BY <1>6, AttProceeds DEF AttenuatorProceeds
<1>7. CASE UpdateAttenuator
  BY <1>7, AttUpdate DEF UpdateAttenuator
<1>8. CASE OtherState \/ CallCib \/ CallLaser \/ LaserGoesOn \/ CallMotor \/ CallMeter
           \/ UpdateCib \/ UpdateLaser
  BY <1>1, <1>8 DEF OtherState, CallCib, CallLaser, LaserGoesOn, CallMotor, CallMeter, UpdateCib, UpdateLaser
<1>9. CASE Restart
  <2>1. att' = A!Constructed
    BY <1>9 DEF Restart
  <2> QED BY <2>1, AttConstructed
      DEF AttInv, A!Idle, AttenuatorReadyIsLive, A!ReadyIsLive, A!Constructed
<1>10. CASE UNCHANGED vars
  BY <1>1, <1>10 DEF vars
<1> QED BY <1>2, <1>3, <1>4, <1>5, <1>6, <1>7, <1>8, <1>9, <1>10 DEF Next

LEMMA AttInit == Init => AttInv
BY AttConstructed DEF Init, AttInv, A!Idle, AttenuatorReadyIsLive, A!ReadyIsLive, A!Constructed

\* Whatever configurations, changes of the connection, shutdowns and restarts
\* there were, and wherever the updates of the main loop met them, an attenuator
\* between two methods that says it is ready has a driver object that exists,
\* unless an update has brought the status back (set_connection, config,
\* terminate and update of DIoLAttenuator).
THEOREM ReadyAttenuatorIsLive == Spec => []AttenuatorReadyIsLive
<1>1. AttInv /\ [Next]_vars => AttInv'
  BY AttStep
<1>2. AttInv => AttenuatorReadyIsLive
  BY DEF AttInv
<1> QED BY <1>1, <1>2, AttInit, PTL DEF Spec

-----------------------------------------------------------------------------
(* The threshold of the CIB. *)

Kept(c) ==
  c.told # "nothing" =>
    IF c.early THEN c.level \in {c.told, Highest} ELSE c.dac = "open" /\ c.level = c.told

CibInv == cib \in C!CibType /\ Kept(cib)

LEMMA CibSetDac ==
  ASSUME NEW c \in C!CibType, NEW v \in Level, NEW how \in C!DacOutcome, Kept(c)
  PROVE  LET d == C!SetDac(c, v, how)
         IN  d \in C!CibType /\ Kept(d) /\ d.m_regs = c.m_regs /\ d.status = c.status
<1>1. CASE c.dac = "closed" \/ how = "tooLarge"
  BY <1>1 DEF C!SetDac
<1>2. CASE ~(c.dac = "closed" \/ how = "tooLarge")
  <2>1. CASE how = "done"
    BY <1>2, <2>1 DEF C!CibType, C!SetDac, Kept
  <2>2. CASE how = "lost"
    BY <1>2, <2>2 DEF C!CibType, C!SetDac, Kept
  <2>3. CASE how = "unread"
    BY <1>2, <2>3 DEF C!CibType, C!SetDac, Kept
  <2> QED BY <1>2, <2>1, <2>2, <2>3 DEF C!DacOutcome
<1> QED BY <1>1, <1>2

LEMMA CibUpdate ==
  ASSUME CibInv, C!UpdateOpens \/ C!UpdateSets
  PROVE  CibInv' /\ (CibWorks => CibWorks')
<1>1. CASE C!UpdateOpens
  BY <1>1 DEF CibInv, Kept, CibWorks, C!CibType, C!UpdateOpens, C!DacOpens
<1>2. CASE C!UpdateSets
  BY <1>2, CommissioningAssumption DEF CibInv, Kept, CibWorks, C!CibType, C!UpdateSets, C!DacIsSet
<1> QED BY <1>1, <1>2

LEMMA CibConfig ==
  ASSUME NEW c \in C!CibType, NEW regs \in SUBSET C!Registers, NEW v \in Level,
         NEW dac \in C!DacOutcome, NEW how \in C!ConfigOutcome, Kept(c)
  PROVE  LET d == C!ConfigHandler(c, regs, v, dac, how)
         IN  /\ d \in C!CibType
             /\ Kept(d)
             /\ C!ConfigOk(regs, how) => d.status = "ready" /\ "align" \in d.m_regs
<1> DEFINE mapped == [c EXCEPT !.m_regs = regs]
           set    == C!SetDac(mapped, v, dac)
<1>1. mapped \in C!CibType /\ mapped.m_regs = regs /\ Kept(mapped)
  BY DEF C!CibType, Kept
<1> HIDE DEF mapped
<1>2. set \in C!CibType /\ Kept(set) /\ set.m_regs = regs
  BY <1>1, CibSetDac
<1>3. LET d == [set EXCEPT !.status = "ready"]
      IN  d \in C!CibType /\ Kept(d) /\ d.status = "ready" /\ d.m_regs = regs
  BY <1>2 DEF C!CibType, Kept
<1> HIDE DEF set
<1>4. \/ C!ConfigHandler(c, regs, v, dac, how) = c /\ how = "rejected"
      \/ C!ConfigHandler(c, regs, v, dac, how) = mapped /\ (how # "accepted" \/ "align" \notin regs)
      \/ C!ConfigHandler(c, regs, v, dac, how) = set /\ how # "accepted"
      \/ C!ConfigHandler(c, regs, v, dac, how) = [set EXCEPT !.status = "ready"]
  BY DEF C!ConfigHandler, C!ConfigOutcome, set, mapped
<1> QED BY <1>1, <1>2, <1>3, <1>4 DEF C!ConfigOk

LEMMA CibConstructed ==
  ASSUME NEW l \in Level
  PROVE  C!Constructed(l) \in C!CibType /\ Kept(C!Constructed(l))
BY DEF C!Constructed, C!CibType, Kept

LEMMA CibStep ==
  ASSUME CibInv, [Next]_vars
  PROVE  CibInv'
<1> USE DEF CibInv
<1>1. CASE cib' = cib
  BY <1>1
<1>2. CASE CallLoad_config \/ CallShutdown \/ OtherState \/ CallAttenuator \/ AttenuatorProceeds
           \/ CallLaser \/ LaserGoesOn \/ CallMotor \/ CallMeter \/ UpdateAttenuator \/ UpdateLaser
  BY <1>1, <1>2 DEF CallLoad_config, CallShutdown, OtherState, CallAttenuator, AttenuatorProceeds,
     CallLaser, LaserGoesOn, CallMotor, CallMeter, UpdateAttenuator, UpdateLaser
<1>3. CASE ConfigPart
  <2>1. CASE cib' = cib BY <1>1, <2>1
  <2>2. CASE \E ok \in BOOLEAN : ConfigCib(ok)
    BY <2>2, CibConfig DEF ConfigCib
  <2> QED BY <1>3, <2>1, <2>2 DEF ConfigPart
<1>4. CASE CallCib    BY <1>4, CibSetDac DEF CallCib, C!CallSet_dac_threshold
<1>5. CASE UpdateCib  BY <1>5, CibUpdate DEF UpdateCib
<1>6. CASE Restart
  <2>1. cib' = C!Constructed(cib.level) /\ cib.level \in Level
    BY <1>6 DEF Restart, C!CibType
  <2> QED BY <2>1, CibConstructed
<1>7. CASE UNCHANGED vars   BY <1>1, <1>7 DEF vars
<1> QED BY <1>2, <1>3, <1>4, <1>5, <1>6, <1>7 DEF Next

LEMMA CibInit == Init => CibInv
BY CibConstructed DEF Init, CibInv

\* No update, configuration, failed command or restart replaces unnoticed the
\* threshold that a client was told is set, but for the update that opens the
\* DAC, under a client that found it open (set_dac_threshold, refresh_dac and
\* init_dac of DIoLCIB).
THEOREM ThresholdIsKept == Spec => []CibDacKept
<1>1. CibInv /\ [Next]_vars => CibInv'
  BY CibStep
<1>2. CibInv => CibDacKept
  BY DEF CibInv, Kept, CibDacKept, C!DacKept
<1> QED BY <1>1, <1>2, CibInit, PTL DEF Spec

-----------------------------------------------------------------------------
(* The settings of the power meter. *)

\* What a client was told is kept also while the meter is off line, so that init
\* can apply it again.
ToldIsKept(m) ==
  m.kind \in M!Faithful /\ m.told # "nothing" =>
    m.kept = m.told /\ (m.online /\ ~m.unsaid => m.device = m.told)

MeterInv == meter \in M!MeterType /\ ToldIsKept(meter)

LEMMA MeterUnsure ==
  ASSUME NEW m \in M!MeterType, NEW x \in Value
  PROVE  LET n == M!Unsure(m, x)
         IN  n \in M!MeterType /\ ToldIsKept(n) /\ n.online = m.online
BY DEF M!MeterType, ToldIsKept, M!Unsure

LEMMA MeterReported ==
  ASSUME NEW m \in M!MeterType, NEW v \in Value
  PROVE  LET n == M!Reported(m, v)
         IN  n \in M!MeterType /\ ToldIsKept(n) /\ n.online = m.online
<1>1. M!Sent(m, v) \in Value /\ M!Kept(m, v) \in Value
  BY DEF M!MeterType, M!Sent, M!Kept
<1>2. m.kind \in M!Faithful => M!Sent(m, v) = v /\ M!Kept(m, v) = v
  BY DEF M!Sent, M!Kept, M!Faithful
<1> QED BY <1>1, <1>2 DEF M!Reported, M!MeterType, ToldIsKept

LEMMA MeterSet ==
  ASSUME NEW m \in M!MeterType, ToldIsKept(m),
         NEW v \in Value, NEW how \in M!SetOutcome, NEW x \in Value
  PROVE  LET n == M!Set(m, v, how, x)
         IN  n \in M!MeterType /\ ToldIsKept(n)
<1>1. M!Sent(m, v) \in Value /\ m.device \in Value
  BY DEF M!MeterType, M!Sent
<1>2. M!Set(m, v, how, x) \in
        {m, M!Reported(m, v), M!Unsure(m, x), M!Unsure(m, m.device), M!Unsure(m, M!Sent(m, v))}
  BY DEF M!Set, M!SetOutcome
<1> QED BY <1>1, <1>2, MeterUnsure, MeterReported

LEMMA MeterInit ==
  ASSUME NEW m \in M!MeterType, ToldIsKept(m), NEW how \in M!BeginOutcome, NEW x \in Value
  PROVE  LET n == M!InitHandler(m, how, x)
         IN  n \in M!MeterType /\ ToldIsKept(n)
<1>1. CASE m.online \/ how = "refused"
  BY <1>1 DEF M!InitHandler
<1>2. CASE ~m.online /\ how = "thrown"
  BY <1>2, MeterUnsure DEF M!InitHandler
<1>3. CASE ~m.online /\ how = "missed"
  <2>1. [m EXCEPT !.online = TRUE] \in M!MeterType
    BY DEF M!MeterType
  <2> QED BY <1>3, <2>1, MeterUnsure DEF M!InitHandler
<1>4. CASE ~m.online /\ how = "done"
  BY <1>4 DEF M!MeterType, ToldIsKept, M!InitHandler
<1> QED BY <1>1, <1>2, <1>3, <1>4 DEF M!BeginOutcome

LEMMA MeterTerminate ==
  ASSUME NEW m \in M!MeterType, ToldIsKept(m)
  PROVE  M!Terminate(m) \in M!MeterType /\ ToldIsKept(M!Terminate(m)) /\ ~M!Terminate(m).online
BY DEF M!MeterType, ToldIsKept, M!Terminate

\* What a reset leaves when it does not throw: the member is as it was, and the
\* device has it when init applied all.
LEMMA MeterReset ==
  ASSUME NEW m \in M!MeterType, ToldIsKept(m), NEW throws \in BOOLEAN,
         NEW how \in M!BeginOutcome, NEW x \in Value
  PROVE  LET n == M!ResetHandler(m, throws, how, x)
         IN  n \in M!MeterType /\ ToldIsKept(n)
<1> DEFINE off   == [M!Terminate(m) EXCEPT !.device = x]
           again == M!InitHandler(off, how, x)
           n     == [again EXCEPT !.told = m.told, !.unsaid = (how = "missed")]
<1>1. off \in M!MeterType /\ ToldIsKept(off) /\ off.kept = m.kept /\ ~off.online /\ off.kind = m.kind
  BY MeterTerminate DEF M!MeterType, ToldIsKept, M!Terminate
<1> HIDE DEF off
<1>2. again \in M!MeterType /\ ToldIsKept(again)
  BY <1>1, MeterInit
<1>3. /\ again.kept = m.kept /\ again.kind = m.kind
      /\ how \in {"refused", "thrown"} => ~again.online
      /\ how = "done" => again.device = m.kept
  <2>1. CASE how = "refused"
    BY <1>1, <2>1 DEF M!InitHandler
  <2>2. CASE how = "thrown"
    BY <1>1, <2>2 DEF M!InitHandler, M!Unsure, M!MeterType
  <2>3. CASE how = "missed"
    BY <1>1, <2>3 DEF M!InitHandler, M!Unsure, M!MeterType
  <2>4. CASE how = "done"
    BY <1>1, <2>4 DEF M!InitHandler, M!MeterType
  <2> QED BY <2>1, <2>2, <2>3, <2>4 DEF M!BeginOutcome
<1> HIDE DEF again
<1>4. /\ n \in M!MeterType /\ n.told = m.told /\ n.unsaid = (how = "missed")
      /\ n.kept = again.kept /\ n.kind = again.kind /\ n.online = again.online /\ n.device = again.device
  BY <1>2 DEF M!MeterType
<1>5. ToldIsKept(n)
  BY <1>3, <1>4 DEF ToldIsKept, M!BeginOutcome
<1>6. M!ResetHandler(m, throws, how, x) \in {m, again, n}
  BY DEF M!ResetHandler, again, off
<1> HIDE DEF n
<1> QED BY <1>2, <1>4, <1>5, <1>6

LEMMA MeterConfig ==
  ASSUME NEW m \in M!MeterType, ToldIsKept(m), NEW v \in Value, NEW how \in M!BeginOutcome,
         NEW x \in Value, NEW reached \in M!Reached
  PROVE  LET n == M!ConfigHandler(m, v, how, x, reached)
         IN  /\ n \in M!MeterType
             /\ ToldIsKept(n)
             /\ M!ConfigOk(m, how) => n.online
<1> DEFINE tried == M!Tried(m, v, x, reached)
           on(k) == [k EXCEPT !.online = TRUE]
<1>1. tried \in M!MeterType
  <2>1. CASE reached = "not"
    BY <2>1 DEF M!Tried
  <2>2. CASE reached = "failed"
    BY <2>2 DEF M!Tried, M!MeterType
  <2>3. CASE reached = "applied"
    BY <2>3, MeterReported DEF M!Tried
  <2> QED BY <2>1, <2>2, <2>3 DEF M!Reached
<1> HIDE DEF tried
<1>2. on(m) \in M!MeterType /\ on(tried) \in M!MeterType /\ on(m).online /\ tried.device \in Value
  BY <1>1 DEF M!MeterType
<1>3. \/ M!ConfigHandler(m, v, how, x, reached) = m /\ ~M!ConfigOk(m, how)
      \/ M!ConfigHandler(m, v, how, x, reached) = M!Unsure(tried, tried.device) /\ ~M!ConfigOk(m, how)
      \/ M!ConfigHandler(m, v, how, x, reached) = M!Unsure(on(tried), tried.device) /\ ~M!ConfigOk(m, how)
      \/ M!ConfigHandler(m, v, how, x, reached) = M!Reported(on(m), v)
  BY DEF M!ConfigHandler, M!ConfigOk, M!BeginOutcome, tried
<1> HIDE DEF on
<1> QED BY <1>1, <1>2, <1>3, MeterUnsure, MeterReported

LEMMA MeterConstructed ==
  ASSUME NEW k \in Setting, NEW v \in Value, NEW x \in Value
  PROVE  M!Constructed(k, v, x) \in M!MeterType /\ ToldIsKept(M!Constructed(k, v, x))
BY DEF M!Constructed, M!MeterType, ToldIsKept

LEMMA MeterStep ==
  ASSUME MeterInv, [Next]_vars
  PROVE  MeterInv'
<1> USE DEF MeterInv
<1>1. CASE meter' = meter
  BY <1>1
<1>2. CASE meter' = M!Terminate(meter)
  BY <1>2, MeterTerminate
<1>3. CASE CallLoad_config \/ OtherState \/ CallAttenuator \/ AttenuatorProceeds \/ CallCib \/ CallLaser
           \/ LaserGoesOn \/ CallMotor \/ UpdateAttenuator \/ UpdateCib \/ UpdateLaser
  BY <1>1, <1>3 DEF CallLoad_config, OtherState, CallAttenuator, AttenuatorProceeds, CallCib, CallLaser,
     LaserGoesOn, CallMotor, UpdateAttenuator, UpdateCib, UpdateLaser
<1>4. CASE ConfigPart
  <2>1. CASE meter' = meter BY <1>1, <2>1
  <2>2. CASE \E ok \in BOOLEAN : ConfigMeter(ok)
    BY <2>2, MeterConfig DEF ConfigMeter
  <2> QED BY <1>4, <2>1, <2>2 DEF ConfigPart
<1>5. CASE CallShutdown  BY <1>2, <1>5 DEF CallShutdown
<1>6. CASE CallMeter
  <2>1. CASE M!CallSet        BY <2>1, MeterSet DEF M!CallSet
  <2>2. CASE M!CallInit       BY <2>2, MeterInit DEF M!CallInit
  <2>3. CASE M!CallReset      BY <2>3, MeterReset DEF M!CallReset
  <2>4. CASE M!CallConfig     BY <2>4, MeterConfig DEF M!CallConfig
  <2>5. CASE M!CallTerminate  BY <1>2, <2>5 DEF M!CallTerminate
  <2>6. CASE M!PowerCycle     BY <2>6 DEF M!PowerCycle, M!MeterType, ToldIsKept
  <2> QED BY <1>6, <2>1, <2>2, <2>3, <2>4, <2>5, <2>6 DEF CallMeter, M!Call
<1>7. CASE Restart
  <2>1. PICK v \in Value : meter' = M!Constructed(meter.kind, v, meter.device)
    BY <1>7 DEF Restart
  <2>2. meter.kind \in Setting /\ meter.device \in Value
    BY DEF M!MeterType
  <2> QED BY <2>1, <2>2, MeterConstructed
<1>8. CASE UNCHANGED vars  BY <1>1, <1>8 DEF vars
<1> QED BY <1>3, <1>4, <1>5, <1>6, <1>7, <1>8 DEF Next

LEMMA MeterBegins == Init => MeterInv
BY MeterConstructed DEF Init, MeterInv

\* The range, wavelength or pulse width a client was told is the one an online
\* meter has, also after the meter was reset, or terminated and brought back,
\* unless a reset answered that all is well without having applied it (the
\* setters, init, config and reset of DIoLPowerMeter).
THEOREM SettingSurvivesResets == Spec => []MeterSettingSurvives
<1>1. MeterInv /\ [Next]_vars => MeterInv'
  BY MeterStep
<1>2. MeterInv => MeterSettingSurvives
  BY DEF MeterInv, MeterSettingSurvives, M!SettingSurvives, ToldIsKept
<1> QED BY <1>1, <1>2, MeterBegins, PTL DEF Spec

-----------------------------------------------------------------------------
(* load_config.  A part that was configured stays so until load_config is     *)
(* done: no method runs in between, the tasks leave the parts alone, updates  *)
(* can do no more than say a status again, and a restart ends it.             *)

PartsBefore ==
  /\ loading \in {1, 2} => call = "idle"
  /\ loading = 1 /\ answer => IF A!Idle(att) THEN AttenuatorWorks ELSE Last(att.todo) = "ready"
  /\ loading >= 2 => AttenuatorWorks /\ A!Idle(att)
  /\ loading >= 3 => CibWorks
  /\ loading = 3 /\ call = "config" => unit.m_laser /\ (unit.status = "ready" \/ stale)
  /\ loading >= 4 => LaserWorks
  /\ loading >= 5 => MotorsWork

MapType == coordinate \in [Motors -> Coordinates] /\ named \subseteq Motors

LaserType == unit \in L!Unit /\ echo \in L!Status \cup {None}

LoadInv == /\ loading \in 0 .. 5
           /\ LaserType
           /\ MapType
           /\ PartsBefore

\* A new status leaves the rest of the unit alone but for its timers.
LEMMA LaserSays ==
  ASSUME NEW u \in L!Unit, NEW s \in L!Status
  PROVE  LET v == L!SetStatus(u, s)
         IN  /\ v \in L!Unit /\ v.status = s
             /\ v.m_laser = u.m_laser /\ v.m_regs = u.m_regs
             /\ v.m_config_completed = u.m_config_completed
<1>1. CASE u.status = s
  BY <1>1 DEF L!SetStatus
<1>2. CASE u.status # s /\ s \in L!Timed
  <2>1. L!SetStatus(u, s) = [u EXCEPT !.status = s, !.sleeping[s] = @ + 1]
    BY <1>2 DEF L!SetStatus
  <2>2. [u.sleeping EXCEPT ![s] = @ + 1] \in [L!Timed -> Nat]
    BY <1>2 DEF L!Unit
  <2> QED BY <2>1, <2>2 DEF L!Unit
<1>3. CASE u.status # s /\ s \notin L!Timed
  BY <1>3 DEF L!SetStatus, L!Unit
<1> QED BY <1>1, <1>2, <1>3

LEMMA LaserClose ==
  ASSUME NEW u \in L!Unit, NEW ok \in BOOLEAN
  PROVE  LET v == L!Terminate(u, ok)
         IN  /\ v \in L!Unit
             /\ u.m_regs \/ u.status = "offline" => v.status = "offline" /\ ~v.m_laser
<1> DEFINE off  == L!SetExtShutter(L!SetFire(L!SetQswitch(u, FALSE), FALSE), FALSE)
           dark == L!CloseLaserShutter(off, ok)
<1>1. CASE u.status = "offline" \/ ~u.m_regs
  BY <1>1 DEF L!Terminate, L!Unit
<1>2. CASE u.status # "offline" /\ u.m_regs
  <2>1. off \in L!Unit
    BY DEF L!SetExtShutter, L!SetFire, L!SetQswitch, L!Unit
  <2> HIDE DEF off
  <2>2. dark \in L!Unit
    BY <2>1 DEF L!CloseLaserShutter, L!Unit
  <2>3. L!Terminate(u, ok) = [L!SetStatus(dark, "offline") EXCEPT
                                !.m_laser = FALSE, !.m_config_completed = FALSE, !.m_is_terminating = FALSE]
    BY <1>2 DEF L!Terminate, off
  <2> HIDE DEF dark
  <2>4. L!SetStatus(dark, "offline") \in L!Unit /\ L!SetStatus(dark, "offline").status = "offline"
    BY <2>2, LaserSays DEF L!Status
  <2> QED BY <2>3, <2>4 DEF L!Unit
<1> QED BY <1>1, <1>2

\* A driver object is built.
LEMMA LaserConnect ==
  ASSUME NEW u \in L!Unit
  PROVE  LET v == L!Connected(u)
         IN  v \in L!Unit /\ v.status = "ready" /\ v.m_laser
<1> DEFINE built == [u EXCEPT !.m_laser = TRUE]
<1>1. built \in L!Unit /\ built.m_laser
  BY DEF L!Unit
<1> HIDE DEF built
<1>2. LET v == L!SetStatus(built, "ready")
      IN  v \in L!Unit /\ v.status = "ready" /\ v.m_laser
  BY <1>1, LaserSays DEF L!Status
<1> QED BY <1>2 DEF built, L!Connected

\* What follows a connection leaves the object and the status alone when all is
\* accepted, and then there are registers.
LEMMA LaserConfigured ==
  ASSUME NEW u \in L!Unit, NEW how \in Connection, NEW ok \in BOOLEAN
  PROVE  LET v == L!Configured(u, how, ok)
         IN  /\ v \in L!Unit
             /\ how = "accepted" => /\ v.m_laser = u.m_laser /\ v.status = u.status
                                    /\ v.m_regs /\ v.m_config_completed
<1> DEFINE mapped   == [u EXCEPT !.m_regs = TRUE]
           unmapped == [u EXCEPT !.m_regs = FALSE]
<1>1. /\ mapped \in L!Unit /\ unmapped \in L!Unit
      /\ mapped.m_regs /\ mapped.m_laser = u.m_laser /\ mapped.status = u.status
  BY DEF L!Unit
<1>2. CASE how = "badMap"
  <2>1. L!Configured(u, how, ok) = L!SetStatus(unmapped, "offline")
    BY <1>2 DEF L!Configured
  <2> HIDE DEF unmapped
  <2> QED BY <1>1, <1>2, <2>1, LaserSays DEF L!Status
<1>3. CASE how = "badValue"
  <2>1. L!Configured(u, how, ok) = L!Terminate(mapped, ok)
    BY <1>3 DEF L!Configured
  <2> HIDE DEF mapped
  <2> QED BY <1>1, <1>3, <2>1, LaserClose
<1>4. CASE how = "accepted"
  <2>1. L!Configured(u, how, ok) = [mapped EXCEPT !.m_config_completed = TRUE]
    BY <1>4 DEF L!Configured
  <2> HIDE DEF mapped
  <2> QED BY <1>1, <2>1 DEF L!Unit
<1> QED BY <1>2, <1>3, <1>4 DEF Connection

LEMMA LaserHandlers ==
  ASSUME NEW u \in L!Unit, NEW ok \in BOOLEAN
  PROVE  /\ \A how \in L!ConfigOutcome : L!ConfigHandler(u, how, ok) \in L!Unit
         /\ \A how \in L!InitOutcome : L!Initialised(u, how, ok) \in L!Unit
         /\ \A how \in L!InitOutcome : L!InitHandler(u, how, ok) \in L!Unit
<1>1. ASSUME NEW how \in L!ConfigOutcome
      PROVE  L!ConfigHandler(u, how, ok) \in L!Unit
  <2>1. how \in {"rejected", "noLaser"} \cup Connection
    BY DEF L!ConfigOutcome, Connection
  <2>2. CASE L!ConfigRefused(u, how) \/ how = "noLaser"
    BY <2>2, LaserClose DEF L!ConfigHandler
  <2>3. CASE ~(L!ConfigRefused(u, how) \/ how = "noLaser")
    <3>1. L!ConfigHandler(u, how, ok) = L!Configured(L!Connected(u), how, ok) /\ how \in Connection
      BY <2>1, <2>3 DEF L!ConfigHandler, L!ConfigRefused
    <3> QED BY <3>1, LaserConnect, LaserConfigured
  <2> QED BY <2>2, <2>3
<1>2. ASSUME NEW v \in L!Unit, NEW how \in L!InitOutcome
      PROVE  L!Initialised(v, how, ok) \in L!Unit
  BY LaserClose DEF L!Initialised
<1>3. ASSUME NEW how \in L!InitOutcome
      PROVE  L!InitHandler(u, how, ok) \in L!Unit
  BY <1>2, LaserConnect, LaserClose DEF L!InitHandler
<1> QED BY <1>1, <1>2, <1>3

LEMMA LaserTyped ==
  ASSUME LaserType, [Next]_vars
  PROVE  LaserType'
<1> USE DEF LaserType
<1>1. CASE UNCHANGED laser
  BY <1>1 DEF laser
<1>2. ASSUME NEW next \in L!Unit, Ends(next)
      PROVE  LaserType'
  BY <1>2 DEF Ends
<1>3. ASSUME NEW next, Connects(next)
      PROVE  LaserType'
  BY <1>3, LaserConnect DEF Connects
<1>4. CASE CallTerminate
  BY <1>2, <1>4, LaserClose DEF CallTerminate
<1>5. CASE CallLoad_config \/ OtherState \/ CallAttenuator \/ AttenuatorProceeds \/ CallCib
           \/ CallMotor \/ CallMeter \/ UpdateAttenuator \/ UpdateCib
  BY <1>1, <1>5 DEF CallLoad_config, OtherState, CallAttenuator, AttenuatorProceeds, CallCib,
     CallMotor, CallMeter, UpdateAttenuator, UpdateCib
<1>6. CASE ConfigPart
  <2>1. CASE UNCHANGED laser  BY <1>1, <2>1
  <2>2. CASE Connects("config")  BY <1>3, <2>2
  <2>3. ASSUME NEW ok \in BOOLEAN, ConfigLaser(ok)
        PROVE  LaserType'
    BY <1>2, <2>3, LaserHandlers, LaserConfigured DEF ConfigLaser
  <2> QED BY <1>6, <2>1, <2>2, <2>3 DEF ConfigPart
<1>7. CASE CallShutdown  BY <1>4, <1>7 DEF CallShutdown
<1>8. CASE CallLaser
  <2>1. CASE CallConfig
    BY <1>2, <1>3, <2>1, LaserHandlers, LaserClose DEF CallConfig
  <2>2. CASE CallInit
    BY <1>2, <1>3, <2>2, LaserHandlers DEF CallInit, L!InitOutcome
  <2> QED BY <1>4, <1>8, <2>1, <2>2 DEF CallLaser
<1>9. CASE LaserGoesOn
  <2>1. ASSUME NEW closes \in BOOLEAN, call = "config", NEW how \in Connection,
               unit' = L!Configured(unit, how, closes), UNCHANGED <<echo, stale>>
        PROVE  LaserType'
    BY <2>1, LaserConfigured
  <2> QED BY <1>2, <1>9, <2>1, LaserHandlers, LaserClose DEF LaserGoesOn, GoesOn
<1>10. CASE UpdateLaser
  <2>1. CASE echo' = unit.status /\ unit' = unit
    BY <2>1 DEF L!Unit
  <2>2. CASE echo # None /\ unit' = L!SetStatus(unit, echo) /\ echo' = None
    BY <2>2, LaserSays
  <2> QED BY <1>10, <2>1, <2>2 DEF UpdateLaser
<1>11. CASE Restart
  BY <1>11 DEF Restart, L!Constructed, L!Unit, L!Status, L!Timed
<1>12. CASE UNCHANGED vars  BY <1>1, <1>12 DEF vars
<1> QED BY <1>5, <1>6, <1>7, <1>8, <1>9, <1>10, <1>11, <1>12 DEF Next

\* The entries that a configuration makes lead to motors that it named and gave
\* that coordinate.
LEMMA MotorsEntered ==
  ASSUME ConfigMotors(TRUE), MapType
  PROVE  MotorsWork'
<1>1. PICK arrangement \in Arrangements, some \in SUBSET Motors, given \in SUBSET Motors :
        /\ named' \in SUBSET Motors /\ some = named' /\ some \subseteq given
        /\ coordinate' = [m \in Motors |-> IF m \in given THEN arrangement[m] ELSE coordinate[m]]
        /\ m_map_motor_coordinates' = Enter(some, arrangement)
        /\ older' = {c \in Coordinates : m_map_motor_coordinates[c] # None}
  BY DEF ConfigMotors
<1>2. ASSUME NEW m \in named'
      PROVE  LET there == m_map_motor_coordinates'[coordinate'[m]]
             IN  /\ there # None
                 /\ coordinate'[m] \notin older' => there \in named' /\ coordinate'[there] = coordinate'[m]
  <2> DEFINE c == arrangement[m]
             n == CHOOSE n \in some : arrangement[n] = c
  <2>1. m \in some /\ m \in Motors /\ c \in Coordinates /\ coordinate'[m] = c
    BY <1>1, CommissioningAssumption
  <2>2. n \in some /\ arrangement[n] = c
    BY <2>1
  <2>3. n # None /\ coordinate'[n] = c
    BY <1>1, <2>2, CommissioningAssumption
  <2>4. Enter(some, arrangement)[c] =
          IF m_map_motor_coordinates[c] = None THEN n ELSE m_map_motor_coordinates[c]
    BY <2>1 DEF Enter
  <2>5. c \in older' <=> m_map_motor_coordinates[c] # None
    BY <1>1, <2>1
  <2> HIDE DEF n, c
  <2> QED BY <1>1, <2>1, <2>2, <2>3, <2>4, <2>5
<1> QED BY <1>2 DEF MotorsWork

\* Each part that answers that all is well is in working order.
LEMMA PartAnswers ==
  ASSUME CibInv, MeterInv, LaserType, MapType,
         call = "config" => unit.m_laser /\ (unit.status = "ready" \/ stale)
  PROVE  /\ ConfigCib(TRUE)    => CibWorks'
         /\ ConfigLaser(TRUE)  => LaserWorks'
         /\ ConfigMotors(TRUE) => MotorsWork'
         /\ ConfigMeter(TRUE)  => MeterWorks'
<1>1. ASSUME ConfigCib(TRUE)
      PROVE  CibWorks'
  BY <1>1, CibConfig DEF ConfigCib, CibWorks, CibInv
<1>2. ASSUME ConfigLaser(TRUE)
      PROVE  LaserWorks'
  <2>1. PICK closes \in BOOLEAN : call = "config" /\ Ends(L!Configured(unit, "accepted", closes))
    BY <1>2 DEF ConfigLaser
  <2>2. LET v == L!Configured(unit, "accepted", closes)
        IN  v.m_laser = unit.m_laser /\ v.status = unit.status /\ v.m_regs /\ v.m_config_completed
    BY LaserConfigured DEF LaserType, Connection
  <2> QED BY <2>1, <2>2 DEF Ends, LaserWorks
<1>3. ASSUME ConfigMeter(TRUE)
      PROVE  MeterWorks'
  BY <1>3, MeterConfig DEF ConfigMeter, MeterWorks, MeterInv
<1> QED BY <1>1, <1>2, <1>3, MotorsEntered

\* A part that answers otherwise ends load_config.
LEMMA PartsLeft ==
  ASSUME LoadInv, AttInv, CibInv, MeterInv, ConfigPart
  PROVE  /\ loading' \in 0 .. 5
         /\ PartsBefore'
         /\ loading = 5 /\ loading' = 0 /\ m_state = "offline" /\ m_state' = "ready"
              => AllPartsWork'
<1>1. PartsBefore /\ LaserType /\ MapType
  BY DEF LoadInv
<1>2. /\ UNCHANGED att /\ AttenuatorWorks /\ A!Idle(att) => AttenuatorWorks' /\ A!Idle(att)'
      /\ UNCHANGED cib /\ CibWorks => CibWorks'
      /\ UNCHANGED laser /\ LaserWorks => LaserWorks'
      /\ UNCHANGED motors /\ MotorsWork => MotorsWork'
  BY DEF AttenuatorWorks, A!Idle, CibWorks, LaserWorks, MotorsWork, motors, laser
<1>3. CASE loading = 1 /\ A!Idle(att) /\ EndsPart(1, answer) /\ answer' = FALSE
           /\ UNCHANGED <<att, cib, laser, meter, motors>>
  <2>1. CASE answer
    <3>1. AttenuatorWorks /\ call = "idle" /\ loading' = 2 /\ call' = "idle"
      BY <1>1, <1>3, <2>1 DEF PartsBefore, EndsPart, laser
    <3> QED BY <1>2, <1>3, <3>1 DEF PartsBefore
  <2>2. CASE ~answer
    BY <1>3, <2>2 DEF PartsBefore, EndsPart
  <2> QED BY <2>1, <2>2
<1>4. CASE loading = 3 /\ call = "idle" /\ Connects("config")
           /\ UNCHANGED <<m_state, loading, answer, att, cib, meter, motors>>
  <2>1. unit'.m_laser /\ unit'.status = "ready"
    BY <1>1, <1>4, LaserConnect DEF Connects, LaserType
  <2>2. AttenuatorWorks' /\ A!Idle(att)' /\ CibWorks' /\ loading' = 3
    BY <1>1, <1>2, <1>4 DEF PartsBefore
  <2> QED BY <1>4, <2>1, <2>2 DEF PartsBefore
<1>5. ASSUME NEW ok \in BOOLEAN,
             \/ loading = 2 /\ ConfigCib(ok) /\ EndsPart(2, ok) /\ UNCHANGED <<laser, meter, motors>>
             \/ loading = 3 /\ ConfigLaser(ok) /\ EndsPart(3, ok) /\ UNCHANGED <<cib, meter, motors>>
             \/ loading = 4 /\ ConfigMotors(ok) /\ EndsPart(4, ok) /\ UNCHANGED <<cib, laser, meter>>
             \/ loading = 5 /\ ConfigMeter(ok) /\ EndsPart(5, ok) /\ UNCHANGED <<cib, laser, motors>>,
             UNCHANGED <<answer, att>>
      PROVE  /\ loading' \in 0 .. 5
             /\ PartsBefore'
             /\ loading = 5 /\ loading' = 0 /\ m_state = "offline" /\ m_state' = "ready"
                  => AllPartsWork'
  <2>1. CASE ok = FALSE
    <3>1. loading' = 0 /\ m_state' = m_state
      BY <1>5, <2>1 DEF EndsPart
    <3> QED BY <3>1 DEF PartsBefore
  <2>2. CASE ok = TRUE
    <3>1. /\ loading = 2 /\ ConfigCib(TRUE)    => CibWorks'
          /\ loading = 3 /\ ConfigLaser(TRUE)  => LaserWorks'
          /\ loading = 4 /\ ConfigMotors(TRUE) => MotorsWork'
          /\ loading = 5 /\ ConfigMeter(TRUE)  => MeterWorks'
      <4>1. loading = 3 /\ ConfigLaser(TRUE)
              => (call = "config" => unit.m_laser /\ (unit.status = "ready" \/ stale))
        BY <1>1 DEF PartsBefore
      <4>2. loading = 2 => (call = "config" => unit.m_laser /\ (unit.status = "ready" \/ stale))
        BY <1>1 DEF PartsBefore
      <4>3. ConfigMotors(TRUE) => MotorsWork'
        BY <1>1, MotorsEntered
      <4>4. ConfigMeter(TRUE) => MeterWorks'
        BY MeterConfig DEF ConfigMeter, MeterWorks, MeterInv
      <4> QED BY <1>1, <4>1, <4>2, <4>3, <4>4, PartAnswers
    <3>2. AttenuatorWorks' /\ A!Idle(att)'
      BY <1>1, <1>2, <1>5 DEF PartsBefore
    <3>3. CASE loading = 2
      <4>1. CibWorks' /\ loading' = 3 /\ call' = "idle"
        BY <1>1, <1>5, <2>2, <3>1, <3>3 DEF EndsPart, PartsBefore, laser
      <4> QED BY <3>2, <3>3, <4>1 DEF PartsBefore
    <3>4. CASE loading = 3
      <4>1. CibWorks' /\ LaserWorks' /\ loading' = 4
        BY <1>1, <1>2, <1>5, <2>2, <3>1, <3>4 DEF EndsPart, PartsBefore
      <4> QED BY <3>2, <3>4, <4>1 DEF PartsBefore
    <3>5. CASE loading = 4
      <4>1. CibWorks' /\ LaserWorks' /\ MotorsWork' /\ loading' = 5
        BY <1>1, <1>2, <1>5, <2>2, <3>1, <3>5 DEF EndsPart, PartsBefore
      <4> QED BY <3>2, <3>5, <4>1 DEF PartsBefore
    <3>6. CASE loading = 5
      <4>1. CibWorks' /\ LaserWorks' /\ MotorsWork' /\ MeterWorks' /\ loading' = 0
        BY <1>1, <1>2, <1>5, <2>2, <3>1, <3>6 DEF EndsPart, PartsBefore
      <4> QED BY <3>2, <4>1 DEF PartsBefore, AllPartsWork
    <3> QED BY <1>5, <2>2, <3>3, <3>4, <3>5, <3>6
  <2> QED BY <2>1, <2>2
<1> QED BY <1>3, <1>4, <1>5 DEF ConfigPart

LEMMA MapTyped ==
  ASSUME MapType, [Next]_vars
  PROVE  MapType'
<1>1. CASE UNCHANGED motors
  BY <1>1 DEF MapType, motors
<1>2. CASE CallLoad_config \/ CallShutdown \/ OtherState \/ CallAttenuator \/ AttenuatorProceeds \/ CallCib
           \/ CallLaser \/ LaserGoesOn \/ CallMeter \/ UpdateAttenuator \/ UpdateCib \/ UpdateLaser
  BY <1>1, <1>2 DEF CallLoad_config, CallShutdown, OtherState, CallAttenuator, AttenuatorProceeds, CallCib,
     CallLaser, LaserGoesOn, CallMeter, UpdateAttenuator, UpdateCib, UpdateLaser
<1>3. CASE ConfigPart
  <2>1. CASE UNCHANGED motors  BY <1>1, <2>1
  <2>2. CASE \E ok \in BOOLEAN : ConfigMotors(ok)
    BY <2>2, CommissioningAssumption DEF ConfigMotors, MapType
  <2> QED BY <1>3, <2>1, <2>2 DEF ConfigPart
<1>4. CASE CallMotor
  BY <1>4, CommissioningAssumption DEF CallMotor, MapType
<1>5. CASE Restart
  BY <1>5, CommissioningAssumption DEF Restart, MapType
<1>6. CASE UNCHANGED vars  BY <1>1, <1>6 DEF vars
<1> QED BY <1>2, <1>3, <1>4, <1>5, <1>6 DEF Next

\* The main loop during load_config.
LEMMA UpdatesKeepParts ==
  ASSUME LoadInv, AttInv, CibInv, UpdateAttenuator \/ UpdateCib \/ UpdateLaser
  PROVE  loading' = loading /\ PartsBefore'
<1>1. PartsBefore /\ LaserType
  BY DEF LoadInv
<1>2. CASE UpdateAttenuator
  <2>1. /\ att'.todo = att.todo /\ (AttenuatorWorks => AttenuatorWorks')
        /\ UNCHANGED <<loading, answer, cib, unit, call, stale, coordinate, m_map_motor_coordinates, named, older>>
    BY <1>2, AttUpdate DEF UpdateAttenuator, laser, motors
  <2> QED BY <1>1, <2>1 DEF PartsBefore, A!Idle, Last, CibWorks, LaserWorks, MotorsWork
<1>3. CASE UpdateCib
  <2>1. /\ CibWorks => CibWorks'
        /\ UNCHANGED <<loading, answer, att, unit, call, stale, coordinate, m_map_motor_coordinates, named, older>>
    BY <1>3, CibUpdate DEF UpdateCib, laser, motors
  <2> QED BY <1>1, <2>1 DEF PartsBefore, A!Idle, Last, AttenuatorWorks, LaserWorks, MotorsWork
<1>4. CASE UpdateLaser
  <2>1. /\ unit'.m_laser = unit.m_laser /\ unit'.m_regs = unit.m_regs
        /\ unit'.m_config_completed = unit.m_config_completed
        /\ (unit.status = "ready" \/ stale) => (unit'.status = "ready" \/ stale')
    <3>1. CASE UNCHANGED <<unit, stale>>
      BY <3>1
    <3>2. CASE echo # None /\ unit' = L!SetStatus(unit, echo) /\ stale' = (stale \/ unit.status # echo)
      BY <1>1, <3>2, LaserSays DEF LaserType
    <3> QED BY <1>4, <3>1, <3>2 DEF UpdateLaser
  <2>2. UNCHANGED <<loading, answer, att, cib, call, coordinate, m_map_motor_coordinates, named, older>>
    BY <1>4 DEF UpdateLaser, motors
  <2> QED BY <1>1, <2>1, <2>2 DEF PartsBefore, A!Idle, Last, AttenuatorWorks, CibWorks, LaserWorks, MotorsWork
<1> QED BY <1>2, <1>3, <1>4

LEMMA LoadStep ==
  ASSUME LoadInv, AttInv, CibInv, MeterInv, [Next]_vars
  PROVE  LoadInv'
<1>1. LaserType' /\ MapType'
  BY LaserTyped, MapTyped DEF LoadInv
<1>2. loading' \in 0 .. 5 /\ PartsBefore'
  <2>1. CASE loading' = 0
    BY <2>1 DEF PartsBefore
  <2>2. CASE CallLoad_config
    <3>1. PICK how \in A!ConfigOutcome : /\ att' = A!Begins(att, A!ConfigHandler(att.m_att, how))
                                        /\ answer' = (how = "accepted")
      BY <2>2 DEF CallLoad_config
    <3>2. att'.todo = A!ConfigHandler(att.m_att, how)
      BY <3>1 DEF A!Begins, AttInv, A!AttType
    <3>3. answer' => ~A!Idle(att)' /\ Last(att.todo)' = "ready"
      BY <3>1, <3>2, SoundConfig DEF A!Idle, Last
    <3>4. loading' = 1 /\ call' = "idle"
      BY <2>2 DEF CallLoad_config, Called, laser
    <3> QED BY <3>3, <3>4 DEF PartsBefore
  <2>3. CASE ConfigPart
    BY <2>3, PartsLeft
  <2>4. CASE AttenuatorProceeds
    <3>1. /\ ~A!Idle(att)
          /\ Last(att.todo) = "ready" =>
               IF A!Idle(att)' THEN AttenuatorWorks' ELSE Last(att.todo)' = "ready"
      BY <2>4, AttProceeds DEF AttenuatorProceeds, A!Proceed
    <3>2. UNCHANGED <<loading, answer, call>>
      BY <2>4 DEF AttenuatorProceeds, laser
    <3>3. loading \in {0, 1} /\ PartsBefore
      BY <3>1 DEF LoadInv, PartsBefore
    <3> QED BY <3>1, <3>2, <3>3 DEF PartsBefore
  <2>5. CASE OtherState \/ UNCHANGED vars
    BY <2>5 DEF OtherState, vars, laser, motors, LoadInv, PartsBefore, A!Idle, Last,
       AttenuatorWorks, CibWorks, LaserWorks, MotorsWork
  <2>6. CASE CallShutdown \/ CallAttenuator \/ CallCib \/ CallLaser \/ LaserGoesOn \/ CallMotor \/ CallMeter
    BY <2>1, <2>6 DEF CallShutdown, CallAttenuator, CallCib, CallLaser, LaserGoesOn, CallMotor, CallMeter, Called
  <2>7. CASE UpdateAttenuator \/ UpdateCib \/ UpdateLaser
    BY <2>7, UpdatesKeepParts DEF LoadInv
  <2>8. CASE Restart
    BY <2>1, <2>8 DEF Restart
  <2> QED BY <2>2, <2>3, <2>4, <2>5, <2>6, <2>7, <2>8 DEF Next
<1> QED BY <1>1, <1>2 DEF LoadInv

IInv == LoadInv /\ AttInv /\ CibInv /\ MeterInv

LEMMA InitIInv == Init => IInv
<1>1. ASSUME Init PROVE LoadInv
  BY <1>1, CommissioningAssumption
  DEF Init, LoadInv, LaserType, MapType, PartsBefore, L!Constructed, L!Unit, L!Status, L!Timed
<1> QED BY <1>1, AttInit, CibInit, MeterBegins DEF IInv

LEMMA NextIInv == IInv /\ [Next]_vars => IInv'
BY AttStep, CibStep, MeterStep, LoadStep DEF IInv

\* When load_config makes the system ready no part was left behind, whatever
\* states failures, clients, updates and restarts had left the parts in; but an
\* update may have said an older status again, and a coordinate that was in the
\* map before keeps its entry (config of DIoLaserSystem and of the parts).
THEOREM GoodConfigIsWhole == Spec => OkMeansAllParts
<1>1. IInv /\ [Next]_vars =>
        [loading = 5 /\ loading' = 0 /\ m_state = "offline" /\ m_state' = "ready" => AllPartsWork']_vars
  <2> SUFFICES ASSUME IInv, Next, loading = 5, loading' = 0, m_state = "offline", m_state' = "ready"
               PROVE  AllPartsWork'
    OBVIOUS
  <2>1. CASE ConfigPart
    BY <2>1, PartsLeft DEF IInv
  <2>2. CASE Restart
    BY <2>2 DEF Restart
  <2>3. CASE ~ConfigPart /\ ~Restart
    BY <2>3 DEF Next, CallLoad_config, CallShutdown, OtherState, CallAttenuator, AttenuatorProceeds, CallCib,
                CallLaser, LaserGoesOn, CallMotor, CallMeter, UpdateAttenuator, UpdateCib, UpdateLaser, Called
  <2> QED BY <2>1, <2>2, <2>3
<1> QED BY <1>1, InitIInv, NextIInv, PTL DEF Spec, OkMeansAllParts

\* After a shutdown neither the laser nor the meter refuses to be configured,
\* whatever a configuration that failed had left behind, but for a laser that
\* was initialised without its registers (shutdown of DIoLaserSystem, terminate
\* of the laser unit and of the power meter).
THEOREM ShutdownClearsTheWay == Spec => ShutdownUnlocks
<1>1. IInv /\ [Next]_vars => [CallShutdown /\ (unit.m_regs \/ unit.status = "offline") => ~Refuses']_vars
  <2> SUFFICES ASSUME IInv, CallShutdown, unit.m_regs \/ unit.status = "offline"
               PROVE  ~Refuses'
    OBVIOUS
  <2>1. unit'.status = "offline" /\ ~unit'.m_laser
    BY LaserClose DEF IInv, LoadInv, LaserType, CallShutdown, CallTerminate, Ends
  <2>2. ~meter'.online
    BY MeterTerminate DEF IInv, MeterInv, CallShutdown
  <2> QED BY <2>1, <2>2 DEF Refuses
<1> QED BY <1>1, InitIInv, NextIInv, PTL DEF Spec, ShutdownUnlocks
==============================================================================
