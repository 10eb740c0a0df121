---------------------------- MODULE LaserRaceProofs ----------------------------
(* A stop of the laser is final, whatever meets it, and handlers that run one *)
(* at a time leave what module LaserUnit says of a handler that is one action *)
(* : for any timer threads and any bounds on the handlers that run at once,   *)
(* by induction over the steps of all threads.                                *)
EXTENDS LaserRace, SequenceTheorems, TLAPS

-----------------------------------------------------------------------------
(* Steps and their lists. *)

Registers == [Flag -> BOOLEAN]
Status    == {"ready", "warmup", "standby", "pause", "lasing"}
Question  == {"paused", "standing by", "closed", "shut", "reopened", "opened", "fired", "status"}

Order ==
  ({"write"} \X Flag \X BOOLEAN) \cup ({"read"} \X Flag) \cup ({"keep"} \X Registers)
    \cup ({"command"} \X BOOLEAN \X {"ends", "goes on", "stands by"})
    \cup ({"say"} \X Status) \cup ({"ask"} \X Question)

\* Steps that neither fire nor lead to one that does, and those that nothing
\* but what they stand for comes of: what a stop does before it ends the firing.
Dark  == {x \in Order : /\ ~(x[1] = "write" /\ x[2] = "fire" /\ x[3] = TRUE)
                        /\ ~(x[1] = "ask" /\ x[2] = "fired")}
Plain == {x \in Order : x[1] \in {"write", "read", "keep", "say"} \/ (x[1] = "ask" /\ x[2] \in {"shut", "closed"})}

LEMMA Singles ==
  ASSUME NEW f \in Flag, NEW on \in BOOLEAN
  PROVE  /\ <<"write", f, on>> \in Order /\ <<"write", f, on>> \in Plain
         /\ f # "fire" \/ on = FALSE => <<"write", f, on>> \in Dark
         /\ <<"read", f>> \in Order /\ <<"read", f>> \in Dark /\ <<"read", f>> \in Plain
<1>1. <<"write", f, on>> \in Order /\ <<"read", f>> \in Order
  BY DEF Order
<1> QED BY <1>1 DEF Dark, Plain

LEMMA Singles2 ==
  ASSUME NEW v \in Registers, NEW s \in Status, NEW q \in Question
  PROVE  /\ <<"keep", v>> \in Order /\ <<"keep", v>> \in Dark /\ <<"keep", v>> \in Plain
         /\ <<"say", s>> \in Order /\ <<"say", s>> \in Dark /\ <<"say", s>> \in Plain
         /\ <<"ask", q>> \in Order
         /\ q # "fired" => <<"ask", q>> \in Dark
         /\ q \in {"shut", "closed"} => <<"ask", q>> \in Plain
<1>1. <<"keep", v>> \in Order /\ <<"say", s>> \in Order /\ <<"ask", q>> \in Order
  BY DEF Order
<1> QED BY <1>1 DEF Dark, Plain

LEMMA Singles3 ==
  ASSUME NEW b \in BOOLEAN, NEW o \in {"ends", "goes on", "stands by"}
  PROVE  /\ <<"command", b, o>> \in Order /\ <<"command", b, o>> \in Dark
<1>1. <<"command", b, o>> \in Order
  BY DEF Order
<1> QED BY <1>1 DEF Dark

\* What a step carries.
LEMMA Carried ==
  ASSUME NEW x \in Order
  PROVE  /\ x[1] \in {"write", "read", "keep", "command", "say", "ask"}
         /\ x[1] = "write" => x[2] \in Flag /\ x[3] \in BOOLEAN
         /\ x[1] = "read" => x[2] \in Flag
         /\ x[1] = "keep" => x[2] \in Registers
         /\ x[1] = "command" => x[2] \in BOOLEAN /\ x[3] \in {"ends", "goes on", "stands by"}
         /\ x[1] = "say" => x[2] \in Status
         /\ x[1] = "ask" => x[2] \in Question
<1> HIDE DEF Registers, Flag, Status, Question
<1> QED BY DEF Order

LEMMA OneStep ==
  ASSUME NEW S, NEW x \in S
  PROVE  <<x>> \in Seq(S) /\ <<x>> # <<>>
OBVIOUS

LEMMA Joined ==
  ASSUME NEW S, NEW s \in Seq(S), NEW r \in Seq(S)
  PROVE  s \o r \in Seq(S) /\ (s # <<>> \/ r # <<>> => s \o r # <<>>)
BY ConcatProperties, ConcatEqualIffEmpty

LEMMA JoinedOrders ==
  /\ \A s, r \in Seq(Order) : s \o r \in Seq(Order) /\ (s # <<>> \/ r # <<>> => s \o r # <<>>)
  /\ \A s, r \in Seq(Dark) : s \o r \in Seq(Dark)
  /\ \A s, r \in Seq(Plain) : s \o r \in Seq(Plain)
<1> HIDE DEF Order, Dark, Plain
<1> QED BY Joined

LEMMA FirstAndRest ==
  ASSUME NEW S, NEW s \in Seq(S), s # <<>>
  PROVE  s[1] \in S /\ Tail(s) \in Seq(S)
OBVIOUS

LEMMA PutType ==
  ASSUME NEW f \in Flag, NEW on \in BOOLEAN
  PROVE  /\ Put(f, on) \in Seq(Order) /\ Put(f, on) \in Seq(Plain) /\ Put(f, on) # <<>>
         /\ f # "fire" \/ on = FALSE => Put(f, on) \in Seq(Dark)
         /\ Refresh(f) \in Seq(Order) /\ Refresh(f) \in Seq(Dark)
<1> HIDE DEF Order, Dark, Plain
<1> QED BY Singles, OneStep DEF Put, Refresh

LEMMA SayType ==
  ASSUME NEW s \in Status
  PROVE  Say(s) \in Seq(Order) /\ Say(s) \in Seq(Dark) /\ Say(s) \in Seq(Plain) /\ Say(s) # <<>>
<1>1. \A v \in Status : <<"say", v>> \in Order /\ <<"say", v>> \in Dark /\ <<"say", v>> \in Plain
  <2>1. \E v : v \in Registers
    <3>1. [f \in Flag |-> FALSE] \in Registers
      BY DEF Registers
    <3> QED BY <3>1
  <2>2. "shut" \in Question
    BY DEF Question
  <2> QED BY <2>1, <2>2, Singles2
<1> HIDE DEF Order, Dark, Plain
<1> QED BY <1>1, OneStep DEF Say

LEMMA KeepType ==
  ASSUME view \in Registers, NEW f \in Flag, NEW on \in BOOLEAN
  PROVE  /\ Keep(f, on) \in Seq(Order) /\ Keep(f, on) \in Seq(Dark) /\ Keep(f, on) \in Seq(Plain)
         /\ Keep(f, on) # <<>>
<1>1. [view EXCEPT ![f] = on] \in Registers
  BY DEF Registers
<1>2. "ready" \in Status /\ "shut" \in Question
  BY DEF Status, Question
<1> HIDE DEF Order, Dark, Plain
<1> QED BY <1>1, <1>2, Singles2, OneStep DEF Keep

LEMMA AskType ==
  ASSUME NEW q \in Question
  PROVE  /\ Ask(q) \in Seq(Order) /\ Ask(q) # <<>>
         /\ q # "fired" => Ask(q) \in Seq(Dark)
         /\ q \in {"shut", "closed"} => Ask(q) \in Seq(Plain)
<1>1. [f \in Flag |-> FALSE] \in Registers /\ "ready" \in Status
  BY DEF Registers, Status
<1> HIDE DEF Order, Dark, Plain
<1> QED BY <1>1, Singles2, OneStep DEF Ask

LEMMA CommandType ==
  ASSUME NEW b \in BOOLEAN, NEW o \in {"ends", "goes on", "stands by"}
  PROVE  Command(b, o) \in Seq(Order) /\ Command(b, o) \in Seq(Dark) /\ Command(b, o) # <<>>
<1> HIDE DEF Order, Dark
<1> QED BY Singles3, OneStep DEF Command

-----------------------------------------------------------------------------
(* Lists that end the firing. *)

\* The firing is ended after nothing but plain steps.
Quenching(s) == \E pre \in Seq(Plain), post \in Seq(Order) : s = (pre \o Put("fire", FALSE)) \o post

LEMMA PlainIsOrder == Seq(Plain) \subseteq Seq(Order)
<1>1. Plain \subseteq Order
  BY DEF Plain
<1> HIDE DEF Plain, Order
<1> QED BY <1>1, SeqMonotonic

LEMMA Reassociated ==
  \A s, t, u \in Seq(Order) : s \o (t \o u) = (s \o t) \o u
<1> HIDE DEF Order
<1> QED BY ConcatAssociative

LEMMA FirstOfJoined ==
  ASSUME NEW S, NEW s \in Seq(S), NEW r \in Seq(S), s # <<>>
  PROVE  (s \o r)[1] = s[1] /\ Tail(s \o r) = Tail(s) \o r
<1>0. Len(s) \in Nat /\ Len(r) \in Nat /\ Len(s) # 0
  BY EmptySeq
<1>1. /\ s \o r \in Seq(S) /\ Len(s \o r) = Len(s) + Len(r) /\ s \o r # <<>>
      /\ \A i \in 1 .. Len(s) + Len(r) : (s \o r)[i] = IF i <= Len(s) THEN s[i] ELSE r[i - Len(s)]
  BY ConcatProperties, ConcatEqualIffEmpty
<1>2. (s \o r)[1] = s[1]
  BY <1>0, <1>1
<1>3. /\ Tail(s) \in Seq(S) /\ Len(Tail(s)) = Len(s) - 1
      /\ \A i \in 1 .. Len(s) - 1 : Tail(s)[i] = s[i + 1]
  BY HeadTailProperties
<1>4. /\ Tail(s \o r) \in Seq(S) /\ Len(Tail(s \o r)) = Len(s) + Len(r) - 1
      /\ \A i \in 1 .. Len(s) + Len(r) - 1 : Tail(s \o r)[i] = (s \o r)[i + 1]
  BY <1>1, HeadTailProperties
<1>5. /\ Tail(s) \o r \in Seq(S) /\ Len(Tail(s) \o r) = Len(s) - 1 + Len(r)
      /\ \A i \in 1 .. Len(s) - 1 + Len(r) :
           (Tail(s) \o r)[i] = IF i <= Len(s) - 1 THEN Tail(s)[i] ELSE r[i - (Len(s) - 1)]
  BY <1>3, ConcatProperties
<1>6. ASSUME NEW i \in 1 .. Len(s) + Len(r) - 1
      PROVE  Tail(s \o r)[i] = (Tail(s) \o r)[i]
  <2>1. Tail(s \o r)[i] = IF i + 1 <= Len(s) THEN s[i + 1] ELSE r[i + 1 - Len(s)]
    BY <1>0, <1>1, <1>4
  <2>2. (Tail(s) \o r)[i] = IF i <= Len(s) - 1 THEN s[i + 1] ELSE r[i - (Len(s) - 1)]
    BY <1>0, <1>3, <1>5
  <2>3. i + 1 - Len(s) = i - (Len(s) - 1) /\ (i + 1 <= Len(s) <=> i <= Len(s) - 1)
    BY <1>0
  <2> QED BY <2>1, <2>2, <2>3
<1>7. Len(Tail(s \o r)) = Len(Tail(s) \o r) /\ Len(Tail(s \o r)) = Len(s) + Len(r) - 1
  BY <1>0, <1>4, <1>5
<1> QED BY <1>2, <1>4, <1>5, <1>6, <1>7, SeqEqual

LEMMA Quench ==
  /\ Put("fire", FALSE) \in Seq(Order) /\ Put("fire", FALSE) \in Seq(Plain) /\ Put("fire", FALSE) # <<>>
  /\ Put("fire", FALSE)[1] = <<"write", "fire", FALSE>>
<1>1. "fire" \in Flag
  BY DEF Flag
<1> QED BY <1>1, PutType DEF Put

LEMMA QuenchingGrows ==
  ASSUME NEW p \in Seq(Plain), NEW s, Quenching(s)
  PROVE  Quenching(p \o s)
<1>1. PICK pre \in Seq(Plain), post \in Seq(Order) : s = (pre \o Put("fire", FALSE)) \o post
  BY DEF Quenching
<1>2. p \in Seq(Order) /\ pre \in Seq(Order) /\ p \o pre \in Seq(Plain)
  BY PlainIsOrder, Joined
<1> DEFINE fore == pre \o Put("fire", FALSE)
<1>3. fore \in Seq(Order)
  BY <1>2, Quench, Joined
<1>4. p \o s = (p \o fore) \o post
  <2>1. s = fore \o post
    BY <1>1
  <2> HIDE DEF fore
  <2> QED BY <1>2, <1>3, <2>1, Reassociated, Zenon
<1>5. p \o (pre \o Put("fire", FALSE)) = (p \o pre) \o Put("fire", FALSE)
  BY <1>2, Quench, Reassociated, Zenon
<1> QED BY <1>2, <1>4, <1>5 DEF Quenching

LEMMA QuenchingGoesOn ==
  ASSUME NEW s, Quenching(s)
  PROVE  /\ s # <<>> /\ s[1] \in Plain
         /\ s[1] = <<"write", "fire", FALSE>> \/ Quenching(Tail(s))
<1>1. PICK pre \in Seq(Plain), post \in Seq(Order) : s = (pre \o Put("fire", FALSE)) \o post
  BY DEF Quenching
<1> DEFINE fore == pre \o Put("fire", FALSE)
<1>2. fore \in Seq(Plain) /\ fore # <<>>
  BY Quench, Joined
<1>x. fore \in Seq(Order)
  BY <1>2, PlainIsOrder
<1>3. s # <<>> /\ s[1] = fore[1] /\ Tail(s) = Tail(fore) \o post
  <2>1. s = fore \o post
    BY <1>1
  <2> HIDE DEF fore, Order, Plain
  <2> QED BY <1>2, <1>x, <2>1, FirstOfJoined, Joined
<1>4. fore[1] \in Plain
  BY <1>2, FirstAndRest
<1>5. CASE pre = <<>>
  <2>1. fore = Put("fire", FALSE)
    BY <1>5, Quench, ConcatEmptySeq
  <2> QED BY <1>3, <1>4, <2>1, Quench
<1>6. CASE pre # <<>>
  <2>1. Tail(fore) = Tail(pre) \o Put("fire", FALSE) /\ Tail(pre) \in Seq(Plain)
    BY <1>6, Quench, FirstOfJoined, FirstAndRest
  <2> QED BY <1>3, <1>4, <2>1 DEF Quenching
<1> QED BY <1>5, <1>6

\* A stop ends the firing after plain steps.
LEMMA StopType ==
  StopSteps \in Seq(Order) /\ StopSteps \in Seq(Dark) /\ StopSteps # <<>> /\ Quenching(StopSteps)
<1> HIDE DEF Order, Dark, Plain
<1> DEFINE pre  == Ask("shut") \o Put("qswitch", FALSE)
           fore == pre \o Put("fire", FALSE)
           c    == Command(TRUE, "goes on")
           a    == Ask("reopened")
           r    == Say("ready")
<1>0. "qswitch" \in Flag /\ "fire" \in Flag /\ "shut" \in Question /\ "reopened" \in Question /\ "ready" \in Status
  BY DEF Flag, Question, Status
<1>1. pre \in Seq(Order) /\ pre \in Seq(Dark) /\ pre \in Seq(Plain)
  BY <1>0, PutType, AskType, JoinedOrders
<1>2. fore \in Seq(Order) /\ fore \in Seq(Dark) /\ fore # <<>>
  BY <1>0, <1>1, PutType, JoinedOrders
<1>3. /\ c \in Seq(Order) /\ a \in Seq(Order) /\ r \in Seq(Order)
      /\ c \in Seq(Dark) /\ a \in Seq(Dark) /\ r \in Seq(Dark)
  BY <1>0, CommandType, AskType, SayType
<1>4. StopSteps = ((fore \o c) \o a) \o r
  BY DEF StopSteps
<1> HIDE DEF fore, c, a, r
<1>5. StopSteps \in Seq(Order) /\ StopSteps \in Seq(Dark) /\ StopSteps # <<>>
  BY <1>2, <1>3, <1>4, JoinedOrders
<1>6. fore \o c \in Seq(Order) /\ c \o a \in Seq(Order) /\ (c \o a) \o r \in Seq(Order)
  BY <1>2, <1>3, JoinedOrders
<1>7. StopSteps = fore \o ((c \o a) \o r)
  <2> DEFINE ca == c \o a
  <2>1. (fore \o c) \o a = fore \o ca
    BY <1>2, <1>3, Reassociated
  <2>2. ca \in Seq(Order)
    BY <1>6
  <2> HIDE DEF ca
  <2>3. (fore \o ca) \o r = fore \o (ca \o r)
    BY <1>2, <1>3, <2>2, Reassociated, Zenon
  <2> QED BY <1>4, <2>1, <2>3 DEF ca
<1>8. Quenching(StopSteps)
  BY <1>1, <1>6, <1>7 DEF Quenching, fore
<1> QED BY <1>5, <1>8

-----------------------------------------------------------------------------
(* The handlers. *)

Call == ClientCalls \cup {"warm", "update"}

LEMMA StepsType ==
  ASSUME NEW c \in Call
  PROVE  /\ Steps(c) \in Seq(Order) /\ Steps(c) # <<>>
         /\ c # "start" => Steps(c) \in Seq(Dark)
         /\ c = "close" => Steps(c) \in Seq(Plain)
<1> HIDE DEF Order, Dark, Plain
<1>0. /\ {"shutter", "laser", "qswitch", "fire"} = Flag
      /\ {"paused", "standing by", "closed", "shut", "reopened", "opened", "fired", "status"} = Question
      /\ {"ready", "warmup", "standby", "pause", "lasing"} = Status
  BY DEF Flag, Question, Status
<1>1. Opened \in Status /\ LaserOpened \in Status
  BY DEF Opened, LaserOpened, Status
<1>2. CASE c = "pause"
  BY <1>0, <1>2, PutType, CommandType, AskType, JoinedOrders DEF Steps, PauseSteps
<1>3. CASE c = "standby"
  BY <1>0, <1>3, PutType, CommandType, AskType, JoinedOrders DEF Steps
<1>4. CASE c = "resume"
  BY <1>0, <1>4, PutType, CommandType, SayType, JoinedOrders DEF Steps
<1>5. CASE c = "stop"
  BY <1>0, <1>5, StopType, SayType, JoinedOrders DEF Steps
<1>6. CASE c = "start"
  BY <1>0, <1>6, PutType, CommandType, AskType, JoinedOrders DEF Steps
<1>7. CASE c = "warm"
  BY <1>0, <1>7, SayType DEF Steps
<1>8. CASE c = "close"
  BY <1>0, <1>8, PutType, AskType, JoinedOrders DEF Steps
<1>9. CASE c = "open"
  BY <1>0, <1>1, <1>9, PutType, SayType, JoinedOrders DEF Steps
<1>10. CASE c = "closeLaser"
  BY <1>0, <1>10, PutType, CommandType, AskType, SayType, JoinedOrders DEF Steps
<1>11. CASE c = "openLaser"
  BY <1>0, <1>1, <1>11, PutType, CommandType, SayType, JoinedOrders DEF Steps
<1>12. CASE c = "update"
  BY <1>0, <1>12, PutType, AskType, JoinedOrders DEF Steps
<1> QED BY <1>2, <1>3, <1>4, <1>5, <1>6, <1>7, <1>8, <1>9, <1>10, <1>11, <1>12 DEF Call, ClientCalls

LEMMA AnswersType ==
  ASSUME status \in Status, NEW q \in Question, NEW steps \in Answers(q)
  PROVE  /\ steps \in Seq(Order)
         /\ q # "fired" => steps \in Seq(Dark)
         /\ q \in {"shut", "closed"} => steps \in Seq(Plain)
<1> HIDE DEF Order, Dark, Plain
<1>0. /\ "shutter" \in Flag /\ "qswitch" \in Flag /\ "fire" \in Flag
      /\ {"ready", "warmup", "standby", "pause"} \subseteq Status
      /\ {"close", "open", "stop"} \subseteq Call
  BY DEF Flag, Status, Call, ClientCalls
<1>1. /\ <<>> \in Seq(Order) /\ <<>> \in Seq(Dark) /\ <<>> \in Seq(Plain)
  OBVIOUS
<1>2. CASE q = "paused"
  <2>1. steps \in {Put("qswitch", TRUE) \o Say("pause"), Say("ready")}
    BY <1>2 DEF Answers
  <2>2. /\ Put("qswitch", TRUE) \in Seq(Order) /\ Put("qswitch", TRUE) \in Seq(Dark)
        /\ Say("pause") \in Seq(Order) /\ Say("pause") \in Seq(Dark)
        /\ Say("ready") \in Seq(Order) /\ Say("ready") \in Seq(Dark)
    BY <1>0, PutType, SayType
  <2> QED BY <1>2, <2>1, <2>2, JoinedOrders
<1>3. CASE q \in {"standing by", "closed"}
  BY <1>0, <1>3, SayType DEF Answers
<1>4. CASE q \in {"shut", "reopened"}
  BY <1>0, <1>1, <1>4, StepsType DEF Answers
<1>5. CASE q = "opened"
  BY <1>0, <1>1, <1>5, PutType DEF Answers
<1>6. CASE q = "fired"
  <2>1. steps \in {(IF view.shutter THEN <<>> ELSE Put("shutter", TRUE)) \o Put("fire", TRUE) \o Say("warmup"),
                   Steps("stop")}
    BY <1>6 DEF Answers
  <2> QED BY <1>0, <1>1, <1>6, <2>1, PutType, SayType, StepsType, JoinedOrders
<1>7. CASE q = "status"
  BY <1>7, SayType DEF Answers
<1> QED BY <1>2, <1>3, <1>4, <1>5, <1>6, <1>7 DEF Question

-----------------------------------------------------------------------------
(* The inductive invariant.  Only the steps of a start fire, so that as long   *)
(* as a stop that met none is under way nobody does; and of such a stop        *)
(* nothing but plain steps comes before it has ended the firing, so that it    *)
(* cannot end without.                                                         *)

Past == [met : Nat, healing : Thread \cup {None}, started : BOOLEAN,
         unmet : SUBSET Thread, starting : BOOLEAN]

TypeInv ==
  /\ status \in Status /\ view \in Registers /\ hw \in Registers
  /\ todo \in [Thread -> Seq(Order)]
  /\ timer \in [Slot -> {None, "polls", "due"}]
  /\ past \in Past

\* A timer thread that waits has no handler to run.
TimersWait == \A t \in Slot : timer[t] # None => todo[t] = <<>>

StartsKnown ==
  /\ past.starting => past.started
  /\ past.starting => past.unmet = {}

OnlyStartsFire == \A t \in Thread : todo[t] \in Seq(Dark) \/ (t = "server" /\ past.starting)

StopsQuench == \A t \in past.unmet : todo[t] # <<>> /\ (hw.fire => Quenching(todo[t]))

RaceInv == TypeInv /\ TimersWait /\ StartsKnown /\ OnlyStartsFire /\ StopsQuench /\ StopIsFinal

-----------------------------------------------------------------------------
(* One step of a thread. *)

\* The thread has the steps l left, and its handler ends with the last one.
Goes(t, l) ==
  /\ todo' = [todo EXCEPT ![t] = l]
  /\ past' \in Past
  /\ past'.started <=> past.started /\ (l = <<>> => t \notin past.unmet)
  /\ past'.unmet = IF l = <<>> THEN past.unmet \ {t} ELSE past.unmet
  /\ past'.starting <=> past.starting /\ (l = <<>> => t # "server")

LEMMA EndedType ==
  ASSUME TypeInv, NEW t \in Thread
  PROVE  /\ Ended(t) \in Past
         /\ Ended(t).started <=> past.started /\ t \notin past.unmet
         /\ Ended(t).unmet = past.unmet \ {t}
         /\ Ended(t).starting <=> past.starting /\ t # "server"
BY DEF TypeInv, Ended, Past

LEMMA ComesEffect ==
  ASSUME TypeInv, NEW t \in Thread, NEW l \in Seq(Order), Comes(t, l)
  PROVE  Goes(t, l)
<1> HIDE DEF Order
<1> QED BY EndedType DEF TypeInv, Comes, Goes

StepOf(t) == Writes(t) \/ Reads(t) \/ Stores(t) \/ Commands(t) \/ CommandThrows(t) \/ Looks(t) \/ Says(t)

\* It stays dark if it was, and ends the firing if it was to.
Follows(t, l) ==
  /\ todo[t] \in Seq(Dark) => l \in Seq(Dark) /\ (hw'.fire => hw.fire)
  /\ hw'.fire /\ ~hw.fire => l # <<>>
  /\ Quenching(todo[t]) => ~hw'.fire \/ Quenching(l)

LEMMA NowAndNext ==
  ASSUME TypeInv, NEW t \in Thread, todo[t] # <<>>
  PROVE  /\ Step(t) \in Order /\ Rest(t) \in Seq(Order)
         /\ todo[t] \in Seq(Dark) => Step(t) \in Dark /\ Rest(t) \in Seq(Dark)
         /\ Quenching(todo[t]) =>
              Step(t) \in Plain /\ (Step(t) = <<"write", "fire", FALSE>> \/ Quenching(Rest(t)))
<1>1. todo[t] \in Seq(Order)
  BY DEF TypeInv
<1>2. Step(t) \in Order /\ Rest(t) \in Seq(Order)
  <2> HIDE DEF Order
  <2> QED BY <1>1, FirstAndRest DEF Step, Rest
<1>3. todo[t] \in Seq(Dark) => Step(t) \in Dark /\ Rest(t) \in Seq(Dark)
  <2> HIDE DEF Dark
  <2> QED BY FirstAndRest DEF Step, Rest
<1> QED BY <1>2, <1>3, QuenchingGoesOn DEF Step, Rest

\* Plain steps put before the rest change nothing of it.
LEMMA PutBefore ==
  ASSUME NEW p \in Seq(Order), NEW r \in Seq(Order)
  PROVE  /\ p \o r \in Seq(Order)
         /\ p # <<>> => p \o r # <<>>
         /\ p \in Seq(Dark) /\ r \in Seq(Dark) => p \o r \in Seq(Dark)
         /\ p \in Seq(Plain) /\ Quenching(r) => Quenching(p \o r)
BY JoinedOrders, QuenchingGrows

LEMMA WritesFollow ==
  ASSUME TypeInv, NEW t \in Thread, Writes(t)
  PROVE  /\ hw' \in Registers
         /\ \E l \in Seq(Order) : Goes(t, l) /\ Follows(t, l)
<1> DEFINE f  == Step(t)[2]
           on == Step(t)[3]
           l  == Keep(f, on) \o Rest(t)
<1>1. todo[t] # <<>> /\ Step(t)[1] = "write"
  BY DEF Writes, Does, Step
<1>2. f \in Flag /\ on \in BOOLEAN
  BY <1>1, NowAndNext, Carried
<1>3. hw' = [hw EXCEPT ![f] = on] /\ Comes(t, l)
  BY DEF Writes
<1>4. Keep(f, on) \in Seq(Order) /\ Keep(f, on) \in Seq(Dark) /\ Keep(f, on) \in Seq(Plain) /\ Keep(f, on) # <<>>
  BY <1>2, KeepType DEF TypeInv
<1>5. l \in Seq(Order) /\ l # <<>>
  BY <1>1, <1>4, NowAndNext, PutBefore
<1>6. /\ hw' \in Registers
      /\ f = "fire" => (hw'.fire <=> on = TRUE)
      /\ f # "fire" => hw'.fire = hw.fire
  BY <1>2, <1>3 DEF TypeInv, Registers, Flag
<1>7. todo[t] \in Seq(Dark) => l \in Seq(Dark) /\ ~(f = "fire" /\ on = TRUE)
  <2>1. Step(t) \in Dark => ~(f = "fire" /\ on = TRUE)
    BY <1>1 DEF Dark
  <2> QED BY <1>1, <1>4, <2>1, NowAndNext, PutBefore
<1>8. Quenching(todo[t]) => ~hw'.fire \/ Quenching(l)
  <2>1. Step(t) = <<"write", "fire", FALSE>> => f = "fire" /\ on = FALSE
    OBVIOUS
  <2> QED BY <1>1, <1>4, <1>6, <2>1, NowAndNext, PutBefore
<1>9. Goes(t, l)
  BY <1>3, <1>5, ComesEffect
<1> HIDE DEF l
<1> QED BY <1>5, <1>6, <1>7, <1>8, <1>9 DEF Follows

\* The steps that leave the registers that matter alone: what comes next is
\* plain, or the step was none that ends the firing.
LEMMA OthersFollow ==
  ASSUME TypeInv, NEW t \in Thread, Reads(t) \/ Stores(t) \/ Commands(t) \/ Looks(t) \/ Says(t)
  PROVE  /\ hw' \in Registers /\ view' \in Registers /\ status' \in Status
         /\ \E l \in Seq(Order) : Goes(t, l) /\ Follows(t, l)
<1>0. todo[t] # <<>> /\ Step(t) \in Order /\ Step(t)[1] # "write"
  BY NowAndNext DEF Reads, Stores, Commands, Looks, Says, Does, Step
<1>1. Step(t) # <<"write", "fire", FALSE>>
  <2>1. <<"write", "fire", FALSE>>[1] = "write"
    OBVIOUS
  <2> QED BY <1>0, <2>1
<1>2. ASSUME NEW p \in Seq(Order), Comes(t, p \o Rest(t)), hw' \in Registers, hw'.fire <=> hw.fire,
             Step(t) \in Dark => p \in Seq(Dark), Step(t) \in Plain => p \in Seq(Plain)
      PROVE  \E l \in Seq(Order) : Goes(t, l) /\ Follows(t, l)
  <2> DEFINE l == p \o Rest(t)
  <2>1. l \in Seq(Order) /\ Comes(t, l)
    BY <1>0, <1>2, NowAndNext, PutBefore
  <2>2. todo[t] \in Seq(Dark) => l \in Seq(Dark)
    BY <1>0, <1>2, NowAndNext, PutBefore
  <2>3. Quenching(todo[t]) => Quenching(l)
    BY <1>0, <1>1, <1>2, NowAndNext, PutBefore
  <2> HIDE DEF l
  <2>4. Goes(t, l)
    BY <2>1, ComesEffect
  <2> QED BY <1>2, <2>1, <2>2, <2>3, <2>4 DEF Follows
<1>3. ASSUME Comes(t, Rest(t)), hw' = hw
      PROVE  \E l \in Seq(Order) : Goes(t, l) /\ Follows(t, l)
  <2>1. Goes(t, Rest(t))
    BY <1>0, <1>3, NowAndNext, ComesEffect
  <2> QED BY <1>0, <1>1, <1>3, <2>1, NowAndNext DEF Follows
<1>4. CASE Reads(t)
  <2>1. Step(t)[2] \in Flag
    BY <1>0, <1>4, Carried DEF Reads, Does, Step
  <2>2. hw[Step(t)[2]] \in BOOLEAN
    BY <2>1 DEF TypeInv, Registers
  <2> QED BY <1>2, <1>4, <2>1, <2>2, KeepType DEF Reads, TypeInv
<1>5. CASE Stores(t)
  <2>1. Step(t)[2] \in Registers
    BY <1>0, <1>5, Carried DEF Stores, Does, Step
  <2> QED BY <1>3, <1>5, <2>1 DEF Stores, TypeInv
<1>6. CASE Commands(t)
  <2>1. Step(t)[1] = "command" /\ Step(t)[2] \in BOOLEAN /\ "laser" \in Flag
    BY <1>0, <1>6, Carried DEF Commands, Does, Step, Flag
  <2>2. hw' \in Registers /\ (hw'.fire <=> hw.fire)
    BY <1>6, <2>1 DEF Commands, TypeInv, Registers, Flag
  <2> QED BY <1>2, <1>6, <2>1, <2>2, KeepType DEF Commands, TypeInv
<1>7. CASE Looks(t)
  <2>1. Step(t)[1] = "ask" /\ Step(t)[2] \in Question
    BY <1>0, <1>7, Carried DEF Looks, Does, Step
  <2>2. PICK steps \in Answers(Step(t)[2]) : Comes(t, steps \o Rest(t))
    BY <1>7 DEF Looks
  <2>3. /\ Step(t) \in Dark => Step(t)[2] # "fired"
        /\ Step(t) \in Plain => Step(t)[2] \in {"shut", "closed"}
    BY <2>1 DEF Dark, Plain
  <2> QED BY <1>2, <1>7, <2>1, <2>2, <2>3, AnswersType DEF Looks, TypeInv
<1>8. CASE Says(t)
  <2>1. Step(t)[2] \in Status
    BY <1>0, <1>8, Carried DEF Says, Does, Step
  <2>2. status' = Step(t)[2] /\ Comes(t, Rest(t)) /\ UNCHANGED <<view, hw>>
    BY <1>8 DEF Says
  <2> QED BY <1>3, <2>1, <2>2 DEF TypeInv
<1> QED BY <1>4, <1>5, <1>6, <1>7, <1>8

LEMMA ThrowsFollow ==
  ASSUME TypeInv, NEW t \in Thread, CommandThrows(t)
  PROVE  \E l \in Seq(Order) : Goes(t, l) /\ Follows(t, l)
<1> DEFINE l == CASE Step(t)[3] = "goes on"   -> Rest(t)
                  [] Step(t)[3] = "ends"      -> <<>>
                  [] Step(t)[3] = "stands by" -> IF Accepts("standby") THEN Steps("standby") ELSE <<>>
<1>0. todo[t] # <<>> /\ Step(t)[1] = "command"
  BY DEF CommandThrows, Does, Step
<1>1. Step(t)[3] \in {"ends", "goes on", "stands by"} /\ ~Quenching(todo[t])
  <2>1. Step(t) \notin Plain
    BY <1>0 DEF Plain
  <2> QED BY <1>0, <2>1, NowAndNext, Carried
<1>2. l \in Seq(Order) /\ (todo[t] \in Seq(Dark) => l \in Seq(Dark))
  <2>1. <<>> \in Seq(Order) /\ <<>> \in Seq(Dark) /\ "standby" \in Call
    BY DEF Call, ClientCalls
  <2> QED BY <1>0, <1>1, <2>1, NowAndNext, StepsType
<1>3. /\ todo' = [todo EXCEPT ![t] = l]
      /\ past' = [IF l = <<>> THEN Ended(t) ELSE past EXCEPT !.healing = None]
      /\ hw' = hw
  BY DEF CommandThrows
<1> HIDE DEF l
<1>4. Goes(t, l)
  <2>1. \A p \in Past : LET q == [p EXCEPT !.healing = None]
                        IN  /\ q \in Past /\ q.unmet = p.unmet
                            /\ q.started = p.started /\ q.starting = p.starting
    BY DEF Past
  <2> DEFINE p == IF l = <<>> THEN Ended(t) ELSE past
  <2>2. p \in Past
    BY EndedType DEF TypeInv
  <2>3. /\ p.started <=> past.started /\ (l = <<>> => t \notin past.unmet)
        /\ p.unmet = IF l = <<>> THEN past.unmet \ {t} ELSE past.unmet
        /\ p.starting <=> past.starting /\ (l = <<>> => t # "server")
    BY EndedType
  <2>4. past' = [p EXCEPT !.healing = None]
    BY <1>3
  <2> HIDE DEF p
  <2> QED BY <1>3, <2>1, <2>2, <2>3, <2>4 DEF Goes
<1> QED BY <1>1, <1>2, <1>3, <1>4 DEF Follows

-----------------------------------------------------------------------------
(* Every action keeps the invariant. *)

LEMMA StepKeeps ==
  ASSUME RaceInv, NEW t \in Thread, StepOf(t)
  PROVE  RaceInv'
<1> USE DEF RaceInv
<1>0. todo[t] # <<>>
  BY DEF StepOf, Writes, Reads, Stores, Commands, CommandThrows, Looks, Says, Does
<1>1. hw' \in Registers /\ view' \in Registers /\ status' \in Status
  <2>1. CASE Writes(t)
    BY <2>1, WritesFollow DEF Writes, TypeInv
  <2>2. CASE CommandThrows(t)
    BY <2>2 DEF CommandThrows, TypeInv
  <2>3. CASE Reads(t) \/ Stores(t) \/ Commands(t) \/ Looks(t) \/ Says(t)
    BY <2>3, OthersFollow
  <2> QED BY <2>1, <2>2, <2>3 DEF StepOf
<1>2. PICK l \in Seq(Order) : Goes(t, l) /\ Follows(t, l)
  BY WritesFollow, OthersFollow, ThrowsFollow DEF StepOf
<1>3. /\ timer' \in [Slot -> {None, "polls", "due"}]
      /\ \A u \in Slot : timer'[u] # timer[u] => todo[u] = <<>>
  <2>1. CASE timer' = timer
    BY <2>1 DEF TypeInv
  <2>2. CASE timer' # timer
    <3>1. PICK u \in Slot \ Busy : timer' = [timer EXCEPT ![u] = "polls"]
      BY <2>2 DEF StepOf, Writes, Reads, Stores, Commands, CommandThrows, Looks, Says
    <3>2. todo[u] = <<>>
      BY <3>1 DEF Busy, Thread
    <3> QED BY <3>1, <3>2 DEF TypeInv
  <2> QED BY <2>1, <2>2
<1>4. /\ todo'[t] = l /\ \A u \in Thread : u # t => todo'[u] = todo[u]
      /\ todo' \in [Thread -> Seq(Order)]
  <2> HIDE DEF Order
  <2> QED BY <1>2 DEF Goes, TypeInv
<1>5. TypeInv'
  BY <1>1, <1>2, <1>3, <1>4 DEF TypeInv, Goes
<1>6. TimersWait'
  <2> SUFFICES ASSUME NEW u \in Slot, timer'[u] # None PROVE todo'[u] = <<>>
    BY DEF TimersWait
  <2>1. todo[u] = <<>>
    BY <1>3 DEF TimersWait
  <2> QED BY <1>0, <1>4, <2>1 DEF Thread
<1>7. StartsKnown'
  BY <1>2 DEF Goes, StartsKnown
<1>8. OnlyStartsFire'
  <2> SUFFICES ASSUME NEW u \in Thread PROVE todo'[u] \in Seq(Dark) \/ (u = "server" /\ past'.starting)
    BY DEF OnlyStartsFire
  <2>1. <<>> \in Seq(Dark)
    OBVIOUS
  <2> QED BY <1>2, <1>4, <2>1 DEF OnlyStartsFire, Goes, Follows
<1>9. past.unmet # {} => \A u \in Thread : todo[u] \in Seq(Dark)
  BY DEF StartsKnown, OnlyStartsFire
<1>10. StopsQuench'
  <2> SUFFICES ASSUME NEW u \in past'.unmet PROVE todo'[u] # <<>> /\ (hw'.fire => Quenching(todo'[u]))
    BY DEF StopsQuench
  <2>1. u \in past.unmet /\ (u = t => l # <<>>) /\ u \in Thread
    BY <1>2 DEF Goes, TypeInv, Past
  <2>2. hw'.fire => hw.fire
    BY <1>2, <1>9, <2>1 DEF Follows
  <2> QED BY <1>2, <1>4, <2>1, <2>2 DEF StopsQuench, Follows
<1>11. StopIsFinal'
  <2> SUFFICES ASSUME hw'.fire PROVE past'.started
    BY DEF StopIsFinal
  <2>1. CASE ~hw.fire
    <3>1. l # <<>> /\ todo[t] \notin Seq(Dark)
      BY <1>2, <2>1 DEF Follows
    <3> QED BY <1>2, <3>1 DEF OnlyStartsFire, StartsKnown, Goes
  <2>2. CASE hw.fire
    <3>1. ~(l = <<>> /\ t \in past.unmet)
      <4>1. l = <<>> => ~Quenching(l)
        BY QuenchingGoesOn
      <4> QED BY <1>2, <4>1 DEF StopsQuench, Follows
    <3> QED BY <1>2, <2>2, <3>1 DEF StopIsFinal, Goes
  <2> QED BY <2>1, <2>2
<1> QED BY <1>5, <1>6, <1>7, <1>8, <1>10, <1>11

\* A handler begins: a start only in the server's thread.
LEMMA BeginKeeps ==
  ASSUME RaceInv, NEW t \in Thread, NEW c \in Call, c = "start" => t = "server",
         todo[t] = <<>>, Begin(t, c), timer' \in [Slot -> {None, "polls", "due"}],
         \A u \in Slot : timer'[u] # None => u # t /\ timer[u] # None
  PROVE  RaceInv'
<1> USE DEF RaceInv
<1>1. /\ todo' = [todo EXCEPT ![t] = Steps(c)] /\ past' = Begun(t, c) /\ UNCHANGED <<status, view, hw>>
  BY DEF Begin
<1>2. /\ past' \in Past
      /\ past'.started <=> past.started \/ c = "start"
      /\ past'.starting <=> past.starting \/ c = "start"
      /\ past'.unmet = CASE c = "start" -> {}
                         [] c = "stop" /\ ~past.starting -> past.unmet \cup {t}
                         [] OTHER -> past.unmet
  <2> DEFINE unmet == CASE c = "start" -> {}
                        [] c = "stop" /\ ~past.starting -> past.unmet \cup {t}
                        [] OTHER -> past.unmet
             met     == IF Calm THEN past.met ELSE past.met + 1
             healing == IF Calm /\ c = "stop" THEN t ELSE None
             p       == [met |-> met, healing |-> healing, started |-> past.started \/ c = "start",
                         unmet |-> unmet, starting |-> past.starting \/ c = "start"]
  <2>1. past' = p
    BY <1>1 DEF Begun
  <2>2. unmet \in SUBSET Thread
    BY DEF TypeInv, Past
  <2>3. met \in Nat /\ healing \in Thread \cup {None}
    BY DEF TypeInv, Past
  <2> HIDE DEF unmet, met, healing
  <2>4. p \in Past
    BY <2>2, <2>3 DEF Past
  <2>5. /\ p.started <=> past.started \/ c = "start"
        /\ p.starting <=> past.starting \/ c = "start"
        /\ p.unmet = unmet
    OBVIOUS
  <2> QED BY <2>1, <2>4, <2>5 DEF unmet
<1>3. /\ Steps(c) \in Seq(Order) /\ Steps(c) # <<>> /\ (c # "start" => Steps(c) \in Seq(Dark))
      /\ c = "stop" => Quenching(Steps(c))
  BY StepsType, StopType DEF Steps
<1>4. /\ todo'[t] = Steps(c) /\ \A u \in Thread : u # t => todo'[u] = todo[u]
      /\ todo' \in [Thread -> Seq(Order)]
  <2> HIDE DEF Order
  <2> QED BY <1>1, <1>3 DEF TypeInv
<1>5. TypeInv'
  BY <1>1, <1>2, <1>4 DEF TypeInv
<1>6. TimersWait'
  BY <1>4 DEF TimersWait, Thread
<1>7. StartsKnown'
  BY <1>2 DEF StartsKnown
<1>8. OnlyStartsFire'
  BY <1>2, <1>3, <1>4 DEF OnlyStartsFire
<1>9. StopsQuench'
  <2> SUFFICES ASSUME NEW u \in past'.unmet PROVE todo'[u] # <<>> /\ (hw'.fire => Quenching(todo'[u]))
    BY DEF StopsQuench
  <2>1. u \in Thread
    BY <1>2 DEF Past
  <2>2. CASE u = t
    <3>1. c = "stop"
      BY <1>2, <2>2 DEF StopsQuench
    <3> QED BY <1>3, <1>4, <2>2, <3>1
  <2>3. CASE u # t
    <3>1. u \in past.unmet
      BY <1>2, <2>3
    <3> QED BY <1>1, <1>4, <2>1, <2>3, <3>1 DEF StopsQuench
  <2> QED BY <2>2, <2>3
<1>10. StopIsFinal'
  BY <1>1, <1>2 DEF StopIsFinal
<1> QED BY <1>5, <1>6, <1>7, <1>8, <1>9, <1>10

LEMMA OthersKeep ==
  ASSUME RaceInv, UNCHANGED <<status, view, hw, todo, past>>,
         timer' \in [Slot -> {None, "polls", "due"}],
         \A u \in Slot : timer'[u] # None => timer[u] # None
  PROVE  RaceInv'
BY DEF RaceInv, TypeInv, TimersWait, StartsKnown, OnlyStartsFire, StopsQuench, StopIsFinal

LEMMA NextKeeps == RaceInv /\ [Next]_vars => RaceInv'
<1> SUFFICES ASSUME RaceInv, [Next]_vars PROVE RaceInv'
  OBVIOUS
<1> USE DEF RaceInv
<1>1. ASSUME NEW t \in Thread, StepOf(t) PROVE RaceInv'
  BY <1>1, StepKeeps
<1>2. ASSUME NEW t \in Thread, CallBegins(t) PROVE RaceInv'
  <2>1. PICK c \in Calls(t) : Begin(t, c)
    BY <1>2 DEF CallBegins
  <2>2. t \in {"server", "task", "main"} /\ t \notin Slot /\ todo[t] = <<>> /\ timer' = timer
    BY <1>2 DEF CallBegins, Thread
  <2>3. c \in Call /\ (c = "start" => t = "server")
    BY <2>1, <2>2, ServerCallsAssumption DEF Calls, Call, ClientCalls
  <2> QED BY <2>1, <2>2, <2>3, BeginKeeps DEF TypeInv
<1>3. ASSUME NEW t \in Slot, TimerGivesUp(t) \/ TimerLastPoll(t) PROVE RaceInv'
  BY <1>3, OthersKeep DEF TimerGivesUp, TimerLastPoll, TypeInv, None
<1>4. ASSUME NEW t \in Slot, TimerActs(t) PROVE RaceInv'
  <2>1. /\ timer[t] = "due" /\ timer' = [timer EXCEPT ![t] = None] /\ t \in Thread
        /\ timer' \in [Slot -> {None, "polls", "due"}]
    BY <1>4 DEF TimerActs, TypeInv, Thread
  <2>2. todo[t] = <<>>
    BY <2>1 DEF TimersWait, None
  <2>3. \A u \in Slot : timer'[u] # None => u # t /\ timer[u] # None
    BY <2>1 DEF TypeInv
  <2>4. TimerCalls(t) \in Call /\ TimerCalls(t) # "start"
    BY DEF TimerCalls, Call, ClientCalls
  <2> QED BY <1>4, <2>1, <2>2, <2>3, <2>4, BeginKeeps, OthersKeep DEF TimerActs
<1>5. ASSUME UNCHANGED vars PROVE RaceInv'
  BY <1>5, OthersKeep DEF vars, TypeInv
<1> QED BY <1>1, <1>2, <1>3, <1>4, <1>5 DEF Next, StepOf

LEMMA InitHolds == Init => RaceInv
<1> SUFFICES ASSUME Init PROVE RaceInv
  OBVIOUS
<1>1. TypeInv
  <2>1. <<>> \in Seq(Order)
    OBVIOUS
  <2> HIDE DEF Order
  <2> QED BY <2>1 DEF Init, TypeInv, Past, Registers, Status, None
<1>2. TimersWait
  BY DEF Init, TimersWait, Thread
<1>3. StartsKnown /\ StopsQuench
  BY DEF Init, StartsKnown, StopsQuench
<1>4. OnlyStartsFire
  <2>1. <<>> \in Seq(Dark)
    OBVIOUS
  <2> HIDE DEF Dark
  <2> QED BY <2>1 DEF Init, OnlyStartsFire
<1>5. StopIsFinal
  BY DEF Init, StopIsFinal, Flag
<1> QED BY <1>1, <1>2, <1>3, <1>4, <1>5 DEF RaceInv

\* A stop that no start met is final, for any timer threads and any number of
\* handlers that run at once, whatever their steps do in between and whatever
\* the serial line refuses: the laser fires again only after a start that began
\* later.
THEOREM StopIsFinalAlways == Spec => []StopIsFinal
<1>1. RaceInv => StopIsFinal
  BY DEF RaceInv
<1> QED BY <1>1, InitHolds, NextKeeps, PTL DEF Spec

-----------------------------------------------------------------------------
(* What a handler that runs alone has left to do, list by list. *)

Then(x, r) == <<x>> \o r

Wr(f, on) == <<"write", f, on>>
Rd(f)     == <<"read", f>>
Cm(b, o)  == <<"command", b, o>>
Sy(s)     == <<"say", s>>
Ak(q)     == <<"ask", q>>

Saying(s) == <<Sy(s)>>

Pause1 == <<Ak("paused")>>
Pause2 == Then(Cm(FALSE, "ends"), Pause1)
Pause3 == Then(Wr("shutter", TRUE), Pause2)

Standby1 == <<Ak("standing by")>>
Standby2 == Then(Wr("shutter", TRUE), Standby1)
Standby3 == Then(Cm(TRUE, "goes on"), Standby2)
Standby4 == Then(Wr("qswitch", FALSE), Standby3)

Resume2 == Then(Wr("shutter", FALSE), Saying("lasing"))
Resume3 == Then(Cm(FALSE, "stands by"), Resume2)

Close1  == <<Ak("closed")>>
Close2  == Then(Wr("shutter", TRUE), Close1)
Open(s) == Then(Wr("shutter", FALSE), Saying(s))

Stop2 == Then(Ak("reopened"), Saying("ready"))
Stop3 == Then(Cm(TRUE, "goes on"), Stop2)
Stop4 == Then(Wr("fire", FALSE), Stop3)
Stop5 == Then(Wr("qswitch", FALSE), Stop4)
Stop6 == Then(Ak("shut"), Stop5)

StopSays(s)   == Then(Sy(s), Stop5)
StopClosed    == Then(Ak("closed"), Stop5)
StopCloses    == Then(Wr("shutter", TRUE), StopClosed)
StopOpened(s) == Then(Sy(s), Saying("ready"))
StopOpens(s)  == Then(Wr("shutter", FALSE), StopOpened(s))

Fire1  == Then(Wr("fire", TRUE), Saying("warmup"))
Fire2  == Then(Wr("shutter", TRUE), Fire1)
Start1 == <<Ak("fired")>>
Start2 == Then(Cm(TRUE, "ends"), Start1)
Start3 == Then(Wr("qswitch", FALSE), Start2)

CloseLaser0 == <<Wr("shutter", FALSE)>>
CloseLaser1 == <<Ak("opened")>>
CloseLaser2 == Then(Sy("standby"), CloseLaser1)
CloseLaser3 == Then(Cm(TRUE, "goes on"), CloseLaser2)
CloseLaser4 == Then(Wr("qswitch", FALSE), CloseLaser3)

OpenLaser1(s) == Then(Wr("qswitch", TRUE), Saying(s))
OpenLaser2(s) == Then(Cm(FALSE, "goes on"), OpenLaser1(s))

Update1 == <<Rd("qswitch")>>
Update2 == Then(Rd("fire"), Update1)
Update3 == Then(Rd("shutter"), Update2)
Update4 == Then(Ak("status"), Update3)
UpdateSays(s) == Then(Sy(s), Update3)

\* The list begins with x and goes on with r.
Is(l, x, r) == l \in Seq(Order) /\ l # <<>> /\ l[1] = x /\ Tail(l) = r

LEMMA Words ==
  /\ \A f \in Flag, on \in BOOLEAN : Wr(f, on) \in Order
  /\ \A f \in Flag : Rd(f) \in Order
  /\ \A b \in BOOLEAN, o \in {"ends", "goes on", "stands by"} : Cm(b, o) \in Order
  /\ \A s \in Status : Sy(s) \in Order
  /\ \A q \in Question : Ak(q) \in Order
  /\ \A v \in Registers : <<"keep", v>> \in Order
BY DEF Order, Wr, Rd, Cm, Sy, Ak

LEMMA ThenIs ==
  ASSUME NEW x \in Order, NEW r \in Seq(Order)
  PROVE  Is(Then(x, r), x, r)
<1> HIDE DEF Order
<1>1. <<x>> \in Seq(Order) /\ <<x>> # <<>> /\ <<x>>[1] = x /\ Tail(<<x>>) = <<>>
  OBVIOUS
<1>2. <<x>> \o r \in Seq(Order) /\ <<x>> \o r # <<>>
  BY <1>1, JoinedOrders
<1>3. (<<x>> \o r)[1] = x /\ Tail(<<x>> \o r) = <<>> \o r
  BY <1>1, FirstOfJoined
<1>4. <<>> \o r = r
  BY ConcatEmptySeq
<1> QED BY <1>2, <1>3, <1>4 DEF Then, Is

LEMMA OneIs ==
  ASSUME NEW x \in Order
  PROVE  Is(<<x>>, x, <<>>)
<1> HIDE DEF Order
<1> QED BY DEF Is

LEMMA Chains ==
  /\ \A a, b \in Order : <<a>> \o <<b>> = Then(a, <<b>>)
  /\ \A a, b, c \in Order : (<<a>> \o <<b>>) \o <<c>> = Then(a, Then(b, <<c>>))
<1> HIDE DEF Order
<1>1. \A x \in Order : <<x>> \in Seq(Order)
  OBVIOUS
<1>2. ASSUME NEW a \in Order, NEW b \in Order, NEW c \in Order
      PROVE  (<<a>> \o <<b>>) \o <<c>> = Then(a, Then(b, <<c>>))
  BY <1>1, Reassociated, Zenon DEF Then
<1>3. \A a, b \in Order : <<a>> \o <<b>> = Then(a, <<b>>)
  BY Zenon DEF Then
<1> QED BY <1>2, <1>3, Zenon

\* The last step joins what follows it.
LEMMA LastJoins ==
  ASSUME NEW l \in Seq(Order), NEW x \in Order, NEW r \in Seq(Order)
  PROVE  (l \o <<x>>) \o r = l \o Then(x, r)
<1> HIDE DEF Order
<1>1. <<x>> \in Seq(Order)
  OBVIOUS
<1> QED BY <1>1, Reassociated, Zenon DEF Then

LEMMA Pairs ==
  ASSUME NEW a \in Order, NEW b \in Order
  PROVE  <<a>> \o <<b>> \in Seq(Order)
<1> HIDE DEF Order
<1>1. <<a>> \in Seq(Order) /\ <<b>> \in Seq(Order)
  OBVIOUS
<1> QED BY <1>1, JoinedOrders

LEMMA ThenGrows ==
  ASSUME NEW x \in Order, NEW r \in Seq(Order), NEW s \in Seq(Order)
  PROVE  Then(x, r) \o s = Then(x, r \o s)
<1> HIDE DEF Order
<1>1. <<x>> \in Seq(Order)
  OBVIOUS
<1> QED BY <1>1, Reassociated, Zenon DEF Then

\* The sets that handlers take their steps from.
LEMMA Names ==
  /\ "shutter" \in Flag /\ "laser" \in Flag /\ "qswitch" \in Flag /\ "fire" \in Flag
  /\ {"paused", "standing by", "closed", "shut", "reopened", "opened", "fired", "status"} = Question
  /\ {"ready", "warmup", "standby", "pause", "lasing"} = Status
BY DEF Flag, Question, Status

LEMMA SayingIs ==
  ASSUME NEW s \in Status
  PROVE  Is(Saying(s), Sy(s), <<>>)
<1> HIDE DEF Order, Status
<1> QED BY Words, OneIs DEF Saying

LEMMA PauseIs ==
  /\ Is(Pause3, Wr("shutter", TRUE), Pause2)
  /\ Is(Pause2, Cm(FALSE, "ends"), Pause1)
  /\ Is(Pause1, Ak("paused"), <<>>)
<1> HIDE DEF Order
<1>1. Wr("shutter", TRUE) \in Order /\ Cm(FALSE, "ends") \in Order /\ Ak("paused") \in Order
  BY Words, Names
<1>2. Is(Pause1, Ak("paused"), <<>>)
  BY <1>1, OneIs DEF Pause1
<1>3. Is(Pause2, Cm(FALSE, "ends"), Pause1)
  BY <1>1, <1>2, ThenIs DEF Pause2, Is
<1>4. Is(Pause3, Wr("shutter", TRUE), Pause2)
  BY <1>1, <1>3, ThenIs DEF Pause3, Is
<1> QED BY <1>2, <1>3, <1>4

LEMMA StandbyIs ==
  /\ Is(Standby4, Wr("qswitch", FALSE), Standby3)
  /\ Is(Standby3, Cm(TRUE, "goes on"), Standby2)
  /\ Is(Standby2, Wr("shutter", TRUE), Standby1)
  /\ Is(Standby1, Ak("standing by"), <<>>)
<1> HIDE DEF Order
<1>1. /\ Wr("shutter", TRUE) \in Order /\ Cm(TRUE, "goes on") \in Order
      /\ Wr("qswitch", FALSE) \in Order /\ Ak("standing by") \in Order
  BY Words, Names
<1>2. Is(Standby1, Ak("standing by"), <<>>)
  BY <1>1, OneIs DEF Standby1
<1>3. Is(Standby2, Wr("shutter", TRUE), Standby1)
  BY <1>1, <1>2, ThenIs DEF Standby2, Is
<1>4. Is(Standby3, Cm(TRUE, "goes on"), Standby2)
  BY <1>1, <1>3, ThenIs DEF Standby3, Is
<1>5. Is(Standby4, Wr("qswitch", FALSE), Standby3)
  BY <1>1, <1>4, ThenIs DEF Standby4, Is
<1> QED BY <1>2, <1>3, <1>4, <1>5

LEMMA ResumeIs ==
  /\ Is(Resume3, Cm(FALSE, "stands by"), Resume2)
  /\ Is(Resume2, Wr("shutter", FALSE), Saying("lasing"))
<1> HIDE DEF Order
<1>1. Wr("shutter", FALSE) \in Order /\ Cm(FALSE, "stands by") \in Order
  BY Words, Names
<1>2. Is(Resume2, Wr("shutter", FALSE), Saying("lasing"))
  BY <1>1, SayingIs, ThenIs, Names DEF Resume2, Is
<1>3. Is(Resume3, Cm(FALSE, "stands by"), Resume2)
  BY <1>1, <1>2, ThenIs DEF Resume3, Is
<1> QED BY <1>2, <1>3

LEMMA ShutterIs ==
  /\ Is(Close2, Wr("shutter", TRUE), Close1)
  /\ Is(Close1, Ak("closed"), <<>>)
  /\ \A s \in Status : Is(Open(s), Wr("shutter", FALSE), Saying(s))
<1> HIDE DEF Order
<1>1. Wr("shutter", FALSE) \in Order /\ Wr("shutter", TRUE) \in Order /\ Ak("closed") \in Order
  BY Words, Names
<1>2. Is(Close1, Ak("closed"), <<>>)
  BY <1>1, OneIs DEF Close1
<1>3. Is(Close2, Wr("shutter", TRUE), Close1)
  BY <1>1, <1>2, ThenIs DEF Close2, Is
<1>4. ASSUME NEW s \in Status PROVE Is(Open(s), Wr("shutter", FALSE), Saying(s))
  <2> HIDE DEF Status
  <2> QED BY <1>1, SayingIs, ThenIs DEF Open, Is
<1> QED BY <1>2, <1>3, <1>4

LEMMA StopIs ==
  /\ Is(Stop6, Ak("shut"), Stop5)
  /\ Is(Stop5, Wr("qswitch", FALSE), Stop4)
  /\ Is(Stop4, Wr("fire", FALSE), Stop3)
  /\ Is(Stop3, Cm(TRUE, "goes on"), Stop2)
  /\ Is(Stop2, Ak("reopened"), Saying("ready"))
<1> HIDE DEF Order
<1>1. /\ Ak("shut") \in Order /\ Wr("qswitch", FALSE) \in Order /\ Wr("fire", FALSE) \in Order
      /\ Cm(TRUE, "goes on") \in Order /\ Ak("reopened") \in Order
  BY Words, Names
<1>2. Is(Stop2, Ak("reopened"), Saying("ready"))
  BY <1>1, SayingIs, ThenIs, Names DEF Stop2, Is
<1>3. Is(Stop3, Cm(TRUE, "goes on"), Stop2)
  BY <1>1, <1>2, ThenIs DEF Stop3, Is
<1>4. Is(Stop4, Wr("fire", FALSE), Stop3)
  BY <1>1, <1>3, ThenIs DEF Stop4, Is
<1>5. Is(Stop5, Wr("qswitch", FALSE), Stop4)
  BY <1>1, <1>4, ThenIs DEF Stop5, Is
<1>6. Is(Stop6, Ak("shut"), Stop5)
  BY <1>1, <1>5, ThenIs DEF Stop6, Is
<1> QED BY <1>2, <1>3, <1>4, <1>5, <1>6

LEMMA StopShutterIs ==
  /\ Is(StopCloses, Wr("shutter", TRUE), StopClosed)
  /\ Is(StopClosed, Ak("closed"), Stop5)
  /\ \A s \in Status : /\ Is(StopSays(s), Sy(s), Stop5)
                       /\ Is(StopOpens(s), Wr("shutter", FALSE), StopOpened(s))
                       /\ Is(StopOpened(s), Sy(s), Saying("ready"))
<1> HIDE DEF Order
<1>1. /\ Wr("shutter", FALSE) \in Order /\ Wr("shutter", TRUE) \in Order /\ Ak("closed") \in Order
      /\ Stop5 \in Seq(Order) /\ Saying("ready") \in Seq(Order)
  BY Words, Names, StopIs, SayingIs DEF Is
<1>2. Is(StopClosed, Ak("closed"), Stop5)
  BY <1>1, ThenIs DEF StopClosed
<1>3. Is(StopCloses, Wr("shutter", TRUE), StopClosed)
  BY <1>1, <1>2, ThenIs DEF StopCloses, Is
<1>4. ASSUME NEW s \in Status
      PROVE  /\ Is(StopSays(s), Sy(s), Stop5)
             /\ Is(StopOpens(s), Wr("shutter", FALSE), StopOpened(s))
             /\ Is(StopOpened(s), Sy(s), Saying("ready"))
  <2> HIDE DEF Status
  <2>1. Sy(s) \in Order
    BY Words
  <2>2. Is(StopSays(s), Sy(s), Stop5) /\ Is(StopOpened(s), Sy(s), Saying("ready"))
    BY <1>1, <2>1, ThenIs DEF StopSays, StopOpened
  <2>3. Is(StopOpens(s), Wr("shutter", FALSE), StopOpened(s))
    BY <1>1, <2>2, ThenIs DEF StopOpens, Is
  <2> QED BY <2>2, <2>3
<1> QED BY <1>2, <1>3, <1>4

LEMMA StartIs ==
  /\ Is(Start3, Wr("qswitch", FALSE), Start2)
  /\ Is(Start2, Cm(TRUE, "ends"), Start1)
  /\ Is(Start1, Ak("fired"), <<>>)
  /\ Is(Fire2, Wr("shutter", TRUE), Fire1)
  /\ Is(Fire1, Wr("fire", TRUE), Saying("warmup"))
<1> HIDE DEF Order
<1>1. /\ Wr("qswitch", FALSE) \in Order /\ Cm(TRUE, "ends") \in Order /\ Ak("fired") \in Order
      /\ Wr("shutter", TRUE) \in Order /\ Wr("fire", TRUE) \in Order
  BY Words, Names
<1>2. Is(Start1, Ak("fired"), <<>>)
  BY <1>1, OneIs DEF Start1
<1>3. Is(Start2, Cm(TRUE, "ends"), Start1)
  BY <1>1, <1>2, ThenIs DEF Start2, Is
<1>4. Is(Start3, Wr("qswitch", FALSE), Start2)
  BY <1>1, <1>3, ThenIs DEF Start3, Is
<1>5. Is(Fire1, Wr("fire", TRUE), Saying("warmup"))
  BY <1>1, SayingIs, ThenIs, Names DEF Fire1, Is
<1>6. Is(Fire2, Wr("shutter", TRUE), Fire1)
  BY <1>1, <1>5, ThenIs DEF Fire2, Is
<1> QED BY <1>2, <1>3, <1>4, <1>5, <1>6

LEMMA LaserIs ==
  /\ Is(CloseLaser4, Wr("qswitch", FALSE), CloseLaser3)
  /\ Is(CloseLaser3, Cm(TRUE, "goes on"), CloseLaser2)
  /\ Is(CloseLaser2, Sy("standby"), CloseLaser1)
  /\ Is(CloseLaser1, Ak("opened"), <<>>)
  /\ Is(CloseLaser0, Wr("shutter", FALSE), <<>>)
  /\ \A s \in Status : /\ Is(OpenLaser2(s), Cm(FALSE, "goes on"), OpenLaser1(s))
                       /\ Is(OpenLaser1(s), Wr("qswitch", TRUE), Saying(s))
<1> HIDE DEF Order
<1>1. /\ Wr("qswitch", FALSE) \in Order /\ Cm(TRUE, "goes on") \in Order /\ Sy("standby") \in Order
      /\ Ak("opened") \in Order /\ Wr("shutter", FALSE) \in Order
      /\ Cm(FALSE, "goes on") \in Order /\ Wr("qswitch", TRUE) \in Order
  BY Words, Names
<1>2. Is(CloseLaser1, Ak("opened"), <<>>) /\ Is(CloseLaser0, Wr("shutter", FALSE), <<>>)
  BY <1>1, OneIs DEF CloseLaser1, CloseLaser0
<1>3. Is(CloseLaser2, Sy("standby"), CloseLaser1)
  BY <1>1, <1>2, ThenIs DEF CloseLaser2, Is
<1>4. Is(CloseLaser3, Cm(TRUE, "goes on"), CloseLaser2)
  BY <1>1, <1>3, ThenIs DEF CloseLaser3, Is
<1>5. Is(CloseLaser4, Wr("qswitch", FALSE), CloseLaser3)
  BY <1>1, <1>4, ThenIs DEF CloseLaser4, Is
<1>6. ASSUME NEW s \in Status
      PROVE  /\ Is(OpenLaser2(s), Cm(FALSE, "goes on"), OpenLaser1(s))
             /\ Is(OpenLaser1(s), Wr("qswitch", TRUE), Saying(s))
  <2> HIDE DEF Status
  <2>1. Is(OpenLaser1(s), Wr("qswitch", TRUE), Saying(s))
    BY <1>1, SayingIs, ThenIs DEF OpenLaser1, Is
  <2> QED BY <1>1, <2>1, ThenIs DEF OpenLaser2, Is
<1> QED BY <1>2, <1>3, <1>4, <1>5, <1>6

LEMMA UpdateIs ==
  /\ Is(Update4, Ak("status"), Update3)
  /\ Is(Update3, Rd("shutter"), Update2)
  /\ Is(Update2, Rd("fire"), Update1)
  /\ Is(Update1, Rd("qswitch"), <<>>)
  /\ \A s \in Status : Is(UpdateSays(s), Sy(s), Update3)
<1> HIDE DEF Order
<1>1. Ak("status") \in Order /\ Rd("shutter") \in Order /\ Rd("fire") \in Order /\ Rd("qswitch") \in Order
  BY Words, Names
<1>2. Is(Update1, Rd("qswitch"), <<>>)
  BY <1>1, OneIs DEF Update1
<1>3. Is(Update2, Rd("fire"), Update1)
  BY <1>1, <1>2, ThenIs DEF Update2, Is
<1>4. Is(Update3, Rd("shutter"), Update2)
  BY <1>1, <1>3, ThenIs DEF Update3, Is
<1>5. Is(Update4, Ak("status"), Update3)
  BY <1>1, <1>4, ThenIs DEF Update4, Is
<1>6. ASSUME NEW s \in Status PROVE Is(UpdateSays(s), Sy(s), Update3)
  <2> HIDE DEF Status
  <2> QED BY <1>4, Words, ThenIs DEF UpdateSays, Is
<1> QED BY <1>2, <1>3, <1>4, <1>5, <1>6

LEMMA StepsAre ==
  /\ Steps("pause") = Pause3 /\ Steps("standby") = Standby4 /\ Steps("resume") = Resume3
  /\ Steps("stop") = Stop6 /\ Steps("start") = Start3 /\ Steps("warm") = Saying("standby")
  /\ Steps("close") = Close2 /\ Steps("open") = Open(Opened)
  /\ Steps("closeLaser") = CloseLaser4 /\ Steps("openLaser") = OpenLaser2(LaserOpened)
  /\ Steps("update") = Update4
<1> HIDE DEF Order, Status, Flag
<1>0. Opened \in Status /\ LaserOpened \in Status
  BY Names DEF Opened, LaserOpened
<1>1. /\ \A f \in {"shutter", "qswitch", "fire"} : \A on \in BOOLEAN : Wr(f, on) \in Order
      /\ \A f \in {"shutter", "qswitch", "fire"} : Rd(f) \in Order
      /\ \A b \in BOOLEAN, o \in {"ends", "goes on", "stands by"} : Cm(b, o) \in Order
      /\ \A s \in Status : Sy(s) \in Order
      /\ \A q \in Question : Ak(q) \in Order
  BY Words, Names
<1>2. Steps("pause") = Pause3
  <2>1. Steps("pause") = (<<Wr("shutter", TRUE)>> \o <<Cm(FALSE, "ends")>>) \o <<Ak("paused")>>
    BY DEF Steps, PauseSteps, Put, Command, Ask, Wr, Cm, Ak
  <2>2. Wr("shutter", TRUE) \in Order /\ Cm(FALSE, "ends") \in Order /\ Ak("paused") \in Order
    BY <1>1, Names
  <2> QED BY <2>1, <2>2, Chains, Zenon DEF Pause3, Pause2, Pause1
<1>3. Steps("standby") = Standby4
  <2>1. Steps("standby") = ((<<Wr("qswitch", FALSE)>> \o <<Cm(TRUE, "goes on")>>)
                              \o <<Wr("shutter", TRUE)>>) \o <<Ak("standing by")>>
    BY DEF Steps, Put, Command, Ask, Wr, Cm, Ak
  <2>2. /\ Wr("qswitch", FALSE) \in Order /\ Cm(TRUE, "goes on") \in Order
        /\ Wr("shutter", TRUE) \in Order /\ Ak("standing by") \in Order
    BY <1>1, Names
  <2>3. <<Wr("qswitch", FALSE)>> \o <<Cm(TRUE, "goes on")>> \in Seq(Order)
    BY <2>2, Pairs
  <2>4. Standby1 \in Seq(Order) /\ Standby2 \in Seq(Order) /\ Standby1 = <<Ak("standing by")>>
    BY StandbyIs DEF Is, Standby1
  <2>5. Steps("standby") = (<<Wr("qswitch", FALSE)>> \o <<Cm(TRUE, "goes on")>>) \o Standby2
    BY <2>1, <2>2, <2>3, <2>4, LastJoins, Zenon DEF Standby2
  <2>6. <<Wr("qswitch", FALSE)>> \in Seq(Order)
    BY <2>2, OneIs, Zenon DEF Is
  <2>7. (<<Wr("qswitch", FALSE)>> \o <<Cm(TRUE, "goes on")>>) \o Standby2 = <<Wr("qswitch", FALSE)>> \o Standby3
    BY <2>2, <2>4, <2>6, LastJoins, Zenon DEF Standby3
  <2> QED BY <2>5, <2>7, Zenon DEF Standby4, Then
<1>4. Steps("resume") = Resume3
  <2>1. Steps("resume") = (<<Cm(FALSE, "stands by")>> \o <<Wr("shutter", FALSE)>>) \o <<Sy("lasing")>>
    BY DEF Steps, Put, Command, Say, Wr, Cm, Sy
  <2>2. Cm(FALSE, "stands by") \in Order /\ Wr("shutter", FALSE) \in Order /\ Sy("lasing") \in Order
    BY <1>1, Names
  <2> QED BY <2>1, <2>2, Chains, Zenon DEF Resume3, Resume2, Saying
<1>5. Steps("start") = Start3
  <2>1. Steps("start") = (<<Wr("qswitch", FALSE)>> \o <<Cm(TRUE, "ends")>>) \o <<Ak("fired")>>
    BY DEF Steps, Put, Command, Ask, Wr, Cm, Ak
  <2>2. Wr("qswitch", FALSE) \in Order /\ Cm(TRUE, "ends") \in Order /\ Ak("fired") \in Order
    BY <1>1, Names
  <2> QED BY <2>1, <2>2, Chains, Zenon DEF Start3, Start2, Start1
<1>6. Steps("warm") = Saying("standby")
  BY DEF Steps, Say, Saying, Sy
<1>7. Steps("close") = Close2
  <2>1. Steps("close") = <<Wr("shutter", TRUE)>> \o <<Ak("closed")>>
    BY DEF Steps, Put, Ask, Wr, Ak
  <2> QED BY <2>1, Zenon DEF Close2, Close1, Then
<1>8. Steps("open") = Open(Opened)
  <2>1. Steps("open") = <<Wr("shutter", FALSE)>> \o <<Sy(Opened)>>
    BY DEF Steps, Put, Say, Wr, Sy
  <2> QED BY <2>1, Zenon DEF Open, Saying, Then
<1>9. Steps("closeLaser") = CloseLaser4
  <2>1. Steps("closeLaser") = ((<<Wr("qswitch", FALSE)>> \o <<Cm(TRUE, "goes on")>>)
                                 \o <<Sy("standby")>>) \o <<Ak("opened")>>
    BY DEF Steps, Put, Command, Say, Ask, Wr, Cm, Sy, Ak
  <2>2. /\ Wr("qswitch", FALSE) \in Order /\ Cm(TRUE, "goes on") \in Order
        /\ Sy("standby") \in Order /\ Ak("opened") \in Order
    BY <1>1, Names
  <2>3. <<Wr("qswitch", FALSE)>> \o <<Cm(TRUE, "goes on")>> \in Seq(Order)
    BY <2>2, Pairs
  <2>4. CloseLaser1 \in Seq(Order) /\ CloseLaser2 \in Seq(Order) /\ CloseLaser1 = <<Ak("opened")>>
    BY LaserIs DEF Is, CloseLaser1
  <2>5. Steps("closeLaser") = (<<Wr("qswitch", FALSE)>> \o <<Cm(TRUE, "goes on")>>) \o CloseLaser2
    BY <2>1, <2>2, <2>3, <2>4, LastJoins, Zenon DEF CloseLaser2
  <2>6. <<Wr("qswitch", FALSE)>> \in Seq(Order)
    BY <2>2, OneIs, Zenon DEF Is
  <2>7. (<<Wr("qswitch", FALSE)>> \o <<Cm(TRUE, "goes on")>>) \o CloseLaser2 = <<Wr("qswitch", FALSE)>> \o CloseLaser3
    BY <2>2, <2>4, <2>6, LastJoins, Zenon DEF CloseLaser3
  <2> QED BY <2>5, <2>7, Zenon DEF CloseLaser4, Then
<1>10. Steps("openLaser") = OpenLaser2(LaserOpened)
  <2>1. Steps("openLaser") = (<<Cm(FALSE, "goes on")>> \o <<Wr("qswitch", TRUE)>>) \o <<Sy(LaserOpened)>>
    BY DEF Steps, Put, Command, Say, Wr, Cm, Sy
  <2>2. Cm(FALSE, "goes on") \in Order /\ Wr("qswitch", TRUE) \in Order /\ Sy(LaserOpened) \in Order
    BY <1>0, <1>1
  <2> QED BY <2>1, <2>2, Chains, Zenon DEF OpenLaser2, OpenLaser1, Saying
<1>11. Steps("update") = Update4
  <2>1. Steps("update") = ((<<Ak("status")>> \o <<Rd("shutter")>>) \o <<Rd("fire")>>) \o <<Rd("qswitch")>>
    BY DEF Steps, Ask, Refresh, Ak, Rd
  <2>2. Ak("status") \in Order /\ Rd("shutter") \in Order /\ Rd("fire") \in Order /\ Rd("qswitch") \in Order
    BY <1>1, Names
  <2>3. <<Ak("status")>> \o <<Rd("shutter")>> \in Seq(Order)
    BY <2>2, Pairs
  <2>4. Update1 \in Seq(Order) /\ Update2 \in Seq(Order) /\ Update1 = <<Rd("qswitch")>>
    BY UpdateIs DEF Is, Update1
  <2>5. Steps("update") = (<<Ak("status")>> \o <<Rd("shutter")>>) \o Update2
    BY <2>1, <2>2, <2>3, <2>4, LastJoins, Zenon DEF Update2
  <2>6. <<Ak("status")>> \in Seq(Order)
    BY <2>2, OneIs, Zenon DEF Is
  <2>7. (<<Ak("status")>> \o <<Rd("shutter")>>) \o Update2 = <<Ak("status")>> \o Update3
    BY <2>2, <2>4, <2>6, LastJoins, Zenon DEF Update3
  <2> QED BY <2>5, <2>7, Zenon DEF Update4, Then
<1>12. Steps("stop") = Stop6
  <2> DEFINE p1 == <<Ak("shut")>>
             p2 == p1 \o <<Wr("qswitch", FALSE)>>
             p3 == p2 \o <<Wr("fire", FALSE)>>
             p4 == p3 \o <<Cm(TRUE, "goes on")>>
             p5 == p4 \o <<Ak("reopened")>>
  <2>1. /\ Ak("shut") \in Order /\ Wr("qswitch", FALSE) \in Order /\ Wr("fire", FALSE) \in Order
        /\ Cm(TRUE, "goes on") \in Order /\ Ak("reopened") \in Order /\ Sy("ready") \in Order
    BY <1>1, Names
  <2>2. Steps("stop") = p5 \o <<Sy("ready")>>
    BY DEF Steps, StopSteps, Put, Command, Say, Ask, Wr, Cm, Sy, Ak
  <2>3. p1 \in Seq(Order) /\ p1 \o Stop5 = Stop6
    <3>1. p1 \in Seq(Order)
      BY <2>1, OneIs, Zenon DEF Is
    <3> QED BY <3>1, Zenon DEF Stop6, Then
  <2>4. Stop2 \in Seq(Order) /\ Stop3 \in Seq(Order) /\ Stop4 \in Seq(Order) /\ Saying("ready") \in Seq(Order)
    BY StopIs, SayingIs, Names DEF Is
  <2>5. \A x \in Order, l \in Seq(Order) : l \o <<x>> \in Seq(Order)
    <3>1. \A x \in Order : <<x>> \in Seq(Order)
      OBVIOUS
    <3> QED BY <3>1, JoinedOrders, Zenon
  <2> HIDE DEF p1
  <2>6. p2 \in Seq(Order) /\ p2 \o Stop4 = p1 \o Stop5
    <3>1. p1 \in Seq(Order) /\ Wr("qswitch", FALSE) \in Order /\ Stop4 \in Seq(Order)
      BY <2>1, <2>4, <2>3
    <3>2. p2 \in Seq(Order)
      BY <2>5, <3>1, Zenon
    <3> QED BY <3>1, <3>2, LastJoins, Zenon DEF Stop5
  <2> HIDE DEF p2
  <2>7. p3 \in Seq(Order) /\ p3 \o Stop3 = p2 \o Stop4
    <3>1. p2 \in Seq(Order) /\ Wr("fire", FALSE) \in Order /\ Stop3 \in Seq(Order)
      BY <2>1, <2>4, <2>6
    <3>2. p3 \in Seq(Order)
      BY <2>5, <3>1, Zenon
    <3> QED BY <3>1, <3>2, LastJoins, Zenon DEF Stop4
  <2> HIDE DEF p3
  <2>8. p4 \in Seq(Order) /\ p4 \o Stop2 = p3 \o Stop3
    <3>1. p3 \in Seq(Order) /\ Cm(TRUE, "goes on") \in Order /\ Stop2 \in Seq(Order)
      BY <2>1, <2>4, <2>7
    <3>2. p4 \in Seq(Order)
      BY <2>5, <3>1, Zenon
    <3> QED BY <3>1, <3>2, LastJoins, Zenon DEF Stop3
  <2> HIDE DEF p4
  <2>9. p5 \in Seq(Order) /\ p5 \o Saying("ready") = p4 \o Stop2
    <3>1. p4 \in Seq(Order) /\ Ak("reopened") \in Order /\ Saying("ready") \in Seq(Order)
      BY <2>1, <2>4, <2>8
    <3>2. p5 \in Seq(Order)
      BY <2>5, <3>1, Zenon
    <3> QED BY <3>1, <3>2, LastJoins, Zenon DEF Stop2
  <2> HIDE DEF p5
  <2> QED BY <2>2, <2>3, <2>6, <2>7, <2>8, <2>9, Zenon DEF Saying
<1> QED BY <1>2, <1>3, <1>4, <1>5, <1>6, <1>7, <1>8, <1>9, <1>10, <1>11, <1>12

\* What the answer to a question and the rest of the handler come to.
LEMMA AnswersAre ==
  /\ \A l \in Answers("paused") : l \o <<>> = IF view.fire THEN OpenLaser1("pause") ELSE Saying("ready")
  /\ \A l \in Answers("standing by") : l \o <<>> = Saying(IF view.fire THEN "standby" ELSE "ready")
  /\ \A l \in Answers("closed") : LET s == IF view.fire THEN "pause" ELSE "ready"
                                  IN  l \o <<>> = Saying(s) /\ l \o Stop5 = StopSays(s)
  /\ \A l \in Answers("shut") : l \o Stop5 = IF Accepts("close") THEN StopCloses ELSE Stop5
  /\ \A l \in Answers("reopened") :
       l \o Saying("ready") = IF Accepts("open") THEN StopOpens(Opened) ELSE Saying("ready")
  /\ \A l \in Answers("opened") : l \o <<>> = IF view.shutter THEN CloseLaser0 ELSE <<>>
  /\ \A l \in Answers("fired") : \/ l \o <<>> = IF view.shutter THEN Fire1 ELSE Fire2
                                 \/ l \o <<>> = Stop6
  /\ status \in Status => \A l \in Answers("status") : l \o Update3 = UpdateSays(status)
<1> HIDE DEF Order, Status, Flag
<1>0. /\ \A l : l \in Seq(Order) => l \o <<>> = l /\ <<>> \o l = l
      /\ \A s \in Status : Saying(s) \in Seq(Order)
      /\ \A s \in Status : Say(s) = Saying(s)
      /\ <<>> \in Seq(Order)
  <2>1. \A l : l \in Seq(Order) => l \o <<>> = l /\ <<>> \o l = l
    BY ConcatEmptySeq
  <2>2. \A s \in Status : Saying(s) \in Seq(Order)
    BY SayingIs DEF Is
  <2> QED BY <2>1, <2>2 DEF Say, Saying, Sy
<1>1. ASSUME NEW l \in Answers("paused")
      PROVE  l \o <<>> = IF view.fire THEN OpenLaser1("pause") ELSE Saying("ready")
  <2>1. l = IF view.fire THEN Put("qswitch", TRUE) \o Say("pause") ELSE Say("ready")
    BY <1>1 DEF Answers
  <2>2. Put("qswitch", TRUE) \o Say("pause") = OpenLaser1("pause")
    BY Zenon DEF Put, Say, OpenLaser1, Then, Wr, Sy, Saying
  <2> QED BY <1>0, <2>1, <2>2, LaserIs, Names DEF Is
<1>2. ASSUME NEW l \in Answers("standing by")
      PROVE  l \o <<>> = Saying(IF view.fire THEN "standby" ELSE "ready")
  <2>1. l = Say(IF view.fire THEN "standby" ELSE "ready")
    BY <1>2 DEF Answers
  <2> QED BY <1>0, <2>1, Names
<1>3. ASSUME NEW l \in Answers("closed")
      PROVE  LET s == IF view.fire THEN "pause" ELSE "ready"
             IN  l \o <<>> = Saying(s) /\ l \o Stop5 = StopSays(s)
  <2> DEFINE s == IF view.fire THEN "pause" ELSE "ready"
  <2>1. l = Say(s)
    BY <1>3 DEF Answers
  <2>2. s \in Status
    BY Names
  <2> HIDE DEF s
  <2>3. l = Saying(s) /\ l \o <<>> = Saying(s)
    BY <1>0, <2>1, <2>2
  <2>4. l \o Stop5 = StopSays(s)
    BY <2>3, Zenon DEF StopSays, Then, Saying
  <2> QED BY <2>3, <2>4 DEF s
<1>4. ASSUME NEW l \in Answers("shut")
      PROVE  l \o Stop5 = IF Accepts("close") THEN StopCloses ELSE Stop5
  <2>1. l = IF Accepts("close") THEN Steps("close") ELSE <<>>
    BY <1>4 DEF Answers
  <2>2. Close2 \o Stop5 = StopCloses
    <3>1. Wr("shutter", TRUE) \in Order /\ Close1 \in Seq(Order) /\ Stop5 \in Seq(Order)
      BY ShutterIs, StopIs, Words, Names DEF Is
    <3>2. Close2 \o Stop5 = Then(Wr("shutter", TRUE), Close1 \o Stop5)
      BY <3>1, ThenGrows DEF Close2
    <3>3. Close1 \o Stop5 = StopClosed
      BY Zenon DEF Close1, StopClosed, Then
    <3> QED BY <3>2, <3>3 DEF StopCloses
  <2>3. <<>> \o Stop5 = Stop5
    BY <1>0, StopIs DEF Is
  <2> QED BY <2>1, <2>2, <2>3, StepsAre
<1>5. ASSUME NEW l \in Answers("reopened")
      PROVE  l \o Saying("ready") = IF Accepts("open") THEN StopOpens(Opened) ELSE Saying("ready")
  <2>1. l = IF Accepts("open") THEN Steps("open") ELSE <<>>
    BY <1>5 DEF Answers
  <2>2. Open(Opened) \o Saying("ready") = StopOpens(Opened)
    <3>1. Opened \in Status
      BY Names DEF Opened
    <3>2. Wr("shutter", FALSE) \in Order /\ Saying(Opened) \in Seq(Order) /\ Saying("ready") \in Seq(Order)
      BY <1>0, <3>1, Words, Names
    <3>3. Open(Opened) \o Saying("ready") = Then(Wr("shutter", FALSE), Saying(Opened) \o Saying("ready"))
      BY <3>2, ThenGrows DEF Open
    <3>4. Saying(Opened) \o Saying("ready") = StopOpened(Opened)
      BY Zenon DEF Saying, StopOpened, Then
    <3> QED BY <3>3, <3>4 DEF StopOpens
  <2>3. <<>> \o Saying("ready") = Saying("ready")
    BY <1>0, Names
  <2> QED BY <2>1, <2>2, <2>3, StepsAre
<1>6. ASSUME NEW l \in Answers("opened")
      PROVE  l \o <<>> = IF view.shutter THEN CloseLaser0 ELSE <<>>
  <2>1. l = IF view.shutter THEN CloseLaser0 ELSE <<>>
    BY <1>6 DEF Answers, CloseLaser0, Put, Wr
  <2> QED BY <1>0, <2>1, LaserIs DEF Is
<1>7. ASSUME NEW l \in Answers("fired")
      PROVE  \/ l \o <<>> = IF view.shutter THEN Fire1 ELSE Fire2
             \/ l \o <<>> = Stop6
  <2>1. \/ l = (IF view.shutter THEN <<>> ELSE Put("shutter", TRUE)) \o Put("fire", TRUE) \o Say("warmup")
        \/ l = Steps("stop")
    BY <1>7 DEF Answers
  <2>2. CASE l = Steps("stop")
    BY <1>0, <2>2, StepsAre, StopIs DEF Is
  <2>3. CASE l = (IF view.shutter THEN <<>> ELSE Put("shutter", TRUE)) \o Put("fire", TRUE) \o Say("warmup")
    <3>1. /\ Wr("fire", TRUE) \in Order /\ Wr("shutter", TRUE) \in Order /\ Sy("warmup") \in Order
          /\ Put("fire", TRUE) \in Seq(Order)
      BY Words, Names, PutType
    <3>2. CASE view.shutter
      <4>1. l = (<<>> \o Put("fire", TRUE)) \o Say("warmup")
        BY <2>3, <3>2
      <4>2. <<>> \o Put("fire", TRUE) = Put("fire", TRUE)
        BY <1>0, <3>1
      <4>3. Put("fire", TRUE) \o Say("warmup") = Fire1
        BY Zenon DEF Put, Say, Fire1, Then, Wr, Sy, Saying
      <4> QED BY <1>0, <3>2, <4>1, <4>2, <4>3, StartIs DEF Is
    <3>3. CASE ~view.shutter
      <4>1. l = (<<Wr("shutter", TRUE)>> \o <<Wr("fire", TRUE)>>) \o <<Sy("warmup")>>
        BY <2>3, <3>3 DEF Put, Say, Wr, Sy
      <4>2. l = Fire2
        BY <3>1, <4>1, Chains, Zenon DEF Fire2, Fire1, Saying
      <4> QED BY <1>0, <3>3, <4>2, StartIs DEF Is
    <3> QED BY <3>2, <3>3
  <2> QED BY <2>1, <2>2, <2>3
<1>8. ASSUME status \in Status, NEW l \in Answers("status") PROVE l \o Update3 = UpdateSays(status)
  <2>1. l = Say(status)
    BY <1>8 DEF Answers
  <2> QED BY <2>1, Zenon DEF Say, UpdateSays, Then, Sy
<1> QED BY <1>1, <1>2, <1>3, <1>4, <1>5, <1>6, <1>7, <1>8

-----------------------------------------------------------------------------
(* The state that goes with what is left, of a handler that runs alone. *)

Sound(s) ==
  /\ Beam => s = "lasing"
  /\ s = "ready" => ~hw.fire
  /\ s = "pause" => hw.shutter

\* No timer has given up on the state.
Lasts ==
  /\ status \in {"pause", "standby", "warmup"} => \E u \in Slot : Kind(u) = status /\ timer[u] # None
  /\ status = "pause" => hw.shutter /\ view.shutter

Rests == Sound(status) /\ Lasts

BeamIsLasing == Beam => status = "lasing"

SayStage(l) == \E s \in Status : l = Saying(s) /\ Sound(s) /\ (s = status => Lasts)

PauseStage(l) ==
  /\ Rests /\ status \in {"standby", "lasing"}
  /\ l = Pause3 \/ (l \in {Pause2, Pause1} /\ hw.shutter)

StandbyStage(l) ==
  /\ status \in {"lasing", "pause"}
  /\ (l = Standby4 /\ BeamIsLasing) \/ (l \in {Standby3, Standby2, Standby1} /\ ~hw.qswitch)

ResumeStage(l) == l = Resume2 \/ (l = Resume3 /\ Rests /\ status \in {"pause", "standby"})

StopStage(l) ==
  \/ l \in {Stop6, StopCloses} /\ BeamIsLasing
  \/ l \in {StopClosed, StopSays("pause"), StopSays("ready"), Stop5} /\ hw.shutter
  \/ l = Stop4 /\ ~hw.qswitch
  \/ l \in {Stop3, Stop2} /\ ~hw.fire
  \/ \E s \in Status : l \in {StopOpens(s), StopOpened(s)} /\ ~hw.fire

StartStage(l) ==
  /\ status = "ready"
  /\ \/ l = Start3 /\ ~hw.fire
     \/ l \in {Start2, Start1} /\ ~hw.fire /\ ~hw.qswitch
     \/ l \in {Fire2, Fire1} /\ ~hw.qswitch

ShutterStage(l) ==
  \/ l = Close2 /\ status # "pause" /\ BeamIsLasing
  \/ l = Close1 /\ status # "pause" /\ hw.shutter
  \/ \E s \in {"ready", "standby", "lasing"} :
       /\ l = Open(s) /\ BeamIsLasing
       /\ s = "ready" => ~hw.fire
       /\ s = "standby" => hw.laser /\ (s = status => Lasts)

LaserStage(l) ==
  \/ l = CloseLaser4 /\ BeamIsLasing /\ (status = "standby" => Lasts)
  \/ l \in {CloseLaser3, CloseLaser2} /\ ~hw.qswitch /\ (status = "standby" => Lasts)
  \/ l \in {CloseLaser1, CloseLaser0} /\ ~hw.qswitch /\ status = "standby" /\ Lasts
  \/ \E s \in {"ready", "pause", "lasing"} :
       /\ l \in {OpenLaser2(s), OpenLaser1(s)}
       /\ s = "ready" => ~hw.fire
       /\ s = "pause" => hw.shutter
       /\ s = status => Lasts

UpdateStage(l) == Rests /\ l \in {UpdateSays(status), Update4, Update3, Update2, Update1}

Stage(l) ==
  \/ l = <<>> /\ Rests
  \/ SayStage(l) \/ PauseStage(l) \/ StandbyStage(l) \/ ResumeStage(l) \/ StopStage(l)
  \/ StartStage(l) \/ ShutterStage(l) \/ LaserStage(l) \/ UpdateStage(l)

\* The flags show the registers, or are about to.
Fits(l) ==
  \/ view = hw /\ Stage(l)
  \/ l # <<>> /\ l[1] = <<"keep", hw>> /\ Stage(Tail(l))

-----------------------------------------------------------------------------
(* What a step does of a handler that runs alone. *)

Sets(f, on) ==
  /\ hw'.shutter <=> (f = "shutter" /\ on = TRUE) \/ (f # "shutter" /\ hw.shutter)
  /\ hw'.laser <=> (f = "laser" /\ on = TRUE) \/ (f # "laser" /\ hw.laser)
  /\ hw'.qswitch <=> (f = "qswitch" /\ on = TRUE) \/ (f # "qswitch" /\ hw.qswitch)
  /\ hw'.fire <=> (f = "fire" /\ on = TRUE) \/ (f # "fire" /\ hw.fire)

LEMMA SetsOne ==
  ASSUME hw \in Registers, NEW f \in Flag, NEW on \in BOOLEAN, hw' = [hw EXCEPT ![f] = on]
  PROVE  Sets(f, on) /\ hw' \in Registers
BY DEF Registers, Flag, Sets

LEMMA StepKinds ==
  ASSUME NEW t \in Thread, StepOf(t), NEW x, NEW r, Is(todo[t], x, r)
  PROVE  /\ Step(t) = x /\ Rest(t) = r /\ todo[t] # <<>>
         /\ x[1] = "write" => Writes(t)
         /\ x[1] = "read" => Reads(t)
         /\ x[1] = "keep" => Stores(t)
         /\ x[1] = "command" => Commands(t) \/ CommandThrows(t)
         /\ x[1] = "ask" => Looks(t)
         /\ x[1] = "say" => Says(t)
<1>1. Step(t) = x /\ Rest(t) = r /\ todo[t] # <<>>
  BY DEF Is, Step, Rest
<1>2. \A k : Does(t, k) => x[1] = k
  BY <1>1 DEF Does, Step
<1> QED BY <1>1, <1>2 DEF StepOf, Writes, Reads, Stores, Commands, CommandThrows, Looks, Says

\* A flag to keep comes before the rest.
LEMMA KeepThen ==
  ASSUME TypeInv, NEW t \in Thread, NEW r \in Seq(Order), NEW f \in Flag, NEW on \in BOOLEAN,
         Comes(t, Keep(f, on) \o r), [view EXCEPT ![f] = on] = hw', hw' \in Registers
  PROVE  /\ Is(todo'[t], <<"keep", hw'>>, r)
         /\ Stage(r)' => Fits(todo[t])'
<1>1. <<"keep", hw'>> \in Order
  BY Words
<1>2. Keep(f, on) \o r = Then(<<"keep", hw'>>, r)
  BY DEF Keep, Then
<1>3. Is(Then(<<"keep", hw'>>, r), <<"keep", hw'>>, r)
  BY <1>1, ThenIs
<1>4. todo'[t] = Then(<<"keep", hw'>>, r)
  <2> HIDE DEF Order
  <2> QED BY <1>2 DEF Comes, TypeInv
<1>5. Is(todo'[t], <<"keep", hw'>>, r)
  BY <1>3, <1>4
<1> QED BY <1>5 DEF Is, Fits

LEMMA RestComes ==
  ASSUME TypeInv, NEW t \in Thread, NEW l, Comes(t, l), view' = hw'
  PROVE  todo'[t] = l /\ (Stage(l)' => Fits(todo[t])')
<1>1. todo'[t] = l
  <2> HIDE DEF Order
  <2> QED BY DEF Comes, TypeInv
<1> QED BY <1>1 DEF Fits

LEMMA WriteLeads ==
  ASSUME TypeInv, view = hw, NEW t \in Thread, StepOf(t),
         NEW f \in Flag, NEW on \in BOOLEAN, NEW r, Is(todo[t], Wr(f, on), r)
  PROVE  Sets(f, on) /\ UNCHANGED <<status, view, timer>> /\ (Stage(r)' => Fits(todo[t])')
<1>1. Wr(f, on)[1] = "write" /\ Wr(f, on)[2] = f /\ Wr(f, on)[3] = on
  BY DEF Wr
<1>2. Writes(t) /\ Step(t) = Wr(f, on) /\ Rest(t) = r /\ todo[t] # <<>>
  BY <1>1, StepKinds
<1>3. hw' = [hw EXCEPT ![f] = on] /\ Comes(t, Keep(f, on) \o r) /\ UNCHANGED <<status, view, timer>>
  BY <1>1, <1>2 DEF Writes
<1>4. Sets(f, on) /\ hw' \in Registers
  BY <1>3, SetsOne DEF TypeInv
<1>5. r \in Seq(Order)
  BY <1>2, NowAndNext
<1>6. [view EXCEPT ![f] = on] = hw'
  BY <1>3
<1> QED BY <1>3, <1>4, <1>5, <1>6, KeepThen

LEMMA CommandLeads ==
  ASSUME TypeInv, view = hw, NEW t \in Thread, StepOf(t),
         NEW b \in BOOLEAN, NEW o, NEW r, Is(todo[t], Cm(b, o), r)
  PROVE  /\ UNCHANGED <<status, view, timer>>
         /\ \/ Sets("laser", b) /\ (Stage(r)' => Fits(todo[t])')
            \/ /\ hw' = hw
               /\ o = "goes on" => todo'[t] = r
               /\ o = "ends" => todo'[t] = <<>>
               /\ o = "stands by" => todo'[t] = IF Accepts("standby") THEN Standby4 ELSE <<>>
               /\ \A l : todo'[t] = l /\ Stage(l)' => Fits(todo[t])'
<1>1. Cm(b, o)[1] = "command" /\ Cm(b, o)[2] = b /\ Cm(b, o)[3] = o
  BY DEF Cm
<1>2. (Commands(t) \/ CommandThrows(t)) /\ Step(t) = Cm(b, o) /\ Rest(t) = r /\ todo[t] # <<>>
  BY <1>1, StepKinds
<1>3. CASE Commands(t)
  <2>1. hw' = [hw EXCEPT !["laser"] = b] /\ Comes(t, Keep("laser", b) \o r) /\ UNCHANGED <<status, view, timer>>
    BY <1>1, <1>2, <1>3 DEF Commands
  <2>2. Sets("laser", b) /\ hw' \in Registers
    BY <2>1, SetsOne, Names DEF TypeInv
  <2>3. r \in Seq(Order)
    BY <1>2, NowAndNext
  <2>4. [view EXCEPT !["laser"] = b] = hw'
    BY <2>1
  <2>5. Stage(r)' => Fits(todo[t])'
    BY <2>1, <2>2, <2>3, <2>4, KeepThen, Names
  <2> QED BY <2>1, <2>2, <2>5
<1>4. CASE CommandThrows(t)
  <2> DEFINE l == CASE o = "goes on"   -> r
                    [] o = "ends"      -> <<>>
                    [] o = "stands by" -> IF Accepts("standby") THEN Steps("standby") ELSE <<>>
  <2>1. todo' = [todo EXCEPT ![t] = l] /\ UNCHANGED <<status, view, hw, timer>>
    BY <1>1, <1>2, <1>4 DEF CommandThrows
  <2>2. /\ o = "goes on" => l = r
        /\ o = "ends" => l = <<>>
        /\ o = "stands by" /\ Accepts("standby") => l = Standby4
        /\ o = "stands by" /\ ~Accepts("standby") => l = <<>>
    BY StepsAre
  <2> HIDE DEF l
  <2>3. todo'[t] = l
    <3> HIDE DEF Order
    <3> QED BY <2>1 DEF TypeInv
  <2>4. \A m : todo'[t] = m /\ Stage(m)' => Fits(todo[t])'
    BY <2>1 DEF Fits
  <2> QED BY <2>1, <2>2, <2>3, <2>4
<1> QED BY <1>2, <1>3, <1>4

LEMMA AskLeads ==
  ASSUME TypeInv, view = hw, NEW t \in Thread, StepOf(t), NEW q, NEW r, Is(todo[t], Ak(q), r)
  PROVE  /\ UNCHANGED <<status, view, hw, timer>>
         /\ \E l \in Answers(q) : todo'[t] = l \o r
         /\ \A l : todo'[t] = l /\ Stage(l)' => Fits(todo[t])'
<1>1. Ak(q)[1] = "ask" /\ Ak(q)[2] = q
  BY DEF Ak
<1>2. Looks(t) /\ Step(t) = Ak(q) /\ Rest(t) = r /\ todo[t] # <<>>
  BY <1>1, StepKinds
<1>3. PICK l \in Answers(q) : Comes(t, l \o r) /\ UNCHANGED <<status, view, hw, timer>>
  BY <1>1, <1>2 DEF Looks
<1> QED BY <1>3, RestComes DEF Fits

LEMMA SayLeads ==
  ASSUME TypeInv, view = hw, NEW t \in Thread, StepOf(t), NEW s, NEW r, Is(todo[t], Sy(s), r)
  PROVE  /\ status' = s /\ UNCHANGED <<view, hw>>
         /\ (s = "pause" => hw.shutter) /\ (s = status => Lasts) => Lasts'
         /\ Stage(r)' => Fits(todo[t])'
<1>1. Sy(s)[1] = "say" /\ Sy(s)[2] = s
  BY DEF Sy
<1>2. Says(t) /\ Step(t) = Sy(s) /\ Rest(t) = r /\ todo[t] # <<>>
  BY <1>1, StepKinds
<1>3. /\ status' = s /\ Comes(t, r) /\ UNCHANGED <<view, hw>>
      /\ \/ timer' = timer /\ (s = status \/ s \notin {"pause", "standby", "warmup"})
         \/ \E u \in Slot : Kind(u) = s /\ timer' = [timer EXCEPT ![u] = "polls"]
  BY <1>1, <1>2 DEF Says
<1>4. ASSUME s = "pause" => hw.shutter, s = status => Lasts PROVE Lasts'
  <2>1. CASE timer' = timer /\ s = status
    BY <1>3, <1>4, <2>1 DEF Lasts
  <2>2. CASE s \notin {"pause", "standby", "warmup"}
    BY <1>3, <2>2 DEF Lasts
  <2>3. ASSUME NEW u \in Slot, Kind(u) = s, timer' = [timer EXCEPT ![u] = "polls"] PROVE Lasts'
    <3>1. timer'[u] # None
      BY <2>3 DEF TypeInv, None
    <3> QED BY <1>3, <1>4, <2>3, <3>1 DEF Lasts
  <2> QED BY <1>3, <2>1, <2>2, <2>3
<1> QED BY <1>3, <1>4, RestComes

LEMMA ReadLeads ==
  ASSUME TypeInv, view = hw, NEW t \in Thread, StepOf(t), NEW f \in Flag, NEW r, Is(todo[t], Rd(f), r)
  PROVE  UNCHANGED <<status, view, hw, timer>> /\ (Stage(r)' => Fits(todo[t])')
<1>1. Rd(f)[1] = "read" /\ Rd(f)[2] = f
  BY DEF Rd
<1>2. Reads(t) /\ Step(t) = Rd(f) /\ Rest(t) = r /\ todo[t] # <<>>
  BY <1>1, StepKinds
<1>3. Comes(t, Keep(f, hw[f]) \o r) /\ UNCHANGED <<status, view, hw, timer>>
  BY <1>1, <1>2 DEF Reads
<1>4. hw[f] \in BOOLEAN /\ hw' \in Registers /\ [view EXCEPT ![f] = hw[f]] = hw'
  BY <1>3 DEF TypeInv, Registers
<1>5. r \in Seq(Order)
  BY <1>2, NowAndNext
<1> QED BY <1>3, <1>4, <1>5, KeepThen

-----------------------------------------------------------------------------
(* Handler by handler: a step leads to what goes with the rest. *)

LEMMA SayGoesOn ==
  ASSUME TypeInv, view = hw, NEW t \in Thread, StepOf(t), SayStage(todo[t])
  PROVE  Fits(todo[t])'
<1>1. PICK s \in Status : todo[t] = Saying(s) /\ Sound(s) /\ (s = status => Lasts)
  BY DEF SayStage
<1>2. Is(todo[t], Sy(s), <<>>)
  BY <1>1, SayingIs
<1>3. /\ status' = s /\ UNCHANGED <<view, hw>>
      /\ (s = "pause" => hw.shutter) /\ (s = status => Lasts) => Lasts'
      /\ Stage(<<>>)' => Fits(todo[t])'
  BY <1>2, SayLeads
<1>4. Rests'
  BY <1>1, <1>3 DEF Rests, Sound, Beam
<1> QED BY <1>3, <1>4 DEF Stage

LEMMA PauseGoesOn ==
  ASSUME TypeInv, view = hw, NEW t \in Thread, StepOf(t), PauseStage(todo[t])
  PROVE  Fits(todo[t])'
<1>0. Rests /\ status \in {"standby", "lasing"}
  BY DEF PauseStage
<1>1. CASE todo[t] = Pause3
  <2>1. Sets("shutter", TRUE) /\ UNCHANGED <<status, view, timer>> /\ (Stage(Pause2)' => Fits(todo[t])')
    BY <1>1, PauseIs, WriteLeads, Names
  <2>2. Rests' /\ hw'.shutter
    BY <1>0, <2>1 DEF Sets, Rests, Sound, Lasts, Beam
  <2>3. PauseStage(Pause2)'
    BY <1>0, <2>1, <2>2 DEF PauseStage
  <2> QED BY <2>1, <2>3 DEF Stage
<1>2. CASE todo[t] = Pause2 /\ hw.shutter
  <2>1. /\ UNCHANGED <<status, view, timer>>
        /\ \/ Sets("laser", FALSE) /\ (Stage(Pause1)' => Fits(todo[t])')
           \/ hw' = hw /\ (Stage(<<>>)' => Fits(todo[t])')
    BY <1>2, PauseIs, CommandLeads
  <2>2. Rests' /\ hw'.shutter
    BY <1>0, <1>2, <2>1 DEF Sets, Rests, Sound, Lasts, Beam
  <2>3. PauseStage(Pause1)'
    BY <1>0, <2>1, <2>2 DEF PauseStage
  <2> QED BY <2>1, <2>2, <2>3 DEF Stage
<1>3. CASE todo[t] = Pause1 /\ hw.shutter
  <2>1. /\ UNCHANGED <<status, view, hw, timer>>
        /\ \E l \in Answers("paused") : todo'[t] = l \o <<>>
        /\ \A l : todo'[t] = l /\ Stage(l)' => Fits(todo[t])'
    BY <1>3, PauseIs, AskLeads
  <2>2. todo'[t] = IF view.fire THEN OpenLaser1("pause") ELSE Saying("ready")
    BY <2>1, AnswersAre
  <2>3. CASE view.fire
    <3>1. LaserStage(OpenLaser1("pause"))'
      BY <1>0, <1>3, <2>1 DEF LaserStage
    <3> QED BY <2>1, <2>2, <2>3, <3>1 DEF Stage
  <2>4. CASE ~view.fire
    <3>1. SayStage(Saying("ready"))'
      BY <1>0, <2>1, <2>4, Names DEF SayStage, Sound, Beam
    <3> QED BY <2>1, <2>2, <2>4, <3>1 DEF Stage
  <2> QED BY <2>3, <2>4
<1> QED BY <1>1, <1>2, <1>3 DEF PauseStage

LEMMA StandbyGoesOn ==
  ASSUME TypeInv, view = hw, NEW t \in Thread, StepOf(t), StandbyStage(todo[t])
  PROVE  Fits(todo[t])'
<1>0. status \in {"lasing", "pause"}
  BY DEF StandbyStage
<1>1. CASE todo[t] = Standby4
  <2>1. Sets("qswitch", FALSE) /\ UNCHANGED <<status, view, timer>> /\ (Stage(Standby3)' => Fits(todo[t])')
    BY <1>1, StandbyIs, WriteLeads, Names
  <2>2. StandbyStage(Standby3)'
    BY <1>0, <2>1 DEF Sets, StandbyStage
  <2> QED BY <2>1, <2>2 DEF Stage
<1>2. CASE todo[t] = Standby3 /\ ~hw.qswitch
  <2>1. /\ UNCHANGED <<status, view, timer>>
        /\ Sets("laser", TRUE) \/ hw' = hw
        /\ Stage(Standby2)' => Fits(todo[t])'
    BY <1>2, StandbyIs, CommandLeads
  <2>2. StandbyStage(Standby2)'
    BY <1>0, <1>2, <2>1 DEF Sets, StandbyStage
  <2> QED BY <2>1, <2>2 DEF Stage
<1>3. CASE todo[t] = Standby2 /\ ~hw.qswitch
  <2>1. Sets("shutter", TRUE) /\ UNCHANGED <<status, view, timer>> /\ (Stage(Standby1)' => Fits(todo[t])')
    BY <1>3, StandbyIs, WriteLeads, Names
  <2>2. StandbyStage(Standby1)'
    BY <1>0, <1>3, <2>1 DEF Sets, StandbyStage
  <2> QED BY <2>1, <2>2 DEF Stage
<1>4. CASE todo[t] = Standby1 /\ ~hw.qswitch
  <2> DEFINE s == IF view.fire THEN "standby" ELSE "ready"
  <2>1. /\ UNCHANGED <<status, view, hw, timer>>
        /\ \E l \in Answers("standing by") : todo'[t] = l \o <<>>
        /\ \A l : todo'[t] = l /\ Stage(l)' => Fits(todo[t])'
    BY <1>4, StandbyIs, AskLeads
  <2>2. todo'[t] = Saying(s)
    BY <2>1, AnswersAre
  <2>3. CASE view.fire
    <3>1. SayStage(Saying("standby"))'
      BY <1>0, <1>4, <2>1, Names DEF SayStage, Sound, Beam
    <3> QED BY <2>1, <2>2, <2>3, <3>1 DEF Stage
  <2>4. CASE ~view.fire
    <3>1. SayStage(Saying("ready"))'
      BY <1>0, <1>4, <2>1, <2>4, Names DEF SayStage, Sound, Beam
    <3> QED BY <2>1, <2>2, <2>4, <3>1 DEF Stage
  <2> QED BY <2>3, <2>4
<1> QED BY <1>1, <1>2, <1>3, <1>4 DEF StandbyStage

LEMMA ResumeGoesOn ==
  ASSUME TypeInv, view = hw, NEW t \in Thread, StepOf(t), ResumeStage(todo[t])
  PROVE  Fits(todo[t])'
<1>1. CASE todo[t] = Resume2
  <2>1. Sets("shutter", FALSE) /\ UNCHANGED <<status, view, timer>> /\ (Stage(Saying("lasing"))' => Fits(todo[t])')
    BY <1>1, ResumeIs, WriteLeads, Names
  <2>2. SayStage(Saying("lasing"))'
    BY Names DEF SayStage, Sound, Lasts
  <2> QED BY <2>1, <2>2 DEF Stage
<1>2. CASE todo[t] = Resume3 /\ Rests /\ status \in {"pause", "standby"}
  <2>1. /\ UNCHANGED <<status, view, timer>>
        /\ \/ Sets("laser", FALSE) /\ (Stage(Resume2)' => Fits(todo[t])')
           \/ /\ hw' = hw
              /\ todo'[t] = IF Accepts("standby") THEN Standby4 ELSE <<>>
              /\ \A l : todo'[t] = l /\ Stage(l)' => Fits(todo[t])'
    BY <1>2, ResumeIs, CommandLeads
  <2>2. ResumeStage(Resume2)'
    BY DEF ResumeStage
  <2>3. CASE hw' = hw /\ Accepts("standby") /\ todo'[t] = Standby4
                /\ \A l : todo'[t] = l /\ Stage(l)' => Fits(todo[t])'
    <3>1. status \in {"lasing", "pause"}
      BY <2>3 DEF Accepts
    <3>2. StandbyStage(Standby4)'
      BY <1>2, <2>1, <2>3, <3>1 DEF StandbyStage, BeamIsLasing, Rests, Sound, Beam
    <3> QED BY <2>3, <3>2 DEF Stage
  <2>4. CASE hw' = hw /\ todo'[t] = <<>> /\ \A l : todo'[t] = l /\ Stage(l)' => Fits(todo[t])'
    <3>1. Rests'
      BY <1>2, <2>1, <2>4 DEF Rests, Sound, Lasts, Beam
    <3> QED BY <2>4, <3>1 DEF Stage
  <2> QED BY <2>1, <2>2, <2>3, <2>4 DEF Stage
<1> QED BY <1>1, <1>2 DEF ResumeStage

LEMMA StopGoesOn ==
  ASSUME TypeInv, view = hw, NEW t \in Thread, StepOf(t), StopStage(todo[t])
  PROVE  Fits(todo[t])'
<1>1. CASE todo[t] = Stop6 /\ BeamIsLasing
  <2>1. /\ UNCHANGED <<status, view, hw, timer>>
        /\ \E l \in Answers("shut") : todo'[t] = l \o Stop5
        /\ \A l : todo'[t] = l /\ Stage(l)' => Fits(todo[t])'
    BY <1>1, StopIs, AskLeads
  <2>2. todo'[t] = IF Accepts("close") THEN StopCloses ELSE Stop5
    BY <2>1, AnswersAre
  <2>3. Accepts("close") <=> ~hw.shutter
    BY DEF Accepts
  <2>4. CASE Accepts("close")
    <3>1. StopStage(StopCloses)'
      BY <1>1, <2>1 DEF StopStage, BeamIsLasing, Beam
    <3> QED BY <2>1, <2>2, <2>4, <3>1 DEF Stage
  <2>5. CASE ~Accepts("close")
    <3>1. StopStage(Stop5)'
      BY <2>1, <2>3, <2>5 DEF StopStage
    <3> QED BY <2>1, <2>2, <2>5, <3>1 DEF Stage
  <2> QED BY <2>4, <2>5
<1>2. CASE todo[t] = StopCloses
  <2>1. Sets("shutter", TRUE) /\ (Stage(StopClosed)' => Fits(todo[t])')
    BY <1>2, StopShutterIs, WriteLeads, Names
  <2>2. StopStage(StopClosed)'
    BY <2>1 DEF Sets, StopStage
  <2> QED BY <2>1, <2>2 DEF Stage
<1>3. CASE todo[t] = StopClosed /\ hw.shutter
  <2> DEFINE s == IF view.fire THEN "pause" ELSE "ready"
  <2>1. /\ UNCHANGED <<status, view, hw, timer>>
        /\ \E l \in Answers("closed") : todo'[t] = l \o Stop5
        /\ \A l : todo'[t] = l /\ Stage(l)' => Fits(todo[t])'
    BY <1>3, StopShutterIs, AskLeads
  <2>2. todo'[t] = StopSays(s)
    BY <2>1, AnswersAre
  <2>3. StopStage(StopSays("pause"))' /\ StopStage(StopSays("ready"))'
    BY <1>3, <2>1 DEF StopStage
  <2> QED BY <2>1, <2>2, <2>3 DEF Stage
<1>4. ASSUME NEW s \in {"pause", "ready"}, todo[t] = StopSays(s), hw.shutter PROVE Fits(todo[t])'
  <2>1. UNCHANGED <<view, hw>> /\ (Stage(Stop5)' => Fits(todo[t])')
    BY <1>4, StopShutterIs, SayLeads, Names
  <2>2. StopStage(Stop5)'
    BY <1>4, <2>1 DEF StopStage
  <2> QED BY <2>1, <2>2 DEF Stage
<1>5. CASE todo[t] = Stop5
  <2>1. Sets("qswitch", FALSE) /\ (Stage(Stop4)' => Fits(todo[t])')
    BY <1>5, StopIs, WriteLeads, Names
  <2>2. StopStage(Stop4)'
    BY <2>1 DEF Sets, StopStage
  <2> QED BY <2>1, <2>2 DEF Stage
<1>6. CASE todo[t] = Stop4
  <2>1. Sets("fire", FALSE) /\ (Stage(Stop3)' => Fits(todo[t])')
    BY <1>6, StopIs, WriteLeads, Names
  <2>2. StopStage(Stop3)'
    BY <2>1 DEF Sets, StopStage
  <2> QED BY <2>1, <2>2 DEF Stage
<1>7. CASE todo[t] = Stop3 /\ ~hw.fire
  <2>1. (Sets("laser", TRUE) \/ hw' = hw) /\ (Stage(Stop2)' => Fits(todo[t])')
    BY <1>7, StopIs, CommandLeads
  <2>2. StopStage(Stop2)'
    BY <1>7, <2>1 DEF Sets, StopStage
  <2> QED BY <2>1, <2>2 DEF Stage
<1>8. CASE todo[t] = Stop2 /\ ~hw.fire
  <2>1. /\ UNCHANGED <<status, view, hw, timer>>
        /\ \E l \in Answers("reopened") : todo'[t] = l \o Saying("ready")
        /\ \A l : todo'[t] = l /\ Stage(l)' => Fits(todo[t])'
    BY <1>8, StopIs, AskLeads
  <2>2. todo'[t] = IF Accepts("open") THEN StopOpens(Opened) ELSE Saying("ready")
    BY <2>1, AnswersAre
  <2>3. CASE todo'[t] = Saying("ready")
    <3>1. SayStage(Saying("ready"))'
      BY <1>8, <2>1, Names DEF SayStage, Sound, Lasts, Beam
    <3> QED BY <2>1, <2>3, <3>1 DEF Stage
  <2>4. ASSUME NEW s \in Status, todo'[t] = StopOpens(s) PROVE Fits(todo[t])'
    <3>1. StopStage(StopOpens(s))'
      BY <1>8, <2>1 DEF StopStage
    <3> QED BY <2>1, <2>4, <3>1 DEF Stage
  <2>5. Opened \in Status
    BY Names DEF Opened
  <2> QED BY <2>2, <2>3, <2>4, <2>5
<1>9. ASSUME NEW s \in Status, todo[t] = StopOpens(s), ~hw.fire PROVE Fits(todo[t])'
  <2> HIDE DEF Status
  <2>1. Sets("shutter", FALSE) /\ (Stage(StopOpened(s))' => Fits(todo[t])')
    BY <1>9, StopShutterIs, WriteLeads, Names
  <2>2. StopStage(StopOpened(s))'
    BY <1>9, <2>1 DEF Sets, StopStage
  <2> QED BY <2>1, <2>2 DEF Stage
<1>10. ASSUME NEW s \in Status, todo[t] = StopOpened(s), ~hw.fire PROVE Fits(todo[t])'
  <2> HIDE DEF Status
  <2>1. UNCHANGED <<view, hw>> /\ (Stage(Saying("ready"))' => Fits(todo[t])')
    BY <1>10, StopShutterIs, SayLeads
  <2>2. SayStage(Saying("ready"))'
    <3>1. ~hw'.fire
      BY <1>10, <2>1
    <3> QED BY <3>1, Names DEF SayStage, Sound, Lasts, Beam
  <2> QED BY <2>1, <2>2 DEF Stage
<1> HIDE DEF Status
<1> QED BY <1>1, <1>2, <1>3, <1>4, <1>5, <1>6, <1>7, <1>8, <1>9, <1>10 DEF StopStage

LEMMA StartGoesOn ==
  ASSUME TypeInv, view = hw, NEW t \in Thread, StepOf(t), StartStage(todo[t])
  PROVE  Fits(todo[t])'
<1>0. status = "ready"
  BY DEF StartStage
<1>1. CASE todo[t] = Start3 /\ ~hw.fire
  <2>1. Sets("qswitch", FALSE) /\ UNCHANGED <<status, view, timer>> /\ (Stage(Start2)' => Fits(todo[t])')
    BY <1>1, StartIs, WriteLeads, Names
  <2>2. StartStage(Start2)'
    BY <1>0, <1>1, <2>1 DEF Sets, StartStage
  <2> QED BY <2>1, <2>2 DEF Stage
<1>2. CASE todo[t] = Start2 /\ ~hw.fire /\ ~hw.qswitch
  <2>1. /\ UNCHANGED <<status, view, timer>>
        /\ \/ Sets("laser", TRUE) /\ (Stage(Start1)' => Fits(todo[t])')
           \/ hw' = hw /\ (Stage(<<>>)' => Fits(todo[t])')
    BY <1>2, StartIs, CommandLeads
  <2>2. StartStage(Start1)'
    BY <1>0, <1>2, <2>1 DEF Sets, StartStage
  <2>3. CASE hw' = hw
    <3>1. Rests'
      BY <1>0, <1>2, <2>1, <2>3 DEF Rests, Sound, Lasts, Beam
    <3> QED BY <2>1, <2>2, <3>1 DEF Stage
  <2> QED BY <2>1, <2>2, <2>3 DEF Stage
<1>3. CASE todo[t] = Start1 /\ ~hw.fire /\ ~hw.qswitch
  <2>1. /\ UNCHANGED <<status, view, hw, timer>>
        /\ \E l \in Answers("fired") : todo'[t] = l \o <<>>
        /\ \A l : todo'[t] = l /\ Stage(l)' => Fits(todo[t])'
    BY <1>3, StartIs, AskLeads
  <2>2. todo'[t] \in {Fire1, Fire2, Stop6}
    BY <2>1, AnswersAre
  <2>3. StartStage(Fire1)' /\ StartStage(Fire2)'
    BY <1>0, <1>3, <2>1 DEF StartStage
  <2>4. StopStage(Stop6)'
    BY <1>3, <2>1 DEF StopStage, BeamIsLasing, Beam
  <2> QED BY <2>1, <2>2, <2>3, <2>4 DEF Stage
<1>4. CASE todo[t] = Fire2 /\ ~hw.qswitch
  <2>1. Sets("shutter", TRUE) /\ UNCHANGED <<status, view, timer>> /\ (Stage(Fire1)' => Fits(todo[t])')
    BY <1>4, StartIs, WriteLeads, Names
  <2>2. StartStage(Fire1)'
    BY <1>0, <1>4, <2>1 DEF Sets, StartStage
  <2> QED BY <2>1, <2>2 DEF Stage
<1>5. CASE todo[t] = Fire1 /\ ~hw.qswitch
  <2>1. Sets("fire", TRUE) /\ UNCHANGED <<status, view, timer>> /\ (Stage(Saying("warmup"))' => Fits(todo[t])')
    BY <1>5, StartIs, WriteLeads, Names
  <2>2. SayStage(Saying("warmup"))'
    BY <1>0, <1>5, <2>1, Names DEF Sets, SayStage, Sound, Beam
  <2> QED BY <2>1, <2>2 DEF Stage
<1> QED BY <1>1, <1>2, <1>3, <1>4, <1>5 DEF StartStage

LEMMA ShutterGoesOn ==
  ASSUME TypeInv, view = hw, NEW t \in Thread, StepOf(t), ShutterStage(todo[t])
  PROVE  Fits(todo[t])'
<1>1. CASE todo[t] = Close2 /\ status # "pause"
  <2>1. Sets("shutter", TRUE) /\ UNCHANGED <<status, view, timer>> /\ (Stage(Close1)' => Fits(todo[t])')
    BY <1>1, ShutterIs, WriteLeads, Names
  <2>2. ShutterStage(Close1)'
    BY <1>1, <2>1 DEF Sets, ShutterStage
  <2> QED BY <2>1, <2>2 DEF Stage
<1>2. CASE todo[t] = Close1 /\ status # "pause" /\ hw.shutter
  <2> DEFINE s == IF view.fire THEN "pause" ELSE "ready"
  <2>1. /\ UNCHANGED <<status, view, hw, timer>>
        /\ \E l \in Answers("closed") : todo'[t] = l \o <<>>
        /\ \A l : todo'[t] = l /\ Stage(l)' => Fits(todo[t])'
    BY <1>2, ShutterIs, AskLeads
  <2>2. todo'[t] = Saying(s)
    BY <2>1, AnswersAre
  <2>3. CASE view.fire
    <3>1. SayStage(Saying("pause"))'
      BY <1>2, <2>1, Names DEF SayStage, Sound, Beam
    <3> QED BY <2>1, <2>2, <2>3, <3>1 DEF Stage
  <2>4. CASE ~view.fire
    <3>1. SayStage(Saying("ready"))'
      BY <1>2, <2>1, <2>4, Names DEF SayStage, Sound, Lasts, Beam
    <3> QED BY <2>1, <2>2, <2>4, <3>1 DEF Stage
  <2> QED BY <2>3, <2>4
<1>3. ASSUME NEW s \in {"ready", "standby", "lasing"}, todo[t] = Open(s), s = "ready" => ~hw.fire,
             s = "standby" => hw.laser /\ (s = status => Lasts)
      PROVE  Fits(todo[t])'
  <2>1. s \in Status
    BY Names
  <2>2. Sets("shutter", FALSE) /\ UNCHANGED <<status, view, timer>> /\ (Stage(Saying(s))' => Fits(todo[t])')
    BY <1>3, <2>1, ShutterIs, WriteLeads, Names
  <2>3. SayStage(Saying(s))'
    <3>1. Sound(s)'
      BY <1>3, <2>2 DEF Sets, Sound, Beam
    <3>2. s = status' => Lasts'
      BY <1>3, <2>2 DEF Lasts
    <3> HIDE DEF Status
    <3> QED BY <2>1, <3>1, <3>2 DEF SayStage
  <2> QED BY <2>2, <2>3 DEF Stage
<1> QED BY <1>1, <1>2, <1>3 DEF ShutterStage

LEMMA LaserGoesOn ==
  ASSUME TypeInv, view = hw, NEW t \in Thread, StepOf(t), LaserStage(todo[t])
  PROVE  Fits(todo[t])'
<1>1. CASE todo[t] = CloseLaser4 /\ (status = "standby" => Lasts)
  <2>1. Sets("qswitch", FALSE) /\ UNCHANGED <<status, view, timer>> /\ (Stage(CloseLaser3)' => Fits(todo[t])')
    BY <1>1, LaserIs, WriteLeads, Names
  <2>2. LaserStage(CloseLaser3)'
    BY <1>1, <2>1 DEF Sets, LaserStage, Lasts
  <2> QED BY <2>1, <2>2 DEF Stage
<1>2. CASE todo[t] = CloseLaser3 /\ ~hw.qswitch /\ (status = "standby" => Lasts)
  <2>1. /\ UNCHANGED <<status, view, timer>>
        /\ Sets("laser", TRUE) \/ hw' = hw
        /\ Stage(CloseLaser2)' => Fits(todo[t])'
    BY <1>2, LaserIs, CommandLeads
  <2>2. LaserStage(CloseLaser2)'
    BY <1>2, <2>1 DEF Sets, LaserStage, Lasts
  <2> QED BY <2>1, <2>2 DEF Stage
<1>3. CASE todo[t] = CloseLaser2 /\ ~hw.qswitch /\ (status = "standby" => Lasts)
  <2>1. Is(todo[t], Sy("standby"), CloseLaser1)
    BY <1>3, LaserIs
  <2>2. /\ status' = "standby" /\ UNCHANGED <<view, hw>>
        /\ ("standby" = "pause" => hw.shutter) /\ ("standby" = status => Lasts) => Lasts'
        /\ Stage(CloseLaser1)' => Fits(todo[t])'
    BY <2>1, SayLeads
  <2>3. LaserStage(CloseLaser1)'
    BY <1>3, <2>2 DEF LaserStage
  <2> QED BY <2>2, <2>3 DEF Stage
<1>4. CASE todo[t] = CloseLaser1 /\ ~hw.qswitch /\ status = "standby" /\ Lasts
  <2>1. /\ UNCHANGED <<status, view, hw, timer>>
        /\ \E l \in Answers("opened") : todo'[t] = l \o <<>>
        /\ \A l : todo'[t] = l /\ Stage(l)' => Fits(todo[t])'
    BY <1>4, LaserIs, AskLeads
  <2>2. todo'[t] \in {CloseLaser0, <<>>}
    BY <2>1, AnswersAre
  <2>3. LaserStage(CloseLaser0)'
    BY <1>4, <2>1 DEF LaserStage, Lasts
  <2>4. Rests'
    BY <1>4, <2>1 DEF Rests, Sound, Lasts, Beam
  <2> QED BY <2>1, <2>2, <2>3, <2>4 DEF Stage
<1>5. CASE todo[t] = CloseLaser0 /\ ~hw.qswitch /\ status = "standby" /\ Lasts
  <2>1. Sets("shutter", FALSE) /\ UNCHANGED <<status, view, timer>> /\ (Stage(<<>>)' => Fits(todo[t])')
    BY <1>5, LaserIs, WriteLeads, Names
  <2>2. Rests'
    BY <1>5, <2>1 DEF Sets, Rests, Sound, Lasts, Beam
  <2> QED BY <2>1, <2>2 DEF Stage
<1>6. ASSUME NEW s \in {"ready", "pause", "lasing"}, todo[t] = OpenLaser2(s),
             s = "ready" => ~hw.fire, s = "pause" => hw.shutter, s = status => Lasts
      PROVE  Fits(todo[t])'
  <2>1. s \in Status
    BY Names
  <2>2. /\ UNCHANGED <<status, view, timer>>
        /\ Sets("laser", FALSE) \/ hw' = hw
        /\ Stage(OpenLaser1(s))' => Fits(todo[t])'
    BY <1>6, <2>1, LaserIs, CommandLeads
  <2>3. LaserStage(OpenLaser1(s))'
    <3>1. (s = "ready" => ~hw'.fire) /\ (s = "pause" => hw'.shutter)
      BY <1>6, <2>2 DEF Sets
    <3>2. s = status' => Lasts'
      BY <1>6, <2>2 DEF Sets, Lasts
    <3> QED BY <3>1, <3>2 DEF LaserStage
  <2> QED BY <2>2, <2>3 DEF Stage
<1>7. ASSUME NEW s \in {"ready", "pause", "lasing"}, todo[t] = OpenLaser1(s),
             s = "ready" => ~hw.fire, s = "pause" => hw.shutter, s = status => Lasts
      PROVE  Fits(todo[t])'
  <2>1. s \in Status
    BY Names
  <2>2. Sets("qswitch", TRUE) /\ UNCHANGED <<status, view, timer>> /\ (Stage(Saying(s))' => Fits(todo[t])')
    BY <1>7, <2>1, LaserIs, WriteLeads, Names
  <2>3. SayStage(Saying(s))'
    <3>1. Sound(s)'
      BY <1>7, <2>2 DEF Sets, Sound, Beam
    <3>2. s = status' => Lasts'
      BY <1>7, <2>2 DEF Sets, Lasts
    <3> HIDE DEF Status
    <3> QED BY <2>1, <3>1, <3>2 DEF SayStage
  <2> QED BY <2>2, <2>3 DEF Stage
<1> QED BY <1>1, <1>2, <1>3, <1>4, <1>5, <1>6, <1>7 DEF LaserStage

LEMMA UpdateGoesOn ==
  ASSUME TypeInv, view = hw, NEW t \in Thread, StepOf(t), UpdateStage(todo[t])
  PROVE  Fits(todo[t])'
<1>0. Rests
  BY DEF UpdateStage
<1>1. CASE todo[t] = UpdateSays(status)
  <2>1. status \in Status
    BY DEF TypeInv
  <2>2. status' = status /\ UNCHANGED <<view, hw>> /\ Lasts' /\ (Stage(Update3)' => Fits(todo[t])')
    BY <1>0, <1>1, <2>1, UpdateIs, SayLeads DEF Rests, Sound
  <2>3. UpdateStage(Update3)'
    BY <1>0, <2>2 DEF UpdateStage, Rests, Sound, Beam
  <2> QED BY <2>2, <2>3 DEF Stage
<1>2. ASSUME UNCHANGED <<status, view, hw, timer>> PROVE Rests'
  BY <1>0, <1>2 DEF Rests, Sound, Lasts, Beam
<1>3. CASE todo[t] = Update4
  <2>1. /\ UNCHANGED <<status, view, hw, timer>>
        /\ \E l \in Answers("status") : todo'[t] = l \o Update3
        /\ \A l : todo'[t] = l /\ Stage(l)' => Fits(todo[t])'
    BY <1>3, UpdateIs, AskLeads
  <2>2. todo'[t] = UpdateSays(status)
    BY <2>1, AnswersAre DEF TypeInv
  <2>3. UpdateStage(UpdateSays(status))'
    BY <1>2, <2>1 DEF UpdateStage
  <2>4. UpdateSays(status)' = UpdateSays(status)
    BY <2>1
  <2> QED BY <2>1, <2>2, <2>3, <2>4 DEF Stage
<1>4. CASE todo[t] = Update3
  <2>1. UNCHANGED <<status, view, hw, timer>> /\ (Stage(Update2)' => Fits(todo[t])')
    BY <1>4, UpdateIs, ReadLeads, Names
  <2>2. UpdateStage(Update2)'
    BY <1>2, <2>1 DEF UpdateStage
  <2> QED BY <2>1, <2>2 DEF Stage
<1>5. CASE todo[t] = Update2
  <2>1. UNCHANGED <<status, view, hw, timer>> /\ (Stage(Update1)' => Fits(todo[t])')
    BY <1>5, UpdateIs, ReadLeads, Names
  <2>2. UpdateStage(Update1)'
    BY <1>2, <2>1 DEF UpdateStage
  <2> QED BY <2>1, <2>2 DEF Stage
<1>6. CASE todo[t] = Update1
  <2>1. UNCHANGED <<status, view, hw, timer>> /\ (Stage(<<>>)' => Fits(todo[t])')
    BY <1>6, UpdateIs, ReadLeads, Names
  <2> QED BY <1>2, <2>1 DEF Stage
<1> QED BY <1>1, <1>3, <1>4, <1>5, <1>6 DEF UpdateStage

\* Nothing that a handler still has to do is spoilt where timers give up on
\* states that are not the present one, or where the flags come to show the
\* registers.
LEMMA StageStays ==
  ASSUME NEW l, Stage(l), hw' = hw, status' = status, Lasts => Lasts'
  PROVE  Stage(l)'
<1>0. /\ Beam' <=> Beam
      /\ hw'.shutter <=> hw.shutter
      /\ hw'.laser <=> hw.laser
      /\ hw'.qswitch <=> hw.qswitch
      /\ hw'.fire <=> hw.fire
      /\ Rests => Rests'
      /\ BeamIsLasing => BeamIsLasing'
      /\ \A s : Sound(s) => Sound(s)'
  BY DEF Rests, Sound, Beam, BeamIsLasing
<1>1. CASE l = <<>> /\ Rests
  BY <1>0, <1>1 DEF Stage
<1>2. CASE SayStage(l)
  <2>1. SayStage(l)'
    BY <1>0, <1>2 DEF SayStage
  <2> QED BY <2>1 DEF Stage
<1>3. CASE PauseStage(l)
  <2>1. PauseStage(l)'
    BY <1>0, <1>3 DEF PauseStage
  <2> QED BY <2>1 DEF Stage
<1>4. CASE StandbyStage(l)
  <2>1. StandbyStage(l)'
    BY <1>0, <1>4 DEF StandbyStage
  <2> QED BY <2>1 DEF Stage
<1>5. CASE ResumeStage(l)
  <2>1. ResumeStage(l)'
    BY <1>0, <1>5 DEF ResumeStage
  <2> QED BY <2>1 DEF Stage
<1>6. CASE StopStage(l)
  <2>1. StopStage(l)'
    BY <1>0, <1>6 DEF StopStage
  <2> QED BY <2>1 DEF Stage
<1>7. CASE StartStage(l)
  <2>1. StartStage(l)'
    BY <1>0, <1>7 DEF StartStage
  <2> QED BY <2>1 DEF Stage
<1>8. CASE ShutterStage(l)
  <2>1. ShutterStage(l)'
    BY <1>0, <1>8 DEF ShutterStage
  <2> QED BY <2>1 DEF Stage
<1>9. CASE LaserStage(l)
  <2>1. LaserStage(l)'
    BY <1>0, <1>9 DEF LaserStage
  <2> QED BY <2>1 DEF Stage
<1>10. CASE UpdateStage(l)
  <2>1. UpdateStage(l)'
    BY <1>0, <1>10 DEF UpdateStage
  <2> QED BY <2>1 DEF Stage
<1> QED BY <1>1, <1>2, <1>3, <1>4, <1>5, <1>6, <1>7, <1>8, <1>9, <1>10 DEF Stage

LEMMA KeepGoesOn ==
  ASSUME TypeInv, NEW t \in Thread, StepOf(t), todo[t] # <<>>, todo[t][1] = <<"keep", hw>>, Stage(Tail(todo[t]))
  PROVE  Fits(todo[t])'
<1>1. Is(todo[t], <<"keep", hw>>, Rest(t))
  BY DEF TypeInv, Is, Rest
<1>2. <<"keep", hw>>[1] = "keep" /\ <<"keep", hw>>[2] = hw
  OBVIOUS
<1>3. Stores(t) /\ Step(t) = <<"keep", hw>>
  BY <1>1, <1>2, StepKinds
<1>4. view' = hw /\ Comes(t, Rest(t)) /\ UNCHANGED <<status, hw, timer>>
  BY <1>2, <1>3 DEF Stores
<1>5. Lasts => Lasts'
  BY <1>4 DEF Lasts
<1>6. Stage(Rest(t)) => \A l : l = Rest(t) => Stage(l)'
  BY <1>4, <1>5, StageStays
<1>7. todo'[t] = Rest(t)
  <2> HIDE DEF Order
  <2> QED BY <1>4 DEF Comes, TypeInv
<1>8. Stage(todo[t])'
  <2>1. PICK l : l = Rest(t)
    OBVIOUS
  <2>2. Stage(l)'
    BY <1>6, <2>1 DEF Rest
  <2> QED BY <1>7, <2>1, <2>2
<1> QED BY <1>4, <1>8 DEF Fits

LEMMA FitsGoesOn ==
  ASSUME TypeInv, NEW t \in Thread, StepOf(t), Fits(todo[t])
  PROVE  Fits(todo[t])'
<1>1. todo[t] # <<>>
  BY DEF StepOf, Writes, Reads, Stores, Commands, CommandThrows, Looks, Says, Does
<1> QED BY <1>1, SayGoesOn, PauseGoesOn, StandbyGoesOn, ResumeGoesOn, StopGoesOn, StartGoesOn,
           ShutterGoesOn, LaserGoesOn, UpdateGoesOn, KeepGoesOn DEF Fits, Stage

-----------------------------------------------------------------------------
(* A stop that runs alone, whatever there was before. *)

HealStage(l, v) ==
  \/ l \in {Stop6, StopCloses}
  \/ l \in {StopClosed, StopSays("pause"), StopSays("ready"), Stop5} /\ v.shutter
  \/ l = Stop4 /\ v.shutter /\ ~v.qswitch /\ ~hw.qswitch
  \/ l = Stop3 /\ v.shutter /\ ~v.qswitch /\ ~hw.qswitch /\ ~v.fire /\ ~hw.fire
  \/ /\ l = Stop2 \/ \E s \in Status : l = StopOpens(s)
     /\ v.shutter /\ ~v.qswitch /\ ~hw.qswitch /\ ~v.fire /\ ~hw.fire /\ (v.laser <=> hw.laser)
  \/ /\ l = Saying("ready") \/ \E s \in Status : l = StopOpened(s)
     /\ v = hw /\ ~hw.fire

HealFits(l) ==
  \/ HealStage(l, view)
  \/ l # <<>> /\ l[1][1] = "keep" /\ HealStage(Tail(l), l[1][2])

\* The flags with one that is to be kept.
Kept(v, f, on) ==
  /\ v.shutter <=> (f = "shutter" /\ on = TRUE) \/ (f # "shutter" /\ view.shutter)
  /\ v.laser <=> (f = "laser" /\ on = TRUE) \/ (f # "laser" /\ view.laser)
  /\ v.qswitch <=> (f = "qswitch" /\ on = TRUE) \/ (f # "qswitch" /\ view.qswitch)
  /\ v.fire <=> (f = "fire" /\ on = TRUE) \/ (f # "fire" /\ view.fire)

LEMMA SameFlags ==
  ASSUME NEW v \in Registers, NEW h \in Registers,
         v.shutter <=> h.shutter, v.laser <=> h.laser, v.qswitch <=> h.qswitch, v.fire <=> h.fire
  PROVE  v = h
<1>1. ASSUME NEW f \in Flag PROVE v[f] = h[f]
  <2>1. v[f] \in BOOLEAN /\ h[f] \in BOOLEAN
    BY DEF Registers
  <2>2. v[f] <=> h[f]
    BY DEF Flag
  <2> QED BY <2>1, <2>2
<1> QED BY <1>1 DEF Registers

LEMMA KeepComes ==
  ASSUME TypeInv, NEW t \in Thread, NEW r \in Seq(Order), NEW f \in Flag, NEW on \in BOOLEAN,
         Comes(t, Keep(f, on) \o r), view' = view
  PROVE  \E v \in Registers :
           /\ Kept(v, f, on)
           /\ HealStage(r, v)' => todo'[t] # <<>> /\ HealFits(todo[t])'
<1> DEFINE v == [view EXCEPT ![f] = on]
<1>1. v \in Registers /\ Kept(v, f, on)
  BY DEF TypeInv, Registers, Kept, Flag
<1>2. Keep(f, on) \o r = Then(<<"keep", v>>, r)
  BY DEF Keep, Then
<1> HIDE DEF v
<1>3. Is(Then(<<"keep", v>>, r), <<"keep", v>>, r)
  BY <1>1, Words, ThenIs
<1>4. todo'[t] = Then(<<"keep", v>>, r)
  <2> HIDE DEF Order
  <2> QED BY <1>2 DEF Comes, TypeInv
<1>5. todo'[t] # <<>> /\ todo'[t][1] = <<"keep", v>> /\ Tail(todo'[t]) = r
  BY <1>3, <1>4 DEF Is
<1>6. ASSUME NEW w, w = v, HealStage(r, w)' PROVE HealFits(todo[t])'
  <2>1. todo'[t][1][1] = "keep" /\ todo'[t][1][2] = w
    BY <1>5, <1>6
  <2> QED BY <1>5, <1>6, <2>1 DEF HealFits
<1>7. PICK w : w = v
  OBVIOUS
<1> QED BY <1>1, <1>5, <1>6, <1>7

LEMMA WriteHeals ==
  ASSUME TypeInv, NEW t \in Thread, StepOf(t),
         NEW f \in Flag, NEW on \in BOOLEAN, NEW r, Is(todo[t], Wr(f, on), r)
  PROVE  /\ Sets(f, on) /\ hw' \in Registers
         /\ \E v \in Registers :
              /\ Kept(v, f, on)
              /\ HealStage(r, v)' => todo'[t] # <<>> /\ HealFits(todo[t])'
<1>1. Wr(f, on)[1] = "write" /\ Wr(f, on)[2] = f /\ Wr(f, on)[3] = on
  BY DEF Wr
<1>2. Writes(t) /\ Step(t) = Wr(f, on) /\ Rest(t) = r /\ todo[t] # <<>>
  BY <1>1, StepKinds
<1>3. hw' = [hw EXCEPT ![f] = on] /\ Comes(t, Keep(f, on) \o r) /\ view' = view
  BY <1>1, <1>2 DEF Writes
<1>4. Sets(f, on) /\ hw' \in Registers
  BY <1>3, SetsOne DEF TypeInv
<1>5. r \in Seq(Order)
  BY <1>2, NowAndNext
<1> QED BY <1>3, <1>4, <1>5, KeepComes

LEMMA AskHeals ==
  ASSUME TypeInv, NEW t \in Thread, StepOf(t), NEW q, NEW r, Is(todo[t], Ak(q), r)
  PROVE  /\ UNCHANGED <<view, hw>>
         /\ \E l \in Answers(q) : todo'[t] = l \o r
<1>1. Ak(q)[1] = "ask" /\ Ak(q)[2] = q
  BY DEF Ak
<1>2. Looks(t) /\ Step(t) = Ak(q) /\ Rest(t) = r /\ todo[t] # <<>>
  BY <1>1, StepKinds
<1>3. PICK l \in Answers(q) : Comes(t, l \o r) /\ UNCHANGED <<view, hw>>
  BY <1>1, <1>2 DEF Looks
<1>4. todo'[t] = l \o r
  <2> HIDE DEF Order
  <2> QED BY <1>3 DEF Comes, TypeInv
<1> QED BY <1>3, <1>4

LEMMA SayHeals ==
  ASSUME TypeInv, NEW t \in Thread, StepOf(t), NEW s, NEW r, Is(todo[t], Sy(s), r)
  PROVE  status' = s /\ UNCHANGED <<view, hw>> /\ todo'[t] = r
<1>1. Sy(s)[1] = "say" /\ Sy(s)[2] = s
  BY DEF Sy
<1>2. Says(t) /\ Step(t) = Sy(s) /\ Rest(t) = r /\ todo[t] # <<>>
  BY <1>1, StepKinds
<1>3. status' = s /\ Comes(t, r) /\ UNCHANGED <<view, hw>>
  BY <1>1, <1>2 DEF Says
<1>4. todo'[t] = r
  <2> HIDE DEF Order
  <2> QED BY <1>3 DEF Comes, TypeInv
<1> QED BY <1>3, <1>4

\* It goes on healing, or the driver has thrown, or it has healed.
Healing(t) ==
  \/ todo'[t] # <<>> /\ (HealFits(todo[t])' \/ past'.healing = None)
  \/ todo'[t] = <<>> /\ view' = hw' /\ Rests'

LEMMA StopsAreLong ==
  /\ Stop6 # <<>> /\ Stop5 # <<>> /\ Stop4 # <<>> /\ Stop3 # <<>> /\ Stop2 # <<>>
  /\ StopCloses # <<>> /\ StopClosed # <<>>
  /\ \A s \in Status : StopSays(s) # <<>> /\ StopOpens(s) # <<>> /\ StopOpened(s) # <<>> /\ Saying(s) # <<>>
<1> HIDE DEF Status
<1> QED BY StopIs, StopShutterIs, SayingIs DEF Is

LEMMA HealGoesOn ==
  ASSUME TypeInv, NEW t \in Thread, StepOf(t), HealStage(todo[t], view)
  PROVE  Healing(t)
<1>0. view \in Registers /\ hw \in Registers
  BY DEF TypeInv
<1>1. CASE todo[t] = Stop6
  <2>1. UNCHANGED <<view, hw>> /\ \E l \in Answers("shut") : todo'[t] = l \o Stop5
    BY <1>1, StopIs, AskHeals
  <2>2. todo'[t] = IF Accepts("close") THEN StopCloses ELSE Stop5
    BY <2>1, AnswersAre
  <2>3. Accepts("close") <=> ~view.shutter
    BY DEF Accepts
  <2>4. HealStage(todo[t], view)'
    BY <2>1, <2>2, <2>3 DEF HealStage
  <2> QED BY <2>2, <2>4, StopsAreLong DEF Healing, HealFits
<1>2. CASE todo[t] = StopCloses
  <2>1. /\ Sets("shutter", TRUE)
        /\ \E v \in Registers : /\ Kept(v, "shutter", TRUE)
                                /\ HealStage(StopClosed, v)' => todo'[t] # <<>> /\ HealFits(todo[t])'
    BY <1>2, StopShutterIs, WriteHeals, Names
  <2>2. ASSUME NEW v \in Registers, Kept(v, "shutter", TRUE) PROVE HealStage(StopClosed, v)'
    BY <2>1, <2>2 DEF Kept, HealStage
  <2> QED BY <2>1, <2>2 DEF Healing
<1>3. CASE todo[t] = StopClosed /\ view.shutter
  <2>1. UNCHANGED <<view, hw>> /\ \E l \in Answers("closed") : todo'[t] = l \o Stop5
    BY <1>3, StopShutterIs, AskHeals
  <2>2. todo'[t] \in {StopSays("pause"), StopSays("ready")}
    BY <2>1, AnswersAre
  <2>3. HealStage(todo[t], view)'
    BY <1>3, <2>1, <2>2 DEF HealStage
  <2> QED BY <2>2, <2>3, StopsAreLong, Names DEF Healing, HealFits
<1>4. ASSUME NEW s \in {"pause", "ready"}, todo[t] = StopSays(s), view.shutter PROVE Healing(t)
  <2>1. UNCHANGED <<view, hw>> /\ todo'[t] = Stop5
    BY <1>4, StopShutterIs, SayHeals, Names
  <2>2. HealStage(todo[t], view)'
    BY <1>4, <2>1 DEF HealStage
  <2> QED BY <2>1, <2>2, StopsAreLong DEF Healing, HealFits
<1>5. CASE todo[t] = Stop5 /\ view.shutter
  <2>1. /\ Sets("qswitch", FALSE)
        /\ \E v \in Registers : /\ Kept(v, "qswitch", FALSE)
                                /\ HealStage(Stop4, v)' => todo'[t] # <<>> /\ HealFits(todo[t])'
    BY <1>5, StopIs, WriteHeals, Names
  <2>2. ASSUME NEW v \in Registers, Kept(v, "qswitch", FALSE) PROVE HealStage(Stop4, v)'
    BY <1>5, <2>1, <2>2 DEF Sets, Kept, HealStage
  <2> QED BY <2>1, <2>2 DEF Healing
<1>6. CASE todo[t] = Stop4 /\ view.shutter /\ ~view.qswitch /\ ~hw.qswitch
  <2>1. /\ Sets("fire", FALSE)
        /\ \E v \in Registers : /\ Kept(v, "fire", FALSE)
                                /\ HealStage(Stop3, v)' => todo'[t] # <<>> /\ HealFits(todo[t])'
    BY <1>6, StopIs, WriteHeals, Names
  <2>2. ASSUME NEW v \in Registers, Kept(v, "fire", FALSE) PROVE HealStage(Stop3, v)'
    BY <1>6, <2>1, <2>2 DEF Sets, Kept, HealStage
  <2> QED BY <2>1, <2>2 DEF Healing
<1>7. CASE todo[t] = Stop3 /\ view.shutter /\ ~view.qswitch /\ ~hw.qswitch /\ ~view.fire /\ ~hw.fire
  <2>1. /\ Cm(TRUE, "goes on")[1] = "command" /\ Cm(TRUE, "goes on")[2] = TRUE
        /\ Cm(TRUE, "goes on")[3] = "goes on"
    BY DEF Cm
  <2>2. /\ Commands(t) \/ CommandThrows(t)
        /\ Step(t) = Cm(TRUE, "goes on") /\ Rest(t) = Stop2 /\ todo[t] # <<>>
    BY <1>7, <2>1, StopIs, StepKinds
  <2>3. CASE Commands(t)
    <3>1. hw' = [hw EXCEPT !["laser"] = TRUE] /\ Comes(t, Keep("laser", TRUE) \o Stop2) /\ view' = view
      BY <2>1, <2>2, <2>3 DEF Commands
    <3>2. Sets("laser", TRUE)
      BY <1>0, <3>1, SetsOne, Names
    <3>3. \E v \in Registers : /\ Kept(v, "laser", TRUE)
                               /\ HealStage(Stop2, v)' => todo'[t] # <<>> /\ HealFits(todo[t])'
      BY <3>1, StopIs, KeepComes, Names DEF Is
    <3>4. ASSUME NEW v \in Registers, Kept(v, "laser", TRUE) PROVE HealStage(Stop2, v)'
      BY <1>7, <3>2, <3>4 DEF Sets, Kept, HealStage
    <3> QED BY <3>3, <3>4 DEF Healing
  <2>4. CASE CommandThrows(t)
    <3>1. todo' = [todo EXCEPT ![t] = Stop2]
      BY <2>1, <2>2, <2>4 DEF CommandThrows
    <3>2. todo'[t] = Stop2
      <4> HIDE DEF Order
      <4> QED BY <3>1 DEF TypeInv
    <3>3. past'.healing = None
      <4>1. PICK l : past' = [IF l = <<>> THEN Ended(t) ELSE past EXCEPT !.healing = None]
        BY <2>4 DEF CommandThrows
      <4>2. Ended(t) \in Past /\ past \in Past
        BY EndedType DEF TypeInv
      <4> QED BY <4>1, <4>2 DEF Past
    <3> QED BY <3>2, <3>3, StopsAreLong DEF Healing
  <2> QED BY <2>2, <2>3, <2>4
<1>8. CASE todo[t] = Stop2 /\ view.shutter /\ ~view.qswitch /\ ~hw.qswitch /\ ~view.fire /\ ~hw.fire
             /\ (view.laser <=> hw.laser)
  <2>1. UNCHANGED <<view, hw>> /\ \E l \in Answers("reopened") : todo'[t] = l \o Saying("ready")
    BY <1>8, StopIs, AskHeals
  <2>2. Accepts("open") /\ Opened \in Status
    BY <1>8, Names DEF Accepts, Opened
  <2>3. todo'[t] = StopOpens(Opened)
    BY <2>1, <2>2, AnswersAre
  <2>4. PICK s \in Status : todo'[t] = StopOpens(s)
    BY <2>2, <2>3
  <2>5. HealStage(todo[t], view)'
    <3> HIDE DEF Status
    <3> QED BY <1>8, <2>1, <2>4 DEF HealStage
  <2> HIDE DEF Status
  <2> QED BY <2>4, <2>5, StopsAreLong DEF Healing, HealFits
<1>9. ASSUME NEW s \in Status, todo[t] = StopOpens(s), ~view.qswitch, ~hw.qswitch, ~view.fire, ~hw.fire,
             view.laser <=> hw.laser
      PROVE  Healing(t)
  <2> HIDE DEF Status
  <2>1. /\ Sets("shutter", FALSE) /\ hw' \in Registers
        /\ \E v \in Registers : /\ Kept(v, "shutter", FALSE)
                                /\ HealStage(StopOpened(s), v)' => todo'[t] # <<>> /\ HealFits(todo[t])'
    BY <1>9, StopShutterIs, WriteHeals, Names
  <2>2. ASSUME NEW v \in Registers, Kept(v, "shutter", FALSE) PROVE HealStage(StopOpened(s), v)'
    <3>1. /\ v.shutter <=> hw'.shutter
          /\ v.laser <=> hw'.laser
          /\ v.qswitch <=> hw'.qswitch
          /\ v.fire <=> hw'.fire
          /\ ~hw'.fire
      BY <1>9, <2>1, <2>2 DEF Sets, Kept
    <3>2. v = hw'
      BY <2>1, <3>1, SameFlags
    <3> QED BY <3>1, <3>2 DEF HealStage
  <2> QED BY <2>1, <2>2 DEF Healing
<1>10. ASSUME NEW s \in Status, todo[t] = StopOpened(s), view = hw, ~hw.fire PROVE Healing(t)
  <2> HIDE DEF Status
  <2>1. UNCHANGED <<view, hw>> /\ todo'[t] = Saying("ready")
    BY <1>10, StopShutterIs, SayHeals
  <2>2. HealStage(todo[t], view)'
    BY <1>10, <2>1 DEF HealStage
  <2> QED BY <2>1, <2>2, StopsAreLong, Names DEF Healing, HealFits
<1>11. CASE todo[t] = Saying("ready") /\ view = hw /\ ~hw.fire
  <2>1. status' = "ready" /\ UNCHANGED <<view, hw>> /\ todo'[t] = <<>>
    BY <1>11, SayingIs, SayHeals, Names
  <2>2. Rests'
    BY <1>11, <2>1 DEF Rests, Sound, Lasts, Beam
  <2> QED BY <1>11, <2>1, <2>2 DEF Healing
<1> HIDE DEF Status
<1> QED BY <1>1, <1>2, <1>3, <1>4, <1>5, <1>6, <1>7, <1>8, <1>9, <1>10, <1>11 DEF HealStage

LEMMA HealIsLong ==
  ASSUME NEW l, NEW v, HealStage(l, v)
  PROVE  l # <<>>
<1> HIDE DEF Status
<1> QED BY StopsAreLong, Names DEF HealStage

LEMMA HealKeeps ==
  ASSUME TypeInv, NEW t \in Thread, StepOf(t), HealFits(todo[t])
  PROVE  Healing(t)
<1>1. CASE HealStage(todo[t], view)
  BY <1>1, HealGoesOn
<1>2. CASE todo[t] # <<>> /\ todo[t][1][1] = "keep" /\ HealStage(Tail(todo[t]), todo[t][1][2])
  <2>1. Is(todo[t], Step(t), Rest(t)) /\ Step(t)[1] = "keep"
    BY <1>2 DEF TypeInv, Is, Step, Rest
  <2>2. Stores(t)
    BY <2>1, StepKinds
  <2>3. view' = todo[t][1][2] /\ Comes(t, Tail(todo[t])) /\ hw' = hw
    BY <2>2 DEF Stores, Step, Rest
  <2>4. todo'[t] = Tail(todo[t])
    <3> HIDE DEF Order
    <3> QED BY <2>3 DEF Comes, TypeInv
  <2>5. HealStage(todo[t], view)'
    BY <1>2, <2>3, <2>4 DEF HealStage
  <2>6. todo'[t] # <<>>
    BY <1>2, <2>4, HealIsLong
  <2> QED BY <2>5, <2>6 DEF Healing, HealFits
<1> QED BY <1>1, <1>2 DEF HealFits

-----------------------------------------------------------------------------
(* Handlers that run one at a time, since the start or since a stop that       *)
(* healed.                                                                      *)

Alone ==
  past.met = 0 =>
    /\ \A t, u \in Busy : t = u
    /\ Calm => view = hw /\ Rests
    /\ \A t \in Busy : Fits(todo[t])

Heals ==
  past.healing # None => Busy = {past.healing} /\ HealFits(todo[past.healing])

AloneInv == RaceInv /\ Alone /\ Heals

\* Handlers that have something left to do say so.
LEMMA NothingLeft ==
  ASSUME TypeInv, Fits(<<>>)
  PROVE  view = hw /\ Rests
<1> HIDE DEF Status
<1>1. /\ \A s \in Status : <<>> # Saying(s) /\ <<>> # StopSays(s) /\ <<>> # StopOpens(s) /\ <<>> # StopOpened(s)
      /\ \A s \in Status : <<>> # Open(s) /\ <<>> # OpenLaser2(s) /\ <<>> # OpenLaser1(s) /\ <<>> # UpdateSays(s)
  BY SayingIs, StopShutterIs, ShutterIs, LaserIs, UpdateIs DEF Is
<1>2. ~SayStage(<<>>)
  BY <1>1 DEF SayStage
<1>3. ~PauseStage(<<>>) /\ ~StandbyStage(<<>>) /\ ~ResumeStage(<<>>)
  BY PauseIs, StandbyIs, ResumeIs DEF Is, PauseStage, StandbyStage, ResumeStage
<1>4. ~StopStage(<<>>)
  BY <1>1, StopIs, StopShutterIs, Names DEF Is, StopStage
<1>5. ~StartStage(<<>>)
  BY StartIs DEF Is, StartStage
<1>6. ~ShutterStage(<<>>) /\ ~LaserStage(<<>>)
  <2>1. {"ready", "standby", "lasing", "pause"} \subseteq Status
    BY Names
  <2> QED BY <1>1, <2>1, ShutterIs, LaserIs DEF Is, ShutterStage, LaserStage
<1>7. ~UpdateStage(<<>>)
  <2>1. status \in Status
    BY DEF TypeInv
  <2> QED BY <1>1, <2>1, UpdateIs DEF Is, UpdateStage
<1> QED BY <1>2, <1>3, <1>4, <1>5, <1>6, <1>7 DEF Fits, Stage

\* The other threads stay where they are; the count starts again only with the
\* end of the stop that heals.
LEMMA StepHistory ==
  ASSUME TypeInv, NEW t \in Thread, StepOf(t)
  PROVE  /\ todo[t] # <<>>
         /\ \A u \in Thread : u # t => todo'[u] = todo[u]
         /\ past'.met = past.met \/ (past.healing = t /\ todo'[t] = <<>>)
         /\ past'.healing = past.healing \/ past'.healing = None
         /\ todo'[t] = <<>> /\ past.healing = t => past'.healing = None
<1>0. todo[t] # <<>>
  BY DEF StepOf, Writes, Reads, Stores, Commands, CommandThrows, Looks, Says, Does
<1>1. /\ past \in Past /\ Ended(t) \in Past
      /\ Ended(t).met = past.met \/ past.healing = t
      /\ Ended(t).healing = IF past.healing = t THEN None ELSE past.healing
  BY EndedType DEF TypeInv, Ended
<1>2. \A p \in Past : LET q == [p EXCEPT !.healing = None] IN q.met = p.met /\ q.healing = None
  BY DEF Past
<1>3. PICK l : /\ todo' = [todo EXCEPT ![t] = l]
               /\ \/ past' = IF l = <<>> THEN Ended(t) ELSE past
                  \/ past' = [IF l = <<>> THEN Ended(t) ELSE past EXCEPT !.healing = None]
  BY DEF StepOf, Writes, Reads, Stores, Commands, CommandThrows, Looks, Says, Comes
<1>4. todo'[t] = l /\ \A u \in Thread : u # t => todo'[u] = todo[u]
  <2> HIDE DEF Order
  <2> QED BY <1>3 DEF TypeInv
<1> DEFINE p == IF l = <<>> THEN Ended(t) ELSE past
<1>5. /\ p \in Past
      /\ p.met = past.met \/ (past.healing = t /\ l = <<>>)
      /\ p.healing = past.healing \/ p.healing = None
      /\ l = <<>> /\ past.healing = t => p.healing = None
  BY <1>1
<1>6. past' = p \/ past' = [p EXCEPT !.healing = None]
  BY <1>3
<1> HIDE DEF p
<1>7. /\ past'.met = p.met
      /\ past'.healing = p.healing \/ past'.healing = None
  BY <1>2, <1>5, <1>6
<1> QED BY <1>0, <1>4, <1>5, <1>7

LEMMA NoneIsNoThread == None \notin Thread
BY NoneIsNoTimer DEF None, Thread, Slot

LEMMA StepAlone ==
  ASSUME TypeInv, TypeInv', Alone, Heals, NEW t \in Thread, StepOf(t)
  PROVE  Alone' /\ Heals'
<1>1. /\ todo[t] # <<>>
      /\ \A u \in Thread : u # t => todo'[u] = todo[u]
      /\ past'.met = past.met \/ (past.healing = t /\ todo'[t] = <<>>)
      /\ past'.healing = past.healing \/ past'.healing = None
      /\ todo'[t] = <<>> /\ past.healing = t => past'.healing = None
  BY StepHistory
<1>2. t \in Busy
  BY <1>1 DEF Busy
<1>3. ASSUME past.met = 0, past'.met = 0 PROVE Alone'
  <2>1. \A u \in Thread : u # t => todo'[u] = <<>>
    BY <1>1, <1>2, <1>3 DEF Alone, Busy
  <2>2. Fits(todo[t])'
    BY <1>2, <1>3, FitsGoesOn DEF Alone
  <2>3. todo'[t] = <<>> => view' = hw' /\ Rests'
    <3>1. (Fits(<<>>) => view = hw /\ Rests)'
      BY NothingLeft, PTL
    <3> QED BY <2>2, <3>1
  <2> QED BY <2>1, <2>2, <2>3 DEF Alone, Busy, Calm
<1>4. past.healing # None => past.healing = t /\ Healing(t)
  <2> SUFFICES ASSUME past.healing # None PROVE past.healing = t /\ Healing(t)
    OBVIOUS
  <2>1. past.healing = t
    BY <1>2 DEF Heals
  <2> QED BY <2>1, HealKeeps DEF Heals
<1>5. ASSUME past.met # 0, past'.met = 0 PROVE Alone'
  <2>1. past.healing = t /\ todo'[t] = <<>>
    BY <1>1, <1>5
  <2>2. Busy = {t} /\ view' = hw' /\ Rests'
    BY <1>4, <2>1, NoneIsNoThread DEF Heals, Healing
  <2>3. \A u \in Thread : todo'[u] = <<>>
    BY <1>1, <2>1, <2>2 DEF Busy
  <2> QED BY <2>2, <2>3 DEF Alone, Busy, Calm
<1>6. Alone'
  BY <1>3, <1>5 DEF Alone
<1>7. ASSUME past'.healing # None PROVE Heals'
  <2>1. past'.healing = past.healing /\ past.healing = t /\ Busy = {t} /\ todo'[t] # <<>>
    BY <1>1, <1>4, <1>7 DEF Heals
  <2>2. HealFits(todo[t])'
    BY <1>4, <1>7, <2>1 DEF Healing
  <2>3. Busy' = {t}
    BY <1>1, <2>1 DEF Busy
  <2> QED BY <2>1, <2>2, <2>3 DEF Heals
<1> QED BY <1>6, <1>7 DEF Heals

\* A handler that begins where none runs.
LEMMA BeginFits ==
  ASSUME TypeInv, view = hw, Rests, NEW c \in Call, Accepts(c), NEW t \in Thread, todo'[t] = Steps(c),
         UNCHANGED <<status, view, hw>>, c \notin {"standby", "stop", "warm"} => Lasts'
  PROVE  Fits(todo[t])'
<1>0. /\ Beam' <=> Beam
      /\ BeamIsLasing /\ BeamIsLasing'
      /\ c \notin {"standby", "stop", "warm"} => Rests'
      /\ \A l : todo'[t] = l /\ Stage(l)' => Fits(todo[t])'
  BY DEF Rests, Sound, BeamIsLasing, Beam, Fits
<1>1. CASE c = "pause"
  <2>1. PauseStage(Pause3)'
    BY <1>0, <1>1 DEF PauseStage, Accepts
  <2> QED BY <1>0, <1>1, <2>1, StepsAre DEF Stage
<1>2. CASE c = "standby"
  <2>1. StandbyStage(Standby4)'
    BY <1>0, <1>2 DEF StandbyStage, Accepts
  <2> QED BY <1>0, <1>2, <2>1, StepsAre DEF Stage
<1>3. CASE c = "resume"
  <2>1. ResumeStage(Resume3)'
    BY <1>0, <1>3 DEF ResumeStage, Accepts
  <2> QED BY <1>0, <1>3, <2>1, StepsAre DEF Stage
<1>4. CASE c = "stop"
  <2>1. StopStage(Stop6)'
    BY <1>0 DEF StopStage
  <2> QED BY <1>0, <1>4, <2>1, StepsAre DEF Stage
<1>5. CASE c = "start"
  <2>1. status = "ready" /\ ~hw.fire
    BY <1>5 DEF Accepts, Rests, Sound
  <2>2. StartStage(Start3)'
    BY <2>1 DEF StartStage
  <2> QED BY <1>0, <1>5, <2>2, StepsAre DEF Stage
<1>6. CASE c = "warm"
  <2>1. status = "warmup"
    BY <1>6 DEF Accepts
  <2>2. SayStage(Saying("standby"))'
    BY <1>0, <2>1, Names DEF SayStage, Sound, BeamIsLasing
  <2> QED BY <1>0, <1>6, <2>2, StepsAre DEF Stage
<1>7. CASE c = "close"
  <2>1. status # "pause"
    BY <1>7 DEF Accepts, Rests, Lasts
  <2>2. ShutterStage(Close2)'
    BY <1>0, <2>1 DEF ShutterStage
  <2> QED BY <1>0, <1>7, <2>2, StepsAre DEF Stage
<1>8. CASE c = "open"
  <2>1. PICK s \in {"ready", "standby", "lasing"} :
          s = Opened /\ (s = "ready" => ~hw.fire) /\ (s = "standby" => hw.laser)
    BY DEF Opened
  <2>2. ShutterStage(Open(s))'
    BY <1>0, <1>8, <2>1 DEF ShutterStage, Rests
  <2>3. todo'[t] = Open(s)
    BY <1>8, <2>1, StepsAre
  <2> QED BY <1>0, <2>2, <2>3 DEF Stage
<1>9. CASE c = "closeLaser"
  <2>1. LaserStage(CloseLaser4)'
    BY <1>0, <1>9 DEF LaserStage, Rests
  <2> QED BY <1>0, <1>9, <2>1, StepsAre DEF Stage
<1>10. CASE c = "openLaser"
  <2>1. PICK s \in {"ready", "pause", "lasing"} :
          s = LaserOpened /\ (s = "ready" => ~hw.fire) /\ (s = "pause" => hw.shutter)
    BY DEF LaserOpened
  <2>2. LaserStage(OpenLaser2(s))'
    BY <1>0, <1>10, <2>1 DEF LaserStage, Rests
  <2>3. todo'[t] = OpenLaser2(s)
    BY <1>10, <2>1, StepsAre
  <2> QED BY <1>0, <2>2, <2>3 DEF Stage
<1>11. CASE c = "update"
  <2>1. UpdateStage(Update4)'
    BY <1>0, <1>11 DEF UpdateStage
  <2> QED BY <1>0, <1>11, <2>1, StepsAre DEF Stage
<1> QED BY <1>1, <1>2, <1>3, <1>4, <1>5, <1>6, <1>7, <1>8, <1>9, <1>10, <1>11 DEF Call, ClientCalls

LEMMA BeginAlone ==
  ASSUME TypeInv, Alone, NEW t \in Thread, NEW c \in Call, Begin(t, c),
         Rests /\ c \notin {"standby", "stop", "warm"} => Lasts'
  PROVE  Alone' /\ Heals'
<1>1. /\ todo' = [todo EXCEPT ![t] = Steps(c)] /\ past' = Begun(t, c)
      /\ UNCHANGED <<status, view, hw>> /\ Accepts(c)
  BY DEF Begin
<1>2. /\ past'.met = (IF Calm THEN past.met ELSE past.met + 1)
      /\ past'.healing = IF Calm /\ c = "stop" THEN t ELSE None
  BY <1>1 DEF Begun
<1>3. todo'[t] = Steps(c) /\ Steps(c) # <<>> /\ \A u \in Thread : u # t => todo'[u] = todo[u]
  <2> HIDE DEF Order
  <2> QED BY <1>1, StepsType DEF TypeInv
<1>4. CASE ~Calm
  <2>1. past'.met # 0 /\ past'.healing = None
    BY <1>2, <1>4 DEF TypeInv, Past
  <2> QED BY <2>1 DEF Alone, Heals
<1>5. CASE Calm
  <2>1. Busy' = {t}
    BY <1>3, <1>5 DEF Calm, Busy
  <2>2. past'.met = 0 => Fits(todo[t])'
    BY <1>1, <1>2, <1>3, <1>5, BeginFits DEF Alone
  <2>3. Alone'
    BY <2>1, <2>2 DEF Alone, Calm
  <2>4. c = "stop" => HealFits(todo[t])'
    <3>1. c = "stop" => todo'[t] = Stop6
      BY <1>3, StepsAre
    <3> QED BY <3>1 DEF HealFits, HealStage
  <2>5. Heals'
    BY <1>2, <1>5, <2>1, <2>4 DEF Heals
  <2> QED BY <2>3, <2>5
<1> QED BY <1>4, <1>5

LEMMA TimersAlone ==
  ASSUME Alone, Heals, UNCHANGED <<status, view, hw, todo, past>>, Lasts => Lasts'
  PROVE  Alone' /\ Heals'
<1>1. Busy' = Busy /\ (Calm' <=> Calm) /\ (Rests => Rests')
  BY DEF Busy, Calm, Rests, Sound, Beam
<1>2. ASSUME NEW l, Fits(l) PROVE Fits(l)'
  <2>1. CASE view = hw /\ Stage(l)
    <3>1. Stage(l)'
      BY <2>1, StageStays
    <3> QED BY <2>1, <3>1 DEF Fits
  <2>2. CASE l # <<>> /\ l[1] = <<"keep", hw>> /\ Stage(Tail(l))
    <3>1. Stage(Tail(l))'
      BY <2>2, StageStays
    <3> QED BY <2>2, <3>1 DEF Fits
  <2> QED BY <1>2, <2>1, <2>2 DEF Fits
<1>3. ASSUME NEW t, Fits(todo[t]) PROVE Fits(todo[t])'
  <2>1. PICK l : l = todo[t]
    OBVIOUS
  <2>2. Fits(l)'
    BY <1>2, <1>3, <2>1
  <2>3. todo'[t] = l
    BY <2>1
  <2> QED BY <2>2, <2>3
<1>4. Alone'
  BY <1>1, <1>3 DEF Alone
<1>5. Heals'
  BY <1>1 DEF Heals, HealFits, HealStage
<1> QED BY <1>4, <1>5

LEMMA AloneKeeps == AloneInv /\ [Next]_vars => AloneInv'
<1> SUFFICES ASSUME AloneInv, [Next]_vars PROVE AloneInv'
  OBVIOUS
<1>0. RaceInv' /\ TypeInv' /\ TypeInv /\ TimersWait /\ Alone /\ Heals
  BY NextKeeps DEF AloneInv, RaceInv
<1>1. ASSUME NEW t \in Thread, StepOf(t) PROVE Alone' /\ Heals'
  BY <1>0, <1>1, StepAlone
<1>2. ASSUME NEW t \in Thread, CallBegins(t) PROVE Alone' /\ Heals'
  <2>1. PICK c \in Calls(t) : Begin(t, c)
    BY <1>2 DEF CallBegins
  <2>2. t \in {"server", "task", "main"} /\ timer' = timer /\ UNCHANGED <<status, view, hw>>
    BY <1>2, <2>1 DEF CallBegins, Thread, Begin
  <2>3. c \in Call
    BY <2>1, <2>2, ServerCallsAssumption DEF Calls, Call, ClientCalls
  <2>4. Rests => Lasts'
    BY <2>2 DEF Rests, Lasts
  <2> QED BY <1>0, <2>1, <2>3, <2>4, BeginAlone
<1>3. ASSUME NEW t \in Slot, NEW v, timer' = [timer EXCEPT ![t] = v], UNCHANGED <<status, view, hw>>,
             v # None \/ Kind(t) # status
      PROVE  Lasts => Lasts'
  <2>1. timer'[t] = v /\ \A u \in Slot : u # t => timer'[u] = timer[u]
    BY <1>0, <1>3 DEF TypeInv
  <2> QED BY <1>3, <2>1 DEF Lasts
<1>4. ASSUME NEW t \in Slot, TimerGivesUp(t) PROVE Alone' /\ Heals'
  <2>1. Lasts => Kind(t) # status
    BY <1>4 DEF TimerGivesUp, KeepsWaiting, Lasts
  <2>2. Lasts => Lasts'
    BY <1>3, <1>4, <2>1 DEF TimerGivesUp
  <2> QED BY <1>0, <1>4, <2>2, TimersAlone DEF TimerGivesUp
<1>5. ASSUME NEW t \in Slot, TimerLastPoll(t) PROVE Alone' /\ Heals'
  <2>1. Lasts => Lasts'
    BY <1>3, <1>5 DEF TimerLastPoll, None
  <2> QED BY <1>0, <1>5, <2>1, TimersAlone DEF TimerLastPoll
<1>6. ASSUME NEW t \in Slot, TimerActs(t) PROVE Alone' /\ Heals'
  <2>1. TimerCalls(t) \in Call /\ TimerCalls(t) \in {"standby", "stop", "warm"} /\ t \in Thread
    BY DEF TimerCalls, Call, ClientCalls, Thread
  <2>2. CASE Begin(t, TimerCalls(t))
    BY <1>0, <2>1, <2>2, BeginAlone
  <2>3. CASE ~Accepts(TimerCalls(t)) /\ UNCHANGED <<status, view, hw, todo, past>>
    <3>1. Kind(t) # status
      BY <2>3 DEF TimerCalls, Accepts, Kind
    <3>2. Lasts => Lasts'
      BY <1>3, <1>6, <2>3, <3>1 DEF TimerActs
    <3> QED BY <1>0, <2>3, <3>2, TimersAlone
  <2> QED BY <1>6, <2>2, <2>3 DEF TimerActs
<1>7. ASSUME UNCHANGED vars PROVE Alone' /\ Heals'
  <2>1. Lasts => Lasts'
    BY <1>7 DEF vars, Lasts
  <2> QED BY <1>0, <1>7, <2>1, TimersAlone DEF vars
<1> QED BY <1>0, <1>1, <1>2, <1>4, <1>5, <1>6, <1>7 DEF Next, StepOf, AloneInv

LEMMA InitAlone == Init => AloneInv
<1> SUFFICES ASSUME Init PROVE AloneInv
  OBVIOUS
<1>1. Calm
  BY DEF Init, Busy, Calm
<1>2. Rests /\ view = hw
  BY DEF Init, Rests, Sound, Lasts, Beam, Flag
<1>3. Alone /\ Heals
  BY <1>1, <1>2 DEF Init, Alone, Heals, Calm
<1> QED BY <1>3, InitHolds DEF AloneInv

-----------------------------------------------------------------------------
(* Light. *)

Announces(l) == <<"say", "lasing">> \in {l[i] : i \in DOMAIN l}

LEMMA AnnouncedFirst ==
  ASSUME NEW l, NEW r, Is(l, Sy("lasing"), r)
  PROVE  Announces(l)
<1>1. 1 \in DOMAIN l /\ l[1] = <<"say", "lasing">>
  BY DEF Is, Sy
<1> QED BY <1>1 DEF Announces

LEMMA AnnouncedLater ==
  ASSUME NEW l \in Seq(Order), l # <<>>, Announces(Tail(l))
  PROVE  Announces(l)
<1> HIDE DEF Order
<1>1. PICK i \in DOMAIN Tail(l) : Tail(l)[i] = <<"say", "lasing">>
  BY DEF Announces
<1>2. i + 1 \in DOMAIN l /\ l[i + 1] = Tail(l)[i]
  BY HeadTailProperties
<1> QED BY <1>1, <1>2 DEF Announces

\* Where a handler lets light out it is to say so.
LEMMA LightInStage ==
  ASSUME TypeInv, NEW l, Stage(l), Beam, status # "lasing"
  PROVE  Announces(l)
<1>0. /\ hw.fire /\ hw.qswitch /\ ~hw.shutter /\ ~hw.laser /\ ~BeamIsLasing /\ ~Rests
      /\ \A s : Sound(s) => s = "lasing"
  BY DEF Beam, BeamIsLasing, Rests, Sound
<1>1. Announces(Saying("lasing"))
  BY SayingIs, AnnouncedFirst, Names
<1>2. \A x, r : Is(l, x, r) /\ Announces(r) => Announces(l)
  BY AnnouncedLater DEF Is
<1>3. CASE SayStage(l)
  BY <1>0, <1>1, <1>3 DEF SayStage
<1>4. CASE ResumeStage(l)
  <2>1. l = Resume2
    BY <1>0, <1>4 DEF ResumeStage
  <2> QED BY <1>1, <1>2, <2>1, ResumeIs
<1>5. CASE LaserStage(l)
  <2>1. l \in {OpenLaser2("lasing"), OpenLaser1("lasing")}
    BY <1>0, <1>5 DEF LaserStage
  <2>2. l = OpenLaser1("lasing") => Announces(l)
    BY <1>1, <1>2, LaserIs, Names
  <2>3. Announces(OpenLaser1("lasing"))
    <3>1. Is(OpenLaser1("lasing"), Wr("qswitch", TRUE), Saying("lasing"))
      BY LaserIs, Names
    <3> QED BY <1>1, <3>1, AnnouncedLater DEF Is
  <2>4. Is(OpenLaser2("lasing"), Cm(FALSE, "goes on"), OpenLaser1("lasing"))
    BY LaserIs, Names
  <2> QED BY <1>2, <2>1, <2>2, <2>3, <2>4
<1> QED BY <1>0, <1>3, <1>4, <1>5
        DEF Stage, PauseStage, StandbyStage, StopStage, StartStage, ShutterStage, UpdateStage

LEMMA LightIsKnown == AloneInv => LightIsAnnounced
<1> SUFFICES ASSUME AloneInv, past.met = 0, Beam, status # "lasing"
             PROVE  \E t \in Busy : Announces(todo[t])
  BY DEF LightIsAnnounced, Announces
<1>1. TypeInv /\ Alone
  BY DEF AloneInv, RaceInv
<1>2. ~Calm
  BY <1>1 DEF Alone, Rests, Sound
<1>3. PICK t \in Busy : todo[t] # <<>> /\ todo[t] \in Seq(Order)
  <2> HIDE DEF Order
  <2> QED BY <1>1, <1>2 DEF Calm, Busy, TypeInv
<1>4. Fits(todo[t])
  BY <1>1 DEF Alone
<1>5. CASE Stage(todo[t])
  BY <1>1, <1>5, LightInStage
<1>6. CASE Stage(Tail(todo[t]))
  <2>1. Announces(Tail(todo[t]))
    BY <1>1, <1>6, LightInStage
  <2> QED BY <1>3, <2>1, AnnouncedLater
<1> QED BY <1>4, <1>5, <1>6 DEF Fits

-----------------------------------------------------------------------------

\* Handlers that have run one at a time, since the start of the server or since
\* the last stop that ran alone, leave flags that show the registers and a status
\* that fits them, for any timer threads, whatever the serial line refuses and
\* whatever those before may have left.
THEOREM AloneIsSoundAlways == Spec => []AloneIsSound
<1>1. AloneInv => AloneIsSound
  BY DEF AloneInv, Alone, AloneIsSound, Rests, Sound
<1> QED BY <1>1, InitAlone, AloneKeeps, PTL DEF Spec

\* Such a handler lets light out only under the status lasing, or with the step
\* that says so still to come.
THEOREM LightIsAnnouncedAlways == Spec => []LightIsAnnounced
BY LightIsKnown, InitAlone, AloneKeeps, PTL DEF Spec

\* Such a handler leaves a state that must not last with a timer thread that
\* polls or has had its last poll.
THEOREM WaitsAreTimedAlways == Spec => []WaitsAreTimed
<1>1. AloneInv => WaitsAreTimed
  BY DEF AloneInv, Alone, WaitsAreTimed, Rests, Lasts
<1> QED BY <1>1, InitAlone, AloneKeeps, PTL DEF Spec
================================================================================
