--------------------------- MODULE PowerMeterProofs ---------------------------
(* The driver object and the reading threads of the power meter, for any      *)
(* number of threads and of stops.                                            *)
EXTENDS PowerMeter, FiniteSetTheorems, TLAPS

(* What carries the induction: what each step that is left of a method finds, *)
(* that the object is there in every state but sOffline, and that a thread    *)
(* past its look at the state counts as late in every state but sOperating.   *)

Flags == /\ m_do <=> m_status = "operating"
         /\ m_status # "offline" => m_pm

Steps ==
  /\ Called => (m_pm <=> m_status # "offline")
  /\ ~Called /\ Head(server) = "reset" => m_status = "ready"
  /\ ~Called /\ Head(server) = "delete" => m_status = "offline"
  /\ ~Called /\ Head(server) \in Again => m_status = "offline" /\ ~m_pm

LateCovers == m_status # "operating" => Measuring \subseteq late

IInv == TypeOK /\ Flags /\ Steps /\ LateCovers /\ ReadersBounded

-----------------------------------------------------------------------------
(* What is left of a method, and how many threads there are. *)

LEMMA StepsLeft ==
  ASSUME NEW s \in Remaining, s # <<>>
  PROVE  /\ Head(s) \in Again \cup {"reset", "delete"}
         /\ Head(s) = "reset"  => Tail(s) \in Remaining /\ Tail(s) # <<>> /\ Head(Tail(s)) = "delete"
         /\ Head(s) = "delete" => Tail(s) \in Remaining /\ (Tail(s) = <<>> \/ Head(Tail(s)) \in Again)
<1>1. CASE s = <<"delete">>
  <2>1. Head(s) = "delete" /\ Tail(s) = <<>> BY <1>1
  <2>2. <<>> \in Remaining BY DEF Remaining
  <2> QED BY <2>1, <2>2
<1>2. CASE \E again \in Again : s = <<again>>
  <2>1. PICK again \in Again : s = <<again>> BY <1>2
  <2>2. Head(s) = again BY <2>1
  <2> QED BY <2>2 DEF Again
<1>3. CASE \E again \in Again : s = <<"delete", again>>
  <2>1. PICK again \in Again : s = <<"delete", again>> BY <1>3
  <2>2. Head(s) = "delete" /\ Tail(s) = <<again>> BY <2>1
  <2>3. <<again>> \in Remaining BY DEF Remaining
  <2>4. Head(<<again>>) = again OBVIOUS
  <2> QED BY <2>2, <2>3, <2>4
<1>4. CASE \E again \in Again : s = <<"reset", "delete", again>>
  <2>1. PICK again \in Again : s = <<"reset", "delete", again>> BY <1>4
  <2>2. Head(s) = "reset" /\ Tail(s) = <<"delete", again>> BY <2>1
  <2>3. <<"delete", again>> \in Remaining BY DEF Remaining
  <2>4. Head(<<"delete", again>>) = "delete" /\ <<"delete", again>> # <<>> OBVIOUS
  <2> QED BY <2>2, <2>3, <2>4
<1> QED BY <1>1, <1>2, <1>3, <1>4 DEF Remaining

LEMMA StepsBegun ==
  /\ <<>> \in Remaining /\ <<"delete">> \in Remaining /\ <<"delete">> # <<>> /\ Head(<<"delete">>) = "delete"
  /\ \A again \in Again : /\ <<"reset", "delete", again>> \in Remaining
                          /\ <<"reset", "delete", again>> # <<>>
                          /\ Head(<<"reset", "delete", again>>) = "reset"
  /\ "delete" \notin Again /\ "reset" \notin Again
  BY DEF Remaining, Again

LEMMA FewThreads ==
  IsFiniteSet(Alive) /\ Cardinality(Alive) \in Nat
<1>1. IsFiniteSet(Alive)
  BY MeterAssumption, FS_Subset DEF Alive
<1> QED BY <1>1, FS_CardinalityType

-----------------------------------------------------------------------------
(* Pieces of the methods. *)

\* Clearing the flag: the threads stay, and those that measure are late.
LEMMA LowerKeeps ==
  ASSUME IInv, NEW s \in {"ready", "offline"}, Lower(s), reader' = reader
  PROVE  /\ m_status' = s /\ ~m_do'
         /\ late' \in SUBSET Readers /\ stops' \in 0 .. MaxStops
         /\ LateCovers' /\ ReadersBounded'
<1> USE DEF IInv, TypeOK, Lower
<1>1. stops' \in 0 .. MaxStops
  BY MeterAssumption
<1>2. late' \in SUBSET Readers
  BY DEF Measuring
<1>3. LateCovers'
  BY DEF LateCovers, Measuring
<1>4. ReadersBounded'
  <2>1. Alive' = Alive BY DEF Alive
  <2> QED BY <2>1, FewThreads, MeterAssumption DEF ReadersBounded
<1> QED BY <1>1, <1>2, <1>3, <1>4

\* One thread more, and the flag is set.
LEMMA StartKeeps ==
  ASSUME IInv, Start, UNCHANGED <<late, stops>>, m_do \/ m_status # "operating"
  PROVE  /\ reader' \in [Readers -> Places]
         /\ m_status' = "operating" /\ m_do'
         /\ ReadersBounded'
<1> USE DEF IInv, TypeOK, Start
<1>1. CASE m_do
  <2>1. UNCHANGED <<m_status, m_do, reader>> /\ m_status = "operating" BY <1>1 DEF Flags
  <2>2. Alive' = Alive BY <2>1 DEF Alive
  <2> QED BY <1>1, <2>1, <2>2 DEF ReadersBounded
<1>2. CASE ~m_do
  <2>1. PICK r \in Readers : /\ reader[r].at = "gone"
                             /\ reader' = [reader EXCEPT ![r].at = "loop"]
    BY <1>2
  <2>2. m_status' = "operating" /\ m_do' = TRUE BY <1>2
  <2>3. reader' \in [Readers -> Places] /\ reader'[r].at = "loop"
    BY <2>1 DEF Places
  <2>4. Alive' = Alive \cup {r} /\ r \notin Alive
    BY <2>1, <2>3 DEF Alive
  <2>5. Cardinality(Alive') = Cardinality(Alive) + 1
    BY <2>4, FewThreads, FS_AddElement
  <2> QED BY <1>2, <2>2, <2>3, <2>5, FewThreads, MeterAssumption DEF ReadersBounded
<1> QED BY <1>1, <1>2

\* The object is built and readings start, or it is built and they do not, or
\* an exception leaves the rest to terminate.
LEMMA BuildKeeps ==
  ASSUME IInv, m_status = "offline", NEW start \in BOOLEAN, Build(start),
         UNCHANGED <<late, stops>>
  PROVE  IInv'
<1> USE DEF IInv, Build
<1>0. ~m_do BY DEF Flags
<1>1. ASSUME m_pm' = TRUE, server' = <<>>, StayReady PROVE IInv'
  <2>1. TypeOK' BY <1>1, StepsBegun DEF TypeOK, StayReady
  <2>2. Alive' = Alive /\ Measuring' = Measuring BY <1>1 DEF StayReady, Alive, Measuring
  <2>3. ReadersBounded' /\ LateCovers' BY <1>1, <2>2 DEF StayReady, ReadersBounded, LateCovers
  <2>4. Flags' /\ Steps' BY <1>0, <1>1 DEF StayReady, Flags, Steps, Called
  <2> QED BY <2>1, <2>3, <2>4
<1>2. ASSUME m_pm' = TRUE, server' = <<>>, Start PROVE IInv'
  <2>1. /\ reader' \in [Readers -> Places]
        /\ m_status' = "operating" /\ m_do'
        /\ ReadersBounded'
    BY <1>0, <1>2, StartKeeps
  <2>2. m_do' = TRUE BY <1>0, <1>2 DEF Start
  <2>3. TypeOK' BY <1>2, <2>1, <2>2, StepsBegun DEF TypeOK
  <2>4. Flags' /\ Steps' /\ LateCovers' BY <1>2, <2>1, <2>2 DEF Flags, Steps, LateCovers, Called
  <2> QED BY <2>1, <2>3, <2>4
<1>3. ASSUME m_pm' \in {m_pm, TRUE}, server' = <<"delete">>, UNCHANGED <<m_status, m_do, reader>>
      PROVE  IInv'
  <2>1. TypeOK' BY <1>3, StepsBegun DEF TypeOK
  <2>2. Alive' = Alive /\ Measuring' = Measuring BY <1>3 DEF Alive, Measuring
  <2>3. ReadersBounded' /\ LateCovers' BY <1>3, <2>2 DEF ReadersBounded, LateCovers
  <2>4. Flags' BY <1>3 DEF Flags
  <2>5. Steps' BY <1>3, StepsBegun DEF Steps, Called
  <2> QED BY <2>1, <2>3, <2>4, <2>5
<1> QED BY <1>1, <1>2, <1>3

\* A step that leaves the threads alone.
LEMMA ThreadsAlone ==
  ASSUME IInv, UNCHANGED <<m_do, reader, late, stops>>,
         m_status' = m_status \/ ({m_status, m_status'} \subseteq {"ready", "offline"})
  PROVE  ReadersBounded' /\ LateCovers'
<1>1. Alive' = Alive /\ Measuring' = Measuring BY DEF Alive, Measuring
<1> QED BY <1>1 DEF IInv, ReadersBounded, LateCovers

-----------------------------------------------------------------------------
(* The methods. *)

LEMMA RefusedKeeps ==
  ASSUME IInv, Refused, UNCHANGED <<late, stops>>, Called \/ Head(server) \in Again
  PROVE  IInv'
<1> USE DEF IInv, Refused
<1>1. TypeOK' BY StepsBegun DEF TypeOK
<1>2. Flags' BY DEF Flags
<1>3. Steps' BY DEF Steps, Called
<1> QED BY <1>1, <1>2, <1>3, ThreadsAlone

LEMMA BuildMethods ==
  ASSUME IInv, CallInit \/ CallConfig \/ Reinit
  PROVE  IInv'
<1>1. CASE CallInit
  BY <1>1, RefusedKeeps, BuildKeeps DEF CallInit
<1>2. CASE CallConfig
  BY <1>2, RefusedKeeps, BuildKeeps DEF CallConfig
<1>3. CASE Reinit
  <2>1. m_status = "offline"
    BY <1>3 DEF Reinit, IInv, Steps, Called
  <2>2. (Head(server) = "init and start") \in BOOLEAN
    OBVIOUS
  <2>3. CASE Refused
    BY <1>3, <2>3, RefusedKeeps DEF Reinit
  <2>4. CASE Build(Head(server) = "init and start")
    BY <1>3, <2>1, <2>2, <2>4, BuildKeeps DEF Reinit
  <2> QED BY <1>3, <2>3, <2>4 DEF Reinit
<1> QED BY <1>1, <1>2, <1>3

LEMMA StartMethod ==
  ASSUME IInv, CallStart_measurements
  PROVE  IInv'
<1> USE DEF IInv, CallStart_measurements
<1>1. /\ reader' \in [Readers -> Places]
      /\ m_status' = "operating" /\ m_do'
      /\ ReadersBounded'
  BY StartKeeps DEF Flags
<1>2. m_do' = TRUE /\ UNCHANGED <<m_pm, server, late, stops>> /\ m_pm
  BY DEF Start, Flags, TypeOK
<1>3. TypeOK' BY <1>1, <1>2 DEF TypeOK
<1>4. Flags' /\ Steps' /\ LateCovers'
  BY <1>1, <1>2 DEF Flags, Steps, LateCovers, Called
<1> QED BY <1>1, <1>3, <1>4

LEMMA LowerMethods ==
  ASSUME IInv, CallStop_measurements \/ CallTerminate \/ CallReset
  PROVE  IInv'
<1> USE DEF IInv
<1>1. CASE CallStop_measurements
  <2>1. /\ m_status' = "ready" /\ ~m_do'
        /\ late' \in SUBSET Readers /\ stops' \in 0 .. MaxStops
        /\ LateCovers' /\ ReadersBounded'
    BY <1>1, LowerKeeps DEF CallStop_measurements
  <2>2. TypeOK' BY <1>1, <2>1 DEF TypeOK, CallStop_measurements, Lower
  <2>3. Flags' /\ Steps' BY <1>1, <2>1 DEF Flags, Steps, CallStop_measurements, Called
  <2> QED BY <2>1, <2>2, <2>3
<1>2. CASE CallTerminate
  <2>1. /\ m_status' = "offline" /\ ~m_do'
        /\ late' \in SUBSET Readers /\ stops' \in 0 .. MaxStops
        /\ LateCovers' /\ ReadersBounded'
    BY <1>2, LowerKeeps DEF CallTerminate
  <2>2. TypeOK' BY <1>2, <2>1, StepsBegun DEF TypeOK, CallTerminate, Lower
  <2>3. Flags' /\ Steps' BY <1>2, <2>1, StepsBegun DEF Flags, Steps, CallTerminate, Called
  <2> QED BY <2>1, <2>2, <2>3
<1>3. CASE CallReset
  <2>1. /\ m_status' = "ready" /\ ~m_do'
        /\ late' \in SUBSET Readers /\ stops' \in 0 .. MaxStops
        /\ LateCovers' /\ ReadersBounded'
    BY <1>3, LowerKeeps DEF CallReset
  <2>2. /\ server' \in Remaining /\ server' # <<>> /\ Head(server') = "reset"
        /\ "reset" \notin Again
    BY <1>3, StepsBegun DEF CallReset
  <2>3. TypeOK' BY <1>3, <2>1, <2>2 DEF TypeOK, CallReset, Lower
  <2>4. Flags' /\ Steps' BY <1>3, <2>1, <2>2 DEF Flags, Steps, CallReset, Called
  <2> QED BY <2>1, <2>3, <2>4
<1> QED BY <1>1, <1>2, <1>3

LEMMA StepMethods ==
  ASSUME IInv, ResetMeter \/ Delete
  PROVE  IInv'
<1> USE DEF IInv
<1>1. CASE ResetMeter
  <2>1. /\ m_status = "ready" /\ m_status' = "offline"
        /\ UNCHANGED <<m_pm, m_do, reader, late, stops>>
        /\ server' = Tail(server)
    BY <1>1 DEF ResetMeter, Steps, Called
  <2>2. server' \in Remaining /\ server' # <<>> /\ Head(server') = "delete" /\ "delete" \notin Again
    BY <1>1, <2>1, StepsLeft, StepsBegun DEF ResetMeter, TypeOK
  <2>3. TypeOK' BY <2>1, <2>2 DEF TypeOK
  <2>4. Flags' BY <2>1 DEF Flags
  <2>5. Steps' BY <2>1, <2>2 DEF Steps, Called
  <2> QED BY <2>1, <2>3, <2>4, <2>5, ThreadsAlone
<1>2. CASE Delete
  <2>1. /\ m_status = "offline" /\ m_pm' = FALSE
        /\ UNCHANGED <<m_status, m_do, reader, late, stops>>
        /\ server' = Tail(server)
    BY <1>2 DEF Delete, Steps, Called
  <2>2. /\ server' \in Remaining /\ (server' = <<>> \/ Head(server') \in Again)
        /\ "delete" \notin Again /\ "reset" \notin Again
    BY <1>2, <2>1, StepsLeft, StepsBegun DEF Delete, TypeOK
  <2>3. TypeOK' BY <2>1, <2>2 DEF TypeOK
  <2>4. Flags' BY <2>1 DEF Flags
  <2>5. Steps' BY <2>1, <2>2 DEF Steps, Called
  <2> QED BY <2>1, <2>3, <2>4, <2>5, ThreadsAlone
<1> QED BY <1>1, <1>2

-----------------------------------------------------------------------------
(* The reading threads. *)

LEMMA AfterPlace == ASSUME IInv, NEW r \in Readers
                    PROVE  After(r) \in Places /\ After(r).at \in {"look", "asleep"}
  BY DEF After, Places, Reading

\* A turn that does not end a thread keeps the count of them.
LEMMA SameThreads ==
  ASSUME IInv, NEW r \in Readers, NEW p \in Places, p.at # "gone", reader[r].at # "gone",
         reader' = [reader EXCEPT ![r] = p]
  PROVE  /\ reader' \in [Readers -> Places]
         /\ Alive' = Alive
         /\ \A q \in Readers \ {r} : reader'[q] = reader[q]
         /\ reader'[r] = p
  BY DEF IInv, TypeOK, Alive

LEMMA LoopTurns ==
  ASSUME IInv, NEW r \in Readers, Loop(r)
  PROVE  IInv'
<1> USE DEF IInv, Loop, Moves
<1>1. CASE m_do
  <2> DEFINE p == [at |-> "look", what |-> "energy"]
  <2>1. p \in Places /\ reader' = [reader EXCEPT ![r] = p]
    BY <1>1 DEF Places, Reading
  <2>2. /\ reader' \in [Readers -> Places]
        /\ Alive' = Alive
        /\ \A q \in Readers \ {r} : reader'[q] = reader[q]
        /\ reader'[r] = p
    BY <2>1, SameThreads
  <2>3. Alive # {} /\ stops' = stops
    BY <2>2 DEF Alive
  <2>4. TypeOK' BY <2>2, <2>3 DEF TypeOK
  <2>5. Flags' /\ Steps' BY DEF Flags, Steps, Called
  <2>6. LateCovers' BY <2>2 DEF LateCovers, Measuring
  <2>7. ReadersBounded' BY <2>2, <2>3 DEF ReadersBounded
  <2> QED BY <2>4, <2>5, <2>6, <2>7
<1>2. CASE ~m_do
  <2>1. reader' = [reader EXCEPT ![r] = Gone] /\ Gone \in Places /\ Gone.at = "gone"
    BY <1>2 DEF Gone, Places, Reading
  <2>2. reader' \in [Readers -> Places] /\ reader'[r].at = "gone"
        /\ \A q \in Readers \ {r} : reader'[q] = reader[q]
    BY <2>1 DEF TypeOK
  <2>3. Alive' = Alive \ {r} /\ r \in Alive
    BY <2>2 DEF Alive
  <2>4. Cardinality(Alive') = Cardinality(Alive) - 1 /\ Cardinality(Alive) \in Nat
    BY <2>3, FewThreads, FS_RemoveElement
  <2>5. Alive' = {} => Cardinality(Alive') = 0
    BY FS_EmptySet
  <2>6. stops' \in 0 .. MaxStops
    BY MeterAssumption DEF TypeOK
  <2>7. TypeOK' BY <2>2, <2>6 DEF TypeOK
  <2>8. Flags' /\ Steps' BY DEF Flags, Steps, Called
  <2>9. LateCovers' BY <2>2 DEF LateCovers, Measuring
  <2>10. ReadersBounded'
    BY <1>2, <2>4, <2>5, MeterAssumption DEF ReadersBounded, TypeOK
  <2> QED BY <2>7, <2>8, <2>9, <2>10
<1> QED BY <1>1, <1>2

LEMMA OtherTurns ==
  ASSUME IInv, NEW r \in Readers, Look(r) \/ Enter(r) \/ Leave(r) \/ Wake(r) \/ Survive(r)
  PROVE  IInv'
<1> USE DEF IInv, Moves
<1>1. PICK p \in Places :
        /\ p.at # "gone" /\ reader[r].at # "gone"
        /\ reader' = [reader EXCEPT ![r] = p]
        /\ p.at \in {"lock", "inside"} =>
             m_status = "operating" \/ (reader[r].at = "lock" /\ late' = late)
  <2>1. CASE Look(r)
    <3>1. reader[r] \in Places /\ reader[r].at = "look" BY <2>1 DEF Look, TypeOK
    <3>2. CASE m_status = "operating"
      <4>1. [reader[r] EXCEPT !.at = "lock"] \in Places
            /\ [reader[r] EXCEPT !.at = "lock"].at = "lock"
        BY <3>1 DEF Places
      <4> QED BY <2>1, <3>1, <3>2, <4>1 DEF Look
    <3>3. CASE m_status # "operating"
      <4>1. After(r) \in Places /\ After(r).at \notin {"gone", "lock", "inside"}
        BY AfterPlace
      <4> QED BY <2>1, <3>1, <3>3, <4>1 DEF Look
    <3> QED BY <3>2, <3>3
  <2>2. CASE Enter(r)
    <3>1. reader[r] \in Places /\ reader[r].at = "lock" BY <2>2 DEF Enter, TypeOK
    <3>2. [reader[r] EXCEPT !.at = "inside"] \in Places
          /\ [reader[r] EXCEPT !.at = "inside"].at = "inside"
      BY <3>1 DEF Places
    <3>3. late' = late BY <2>2 DEF Enter
    <3> QED BY <2>2, <3>1, <3>2, <3>3 DEF Enter
  <2>3. CASE Leave(r)
    BY <2>3, AfterPlace DEF Leave
  <2>4. CASE Wake(r)
    <3>1. [at |-> "loop", what |-> "energy"] \in Places BY DEF Places, Reading
    <3> QED BY <2>4, <3>1 DEF Wake
  <2>5. CASE Survive(r)
    BY <2>5, AfterPlace DEF Survive
  <2> QED BY <2>1, <2>2, <2>3, <2>4, <2>5
<1>2. /\ UNCHANGED <<m_status, m_pm, m_do, server, stops>>
      /\ late' = late \/ late' = late \ {r}
  BY DEF Look, Enter, Leave, Wake, Survive
<1>3. /\ reader' \in [Readers -> Places]
      /\ Alive' = Alive
      /\ \A q \in Readers \ {r} : reader'[q] = reader[q]
      /\ reader'[r] = p
  BY <1>1, SameThreads
<1>4. TypeOK' BY <1>2, <1>3 DEF TypeOK
<1>5. Flags' /\ Steps' BY <1>2 DEF Flags, Steps, Called
<1>6. LateCovers' BY <1>1, <1>2, <1>3 DEF LateCovers, Measuring
<1>7. ReadersBounded' BY <1>2, <1>3 DEF ReadersBounded
<1> QED BY <1>4, <1>5, <1>6, <1>7

-----------------------------------------------------------------------------

\* The initial values, of the server's start and of its restart.
LEMMA Fresh ==
  /\ Init => IInv
  /\ Crash => IInv'
<1>1. Init => IInv
  <2> SUFFICES ASSUME Init PROVE IInv
    OBVIOUS
  <2>1. Gone \in Places BY DEF Gone, Places, Reading
  <2>2. TypeOK
    <3>1. reader \in [Readers -> Places] BY <2>1 DEF Init
    <3>2. stops \in 0 .. MaxStops BY MeterAssumption DEF Init
    <3>3. server \in Remaining BY DEF Init, Remaining
    <3> QED BY <3>1, <3>2, <3>3 DEF Init, TypeOK
  <2>3. Alive = {} /\ Measuring = {} BY DEF Init, Alive, Measuring, Gone
  <2>4. ReadersBounded BY <2>3, FS_EmptySet DEF Init, ReadersBounded
  <2> QED BY <2>2, <2>3, <2>4 DEF Init, IInv, Flags, Steps, LateCovers, Called
<1>2. Crash => IInv'
  <2> SUFFICES ASSUME Crash PROVE IInv'
    OBVIOUS
  <2>1. Gone \in Places BY DEF Gone, Places, Reading
  <2>2. TypeOK'
    <3>1. reader' \in [Readers -> Places] BY <2>1 DEF Crash
    <3>2. stops' \in 0 .. MaxStops BY MeterAssumption DEF Crash
    <3>3. server' \in Remaining BY DEF Crash, Remaining
    <3> QED BY <3>1, <3>2, <3>3 DEF Crash, TypeOK
  <2>3. Alive' = {} /\ Measuring' = {} BY DEF Crash, Alive, Measuring, Gone
  <2>4. ReadersBounded' BY <2>3, FS_EmptySet DEF Crash, ReadersBounded
  <2> QED BY <2>2, <2>3, <2>4 DEF Crash, IInv, Flags, Steps, LateCovers, Called
<1> QED BY <1>1, <1>2

LEMMA Inductive == IInv /\ [Next]_vars => IInv'
<1> SUFFICES ASSUME IInv, [Next]_vars PROVE IInv'
  OBVIOUS
<1>1. CASE Method
  BY <1>1, BuildMethods, StartMethod, LowerMethods, StepMethods DEF Method
<1>2. CASE \E r \in Readers : Turn(r)
  BY <1>2, LoopTurns, OtherTurns DEF Turn
<1>3. CASE Crash
  BY <1>3, Fresh
<1>4. CASE UNCHANGED vars
  BY <1>4 DEF vars, IInv, TypeOK, Flags, Steps, LateCovers, ReadersBounded, Called, Alive, Measuring
<1> QED BY <1>1, <1>2, <1>3, <1>4 DEF Next

LEMMA MeterInvariant == Spec => []IInv
<1>1. Init => IInv BY Fresh
<1>2. IInv /\ [Next]_vars => IInv' BY Inductive
<1> QED BY <1>1, <1>2, PTL DEF Spec

-----------------------------------------------------------------------------
(* The theorems. *)

\* Type correctness, and what may be left of a method.
THEOREM MeterTyping == Spec => []TypeOK
<1>1. IInv => TypeOK BY DEF IInv
<1> QED BY <1>1, MeterInvariant, PTL

\* Only a reading begun before the readings were stopped meets no object.
THEOREM DriverIsLive == Spec => []ReadersUseLiveDriver
<1>1. IInv => ReadersUseLiveDriver
  BY DEF IInv, Flags, LateCovers, ReadersUseLiveDriver
<1> QED BY <1>1, MeterInvariant, PTL

\* No failure of a method leaves an object behind that set_conn refuses on.
THEOREM NoDriverLeftBehind == Spec => []DriverFollowsStatus
<1>1. IInv => DriverFollowsStatus BY DEF IInv, Steps, DriverFollowsStatus
<1> QED BY <1>1, MeterInvariant, PTL

\* The reading threads are counted by the stops they have not seen the end of.
THEOREM ThreadsAreCounted == Spec => []ReadersBounded
<1>1. IInv => ReadersBounded BY DEF IInv
<1> QED BY <1>1, MeterInvariant, PTL
==============================================================================
