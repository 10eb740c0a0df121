--------------------------- MODULE ThreadPoolProofs ---------------------------
(* The queue of the thread pool, for any number of workers, producers and jobs. *)
EXTENDS ThreadPool, SequenceTheorems, TLAPS

-----------------------------------------------------------------------------
(* A fact about sequences. *)

\* The first of a queue moved to the end of what was taken.
LEMMA HeadMoves ==
  ASSUME NEW S, NEW s \in Seq(S), NEW q \in Seq(S), q # <<>>
  PROVE  Append(s, Head(q)) \o Tail(q) = s \o q
<1> DEFINE l == Append(s, Head(q)) \o Tail(q)
<1>1. Head(q) \in S /\ Tail(q) \in Seq(S) /\ Len(q) \in Nat /\ Len(s) \in Nat
  BY HeadTailProperties, LenProperties
<1>2. /\ Len(Tail(q)) = Len(q) - 1
      /\ \A i \in 1 .. Len(q) - 1 : Tail(q)[i] = q[i + 1]
  BY HeadTailProperties
<1>3. /\ Append(s, Head(q)) \in Seq(S)
      /\ Len(Append(s, Head(q))) = Len(s) + 1
      /\ \A i \in 1 .. Len(s) : Append(s, Head(q))[i] = s[i]
      /\ Append(s, Head(q))[Len(s) + 1] = q[1]
  BY <1>1
<1>4. /\ l \in Seq(S)
      /\ Len(l) = Len(s) + 1 + (Len(q) - 1)
      /\ \A i \in 1 .. Len(s) + 1 + (Len(q) - 1) :
           l[i] = IF i <= Len(s) + 1 THEN Append(s, Head(q))[i] ELSE Tail(q)[i - (Len(s) + 1)]
  BY <1>1, <1>2, <1>3, ConcatProperties
<1>5. /\ s \o q \in Seq(S)
      /\ Len(s \o q) = Len(s) + Len(q)
      /\ \A i \in 1 .. Len(s) + Len(q) : (s \o q)[i] = IF i <= Len(s) THEN s[i] ELSE q[i - Len(s)]
  BY ConcatProperties
<1>6. Len(q) # 0
  BY EmptySeq
<1>7. ASSUME NEW i \in 1 .. Len(l) PROVE l[i] = (s \o q)[i]
  <2>1. i \in Nat /\ i >= 1 /\ i <= Len(s) + Len(q)
    BY <1>1, <1>4, <1>7
  <2>2. CASE i <= Len(s)
    BY <2>1, <2>2, <1>1, <1>3, <1>4, <1>5
  <2>3. CASE i = Len(s) + 1
    <3>1. l[i] = q[1] BY <2>1, <2>3, <1>1, <1>3, <1>4
    <3>2. (s \o q)[i] = q[1] BY <2>1, <2>3, <1>1, <1>5
    <3> QED BY <3>1, <3>2
  <2>4. CASE i > Len(s) + 1
    <3>1. l[i] = Tail(q)[i - (Len(s) + 1)] BY <2>1, <2>4, <1>1, <1>4
    <3>2. i - (Len(s) + 1) \in 1 .. Len(q) - 1 /\ (i - (Len(s) + 1)) + 1 = i - Len(s)
      BY <2>1, <2>4, <1>1
    <3>3. Tail(q)[i - (Len(s) + 1)] = q[i - Len(s)] BY <1>2, <3>2
    <3>4. (s \o q)[i] = q[i - Len(s)] BY <2>1, <2>4, <1>1, <1>5
    <3> QED BY <3>1, <3>3, <3>4
  <2> QED BY <2>1, <2>2, <2>3, <2>4, <1>1
<1>8. Len(l) = Len(s \o q)
  BY <1>1, <1>4, <1>5, <1>6
<1> QED BY <1>4, <1>5, <1>7, <1>8, SeqEqual

-----------------------------------------------------------------------------
(* The inductive invariant.  A worker ends only after the flag is up, so that  *)
(* none of a living pool has ended when a producer finds nobody asleep; and    *)
(* the destructor takes jobs only when no worker is left to take any, so that  *)
(* what workers took comes before what it took.                                *)

QuitWithOwner == m_quit <=> owner # "alive"

EndedAfterQuit == \A w \in Workers : worker[w] = "ended" => m_quit

FlushAfterJoin ==
  /\ owner \in {"flush", "gone"} => \A w \in Workers : worker[w] = "ended"
  /\ flushed # <<>> => owner \in {"flush", "gone"}

IInv ==
  /\ TypeOK
  /\ QuitWithOwner
  /\ EndedAfterQuit
  /\ FlushAfterJoin
  /\ TakenInOrder
  /\ NoLostWakeUp

LEMMA InitEstablishes == Init => IInv
<1> SUFFICES ASSUME Init PROVE IInv
  OBVIOUS
<1>1. TypeOK
  <2>1. <<>> \in Seq(Jobs) /\ Len(<<>>) <= MaxJobs
    BY PoolAssumption
  <2> QED BY <2>1 DEF Init, TypeOK
<1>2. TakenInOrder
  <2>1. <<>> \in Seq(Jobs) OBVIOUS
  <2>2. <<>> \o <<>> \o <<>> = <<>> BY <2>1, ConcatEmptySeq
  <2> QED BY <2>2 DEF Init, TakenInOrder
<1> QED
  BY <1>1, <1>2 DEF Init, IInv, QuitWithOwner, EndedAfterQuit, FlushAfterJoin, NoLostWakeUp, Empty

\* A worker's step outside the lock, or into sleep.
LEMMA WorkerMoves ==
  ASSUME IInv, NEW w \in Workers, Look(w) \/ Sleep(w) \/ Execute(w) \/ Spurious(w)
  PROVE  IInv'
<1> USE DEF IInv, Moves, Look, Sleep, Execute, Spurious
<1>1. TypeOK'
  BY DEF TypeOK
<1>2. QuitWithOwner'
  BY DEF QuitWithOwner
<1>3. TakenInOrder'
  BY DEF TakenInOrder
<1>4. EndedAfterQuit'
  BY DEF EndedAfterQuit, TypeOK
<1>5. FlushAfterJoin'
  BY DEF FlushAfterJoin, TypeOK
<1>6. NoLostWakeUp'
  BY DEF NoLostWakeUp, Empty, TypeOK
<1> QED BY <1>1, <1>2, <1>3, <1>4, <1>5, <1>6

LEMMA PopMoves ==
  ASSUME IInv, NEW w \in Workers, Pop(w)
  PROVE  IInv'
<1> USE DEF IInv, Moves, Pop, Empty
<1>1. Head(m_pendingJobs) \in Jobs /\ Tail(m_pendingJobs) \in Seq(Jobs)
      /\ Len(Tail(m_pendingJobs)) = Len(m_pendingJobs) - 1
  BY HeadTailProperties DEF TypeOK
<1>2. TypeOK'
  BY <1>1, PoolAssumption, LenProperties DEF TypeOK
<1>3. flushed = <<>>
  BY DEF FlushAfterJoin, TypeOK
<1>4. TakenInOrder'
  <2>1. started \o flushed = started /\ started' \o flushed' = started'
    BY <1>2, <1>3, ConcatEmptySeq DEF TypeOK
  <2>2. started' \o m_pendingJobs' = started \o m_pendingJobs
    BY HeadMoves DEF TypeOK
  <2> QED BY <2>1, <2>2 DEF TakenInOrder
<1>5. QuitWithOwner' /\ EndedAfterQuit'
  BY DEF QuitWithOwner, EndedAfterQuit, TypeOK
<1>6. FlushAfterJoin'
  BY <1>3 DEF FlushAfterJoin, TypeOK
<1>7. NoLostWakeUp'
  BY DEF NoLostWakeUp, TypeOK
<1> QED BY <1>2, <1>4, <1>5, <1>6, <1>7

LEMMA AddMoves ==
  ASSUME IInv, NEW p \in Producers, NEW j \in Jobs, AddJob(p, j)
  PROVE  IInv'
<1> USE DEF IInv, AddJob, Empty, Full
<1>1. CASE Full
  BY <1>1 DEF TypeOK, QuitWithOwner, EndedAfterQuit, FlushAfterJoin, TakenInOrder, NoLostWakeUp
<1>2. CASE ~Full
  <2>1. /\ m_pendingJobs' = Append(m_pendingJobs, j)
        /\ accepted' = Append(accepted, j)
        /\ producer' = [producer EXCEPT ![p] = "notify"]
    BY <1>2
  <2>2. m_pendingJobs' \in Seq(Jobs) /\ Len(m_pendingJobs') = Len(m_pendingJobs) + 1
    BY <2>1, AppendProperties DEF TypeOK
  <2>3. TypeOK'
    <3>1. Len(m_pendingJobs') <= MaxJobs
      BY <1>2, <2>2, PoolAssumption, LenProperties DEF TypeOK
    <3>2. accepted' \in Seq(Jobs)
      BY <2>1, AppendProperties DEF TypeOK
    <3> QED BY <2>1, <2>2, <3>1, <3>2 DEF TypeOK
  <2>4. TakenInOrder'
    <3>1. started \o flushed \in Seq(Jobs) /\ m_pendingJobs \in Seq(Jobs)
      BY ConcatProperties DEF TypeOK
    <3>2. ASSUME NEW s \in Seq(Jobs), NEW q \in Seq(Jobs)
          PROVE  Append(s \o q, j) = s \o Append(q, j)
      <4>1. <<j>> \in Seq(Jobs) /\ s \o q \in Seq(Jobs)
        BY ConcatProperties
      <4>2. Append(s \o q, j) = (s \o q) \o <<j>> /\ Append(q, j) = q \o <<j>>
        BY <4>1, AppendIsConcat
      <4> QED BY <4>1, <4>2, ConcatAssociative
    <3>3. Append((started \o flushed) \o m_pendingJobs, j) = (started \o flushed) \o Append(m_pendingJobs, j)
      BY ONLY <3>1, <3>2, Zenon
    <3> QED BY <2>1, <3>3 DEF TakenInOrder
  <2>5. QuitWithOwner' /\ EndedAfterQuit' /\ FlushAfterJoin'
    BY DEF QuitWithOwner, EndedAfterQuit, FlushAfterJoin
  <2>6. NoLostWakeUp'
    BY <2>1 DEF NoLostWakeUp, TypeOK
  <2> QED BY <2>3, <2>4, <2>5, <2>6
<1> QED BY <1>1, <1>2

\* A producer that finds nobody asleep, in a pool that lives, finds everybody awake.
LEMMA NotifyMoves ==
  ASSUME IInv, NEW p \in Producers, NotifyOne(p)
  PROVE  IInv'
<1> USE DEF IInv, Moves, NotifyOne
<1>1. TypeOK'
  BY DEF TypeOK
<1>2. QuitWithOwner' /\ TakenInOrder'
  BY DEF QuitWithOwner, TakenInOrder
<1>3. EndedAfterQuit'
  BY DEF EndedAfterQuit, TypeOK
<1>4. FlushAfterJoin'
  BY DEF FlushAfterJoin, TypeOK
<1>5. NoLostWakeUp'
  <2>1. CASE \E w \in Workers : Moves(w, "asleep", "look")
    <3>1. PICK w \in Workers : Moves(w, "asleep", "look") BY <2>1
    <3>2. worker'[w] = "look" BY <3>1 DEF TypeOK
    <3> QED BY <3>2 DEF NoLostWakeUp
  <2>2. CASE (\A w \in Workers : worker[w] # "asleep") /\ UNCHANGED worker
    <3>1. PICK w \in Workers : TRUE BY PoolAssumption
    <3>2. ~m_quit => worker'[w] \in {"look", "lock", "execute"}
      BY <2>2 DEF EndedAfterQuit, TypeOK
    <3> QED BY <3>2 DEF NoLostWakeUp
  <2> QED BY <2>1, <2>2
<1> QED BY <1>1, <1>2, <1>3, <1>4, <1>5

LEMMA OwnerMoves ==
  ASSUME IInv, RaiseQuit \/ NotifyAll \/ Join
  PROVE  IInv'
<1> USE DEF IInv, RaiseQuit, NotifyAll, Join
<1>1. TypeOK'
  BY DEF TypeOK
<1>2. QuitWithOwner' /\ TakenInOrder'
  BY DEF QuitWithOwner, TakenInOrder
<1>3. EndedAfterQuit'
  BY DEF EndedAfterQuit, QuitWithOwner, TypeOK
<1>4. FlushAfterJoin'
  BY DEF FlushAfterJoin, TypeOK
<1>5. NoLostWakeUp'
  BY DEF NoLostWakeUp, QuitWithOwner, TypeOK
<1> QED BY <1>1, <1>2, <1>3, <1>4, <1>5

LEMMA FlushMoves ==
  ASSUME IInv, Flush
  PROVE  IInv'
<1> USE DEF IInv, Flush, Empty
<1>1. CASE Empty
  BY <1>1 DEF TypeOK, QuitWithOwner, EndedAfterQuit, FlushAfterJoin, TakenInOrder, NoLostWakeUp
<1>2. CASE ~Empty
  <2>1. /\ flushed' = Append(flushed, Head(m_pendingJobs))
        /\ m_pendingJobs' = Tail(m_pendingJobs)
        /\ owner' = owner
    BY <1>2
  <2>2. Head(m_pendingJobs) \in Jobs /\ Tail(m_pendingJobs) \in Seq(Jobs)
        /\ Len(Tail(m_pendingJobs)) = Len(m_pendingJobs) - 1
    BY <1>2, HeadTailProperties DEF TypeOK
  <2>3. TypeOK'
    <3>1. flushed' \in Seq(Jobs)
      BY <2>1, <2>2, AppendProperties DEF TypeOK
    <3> QED BY <2>1, <2>2, <3>1, PoolAssumption, LenProperties DEF TypeOK
  <2>4. TakenInOrder'
    <3>1. flushed' \o m_pendingJobs' = flushed \o m_pendingJobs
      BY <1>2, <2>1, HeadMoves DEF TypeOK
    <3>2. started \in Seq(Jobs) /\ flushed \in Seq(Jobs) /\ m_pendingJobs \in Seq(Jobs)
      BY DEF TypeOK
    <3>3. started' \in Seq(Jobs) /\ flushed' \in Seq(Jobs) /\ m_pendingJobs' \in Seq(Jobs)
      BY <2>3 DEF TypeOK
    <3>4. started' \o (flushed' \o m_pendingJobs') = (started' \o flushed') \o m_pendingJobs'
      BY ONLY <3>3, ConcatAssociative
    <3>5. started \o (flushed \o m_pendingJobs) = (started \o flushed) \o m_pendingJobs
      BY ONLY <3>2, ConcatAssociative
    <3> QED BY <3>1, <3>4, <3>5 DEF TakenInOrder
  <2>5. QuitWithOwner' /\ EndedAfterQuit' /\ FlushAfterJoin'
    BY <2>1 DEF QuitWithOwner, EndedAfterQuit, FlushAfterJoin
  <2>6. NoLostWakeUp'
    BY DEF NoLostWakeUp, QuitWithOwner
  <2> QED BY <2>3, <2>4, <2>5, <2>6
<1> QED BY <1>1, <1>2

LEMMA Inductive == IInv /\ [Next]_vars => IInv'
<1> SUFFICES ASSUME IInv, [Next]_vars PROVE IInv'
  OBVIOUS
<1>1. CASE \E w \in Workers : Work(w) \/ Spurious(w)
  BY <1>1, WorkerMoves, PopMoves DEF Work
<1>2. CASE \E p \in Producers : NotifyOne(p) \/ \E j \in Jobs : AddJob(p, j)
  BY <1>2, NotifyMoves, AddMoves
<1>3. CASE Destroy
  BY <1>3, OwnerMoves, FlushMoves DEF Destroy
<1>4. CASE UNCHANGED vars
  BY <1>4 DEF vars, IInv, TypeOK, QuitWithOwner, EndedAfterQuit, FlushAfterJoin,
              TakenInOrder, NoLostWakeUp, Empty
<1> QED BY <1>1, <1>2, <1>3, <1>4 DEF Next

LEMMA PoolInvariant == Spec => []IInv
<1>1. Init => IInv BY InitEstablishes
<1>2. IInv /\ [Next]_vars => IInv' BY Inductive
<1> QED BY <1>1, <1>2, PTL DEF Spec

-----------------------------------------------------------------------------
(* The theorems. *)

\* Type correctness of the pool, and the limit of its queue, for any numbers of
\* workers, producers and jobs.
THEOREM PoolTyping == Spec => []TypeOK
<1>1. IInv => TypeOK BY DEF IInv
<1> QED BY <1>1, PoolInvariant, PTL

\* Every job accepted is taken once and in order, by workers or the destructor.
THEOREM JobsAreTakenInOrder == Spec => []TakenInOrder
<1>1. IInv => TakenInOrder BY DEF IInv
<1> QED BY <1>1, PoolInvariant, PTL

\* No job waits in a living pool while everybody sleeps and nobody is to wake them.
THEOREM WakeUpsAreNotLost == Spec => []NoLostWakeUp
<1>1. IInv => NoLostWakeUp BY DEF IInv
<1> QED BY <1>1, PoolInvariant, PTL
==============================================================================
