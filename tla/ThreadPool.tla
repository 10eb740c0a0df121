------------------------------ MODULE ThreadPool ------------------------------
(***************************************************************************)
(* The thread pool of the quasar framework (Quasar::ThreadPool): workers   *)
(* that take jobs from a queue under a lock and sleep on a condition       *)
(* variable when there are none, producers that add a job under the lock   *)
(* and notify after releasing it, and a destructor that raises a flag,     *)
(* notifies everybody and joins.                                           *)
(*                                                                         *)
(* What a thread does with the lock held is one action.  The flag is read  *)
(* and written without the lock, so that looking at it, and raising it,    *)
(* are actions of their own; so are the notifications.                     *)
(***************************************************************************)
EXTENDS Naturals, Sequences

CONSTANTS Workers,     \* the threads of m_workers
          Producers,   \* the threads that call addJob
          Jobs,        \* the jobs that may be added, each once
          MaxJobs      \* m_maxJobs, the limit of the queue

ASSUME PoolAssumption == MaxJobs \in Nat /\ Workers # {}

VARIABLES m_quit,
          m_pendingJobs,
          worker,      \* where each worker is
          producer,    \* idle, or about to notify after it pushed
          owner,       \* where the destructor is
          todo,        \* the jobs nobody has tried to add
          accepted,    \* history: the jobs pushed, in order
          started,     \* history: the jobs popped by workers, in order
          flushed      \* history: the jobs the destructor removed, in order

vars == <<m_quit, m_pendingJobs, worker, producer, owner, todo, accepted, started, flushed>>

Empty == m_pendingJobs = <<>>

Moves(w, from, to) == worker[w] = from /\ worker' = [worker EXCEPT ![w] = to]

-----------------------------------------------------------------------------
(* A worker: look at the flag, lock, then pop and execute or go to sleep. *)

Look(w) ==
  /\ Moves(w, "look", IF m_quit THEN "ended" ELSE "lock")
  /\ UNCHANGED <<m_quit, m_pendingJobs, producer, owner, todo, accepted, started, flushed>>

\* Variant: the newest job is taken first.
PopNewest(w) ==
  /\ ~Empty
  /\ Moves(w, "lock", "execute")
  /\ started' = Append(started, m_pendingJobs[Len(m_pendingJobs)])
  /\ m_pendingJobs' = SubSeq(m_pendingJobs, 1, Len(m_pendingJobs) - 1)
  /\ UNCHANGED <<m_quit, producer, owner, todo, accepted, flushed>>

Pop(w) ==
  /\ ~Empty
  /\ Moves(w, "lock", "execute")
  /\ started' = Append(started, Head(m_pendingJobs))
  /\ m_pendingJobs' = Tail(m_pendingJobs)
  /\ UNCHANGED <<m_quit, producer, owner, todo, accepted, flushed>>

\* Variant: the worker looks whether there are jobs before it has the lock.
SleepUnchecked(w) ==
  /\ Moves(w, "lock", "asleep")
  /\ UNCHANGED <<m_quit, m_pendingJobs, producer, owner, todo, accepted, started, flushed>>

Sleep(w) ==
  /\ Empty
  /\ Moves(w, "lock", "asleep")
  /\ UNCHANGED <<m_quit, m_pendingJobs, producer, owner, todo, accepted, started, flushed>>

\* execute may throw; the worker catches that, and deletes the job either way.
Execute(w) ==
  /\ Moves(w, "execute", "look")
  /\ UNCHANGED <<m_quit, m_pendingJobs, producer, owner, todo, accepted, started, flushed>>

\* wait may return without a notification.
Spurious(w) ==
  /\ Moves(w, "asleep", "look")
  /\ UNCHANGED <<m_quit, m_pendingJobs, producer, owner, todo, accepted, started, flushed>>

Work(w) == Look(w) \/ Pop(w) \/ Sleep(w) \/ Execute(w)

-----------------------------------------------------------------------------
(* A producer. *)

\* Variant: a full queue takes one more.
FullLate == Len(m_pendingJobs) > MaxJobs

Full == Len(m_pendingJobs) >= MaxJobs

\* A job that finds the queue full is refused.
AddJob(p, j) ==
  /\ owner = "alive" /\ producer[p] = "idle" /\ j \in todo
  /\ todo' = todo \ {j}
  /\ IF Full
     THEN UNCHANGED <<m_pendingJobs, producer, accepted>>
     ELSE /\ m_pendingJobs' = Append(m_pendingJobs, j)
          /\ accepted' = Append(accepted, j)
          /\ producer' = [producer EXCEPT ![p] = "notify"]
  /\ UNCHANGED <<m_quit, worker, owner, started, flushed>>

\* notify_one wakes one of those asleep, or nobody.
NotifyOne(p) ==
  /\ producer[p] = "notify"
  /\ producer' = [producer EXCEPT ![p] = "idle"]
  /\ \/ \E w \in Workers : Moves(w, "asleep", "look")
     \/ (\A w \in Workers : worker[w] # "asleep") /\ UNCHANGED worker
  /\ UNCHANGED <<m_quit, m_pendingJobs, owner, todo, accepted, started, flushed>>

-----------------------------------------------------------------------------
(* The destructor; nobody calls addJob of a pool that is being destroyed. *)

RaiseQuit ==
  /\ owner = "alive" /\ \A p \in Producers : producer[p] = "idle"
  /\ m_quit' = TRUE
  /\ owner' = "notify"
  /\ UNCHANGED <<m_pendingJobs, worker, producer, todo, accepted, started, flushed>>

\* Variant: only one worker is told.
NotifyAllButOne ==
  /\ owner = "notify"
  /\ owner' = "join"
  /\ \/ \E w \in Workers : Moves(w, "asleep", "look")
     \/ (\A w \in Workers : worker[w] # "asleep") /\ UNCHANGED worker
  /\ UNCHANGED <<m_quit, m_pendingJobs, producer, todo, accepted, started, flushed>>

NotifyAll ==
  /\ owner = "notify"
  /\ owner' = "join"
  /\ worker' = [w \in Workers |-> IF worker[w] = "asleep" THEN "look" ELSE worker[w]]
  /\ UNCHANGED <<m_quit, m_pendingJobs, producer, todo, accepted, started, flushed>>

Join ==
  /\ owner = "join" /\ \A w \in Workers : worker[w] = "ended"
  /\ owner' = "flush"
  /\ UNCHANGED <<m_quit, m_pendingJobs, worker, producer, todo, accepted, started, flushed>>

Flush ==
  /\ owner = "flush"
  /\ IF Empty
     THEN owner' = "gone" /\ UNCHANGED <<m_pendingJobs, flushed>>
     ELSE /\ flushed' = Append(flushed, Head(m_pendingJobs))
          /\ m_pendingJobs' = Tail(m_pendingJobs)
          /\ UNCHANGED owner
  /\ UNCHANGED <<m_quit, worker, producer, todo, accepted, started>>

Destroy == RaiseQuit \/ NotifyAll \/ Join \/ Flush

-----------------------------------------------------------------------------

Init ==
  /\ m_quit = FALSE
  /\ m_pendingJobs = <<>>
  /\ worker = [w \in Workers |-> "look"]
  /\ producer = [p \in Producers |-> "idle"]
  /\ owner = "alive"
  /\ todo = Jobs
  /\ accepted = <<>> /\ started = <<>> /\ flushed = <<>>

Next ==
  \/ \E w \in Workers : Work(w) \/ Spurious(w)
  \/ \E p \in Producers : NotifyOne(p) \/ \E j \in Jobs : AddJob(p, j)
  \/ Destroy

Spec == Init /\ [][Next]_vars

\* Threads run, jobs end, and a producer that pushed gets to notify.  Nobody
\* has to add a job or to destroy the pool, and no wait has to return by itself;
\* a destructor that has begun goes on.
FairSpec ==
  /\ Spec
  /\ \A w \in Workers : WF_vars(Work(w))
  /\ \A p \in Producers : WF_vars(NotifyOne(p))
  /\ WF_vars(NotifyAll) /\ WF_vars(Join) /\ WF_vars(Flush)

-----------------------------------------------------------------------------
(* Properties. *)

\* Every variable has its type; the queue keeps to its limit.
TypeOK ==
  /\ m_quit \in BOOLEAN
  /\ m_pendingJobs \in Seq(Jobs) /\ Len(m_pendingJobs) <= MaxJobs
  /\ worker \in [Workers -> {"look", "lock", "execute", "asleep", "ended"}]
  /\ producer \in [Producers -> {"idle", "notify"}]
  /\ owner \in {"alive", "notify", "join", "flush", "gone"}
  /\ todo \in SUBSET Jobs
  /\ accepted \in Seq(Jobs) /\ started \in Seq(Jobs) /\ flushed \in Seq(Jobs)

\* Whatever workers, producers and the destructor do in between, the jobs that
\* were accepted are taken in the order they came in, each once, by a worker
\* or by the destructor: none is lost and none is given out twice.
TakenInOrder == accepted = started \o flushed \o m_pendingJobs

\* While the pool lives, jobs do not wait for workers that all sleep: somebody
\* is awake, or is about to be woken.
NoLostWakeUp ==
  ~Empty /\ ~m_quit =>
    \/ \E w \in Workers : worker[w] \in {"look", "lock", "execute"}
    \/ \E p \in Producers : producer[p] = "notify"

\* A job that was accepted is started, unless the pool is destroyed first.
JobsStart ==
  \A j \in Jobs : (\E i \in 1 .. Len(accepted) : accepted[i] = j)
                    ~> (m_quit \/ \E i \in 1 .. Len(started) : started[i] = j)

\* The destructor returns when no worker is between its look at the flag and
\* the lock as it notifies.  One that is there goes to sleep after everybody was
\* notified, and the destructor waits for it for ever.
DestructorEnds == owner = "notify" /\ (\A w \in Workers : worker[w] # "lock") ~> owner = "gone"
==============================================================================
