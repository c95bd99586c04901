----------------------------- MODULE ThreadPool -----------------------------
(***************************************************************************)
(* thread_pool.hpp: workers that take tasks from a sync_queue, threads     *)
(* that submit tasks, and one that shuts the pool down.                    *)
(*                                                                         *)
(* A step of a worker is what it does between two points where another     *)
(* thread can come in: reading m_shutdown, locking m_mutex, is_empty,      *)
(* entering the condition variable's wait, pop, the task itself.  The      *)
(* queue's own mutex makes is_empty, pop and push one step each.           *)
(* submit_to_pool and shutdown_pool take no lock around m_cv, so that a    *)
(* notification may come between a worker's is_empty and its wait.         *)
(***************************************************************************)
EXTENDS Naturals, Sequences, FiniteSets

CONSTANTS
  Workers,   \* the threads of m_threads
  Tasks,     \* the calls of submit_to_pool, each with its own task
  None       \* "no worker", "no task"

ASSUME PoolAssumption ==
  /\ Workers # {}
  /\ None \notin Workers \cup Tasks

ASSUME WorkersAssumption == IsFiniteSet(Workers)

VARIABLES
  container,   \* sync_queue's queue
  m_shutdown,
  m_mutex,     \* the worker that holds m_mutex
  pc,          \* where each worker is
  tmp_func,    \* the task each worker took, None if pop returned false
  submit,      \* where each submit_to_pool call is
  stopper,     \* where the thread that calls shutdown_pool is
  missed,      \* history: a notify_one came inside a worker's window
  late         \* history: workers past their test of m_shutdown, and not
               \* yet waiting, when notify_all came

vars == <<container, m_shutdown, m_mutex, pc, tmp_func, submit, stopper,
          missed, late>>

(* A worker is about to test m_shutdown, to lock, to call is_empty, to     *)
(* wait, blocked in the wait, about to lock again, to pop, to run its      *)
(* task; or it has returned.                                               *)
Points == {"top", "lock", "test", "wait", "blocked", "relock", "pop", "run",
           "exit"}

Init ==
  /\ container  = <<>>
  /\ m_shutdown = FALSE
  /\ m_mutex    = None
  /\ pc         = [w \in Workers |-> "top"]
  /\ tmp_func   = [w \in Workers |-> None]
  /\ submit     = [t \in Tasks |-> "new"]
  /\ stopper    = "up"
  /\ missed     = FALSE
  /\ late       = {}

At(p) == {w \in Workers : pc[w] = p}

Goto(w, p) == pc' = [pc EXCEPT ![w] = p]

-----------------------------------------------------------------------------
(* thread_pool_worker::operator().                                         *)

Top(w) ==
  /\ pc[w] = "top"
  /\ Goto(w, IF m_shutdown THEN "exit" ELSE "lock")
  /\ UNCHANGED <<container, m_shutdown, m_mutex, tmp_func, submit, stopper,
                 missed, late>>

Lock(w) ==
  /\ m_mutex = None
  /\ \/ pc[w] = "lock"   /\ Goto(w, "test")
     \/ pc[w] = "relock" /\ Goto(w, "pop")
  /\ m_mutex' = w
  /\ UNCHANGED <<container, m_shutdown, tmp_func, submit, stopper, missed,
                 late>>

(* Mutant of is_empty: every round starts with a wait.                     *)
WaitFirst(w) ==
  /\ pc[w] = "test"
  /\ Goto(w, "wait")
  /\ UNCHANGED <<container, m_shutdown, m_mutex, tmp_func, submit, stopper,
                 missed, late>>

is_empty(w) ==
  /\ pc[w] = "test"
  /\ Goto(w, IF container = <<>> THEN "wait" ELSE "pop")
  /\ UNCHANGED <<container, m_shutdown, m_mutex, tmp_func, submit, stopper,
                 missed, late>>

(* m_cv.wait: releases m_mutex and blocks.                                 *)
Wait(w) ==
  /\ pc[w] = "wait"
  /\ Goto(w, "blocked")
  /\ m_mutex' = None
  /\ UNCHANGED <<container, m_shutdown, tmp_func, submit, stopper, missed,
                 late>>

(* Woken for no reason, as condition variables may be.                     *)
Spurious(w) ==
  /\ pc[w] = "blocked"
  /\ Goto(w, "relock")
  /\ UNCHANGED <<container, m_shutdown, m_mutex, tmp_func, submit, stopper,
                 missed, late>>

(* Mutant of Pop: the front is copied and stays.                           *)
PopCopied(w) ==
  /\ pc[w] = "pop"
  /\ m_mutex' = None
  /\ IF container = <<>>
     THEN Goto(w, "top") /\ UNCHANGED tmp_func
     ELSE /\ Goto(w, "run")
          /\ tmp_func'  = [tmp_func EXCEPT ![w] = Head(container)]
  /\ UNCHANGED <<container, m_shutdown, submit, stopper, missed, late>>

(* pop, and the end of the locked block.                                   *)
Pop(w) ==
  /\ pc[w] = "pop"
  /\ m_mutex' = None
  /\ IF container = <<>>
     THEN /\ Goto(w, "top")
          /\ UNCHANGED <<container, tmp_func>>
     ELSE /\ Goto(w, "run")
          /\ tmp_func'  = [tmp_func EXCEPT ![w] = Head(container)]
          /\ container' = Tail(container)
  /\ UNCHANGED <<m_shutdown, submit, stopper, missed, late>>

(* The task returns.  What it throws ends up in its future.                *)
Run(w) ==
  /\ pc[w] = "run"
  /\ Goto(w, "top")
  /\ UNCHANGED <<container, m_shutdown, m_mutex, tmp_func, submit, stopper,
                 missed, late>>

Worker(w) ==
  Top(w) \/ Lock(w) \/ is_empty(w) \/ Wait(w) \/ Pop(w) \/ Run(w)

-----------------------------------------------------------------------------
(* submit_to_pool.                                                         *)

Push(t) ==
  /\ submit[t] = "new"
  /\ submit'    = [submit EXCEPT ![t] = "pushed"]
  /\ container' = Append(container, t)
  /\ UNCHANGED <<m_shutdown, m_mutex, pc, tmp_func, stopper, missed, late>>

(* Mutant of notify_one: nobody is notified.                               *)
NotifyNobody(t) ==
  /\ submit[t] = "pushed"
  /\ submit' = [submit EXCEPT ![t] = "submitted"]
  /\ UNCHANGED <<container, m_shutdown, m_mutex, pc, tmp_func, stopper,
                 missed, late>>

notify_one(t) ==
  /\ submit[t] = "pushed"
  /\ submit' = [submit EXCEPT ![t] = "submitted"]
  /\ IF At("blocked") = {}
     THEN missed' = (missed \/ At("wait") # {}) /\ UNCHANGED pc
     ELSE /\ \E w \in At("blocked") : Goto(w, "relock")
          /\ UNCHANGED missed
  /\ UNCHANGED <<container, m_shutdown, m_mutex, tmp_func, stopper, late>>

-----------------------------------------------------------------------------
(* shutdown_pool.                                                          *)

Shutdown ==
  /\ stopper = "up"
  /\ stopper'    = "set"
  /\ m_shutdown' = TRUE
  /\ UNCHANGED <<container, m_mutex, pc, tmp_func, submit, missed, late>>

(* Mutant of notify_all: notify_one in its place.                          *)
NotifyOnlyOne ==
  /\ stopper = "set"
  /\ stopper' = "notified"
  /\ IF At("blocked") = {} THEN UNCHANGED pc
     ELSE \E w \in At("blocked") : Goto(w, "relock")
  /\ late' = At("lock") \cup At("test") \cup At("wait")
  /\ UNCHANGED <<container, m_shutdown, m_mutex, tmp_func, submit, missed>>

notify_all ==
  /\ stopper = "set"
  /\ stopper' = "notified"
  /\ pc'   = [w \in Workers |-> IF pc[w] = "blocked" THEN "relock" ELSE pc[w]]
  /\ late' = At("lock") \cup At("test") \cup At("wait")
  /\ UNCHANGED <<container, m_shutdown, m_mutex, tmp_func, submit, missed>>

(* The loop of join calls.                                                 *)
Join ==
  /\ stopper = "notified"
  /\ At("exit") = Workers
  /\ stopper' = "returned"
  /\ UNCHANGED <<container, m_shutdown, m_mutex, pc, tmp_func, submit,
                 missed, late>>

-----------------------------------------------------------------------------
Next ==
  \/ \E w \in Workers : Worker(w) \/ Spurious(w)
  \/ \E t \in Tasks : Push(t) \/ notify_one(t)
  \/ Shutdown \/ notify_all \/ Join

Spec == Init /\ [][Next]_vars

(* The threads are scheduled; nobody has to submit a task or to shut the   *)
(* pool down, no wait has to end spuriously, and a mutex need not be fair. *)
FairSpec ==
  /\ Spec
  /\ \A w \in Workers : WF_vars(Worker(w))
  /\ \A t \in Tasks : WF_vars(notify_one(t))
  /\ WF_vars(notify_all) /\ WF_vars(Join)

-----------------------------------------------------------------------------
(* Properties.                                                             *)

TypeOK ==
  /\ container \in Seq(Tasks)
  /\ m_shutdown \in BOOLEAN
  /\ m_mutex \in Workers \cup {None}
  /\ pc \in [Workers -> Points]
  /\ tmp_func \in [Workers -> Tasks \cup {None}]
  /\ submit \in [Tasks -> {"new", "pushed", "submitted"}]
  /\ stopper \in {"up", "set", "notified", "returned"}
  /\ missed \in BOOLEAN
  /\ late \subseteq Workers

(* A task waits for nobody: while there is one in the queue, its submitter *)
(* has yet to notify or some worker is on its way to pop, unless the pool  *)
(* is being shut down or a notify_one fell between a worker's is_empty and *)
(* its wait, which submit_to_pool, that does not lock m_mutex, cannot      *)
(* exclude (thread_pool.hpp:97-98, 118-122).                               *)
NoLostTask ==
  container # <<>> /\ ~m_shutdown /\ ~missed
    => \/ \E t \in Tasks : submit[t] = "pushed"
       \/ \E w \in Workers :
            pc[w] \in {"top", "lock", "test", "relock", "pop", "run"}

(* Only a worker that had tested m_shutdown before it was set, and was not *)
(* yet waiting when notify_all came, can be left blocked by shutdown_pool, *)
(* which then waits for it in join (thread_pool.hpp:76-83, 116-122).       *)
NoLostWorker ==
  \A w \in Workers :
    stopper = "notified" /\ pc[w] = "blocked" => w \in late

(* thread_pool.hpp implements TaskPool.                                    *)
Abstract == INSTANCE TaskPool WITH
  submitted <- {t \in Tasks : submit[t] # "new"},
  pending   <- container,
  running   <- {tmp_func[w] : w \in At("run")},
  closed    <- stopper = "returned"

Refines == Abstract!Spec

(* A task that was submitted is taken from the queue, unless the pool is   *)
(* shut down or a notification was missed.                                 *)
TasksTaken ==
  \A t \in Tasks :
    submit[t] = "submitted"
      ~> (m_shutdown \/ missed \/ \A i \in 1..Len(container) : container[i] # t)

(* shutdown_pool returns, unless a worker was late.                        *)
ShutdownReturns == stopper = "set" ~> (stopper = "returned" \/ late # {})

=============================================================================
