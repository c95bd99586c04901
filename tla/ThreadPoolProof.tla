--------------------------- MODULE ThreadPoolProof ---------------------------
(***************************************************************************)
(* Proofs about ThreadPool, for any number of workers and tasks: its       *)
(* types, that neither a task nor a worker is lost but in the window       *)
(* between is_empty and wait, and that it implements TaskPool.             *)
(***************************************************************************)
EXTENDS ThreadPool, FiniteSetTheorems, TLAPS

-----------------------------------------------------------------------------
(* The inductive invariant.                                                *)

(* A worker returns only once m_shutdown is set, and join waits for all.   *)
Stopping ==
  /\ m_shutdown <=> stopper # "up"
  /\ \A w \in Workers : pc[w] = "exit" => m_shutdown
  /\ stopper = "returned" => \A w \in Workers : pc[w] = "exit"

(* After notify_all, whoever has yet to test m_shutdown will find it set.  *)
LateOnly ==
  \A w \in Workers :
    stopper = "notified" /\ pc[w] \in {"lock", "test", "wait", "blocked"}
      => w \in late

(* A task that was submitted is in the queue once, or not at all.          *)
QueuedOnce ==
  /\ \A i \in 1..Len(container) : submit[container[i]] # "new"
  /\ \A i, j \in 1..Len(container) : container[i] = container[j] => i = j

(* A task that runs has left the queue, and one worker runs it.            *)
RunningOnce ==
  \A w \in At("run") :
    /\ tmp_func[w] \in Tasks
    /\ submit[tmp_func[w]] # "new"
    /\ \A i \in 1..Len(container) : container[i] # tmp_func[w]
    /\ \A x \in At("run") : tmp_func[x] = tmp_func[w] => x = w

-----------------------------------------------------------------------------
(* Types.                                                                  *)

LEMMA InitType == Init => TypeOK
<1> SUFFICES ASSUME Init PROVE TypeOK
  OBVIOUS
<1>1. container \in Seq(Tasks)
  BY DEF Init
<1>2. m_shutdown \in BOOLEAN /\ missed \in BOOLEAN
  BY Zenon DEF Init
<1>3. /\ pc \in [Workers -> Points]
      /\ tmp_func \in [Workers -> Tasks \cup {None}]
      /\ submit \in [Tasks -> {"new", "pushed", "submitted"}]
      /\ stopper \in {"up", "set", "notified", "returned"}
      /\ m_mutex \in Workers \cup {None}
      /\ late \subseteq Workers
  BY DEF Init, Points
<1> QED
  BY <1>1, <1>2, <1>3 DEF TypeOK

LEMMA NextType == TypeOK /\ [Next]_vars => TypeOK'
<1> SUFFICES ASSUME TypeOK, [Next]_vars PROVE TypeOK'
  OBVIOUS
<1> USE PoolAssumption DEF TypeOK, Goto, Points, At
<1>1. ASSUME NEW w \in Workers, Top(w) PROVE TypeOK'
  BY <1>1 DEF Top
<1>2. ASSUME NEW w \in Workers, Lock(w) PROVE TypeOK'
  BY <1>2 DEF Lock
<1>3. ASSUME NEW w \in Workers, is_empty(w) PROVE TypeOK'
  BY <1>3 DEF is_empty
<1>4. ASSUME NEW w \in Workers, Wait(w) PROVE TypeOK'
  BY <1>4 DEF Wait
<1>5. ASSUME NEW w \in Workers, Pop(w) PROVE TypeOK'
  BY <1>5 DEF Pop
<1>6. ASSUME NEW w \in Workers, Run(w) PROVE TypeOK'
  BY <1>6 DEF Run
<1>7. ASSUME NEW w \in Workers, Spurious(w) PROVE TypeOK'
  BY <1>7 DEF Spurious
<1>8. ASSUME NEW t \in Tasks, Push(t) PROVE TypeOK'
  BY <1>8 DEF Push
<1>9. ASSUME NEW t \in Tasks, notify_one(t) PROVE TypeOK'
  BY <1>9 DEF notify_one
<1>10. CASE Shutdown
  BY <1>10 DEF Shutdown
<1>11. CASE notify_all
  BY <1>11 DEF notify_all
<1>12. CASE Join
  BY <1>12 DEF Join
<1>13. CASE UNCHANGED vars
  BY <1>13 DEF vars
<1> QED
  BY <1>1, <1>2, <1>3, <1>4, <1>5, <1>6, <1>7, <1>8, <1>9, <1>10, <1>11,
     <1>12, <1>13 DEF Next, Worker

(* Every variable keeps its type.                                          *)
THEOREM PoolTypeCorrect == Spec => []TypeOK
  BY InitType, NextType, PTL DEF Spec

-----------------------------------------------------------------------------
(* Shutting down.                                                          *)

StopInv == Stopping /\ LateOnly

LEMMA InitStop == Init => StopInv
  BY DEF Init, StopInv, Stopping, LateOnly

LEMMA NextStop == TypeOK /\ StopInv /\ [Next]_vars => StopInv'
<1> SUFFICES ASSUME TypeOK, StopInv, [Next]_vars PROVE StopInv'
  OBVIOUS
<1> USE DEF TypeOK, StopInv, Stopping, LateOnly, Goto, Points, At
<1>1. ASSUME NEW w \in Workers, Top(w) PROVE StopInv'
  BY <1>1 DEF Top
<1>2. ASSUME NEW w \in Workers, Lock(w) PROVE StopInv'
  BY <1>2 DEF Lock
<1>3. ASSUME NEW w \in Workers, is_empty(w) PROVE StopInv'
  BY <1>3 DEF is_empty
<1>4. ASSUME NEW w \in Workers, Wait(w) PROVE StopInv'
  BY <1>4 DEF Wait
<1>5. ASSUME NEW w \in Workers, Pop(w) PROVE StopInv'
  BY <1>5 DEF Pop
<1>6. ASSUME NEW w \in Workers, Run(w) PROVE StopInv'
  BY <1>6 DEF Run
<1>7. ASSUME NEW w \in Workers, Spurious(w) PROVE StopInv'
  BY <1>7 DEF Spurious
<1>8. ASSUME NEW t \in Tasks, Push(t) PROVE StopInv'
  BY <1>8 DEF Push
<1>9. ASSUME NEW t \in Tasks, notify_one(t) PROVE StopInv'
  BY <1>9 DEF notify_one
<1>10. CASE Shutdown
  BY <1>10 DEF Shutdown
<1>11. CASE notify_all
  BY <1>11 DEF notify_all
<1>12. CASE Join
  BY <1>12 DEF Join
<1>13. CASE UNCHANGED vars
  BY <1>13 DEF vars
<1> QED
  BY <1>1, <1>2, <1>3, <1>4, <1>5, <1>6, <1>7, <1>8, <1>9, <1>10, <1>11,
     <1>12, <1>13 DEF Next, Worker

(* shutdown_pool leaves no worker blocked but one that was between its     *)
(* test of m_shutdown and its wait when notify_all came.                   *)
THEOREM WorkerNotLost == Spec => []NoLostWorker
<1>1. StopInv => NoLostWorker
  BY DEF StopInv, LateOnly, NoLostWorker
<1> QED
  BY <1>1, InitType, NextType, InitStop, NextStop, PTL DEF Spec

-----------------------------------------------------------------------------
(* Lost notifications.                                                     *)

LEMMA InitTask == Init => NoLostTask
  BY DEF Init, NoLostTask

LEMMA NextTask ==
  TypeOK /\ StopInv /\ NoLostTask /\ [Next]_vars => NoLostTask'
<1> SUFFICES ASSUME TypeOK, StopInv, NoLostTask, [Next]_vars
             PROVE NoLostTask'
  OBVIOUS
<1> USE DEF TypeOK, NoLostTask, Goto, Points
<1>1. ASSUME NEW w \in Workers, Top(w) PROVE NoLostTask'
  BY <1>1 DEF Top
<1>2. ASSUME NEW w \in Workers, Lock(w) PROVE NoLostTask'
  BY <1>2 DEF Lock
<1>3. ASSUME NEW w \in Workers, is_empty(w) PROVE NoLostTask'
  BY <1>3 DEF is_empty
<1>4. ASSUME NEW w \in Workers, Wait(w) PROVE NoLostTask'
  BY <1>4 DEF Wait
<1>5. ASSUME NEW w \in Workers, Pop(w) PROVE NoLostTask'
  BY <1>5 DEF Pop
<1>6. ASSUME NEW w \in Workers, Run(w) PROVE NoLostTask'
  BY <1>6 DEF Run
<1>7. ASSUME NEW w \in Workers, Spurious(w) PROVE NoLostTask'
  BY <1>7 DEF Spurious
<1>8. ASSUME NEW t \in Tasks, Push(t) PROVE NoLostTask'
  BY <1>8 DEF Push
<1>9. ASSUME NEW t \in Tasks, notify_one(t) PROVE NoLostTask'
  <2>1. CASE At("blocked") = {}
    <3>1. SUFFICES ASSUME ~m_shutdown, At("wait") = {}
                   PROVE \E w \in Workers :
                           pc'[w] \in {"top", "lock", "test", "relock",
                                       "pop", "run"}
      BY <1>9, <2>1, <3>1 DEF notify_one
    <3>2. PICK w \in Workers : TRUE
      BY PoolAssumption
    <3>3. pc[w] \notin {"blocked", "wait", "exit"}
      BY <2>1, <3>1 DEF At, StopInv, Stopping
    <3> QED
      BY <1>9, <2>1, <3>3 DEF notify_one
  <2>2. CASE At("blocked") # {}
    BY <1>9, <2>2 DEF notify_one, At
  <2> QED
    BY <2>1, <2>2
<1>10. CASE Shutdown
  BY <1>10 DEF Shutdown
<1>11. CASE notify_all
  BY <1>11 DEF notify_all, StopInv, Stopping
<1>12. CASE Join
  BY <1>12 DEF Join
<1>13. CASE UNCHANGED vars
  BY <1>13 DEF vars
<1> QED
  BY <1>1, <1>2, <1>3, <1>4, <1>5, <1>6, <1>7, <1>8, <1>9, <1>10, <1>11,
     <1>12, <1>13 DEF Next, Worker

(* A task is left behind only where a notify_one fell between is_empty     *)
(* and wait.                                                               *)
THEOREM TaskNotLost == Spec => []NoLostTask
  BY InitType, NextType, InitStop, NextStop, InitTask, NextTask, PTL DEF Spec

-----------------------------------------------------------------------------
(* thread_pool.hpp implements TaskPool.                                    *)

OnceInv == QueuedOnce /\ RunningOnce

LEMMA InitOnce == Init => OnceInv
  BY DEF Init, OnceInv, QueuedOnce, RunningOnce, At

(* A step that leaves the queue and the tasks taken alone, submits none    *)
(* and starts none.                                                        *)
LEMMA FrameOnce ==
  ASSUME OnceInv, UNCHANGED <<container, tmp_func>>,
         \A t \in Tasks : submit[t] # "new" => submit'[t] # "new",
         At("run")' \subseteq At("run"), TypeOK
  PROVE  OnceInv'
<1>1. \A i \in 1..Len(container) : container[i] \in Tasks
  BY DEF TypeOK
<1> QED
  BY <1>1 DEF OnceInv, QueuedOnce, RunningOnce, At

LEMMA PushOnce ==
  ASSUME TypeOK, OnceInv, NEW t \in Tasks, Push(t)
  PROVE  OnceInv'
<1>1. /\ container' = Append(container, t) /\ container \in Seq(Tasks)
      /\ submit[t] = "new" /\ submit' = [submit EXCEPT ![t] = "pushed"]
      /\ UNCHANGED <<pc, tmp_func>>
  BY DEF Push, TypeOK
<1>2. \A i \in 1..Len(container) : container[i] # t /\ container[i] \in Tasks
  BY <1>1 DEF OnceInv, QueuedOnce
<1>3. /\ Len(container') = Len(container) + 1
      /\ container'[Len(container) + 1] = t
      /\ \A i \in 1..Len(container) : container'[i] = container[i]
      /\ Len(container) \in Nat
  BY <1>1
<1>4. \A i \in 1..Len(container') :
        i \in 1..Len(container) \/ i = Len(container) + 1
  BY <1>3
<1>5. QueuedOnce'
  BY <1>1, <1>2, <1>3, <1>4 DEF OnceInv, QueuedOnce, TypeOK
<1>6. \A w \in At("run") : tmp_func[w] # t
  BY <1>1 DEF OnceInv, RunningOnce
<1>7. RunningOnce'
  BY <1>1, <1>3, <1>4, <1>6 DEF OnceInv, RunningOnce, At, TypeOK
<1> QED
  BY <1>5, <1>7 DEF OnceInv

LEMMA PopOnce ==
  ASSUME TypeOK, OnceInv, NEW w \in Workers, Pop(w)
  PROVE  OnceInv'
<1>1. CASE container = <<>>
  <2>1. At("run")' \subseteq At("run")
    BY <1>1 DEF Pop, Goto, At, TypeOK
  <2> QED
    BY <1>1, <2>1, FrameOnce DEF Pop
<1>2. CASE container # <<>>
  <2> DEFINE n == Len(container)
  <2>1. /\ container \in Seq(Tasks) /\ container' = Tail(container)
        /\ tmp_func' = [tmp_func EXCEPT ![w] = Head(container)]
        /\ pc' = [pc EXCEPT ![w] = "run"] /\ pc[w] = "pop"
        /\ UNCHANGED submit
    BY <1>2 DEF Pop, Goto, TypeOK
  <2>2. /\ n \in Nat \ {0} /\ Len(container') = n - 1
        /\ Head(container) = container[1]
        /\ \A i \in 1..(n - 1) : container'[i] = container[i + 1]
        /\ \A i \in 1..n : container[i] \in Tasks
    BY <1>2, <2>1
  <2>3. QueuedOnce'
    BY <2>1, <2>2 DEF OnceInv, QueuedOnce
  <2>4. \A i \in 1..(n - 1) : container'[i] # container[1]
    BY <2>1, <2>2 DEF OnceInv, QueuedOnce
  <2>5. At("run")' = At("run") \cup {w} /\ w \notin At("run")
    BY <2>1 DEF At, TypeOK
  <2>6. /\ tmp_func'[w] = container[1]
        /\ \A x \in At("run") : tmp_func'[x] = tmp_func[x]
    BY <2>1, <2>2, <2>5 DEF TypeOK, At
  <2>7. \A x \in At("run") : tmp_func[x] # container[1]
    BY <2>2 DEF OnceInv, RunningOnce
  <2>8. RunningOnce'
    <3> SUFFICES ASSUME NEW x \in At("run")'
                 PROVE  /\ tmp_func'[x] \in Tasks
                        /\ submit'[tmp_func'[x]] # "new"
                        /\ \A i \in 1..(n - 1) : container'[i] # tmp_func'[x]
                        /\ \A y \in At("run")' :
                             tmp_func'[y] = tmp_func'[x] => y = x
      BY <2>2 DEF RunningOnce
    <3>1. CASE x = w
      BY <3>1, <2>1, <2>2, <2>4, <2>5, <2>6, <2>7 DEF OnceInv, QueuedOnce
    <3>2. CASE x \in At("run")
      <4>1. \A i \in 1..(n - 1) : container'[i] # tmp_func[x]
        BY <3>2, <2>2 DEF OnceInv, RunningOnce
      <4> QED
        BY <3>2, <4>1, <2>1, <2>5, <2>6, <2>7 DEF OnceInv, RunningOnce
    <3> QED
      BY <3>1, <3>2, <2>5
  <2> QED
    BY <2>3, <2>8 DEF OnceInv
<1> QED
  BY <1>1, <1>2

LEMMA NextOnce == TypeOK /\ OnceInv /\ [Next]_vars => OnceInv'
<1> SUFFICES ASSUME TypeOK, OnceInv, [Next]_vars PROVE OnceInv'
  OBVIOUS
<1>1. CASE \E w \in Workers : Pop(w)
  BY <1>1, PopOnce
<1>2. CASE \E t \in Tasks : Push(t)
  BY <1>2, PushOnce
<1>3. CASE ~(\E w \in Workers : Pop(w)) /\ ~(\E t \in Tasks : Push(t))
  <2>1. UNCHANGED <<container, tmp_func>>
    BY <1>3 DEF Next, Worker, Top, Lock, is_empty, Wait, Run, Spurious,
       notify_one, Shutdown, notify_all, Join, vars
  <2>2. \A t \in Tasks : submit[t] # "new" => submit'[t] # "new"
    BY <1>3 DEF Next, Worker, Top, Lock, is_empty, Wait, Run, Spurious,
       notify_one, Shutdown, notify_all, Join, vars, TypeOK
  <2>3. At("run")' \subseteq At("run")
    BY <1>3 DEF Next, Worker, Top, Lock, is_empty, Wait, Run, Spurious,
       notify_one, Shutdown, notify_all, Join, vars, TypeOK, At, Goto
  <2> QED
    BY <2>1, <2>2, <2>3, FrameOnce
<1> QED
  BY <1>1, <1>2, <1>3

LEMMA InitAbstract == Init => Abstract!Init
  BY DEF Init, Abstract!Init, At

(* A step that is invisible to TaskPool.                                   *)
LEMMA Stutter ==
  ASSUME TypeOK, UNCHANGED <<container, tmp_func>>,
         \A t \in Tasks : submit[t] = "new" <=> submit'[t] = "new",
         At("run")' = At("run"),
         stopper = "returned" <=> stopper' = "returned"
  PROVE  UNCHANGED Abstract!absVars
<1>1. {tmp_func'[w] : w \in At("run")'} = {tmp_func[w] : w \in At("run")}
  OBVIOUS
<1>2. {t \in Tasks : submit'[t] # "new"} = {t \in Tasks : submit[t] # "new"}
  OBVIOUS
<1>3. (stopper = "returned")' = (stopper = "returned")
  OBVIOUS
<1> QED
  BY <1>1, <1>2, <1>3 DEF Abstract!absVars

(* While a worker runs no task, fewer tasks run than there are workers.     *)
LEMMA OneFree ==
  ASSUME NEW w \in Workers, w \notin At("run")
  PROVE  Cardinality({tmp_func[x] : x \in At("run")}) < Cardinality(Workers)
<1> DEFINE S == At("run")
           T == {tmp_func[x] : x \in S}
           f == [x \in S |-> tmp_func[x]]
<1>1. /\ IsFiniteSet(Workers \ {w})
      /\ Cardinality(Workers \ {w}) = Cardinality(Workers) - 1
  BY FS_RemoveElement, WorkersAssumption
<1>2. S \in SUBSET (Workers \ {w})
  BY DEF At
<1>3. IsFiniteSet(S) /\ Cardinality(S) <= Cardinality(Workers \ {w})
  BY <1>1, <1>2, FS_Subset
<1>4. f \in Surjection(S, T)
  BY DEF Surjection
<1>5. Cardinality(T) <= Cardinality(S) /\ IsFiniteSet(T)
  BY <1>3, <1>4, FS_Surjection
<1>6. /\ Cardinality(T) \in Nat /\ Cardinality(S) \in Nat
      /\ Cardinality(Workers) \in Nat
  BY <1>3, <1>5, FS_CardinalityType, WorkersAssumption
<1> QED BY <1>1, <1>3, <1>5, <1>6

LEMMA NextAbstract ==
  TypeOK /\ StopInv /\ OnceInv /\ [Next]_vars
    => [Abstract!Next]_(Abstract!absVars)
<1> SUFFICES ASSUME TypeOK, StopInv, OnceInv, [Next]_vars
             PROVE  Abstract!Next \/ UNCHANGED Abstract!absVars
  OBVIOUS
<1> DEFINE running == {tmp_func[x] : x \in At("run")}
<1>1. CASE \E t \in Tasks : Push(t)
  <2>1. PICK t \in Tasks : Push(t)
    BY <1>1
  <2>2. submit[t] = "new" /\ submit' = [submit EXCEPT ![t] = "pushed"]
    BY <2>1 DEF Push
  <2>3. {u \in Tasks : submit'[u] # "new"}
          = {u \in Tasks : submit[u] # "new"} \cup {t}
    BY <2>2 DEF TypeOK
  <2>4. At("run")' = At("run") /\ tmp_func' = tmp_func
        /\ container' = Append(container, t) /\ stopper' = stopper
    BY <2>1 DEF Push, At
  <2>5. Abstract!Submit(t)
    BY <2>2, <2>3, <2>4 DEF Abstract!Submit
  <2> QED
    BY <2>5 DEF Abstract!Next
<1>2. CASE \E w \in Workers : Pop(w) /\ container # <<>>
  <2>1. PICK w \in Workers : Pop(w) /\ container # <<>>
    BY <1>2
  <2>2. /\ container' = Tail(container) /\ submit' = submit
        /\ stopper' = stopper
        /\ tmp_func' = [tmp_func EXCEPT ![w] = Head(container)]
        /\ pc' = [pc EXCEPT ![w] = "run"] /\ pc[w] = "pop"
    BY <2>1 DEF Pop, Goto
  <2>3. At("run")' = At("run") \cup {w} /\ w \notin At("run")
    BY <2>2 DEF At, TypeOK
  <2>4. running' = running \cup {Head(container)}
    <3>1. tmp_func'[w] = Head(container)
      BY <2>2 DEF TypeOK
    <3>2. \A x \in At("run") : tmp_func'[x] = tmp_func[x]
      BY <2>2, <2>3 DEF TypeOK, At
    <3> QED
      BY <2>3, <3>1, <3>2
  <2>5. Head(container) \notin running
    <3>1. Head(container) = container[1] /\ 1 \in 1..Len(container)
      BY <2>1 DEF TypeOK
    <3> QED
      BY <3>1 DEF OnceInv, RunningOnce
  <2>6. stopper # "returned"
    BY <2>2 DEF StopInv, Stopping
  <2>7. Cardinality(running) < Cardinality(Workers)
    BY <2>3, OneFree DEF At
  <2>8. Abstract!Start
    BY <2>1, <2>2, <2>4, <2>5, <2>6, <2>7 DEF Abstract!Start, Abstract!Cardinality, Cardinality
  <2> QED
    BY <2>8 DEF Abstract!Next
<1>3. CASE \E w \in Workers : Run(w)
  <2>1. PICK w \in Workers : Run(w)
    BY <1>3
  <2>2. /\ pc[w] = "run" /\ pc' = [pc EXCEPT ![w] = "top"]
        /\ UNCHANGED <<container, tmp_func, submit, stopper>>
    BY <2>1 DEF Run, Goto
  <2>3. At("run")' = At("run") \ {w} /\ w \in At("run")
    BY <2>2 DEF At, TypeOK
  <2>4. running' = running \ {tmp_func[w]}
    BY <2>2, <2>3 DEF OnceInv, RunningOnce
  <2>5. tmp_func[w] \in Tasks /\ tmp_func[w] \in running
    BY <2>3 DEF OnceInv, RunningOnce
  <2>6. PICK t \in Tasks : t = tmp_func[w]
    BY <2>5
  <2>7. Abstract!Finish(t)
    BY <2>2, <2>4, <2>5, <2>6 DEF Abstract!Finish
  <2> QED
    BY <2>7 DEF Abstract!Next
<1>4. CASE Join
  <2>1. At("run") = {} /\ UNCHANGED <<pc, tmp_func, container, submit>>
        /\ stopper' = "returned"
    BY <1>4, PoolAssumption DEF Join, At
  <2>2. At("run")' = {}
    BY <2>1 DEF At
  <2>3. Abstract!Close
    BY <2>1, <2>2 DEF Abstract!Close
  <2> QED
    BY <2>3 DEF Abstract!Next
<1>5. CASE /\ ~(\E t \in Tasks : Push(t)) /\ ~(\E w \in Workers : Run(w))
           /\ ~(\E w \in Workers : Pop(w) /\ container # <<>>) /\ ~Join
  <2>1. UNCHANGED <<container, tmp_func>>
    BY <1>5 DEF Next, Worker, Top, Lock, is_empty, Wait, Pop, Spurious,
       notify_one, Shutdown, notify_all, vars
  <2>2. \A t \in Tasks : submit[t] = "new" <=> submit'[t] = "new"
    BY <1>5 DEF Next, Worker, Top, Lock, is_empty, Wait, Pop, Spurious,
       notify_one, Shutdown, notify_all, vars, TypeOK
  <2>3. At("run")' = At("run")
    BY <1>5 DEF Next, Worker, Top, Lock, is_empty, Wait, Pop, Spurious,
       notify_one, Shutdown, notify_all, vars, TypeOK, At, Goto
  <2>4. stopper = "returned" <=> stopper' = "returned"
    BY <1>5 DEF Next, Worker, Top, Lock, is_empty, Wait, Pop, Spurious,
       notify_one, Shutdown, notify_all, vars
  <2> QED
    BY <2>1, <2>2, <2>3, <2>4, Stutter
<1> QED
  BY <1>1, <1>2, <1>3, <1>4, <1>5

(* The workers, submitters and the shutdown implement TaskPool: a task     *)
(* starts at most once, in order, and not after shutdown_pool returned.    *)
THEOREM Implements == Spec => Refines
<1>1. [](TypeOK /\ StopInv /\ OnceInv) /\ [][Next]_vars
        => [][Abstract!Next]_(Abstract!absVars)
  BY NextAbstract, PTL
<1> QED
  BY <1>1, InitType, NextType, InitStop, NextStop, InitOnce, NextOnce,
     InitAbstract, PTL DEF Spec, Refines, Abstract!Spec

=============================================================================
