------------------------------ MODULE TaskPool ------------------------------
(***************************************************************************)
(* What thread_pool promises, whatever its workers do: a task that was     *)
(* submitted starts at most once, tasks start in the order in which they   *)
(* entered the queue, no more of them run at once than there are workers,  *)
(* and none runs once shutdown_pool has returned.                          *)
(***************************************************************************)
EXTENDS Naturals, Sequences, FiniteSets

CONSTANTS Tasks, Workers

VARIABLES submitted, pending, running, closed

absVars == <<submitted, pending, running, closed>>

Init ==
  /\ submitted = {}
  /\ pending = <<>>
  /\ running = {}
  /\ closed = FALSE

Submit(t) ==
  /\ t \notin submitted
  /\ submitted' = submitted \cup {t}
  /\ pending' = Append(pending, t)
  /\ UNCHANGED <<running, closed>>

Start ==
  /\ ~closed /\ pending # <<>>
  /\ Head(pending) \notin running
  /\ Cardinality(running) < Cardinality(Workers)
  /\ running' = running \cup {Head(pending)}
  /\ pending' = Tail(pending)
  /\ UNCHANGED <<submitted, closed>>

Finish(t) ==
  /\ t \in running
  /\ running' = running \ {t}
  /\ UNCHANGED <<submitted, pending, closed>>

Close ==
  /\ running = {}
  /\ closed' = TRUE
  /\ UNCHANGED <<submitted, pending, running>>

Next == (\E t \in Tasks : Submit(t) \/ Finish(t)) \/ Start \/ Close

Spec == Init /\ [][Next]_absVars

=============================================================================
