------------------------------ MODULE TaskPool ------------------------------
(***************************************************************************)
(* What GenMCDriver::verify() expects of the thread pool.  Exploration     *)
(* tasks are submitted, first by the pool itself and then by tasks that    *)
(* are being executed; each is handed to one worker; the results are       *)
(* collected only when nothing is left to do.  Queues, mutexes and         *)
(* condition variables are details of the implementation (ThreadPool).     *)
(***************************************************************************)
EXTENDS Naturals

CONSTANT Tasks          \* the identities tasks may have

VARIABLES todo,         \* submitted, not yet handed to a worker
          running,      \* handed to a worker
          executed,     \* completely explored
          closed        \* the results have been collected

abstractVars == <<todo, running, executed, closed>>

Known == todo \cup running \cup executed

AInit ==
  /\ todo = {} /\ running = {} /\ executed = {}
  /\ closed = FALSE

\* The first task comes from the pool; later ones from running tasks only.
ASubmit(t) ==
  /\ ~closed
  /\ t \in Tasks \ Known
  /\ Known = {} \/ running # {}
  /\ todo' = todo \cup {t}
  /\ UNCHANGED <<running, executed, closed>>

AStart(t) ==
  /\ ~closed
  /\ t \in todo
  /\ todo' = todo \ {t}
  /\ running' = running \cup {t}
  /\ UNCHANGED <<executed, closed>>

AFinish(t) ==
  /\ t \in running
  /\ running' = running \ {t}
  /\ executed' = executed \cup {t}
  /\ UNCHANGED <<todo, closed>>

AClose ==
  /\ todo = {} /\ running = {} /\ executed # {}
  /\ closed' = TRUE
  /\ UNCHANGED <<todo, running, executed>>

ANext == \/ \E t \in Tasks : ASubmit(t) \/ AStart(t) \/ AFinish(t)
         \/ AClose

ASpec == AInit /\ [][ANext]_abstractVars
=============================================================================
