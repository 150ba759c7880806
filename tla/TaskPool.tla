------------------------------- MODULE TaskPool -------------------------------
(***************************************************************************)
(* What a caller may rely on, of vm/thread_pool.h and of the comment on     *)
(* `delete thread_pool_` in vm/isolate.cc: a task the pool takes is run to  *)
(* its end, exactly once, before the pool is closed.  ThreadPool implements *)
(* this when no task hands a task to the pool itself.                       *)
(***************************************************************************)
CONSTANT Task

VARIABLES taken, refused, finished, phase

vars == <<taken, refused, finished, phase>>

Init ==
  /\ taken = {} /\ refused = {} /\ finished = {}
  /\ phase = "open"

Take(t) ==
  /\ phase = "open"
  /\ t \notin taken
  /\ taken' = taken \cup {t}
  /\ UNCHANGED <<refused, finished, phase>>

Refuse(t) ==
  /\ phase # "open"
  /\ t \notin taken
  /\ refused' = refused \cup {t}
  /\ UNCHANGED <<taken, finished, phase>>

Finish(t) ==
  /\ t \in taken \ finished
  /\ phase # "closed"
  /\ finished' = finished \cup {t}
  /\ UNCHANGED <<taken, refused, phase>>

Close ==
  /\ phase = "open"
  /\ phase' = "closing"
  /\ UNCHANGED <<taken, refused, finished>>

Closed ==
  /\ phase = "closing"
  /\ taken \subseteq finished
  /\ phase' = "closed"
  /\ UNCHANGED <<taken, refused, finished>>

Next ==
  \/ \E t \in Task : Take(t) \/ Refuse(t) \/ Finish(t)
  \/ Close \/ Closed

Spec == Init /\ [][Next]_vars
             /\ \A t \in Task : WF_vars(Finish(t))
             /\ WF_vars(Closed)
===============================================================================
