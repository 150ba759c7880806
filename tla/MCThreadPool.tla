----------------------------- MODULE MCThreadPool -----------------------------
(***************************************************************************)
(* Instances of ThreadPool for TLC.  A behaviour either lets the tasks of   *)
(* SpawningTask call Run ("spawning") or has only the main thread do so     *)
(* ("alone", the instance TaskPool is implemented by).                      *)
(***************************************************************************)
EXTENDS ThreadPool

VARIABLE tested

Alone == INSTANCE ThreadPool WITH SpawningTask <- {}

MCVars == <<vars, tested>>

MCInit == tested \in {"spawning", "alone"} /\ Init

MCNext ==
  /\ IF tested = "alone" THEN Alone!Next ELSE Next
  /\ UNCHANGED tested

(* The fairness of ThreadPool, whose actions do not depend on SpawningTask  *)
(* but for the calls of Run, which no fairness is assumed of.               *)
MCSpec == MCInit /\ [][MCNext]_MCVars /\ Fairness

(* The refinement of ThreadPool, where only the main thread calls Run; else *)
(* the abstract pool stays as it began.                                     *)
Seen(value, initial) == IF tested = "alone" THEN value ELSE initial
AbstractAlone == INSTANCE TaskPool
  WITH taken <- Seen(taken, {}), refused <- Seen(refused, {}),
       finished <- Seen(finished, {}),
       phase <- Seen(CASE mainPc = "open" -> "open"
                       [] mainPc = "closed" -> "closed"
                       [] OTHER -> "closing", "open")
AloneImplementsTaskPool == AbstractAlone!Spec
===============================================================================
