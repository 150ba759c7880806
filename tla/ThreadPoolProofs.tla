--------------------------- MODULE ThreadPoolProofs ---------------------------
(***************************************************************************)
(* Proofs about ThreadPool, for any set of workers and tasks.               *)
(***************************************************************************)
EXTENDS ThreadPool, FiniteSetTheorems, TLAPS

(* The types, with the counters as integers: that they never go below zero  *)
(* follows from Counted.                                                    *)
Types ==
  /\ shuttingDown \in BOOLEAN
  /\ all \subseteq Worker /\ idle \subseteq Worker
  /\ joinList \subseteq Worker /\ shutdownList \subseteq Worker
  /\ started \in Nat /\ stopped \in Nat /\ running \in Int /\ idling \in Int
  /\ pc \in [Worker -> WorkerPc]
  /\ task \in [Worker -> Task \cup {None}]
  /\ done \in [Worker -> BOOLEAN]
  /\ job \in [Worker -> Task \cup {None}]
  /\ reap \in [Thread -> SUBSET Worker]
  /\ call \in [Thread -> Call \cup {None}]
  /\ mainPc \in MainPc /\ toNotify \subseteq Worker
  /\ taken \subseteq Task /\ refused \subseteq Task /\ finished \subseteq Task
  /\ joined \subseteq Worker /\ freedUse \subseteq Thread

Active == {"new", "started", "running", "taskDone", "reap", "joining",
           "relock", "waiting"}

(* Before Shutdown the pool lists its active workers, after it none.        *)
Listed ==
  /\ shuttingDown <=> mainPc # "open"
  /\ ~shuttingDown => all = {w \in Worker : pc[w] \in Active} /\ toNotify = {}
  /\ shuttingDown => all = {} /\ idle = {}
  /\ \A w \in idle : pc[w] = "waiting" /\ task[w] = None

(* Only Shutdown makes a worker leave without being released.               *)
Told ==
  /\ \A w \in Worker : done[w] => shuttingDown /\ w \notin toNotify
  /\ \A w \in Worker : pc[w] \in {"exiting", "exitLocked"} => done[w]
  /\ \A w \in toNotify : pc[w] \in Active

(* A call of Run past its locked section, its caller and its worker.        *)
CallOk(c) ==
  LET k == call[c] IN
  /\ c = Main => ~shuttingDown
  /\ c # Main => pc[c] = "running" /\ job[c] \in SpawningTask
  /\ k.worker \notin idle
  /\ k.new => pc[k.worker] = "new"
  /\ ~k.new => /\ ~k.set
               /\ \/ pc[k.worker] = "waiting"
                  \/ shuttingDown /\ pc[k.worker] \in {"exiting", "exitLocked", "gone"}
  /\ ~k.set => task[k.worker] = None

Calls ==
  /\ \A c \in Thread : call[c] # None => CallOk(c)
  /\ \A c, d \in Thread :
       call[c] # None /\ call[d] # None /\ c # d => call[c].worker # call[d].worker

(* A worker has no task_ before somebody picks it and from the start of its *)
(* job until it is idle again.                                              *)
Tasks ==
  \A w \in Worker :
    /\ pc[w] \in {"unborn", "running", "taskDone", "reap", "joining", "relock"}
         => task[w] = None
    /\ pc[w] = "running" => job[w] # None

(* Only a task that spawns can find its worker deleted, during Shutdown.    *)
Blame == NoUseAfterFree

Counted == IsFiniteSet(all) /\ idle \subseteq all /\ CountsMatchLists

Control == Types /\ Listed /\ Told /\ Calls /\ Tasks /\ Blame


-----------------------------------------------------------------------------
LEMMA InitControl == Init => Control
<1> SUFFICES ASSUME Init PROVE Control
  OBVIOUS
<1> USE ConstantsAssumption DEF Init
<1>1. Types
  <2>1. pc \in [Worker -> WorkerPc]
    BY DEF WorkerPc
  <2>2. reap \in [Thread -> SUBSET Worker] /\ call \in [Thread -> Call \cup {None}]
    OBVIOUS
  <2>3. task \in [Worker -> Task \cup {None}] /\ job \in [Worker -> Task \cup {None}]
    OBVIOUS
  <2>4. done \in [Worker -> BOOLEAN]
    OBVIOUS
  <2>5. shuttingDown \in BOOLEAN /\ freedUse \subseteq Thread /\ mainPc \in MainPc
    BY DEF MainPc
  <2> QED
    BY <2>1, <2>2, <2>3, <2>4, <2>5 DEF Types
<1>2. Listed /\ Told /\ Blame
  BY DEF Listed, Told, Blame, NoUseAfterFree, Active
<1>3. Calls
  BY DEF Calls, Thread
<1>4. Tasks
  BY DEF Tasks
<1> QED
  BY <1>1, <1>2, <1>3, <1>4 DEF Control

LEMMA StepControl == Control /\ Counted /\ [Next]_vars => Control'
<1> SUFFICES ASSUME Control, Counted, [Next]_vars PROVE Control'
  OBVIOUS
<1> USE ConstantsAssumption
    DEF Control, Types, Listed, Told, Calls, CallOk, Tasks, Blame, NoUseAfterFree, Call, WorkerPc,
        MainPc, Thread, Active, counts, lists, workers, mainVars, ghosts
<1>1. ASSUME NEW c \in Thread, NEW t \in Task, RunRefused(c, t) PROVE Control'
  BY <1>1 DEF RunRefused, MayCallRun
<1>2. ASSUME NEW c \in Thread, NEW t \in Task, NEW w \in Worker, RunNewWorker(c, t, w) PROVE Control'
  BY <1>2 DEF RunNewWorker, MayCallRun
<1>3. ASSUME NEW c \in Thread, NEW t \in Task, NEW w \in Worker, RunIdleWorker(c, t, w) PROVE Control'
  BY <1>3 DEF RunIdleWorker, MayCallRun
<1>4. ASSUME NEW c \in Thread, SetTask(c) PROVE Control'
  <2> DEFINE w == call[c].worker
  <2>1. w \in Worker /\ call[c] \in Call /\ CallOk(c) /\ ~call[c].set
    BY <1>4 DEF SetTask
  <2>2. Types'
    <3>1. call' \in [Thread -> Call \cup {None}]
      BY <1>4, <2>1 DEF SetTask
    <3>2. task' \in [Worker -> Task \cup {None}]
      BY <1>4, <2>1 DEF SetTask
    <3>3. freedUse' \subseteq Thread
      BY <1>4 DEF SetTask
    <3> QED
      BY <1>4, <3>1, <3>2, <3>3 DEF SetTask
  <2>3. Listed' /\ Told' /\ Tasks'
    BY <1>4, <2>1 DEF SetTask
  <2>4. ASSUME NEW d \in Thread, call'[d] # None PROVE CallOk(d)'
    <3>1. CASE d = c
      BY <1>4, <2>1, <2>4, <3>1 DEF SetTask
    <3>2. CASE d # c
      <4>1. call[d] # None /\ call'[d] = call[d] /\ call[d].worker # w
        BY <1>4, <2>4, <3>2 DEF SetTask
      <4>2. task'[call[d].worker] = task[call[d].worker]
        BY <1>4, <4>1 DEF SetTask
      <4> QED
        BY <1>4, <4>1, <4>2 DEF SetTask
    <3> QED
      BY <3>1, <3>2
  <2>5. \A d, e \in Thread :
          call'[d] # None /\ call'[e] # None /\ d # e
            => call'[d].worker # call'[e].worker
    <3> SUFFICES ASSUME NEW d \in Thread, NEW e \in Thread,
                        call'[d] # None, call'[e] # None, d # e
                 PROVE  call'[d].worker # call'[e].worker
      OBVIOUS
    <3>1. ASSUME NEW x \in Thread, call'[x] # None
          PROVE  call[x] # None /\ call'[x].worker = call[x].worker
      BY <1>4, <2>1, <3>1 DEF SetTask
    <3> QED
      BY <3>1
  <2>6. Blame'
    BY <1>4, <2>1 DEF SetTask
  <2> QED
    BY <2>2, <2>3, <2>4, <2>5, <2>6
<1>5. ASSUME NEW c \in Thread, StartThread(c) PROVE Control'
  BY <1>5 DEF StartThread
<1>6. ASSUME NEW w \in Worker, TakeTask(w) PROVE Control'
  BY <1>6 DEF TakeTask
<1>7. ASSUME NEW w \in Worker, AfterTask(w) PROVE Control'
  BY <1>7 DEF AfterTask
<1>8. ASSUME NEW w \in Worker, SkipIdle(w) PROVE Control'
  BY <1>8 DEF SkipIdle
<1>9. ASSUME NEW w \in Worker, SetIdle(w) PROVE Control'
  BY <1>9 DEF SetIdle, SetIdleLocked
<1>10. ASSUME NEW w \in Worker, TakeExited(w) PROVE Control'
  BY <1>10 DEF TakeExited, TakeJoinListOf
<1>11. ASSUME NEW w \in Worker, JoinDone(w) PROVE Control'
  BY <1>11 DEF JoinDone
<1>12. ASSUME NEW w \in Worker, SetIdleAfterReap(w) PROVE Control'
  BY <1>12 DEF SetIdleAfterReap, SetIdleLocked
<1>13. ASSUME NEW w \in Worker, WakeDone(w) PROVE Control'
  BY <1>13 DEF WakeDone
<1>14. ASSUME NEW w \in Worker, DeleteReleased(w) PROVE Control'
  BY <1>14 DEF DeleteReleased
<1>15. ASSUME NEW w \in Worker, AddToJoinList(w) PROVE Control'
  BY <1>15 DEF AddToJoinList
<1>16. ASSUME NEW w \in Worker, DeleteExiting(w) PROVE Control'
  BY <1>16 DEF DeleteExiting
<1>17. ASSUME NEW w \in Worker, TaskReturns(w) PROVE Control'
  BY <1>17 DEF TaskReturns
<1>18. ASSUME NEW w \in Worker, ReleaseIdleWorker(w) PROVE Control'
  BY <1>18 DEF ReleaseIdleWorker, RemoveWorkerFromIdleList, RemoveWorkerFromAllList
<1>19. ASSUME NEW w \in Worker, NotifyWorker(w) PROVE Control'
  BY <1>19 DEF NotifyWorker, AddWorkerToShutdownList
<1>20. ASSUME NEW c \in Thread, NEW w \in Worker, Join(c, w) PROVE Control'
  BY <1>20 DEF Join
<1>21. ASSUME ShutdownBegin PROVE Control'
  BY <1>21, FS_CardinalityType DEF ShutdownBegin, Counted
<1>22. ASSUME ShutdownStep PROVE Control'
  BY <1>22 DEF ShutdownStep, NotifyDone, AllExited, TakeJoinList, ShutdownEnd
<1>23. CASE UNCHANGED vars
  BY <1>23 DEF vars
<1>99. QED
  BY <1>1, <1>2, <1>3, <1>4, <1>5, <1>6, <1>7, <1>8, <1>9, <1>10, <1>11, <1>12, <1>13, <1>14, <1>15, <1>16, <1>17, <1>18, <1>19, <1>20, <1>21, <1>22, <1>23
     DEF Next, RunStep, WorkerStep

LEMMA StepCounted == Control /\ Counted /\ [Next]_vars => Counted'
<1> SUFFICES ASSUME Control, Counted, [Next]_vars PROVE Counted'
  OBVIOUS
<1> USE DEF Counted, CountsMatchLists, counts, lists
<1>1. Cardinality(all) \in Nat /\ IsFiniteSet(idle) /\ Cardinality(idle) \in Nat
  BY FS_CardinalityType, FS_Subset
<1>2. started \in Nat /\ stopped \in Nat /\ running \in Int /\ idling \in Int
  BY DEF Control, Types
<1>3. ASSUME NEW c \in Thread, NEW t \in Task, NEW w \in Worker, RunNewWorker(c, t, w)
      PROVE Counted'
  <2>1. w \notin all
    BY <1>3 DEF RunNewWorker, Control, Listed, Active
  <2>2. all' = all \cup {w} /\ idle' = idle
    BY <1>3 DEF RunNewWorker
  <2>3. IsFiniteSet(all') /\ Cardinality(all') = Cardinality(all) + 1
    BY <2>1, <2>2, FS_AddElement
  <2>4. /\ started' = started + 1 /\ stopped' = stopped
        /\ running' = running + 1 /\ idling' = idling
    BY <1>3 DEF RunNewWorker
  <2> QED
    BY <1>1, <1>2, <2>2, <2>3, <2>4
<1>4. ASSUME NEW c \in Thread, NEW t \in Task, NEW w \in Worker, RunIdleWorker(c, t, w)
      PROVE Counted'
  <2>1. idle' = idle \ {w} /\ w \in idle /\ all' = all
    BY <1>4 DEF RunIdleWorker
  <2>2. Cardinality(idle') = Cardinality(idle) - 1
    BY <1>1, <2>1, FS_RemoveElement
  <2> QED
    BY <1>1, <1>2, <1>4, <2>1, <2>2 DEF RunIdleWorker
<1>5. ASSUME NEW w \in Worker, SetIdleLocked(w), w \in all \ idle,
             UNCHANGED <<all, started, stopped>>
      PROVE  Counted'
  <2>1. Cardinality(idle') = Cardinality(idle) + 1
    BY <1>1, <1>5, FS_AddElement DEF SetIdleLocked
  <2> QED
    BY <1>1, <1>2, <1>5, <2>1 DEF SetIdleLocked
<1>6. ASSUME NEW w \in Worker, SetIdle(w) PROVE Counted'
  <2>1. w \in all \ idle
    BY <1>6 DEF SetIdle, Control, Listed, Active
  <2> QED
    BY <1>5, <1>6, <2>1 DEF SetIdle
<1>7. ASSUME NEW w \in Worker, SetIdleAfterReap(w) PROVE Counted'
  <2>1. CASE shuttingDown
    BY <1>7, <2>1 DEF SetIdleAfterReap
  <2>2. CASE ~shuttingDown
    <3>1. w \in all \ idle
      BY <1>7, <2>2 DEF SetIdleAfterReap, Control, Listed, Active
    <3> QED
      BY <1>5, <1>7, <2>2, <3>1 DEF SetIdleAfterReap
  <2> QED
    BY <2>1, <2>2
<1>8. ASSUME NEW w \in Worker, ReleaseIdleWorker(w) PROVE Counted'
  <2> USE DEF ReleaseIdleWorker, RemoveWorkerFromIdleList, RemoveWorkerFromAllList
  <2>1. idle' = idle \ {w} /\ w \in idle /\ all' = all \ {w} /\ w \in all
    BY <1>8
  <2>2. Cardinality(idle') = Cardinality(idle) - 1
    BY <1>1, <2>1, FS_RemoveElement
  <2>3. IsFiniteSet(all') /\ Cardinality(all') = Cardinality(all) - 1
    BY <2>1, FS_RemoveElement
  <2> QED
    BY <1>1, <1>2, <1>8, <2>1, <2>2, <2>3
<1>9. ASSUME ShutdownBegin PROVE Counted'
  BY <1>1, <1>2, <1>9, FS_EmptySet DEF ShutdownBegin
<1>10. CASE UNCHANGED <<all, idle, counts>>
  BY <1>10
<1> QED
  BY <1>3, <1>4, <1>6, <1>7, <1>8, <1>9, <1>10
     DEF Next, vars, RunStep, WorkerStep, RunRefused, SetTask, StartThread, TakeTask,
         TaskReturns, AfterTask, SkipIdle, TakeExited, TakeJoinListOf, Join,
         JoinDone, WakeDone, DeleteReleased, AddToJoinList, DeleteExiting,
         NotifyWorker, ShutdownStep, NotifyDone, AllExited, TakeJoinList, ShutdownEnd

THEOREM Inductive == Spec => [](Control /\ Counted)
<1>1. Init => Control /\ Counted
  BY InitControl, FS_EmptySet DEF Init, Counted, CountsMatchLists
<1>2. Control /\ Counted /\ [Next]_vars => (Control /\ Counted)'
  BY StepControl, StepCounted
<1> QED
  BY <1>1, <1>2, PTL DEF Spec

(* Types, and the counters never below zero.                                *)
THEOREM TypeCorrect == Spec => []TypeOK
<1>1. Control /\ Counted => TypeOK
  BY FS_CardinalityType, FS_Subset
     DEF Control, Counted, Types, TypeOK, CountsMatchLists
<1> QED
  BY <1>1, Inductive, PTL

(* The counters agree with the lists, at every step of every thread.        *)
THEOREM CountsAgree == Spec => []CountsMatchLists
BY Inductive, PTL DEF Counted

(* No two calls of Run hand a task to the same worker, and SetTask finds    *)
(* task_ empty.                                                             *)
THEOREM HandOffIsExclusive == Spec => []OneHandOffPerWorker
<1>1. Control => OneHandOffPerWorker
  BY DEF Control, Calls, CallOk, OneHandOffPerWorker
<1> QED
  BY <1>1, Inductive, PTL

(* A worker picked by Run stays alive until Shutdown begins.                *)
THEOREM PickedStaysAlive == Spec => []PickedWorkerAlive
<1>1. Control => PickedWorkerAlive
  BY DEF Control, Calls, CallOk, PickedWorkerAlive
<1> QED
  BY <1>1, Inductive, PTL

(* Shutdown only tells workers that still exist.                            *)
THEOREM NotificationsReachLiveWorkers == Spec => []NotifiesLiveWorkers
<1>1. Control => NotifiesLiveWorkers
  BY DEF Control, Told, Active, NotifiesLiveWorkers, Alive, Leaving
<1> QED
  BY <1>1, Inductive, PTL

(* A worker leaves only when no list that hands out work can reach it.      *)
THEOREM LeavingIsUnlisted == Spec => []LeavesUnlisted
<1>1. Control => LeavesUnlisted
  BY DEF Control, Listed, Told, Active, LeavesUnlisted, Leaving
<1> QED
  BY <1>1, Inductive, PTL

(* Whatever the tasks do, the main thread's calls of Run never touch a      *)
(* deleted worker, and a task's only do when Shutdown has overtaken them.   *)
THEOREM OnlySpawnersLoseWorkers == Spec => []NoUseAfterFree
<1>1. Control => NoUseAfterFree
  BY DEF Control, Blame
<1> QED
  BY <1>1, Inductive, PTL

-----------------------------------------------------------------------------
(* Who joins whom, and what Shutdown waits for. *)

(* Every thread that has left its loop for good is in one place that will    *)
(* join it, or was joined; a worker only has threads to join while it does.  *)
ToBeJoined(w) == w \in joinList \/ \E c \in Thread : w \in reap[c]
OnePlace ==
  /\ joined \cap joinList = {}
  /\ \A c \in Thread :
       /\ reap[c] \cap (joined \cup joinList) = {}
       /\ \A d \in Thread \ {c} : reap[c] \cap reap[d] = {}
Reaping ==
  /\ OnePlace
  /\ \A w \in Worker :
       /\ pc[w] \in {"released", "exitLocked", "gone"} <=> w \in joined \/ ToBeJoined(w)
       /\ w \in joined => pc[w] = "gone"
  /\ \A c \in Worker : /\ reap[c] # {} => pc[c] = "joining"
                       /\ \A w \in reap[c] : pc[w] \in {"released", "gone"}
  /\ reap[Main] # {} => mainPc = "join"

(* What Shutdown has yet to tell, to wait for, and to join.                  *)
Sweep ==
  /\ \A w \in Worker :
       /\ shuttingDown /\ pc[w] \in Active => w \in toNotify \cup shutdownList
       /\ pc[w] \in {"exiting", "exitLocked"} => w \in shutdownList
  /\ mainPc # "notify" => toNotify = {}
  /\ mainPc \in {"takeList", "join", "closed"} => shutdownList = {}
  /\ mainPc \in {"join", "closed"} => joinList = {}

(* Where a task is that the pool took and nobody finished, if only the main  *)
(* thread calls Run: in one place.                                           *)
Pending == call[Main] # None /\ ~call[Main].set
Unfinished(t) == t \in taken /\ t \notin finished
InOnePlace ==
  /\ Pending => Unfinished(call[Main].task)
  /\ \A w \in Worker :
       /\ task[w] # None => Unfinished(task[w])
       /\ job[w] # None => Unfinished(job[w])
       /\ Pending => task[w] # call[Main].task /\ job[w] # call[Main].task
       /\ \A v \in Worker :
            /\ task[w] # None => task[w] # job[v]
            /\ task[w] # None /\ v # w => task[w] # task[v]
            /\ job[w] # None /\ v # w => job[w] # job[v]
  /\ \A t \in taken \ finished :
       \/ Pending /\ call[Main].task = t
       \/ \E w \in Worker : task[w] = t \/ job[w] = t
Flight ==
  /\ finished \subseteq taken
  /\ InOnePlace
  /\ \A c \in Worker : call[c] = None
  /\ \A w \in Worker : /\ job[w] # None => pc[w] = "running"
                       /\ pc[w] \in Leaving \cup {"unborn"} => task[w] = None

-----------------------------------------------------------------------------
(* A step that moves no thread between the lists of those to be joined, and *)
(* ends no worker, keeps them.                                              *)
LEMMA ReapingKept ==
  ASSUME Reaping, UNCHANGED <<joinList, joined, reap>>,
         reap \in [Thread -> SUBSET Worker],
         \A w \in Worker :
           /\ pc'[w] \in {"released", "exitLocked", "gone"}
                <=> pc[w] \in {"released", "exitLocked", "gone"}
           /\ pc[w] = "gone" => pc'[w] = "gone"
           /\ pc[w] \in {"released", "gone"} => pc'[w] \in {"released", "gone"}
           /\ pc[w] = "joining" /\ reap[w] # {} => pc'[w] = "joining",
         mainPc = "join" /\ reap[Main] # {} => mainPc' = "join"
  PROVE  Reaping'
<1>1. OnePlace'
  BY DEF Reaping, OnePlace
<1>2. \A w \in Worker : ToBeJoined(w)' <=> ToBeJoined(w)
  BY DEF ToBeJoined
<1>3. \A c \in Worker : /\ reap'[c] # {} => pc'[c] = "joining"
                        /\ \A w \in reap'[c] : pc'[w] \in {"released", "gone"}
  <2> SUFFICES ASSUME NEW c \in Worker
               PROVE  /\ reap'[c] # {} => pc'[c] = "joining"
                      /\ \A w \in reap'[c] : pc'[w] \in {"released", "gone"}
    OBVIOUS
  <2>1. reap'[c] \subseteq Worker
    BY DEF Thread
  <2> QED
    BY <2>1 DEF Reaping
<1> QED
  BY <1>1, <1>2, <1>3 DEF Reaping

LEMMA StepReaping ==
  ASSUME Control, Reaping, Sweep, [Next]_vars
  PROVE  Reaping'
<1> USE ConstantsAssumption
    DEF Thread, Active, counts, lists, workers, mainVars, ghosts
<1>a. /\ pc \in [Worker -> WorkerPc] /\ reap \in [Thread -> SUBSET Worker]
      /\ joinList \subseteq Worker /\ joined \subseteq Worker
  BY DEF Control, Types
<1>b. \A w \in Worker : pc[w] \in {"exiting", "exitLocked"} => shuttingDown
  BY DEF Control, Told
<1> USE <1>a, <1>b
<1>1. ASSUME NEW c \in Thread, NEW t \in Task, RunRefused(c, t) PROVE Reaping'
  BY <1>1, ReapingKept DEF RunRefused, MayCallRun
<1>2. ASSUME NEW c \in Thread, NEW t \in Task, NEW w \in Worker, RunNewWorker(c, t, w)
      PROVE Reaping'
  BY <1>2, ReapingKept DEF RunNewWorker, MayCallRun
<1>3. ASSUME NEW c \in Thread, NEW t \in Task, NEW w \in Worker, RunIdleWorker(c, t, w)
      PROVE Reaping'
  BY <1>3, ReapingKept DEF RunIdleWorker, MayCallRun
<1>4. ASSUME NEW c \in Thread, SetTask(c) PROVE Reaping'
  BY <1>4, ReapingKept DEF SetTask
<1>5. ASSUME NEW c \in Thread, StartThread(c) PROVE Reaping'
  <2>1. call[c] # None /\ call[c].set /\ pc' = [pc EXCEPT ![call[c].worker] = "started"]
        /\ UNCHANGED <<joinList, joined, reap, mainPc>>
    BY <1>5 DEF StartThread
  <2>2. pc[call[c].worker] = "new" /\ call[c].worker \in Worker
    BY <2>1 DEF Control, Types, Calls, CallOk, Call
  <2> QED
    BY <2>1, <2>2, ReapingKept
<1>6. ASSUME NEW w \in Worker, TakeTask(w) PROVE Reaping'
  BY <1>6, ReapingKept DEF TakeTask
<1>7. ASSUME NEW w \in Worker, AfterTask(w) PROVE Reaping'
  BY <1>7, ReapingKept DEF AfterTask
<1>8. ASSUME NEW w \in Worker, SkipIdle(w) PROVE Reaping'
  BY <1>8, ReapingKept DEF SkipIdle
<1>9. ASSUME NEW w \in Worker, SetIdle(w) PROVE Reaping'
  BY <1>9, ReapingKept DEF SetIdle, SetIdleLocked
<1>10. ASSUME NEW w \in Worker, TakeExited(w) PROVE Reaping'
  <2>1. /\ pc[w] = "reap" /\ ~shuttingDown /\ joinList' = {} /\ joined' = joined
        /\ reap' = [reap EXCEPT ![w] = joinList] /\ pc' = [pc EXCEPT ![w] = "joining"]
        /\ mainPc' = mainPc
    BY <1>10 DEF TakeExited, TakeJoinListOf
  <2>2. reap[w] = {}
    BY <2>1 DEF Reaping
  <2>3. OnePlace'
    <3>1. reap'[w] = joinList /\ \A c \in Thread \ {w} : reap'[c] = reap[c]
      BY <2>1
    <3> QED
      BY <2>1, <3>1 DEF Reaping, OnePlace
  <2>4. \A v \in Worker : ToBeJoined(v)' <=> ToBeJoined(v)
    <3>1. reap'[w] = joinList /\ \A c \in Thread \ {w} : reap'[c] = reap[c]
      BY <2>1
    <3> QED
      BY <2>1, <2>2, <3>1 DEF ToBeJoined
  <2>5. \A v \in joinList : pc[v] \in {"released", "gone"}
    BY <2>1 DEF Reaping, ToBeJoined
  <2>6. \A v \in Worker : /\ pc'[v] \in {"released", "exitLocked", "gone"}
                               <=> pc[v] \in {"released", "exitLocked", "gone"}
                          /\ pc[v] \in {"released", "gone"} => pc'[v] = pc[v]
    BY <2>1
  <2>7. ASSUME NEW c \in Worker
        PROVE  /\ reap'[c] # {} => pc'[c] = "joining"
               /\ \A v \in reap'[c] : pc'[v] \in {"released", "gone"}
    <3>1. CASE c = w
      BY <2>1, <2>5, <2>6, <3>1
    <3>2. CASE c # w
      BY <2>1, <2>6, <3>2 DEF Reaping
    <3> QED
      BY <3>1, <3>2
  <2>8. reap'[Main] = reap[Main]
    BY <2>1
  <2> QED
    BY <2>1, <2>3, <2>4, <2>6, <2>7, <2>8 DEF Reaping
<1>11. ASSUME NEW w \in Worker, JoinDone(w) PROVE Reaping'
  BY <1>11, ReapingKept DEF JoinDone
<1>12. ASSUME NEW w \in Worker, SetIdleAfterReap(w) PROVE Reaping'
  BY <1>12, ReapingKept DEF SetIdleAfterReap, SetIdleLocked
<1>13. ASSUME NEW w \in Worker, WakeDone(w) PROVE Reaping'
  BY <1>13, ReapingKept DEF WakeDone
<1>14. ASSUME NEW w \in Worker, DeleteReleased(w) PROVE Reaping'
  BY <1>14, ReapingKept DEF DeleteReleased
<1>15. ASSUME NEW w \in Worker, AddToJoinList(w) PROVE Reaping'
  <2>1. /\ pc[w] = "exiting" /\ pc' = [pc EXCEPT ![w] = "exitLocked"] /\ joinList' = joinList \cup {w}
        /\ UNCHANGED <<joined, reap, mainPc>>
    BY <1>15 DEF AddToJoinList
  <2>2. w \notin joined /\ w \notin joinList /\ \A c \in Thread : w \notin reap[c]
    BY <2>1 DEF Reaping, ToBeJoined
  <2>3. OnePlace'
    BY <2>1, <2>2 DEF Reaping, OnePlace
  <2>4. \A v \in Worker : ToBeJoined(v)' <=> ToBeJoined(v) \/ v = w
    BY <2>1 DEF ToBeJoined
  <2>5. \A c \in Worker : /\ reap'[c] # {} => pc'[c] = "joining"
                          /\ \A v \in reap'[c] : pc'[v] \in {"released", "gone"}
    BY <2>1, <2>2 DEF Reaping
  <2> QED
    BY <2>1, <2>3, <2>4, <2>5 DEF Reaping
<1>16. ASSUME NEW w \in Worker, DeleteExiting(w) PROVE Reaping'
  BY <1>16, ReapingKept DEF DeleteExiting
<1>17. ASSUME NEW w \in Worker, TaskReturns(w) PROVE Reaping'
  BY <1>17, ReapingKept DEF TaskReturns
<1>18. ASSUME NEW w \in Worker, ReleaseIdleWorker(w) PROVE Reaping'
  <2>1. /\ pc[w] = "waiting" /\ pc' = [pc EXCEPT ![w] = "released"] /\ joinList' = joinList \cup {w}
        /\ UNCHANGED <<joined, reap, mainPc>>
    BY <1>18 DEF ReleaseIdleWorker, RemoveWorkerFromIdleList,
         RemoveWorkerFromAllList
  <2>2. w \notin joined /\ w \notin joinList /\ \A c \in Thread : w \notin reap[c]
    BY <2>1 DEF Reaping, ToBeJoined
  <2>3. OnePlace'
    BY <2>1, <2>2 DEF Reaping, OnePlace
  <2>4. \A v \in Worker : ToBeJoined(v)' <=> ToBeJoined(v) \/ v = w
    BY <2>1 DEF ToBeJoined
  <2>5. \A c \in Worker : /\ reap'[c] # {} => pc'[c] = "joining"
                          /\ \A v \in reap'[c] : pc'[v] \in {"released", "gone"}
    BY <2>1, <2>2 DEF Reaping
  <2> QED
    BY <2>1, <2>3, <2>4, <2>5 DEF Reaping
<1>19. ASSUME NEW w \in Worker, NotifyWorker(w) PROVE Reaping'
  BY <1>19, ReapingKept DEF NotifyWorker, AddWorkerToShutdownList
<1>20. ASSUME NEW c \in Thread, NEW w \in Worker, Join(c, w) PROVE Reaping'
  <2>1. /\ w \in reap[c] /\ pc[w] = "gone" /\ UNCHANGED <<pc, joinList, mainPc>>
        /\ reap' = [reap EXCEPT ![c] = reap[c] \ {w}] /\ joined' = joined \cup {w}
    BY <1>20 DEF Join
  <2>2. reap'[c] = reap[c] \ {w} /\ \A d \in Thread \ {c} : reap'[d] = reap[d]
    BY <2>1
  <2>3. w \notin joinList \cup joined /\ \A d \in Thread \ {c} : w \notin reap[d]
    BY <2>1 DEF Reaping, OnePlace
  <2>4. OnePlace'
    BY <2>1, <2>2, <2>3 DEF Reaping, OnePlace
  <2>5. \A v \in Worker : ToBeJoined(v)' <=> ToBeJoined(v) /\ v # w
    BY <2>1, <2>2, <2>3 DEF ToBeJoined
  <2>6. \A d \in Thread : reap'[d] \subseteq reap[d]
    BY <2>2
  <2>7. \A d \in Worker : /\ reap'[d] # {} => pc'[d] = "joining"
                          /\ \A v \in reap'[d] : pc'[v] \in {"released", "gone"}
    BY <2>1, <2>6 DEF Reaping
  <2>8. reap'[Main] # {} => mainPc' = "join"
    BY <2>1, <2>6 DEF Reaping
  <2> QED
    BY <2>1, <2>4, <2>5, <2>7, <2>8 DEF Reaping
<1>21. ASSUME ShutdownBegin PROVE Reaping'
  BY <1>21, ReapingKept DEF ShutdownBegin
<1>22. ASSUME NotifyDone PROVE Reaping'
  BY <1>22, ReapingKept DEF NotifyDone
<1>23. ASSUME AllExited PROVE Reaping'
  BY <1>23, ReapingKept DEF AllExited
<1>24. ASSUME TakeJoinList PROVE Reaping'
  <2>1. /\ mainPc = "takeList" /\ mainPc' = "join" /\ joinList' = {}
        /\ reap' = [reap EXCEPT ![Main] = joinList] /\ UNCHANGED <<joined, pc>>
    BY <1>24 DEF TakeJoinList
  <2>2. reap[Main] = {}
    BY <2>1 DEF Reaping
  <2>3. reap'[Main] = joinList /\ \A c \in Worker : reap'[c] = reap[c]
    BY <2>1
  <2>4. OnePlace'
    BY <2>1, <2>3 DEF Reaping, OnePlace
  <2>5. \A v \in Worker : ToBeJoined(v)' <=> ToBeJoined(v)
    BY <2>1, <2>2, <2>3 DEF ToBeJoined
  <2> QED
    BY <2>1, <2>3, <2>4, <2>5 DEF Reaping
<1>25. ASSUME ShutdownEnd PROVE Reaping'
  BY <1>25, ReapingKept DEF ShutdownEnd
<1>26. ASSUME UNCHANGED vars PROVE Reaping'
  BY <1>26, ReapingKept DEF vars
<1> QED
  BY <1>1, <1>2, <1>3, <1>4, <1>5, <1>6, <1>7, <1>8, <1>9, <1>10, <1>11,
       <1>12, <1>13, <1>14, <1>15, <1>16, <1>17, <1>18, <1>19, <1>20, <1>21,
       <1>22, <1>23, <1>24, <1>25, <1>26 DEF Next, RunStep, WorkerStep,
       ShutdownStep

LEMMA StepSweep ==
  ASSUME Control, Reaping, Sweep, [Next]_vars
  PROVE  Sweep'
<1> USE ConstantsAssumption
    DEF Sweep, Thread, Active, counts, lists, workers, mainVars, ghosts
<1>a. /\ pc \in [Worker -> WorkerPc] /\ done \in [Worker -> BOOLEAN]
      /\ call \in [Thread -> Call \cup {None}]
      /\ joinList \subseteq Worker /\ toNotify \subseteq Worker /\ all \subseteq Worker
  BY DEF Control, Types
<1>b. /\ shuttingDown <=> mainPc # "open"
      /\ ~shuttingDown => all = {w \in Worker : pc[w] \in Active} /\ toNotify = {}
  BY DEF Control, Listed
<1>c. \A w \in Worker : done[w] => shuttingDown /\ w \notin toNotify
  BY DEF Control, Told
<1> USE <1>a, <1>b, <1>c
<1>1. ASSUME NEW c \in Thread, NEW t \in Task, RunRefused(c, t) PROVE Sweep'
  BY <1>1 DEF RunRefused, MayCallRun
<1>2. ASSUME NEW c \in Thread, NEW t \in Task, NEW w \in Worker, RunNewWorker(c, t, w)
      PROVE Sweep'
  BY <1>2 DEF RunNewWorker, MayCallRun
<1>3. ASSUME NEW c \in Thread, NEW t \in Task, NEW w \in Worker, RunIdleWorker(c, t, w)
      PROVE Sweep'
  BY <1>3 DEF RunIdleWorker, MayCallRun
<1>4. ASSUME NEW c \in Thread, SetTask(c) PROVE Sweep'
  BY <1>4 DEF SetTask
<1>5. ASSUME NEW c \in Thread, StartThread(c) PROVE Sweep'
  <2>1. call[c] # None /\ call[c].set /\ pc' = [pc EXCEPT ![call[c].worker] = "started"]
        /\ UNCHANGED <<shutdownList, mainVars, joinList>>
    BY <1>5 DEF StartThread
  <2>2. pc[call[c].worker] = "new" /\ call[c].worker \in Worker
    BY <2>1 DEF Control, Calls, CallOk, Call
  <2> QED
    BY <2>1, <2>2
<1>6. ASSUME NEW w \in Worker, TakeTask(w) PROVE Sweep'
  BY <1>6 DEF TakeTask
<1>7. ASSUME NEW w \in Worker, AfterTask(w) PROVE Sweep'
  BY <1>7 DEF AfterTask
<1>8. ASSUME NEW w \in Worker, SkipIdle(w) PROVE Sweep'
  BY <1>8 DEF SkipIdle
<1>9. ASSUME NEW w \in Worker, SetIdle(w) PROVE Sweep'
  BY <1>9 DEF SetIdle, SetIdleLocked
<1>10. ASSUME NEW w \in Worker, TakeExited(w) PROVE Sweep'
  BY <1>10 DEF TakeExited, TakeJoinListOf
<1>11. ASSUME NEW w \in Worker, JoinDone(w) PROVE Sweep'
  BY <1>11 DEF JoinDone
<1>12. ASSUME NEW w \in Worker, SetIdleAfterReap(w) PROVE Sweep'
  BY <1>12 DEF SetIdleAfterReap, SetIdleLocked
<1>13. ASSUME NEW w \in Worker, WakeDone(w) PROVE Sweep'
  BY <1>13 DEF WakeDone
<1>14. ASSUME NEW w \in Worker, DeleteReleased(w) PROVE Sweep'
  BY <1>14 DEF DeleteReleased
<1>15. ASSUME NEW w \in Worker, AddToJoinList(w) PROVE Sweep'
  BY <1>15 DEF AddToJoinList
<1>16. ASSUME NEW w \in Worker, DeleteExiting(w) PROVE Sweep'
  BY <1>16 DEF DeleteExiting
<1>17. ASSUME NEW w \in Worker, TaskReturns(w) PROVE Sweep'
  BY <1>17 DEF TaskReturns
<1>18. ASSUME NEW w \in Worker, ReleaseIdleWorker(w) PROVE Sweep'
  BY <1>18 DEF ReleaseIdleWorker, RemoveWorkerFromIdleList, RemoveWorkerFromAllList
<1>19. ASSUME NEW w \in Worker, NotifyWorker(w) PROVE Sweep'
  BY <1>19 DEF NotifyWorker, AddWorkerToShutdownList
<1>20. ASSUME NEW c \in Thread, NEW w \in Worker, Join(c, w) PROVE Sweep'
  BY <1>20 DEF Join
<1>21. ASSUME ShutdownBegin PROVE Sweep'
  BY <1>21 DEF ShutdownBegin
<1>22. ASSUME NotifyDone PROVE Sweep'
  BY <1>22 DEF NotifyDone
<1>23. ASSUME AllExited PROVE Sweep'
  BY <1>23 DEF AllExited
<1>24. ASSUME TakeJoinList PROVE Sweep'
  BY <1>24 DEF TakeJoinList
<1>25. ASSUME ShutdownEnd PROVE Sweep'
  BY <1>25 DEF ShutdownEnd
<1>26. ASSUME UNCHANGED vars PROVE Sweep'
  BY <1>26 DEF vars
<1> QED
  BY <1>1, <1>2, <1>3, <1>4, <1>5, <1>6, <1>7, <1>8, <1>9, <1>10, <1>11,
       <1>12, <1>13, <1>14, <1>15, <1>16, <1>17, <1>18, <1>19, <1>20, <1>21,
       <1>22, <1>23, <1>24, <1>25, <1>26 DEF Next, RunStep, WorkerStep,
       ShutdownStep

THEOREM JoinsInductive == Spec => [](Reaping /\ Sweep)
<1>1. Init => Reaping /\ Sweep
  <2> SUFFICES ASSUME Init PROVE Reaping /\ Sweep
    OBVIOUS
  <2>1. /\ \A c \in Thread : reap[c] = {}
        /\ \A w \in Worker : pc[w] = "unborn"
    BY DEF Init
  <2>2. \A w \in Worker : ~ToBeJoined(w)
    BY <2>1 DEF Init, ToBeJoined
  <2> QED
    BY <2>1, <2>2 DEF Init, Reaping, OnePlace, Sweep, Active, Thread
<1>2. Control /\ Reaping /\ Sweep /\ [Next]_vars => (Reaping /\ Sweep)'
  BY StepReaping, StepSweep
<1> QED
  BY <1>1, <1>2, Inductive, PTL DEF Spec

(* Once Shutdown is at its end every worker was told, left, and was joined.  *)
LEMMA ClosedIsQuiet ==
  ASSUME Control, Reaping, Sweep, mainPc \in {"join", "closed"}, reap[Main] = {},
         NEW w \in Worker
  PROVE  pc[w] = "unborn" \/ (pc[w] = "gone" /\ w \in joined)
<1>1. toNotify = {} /\ shutdownList = {} /\ joinList = {} /\ shuttingDown
  BY DEF Sweep, Control, Listed
<1>2. \A v \in Worker : pc[v] \notin Active /\ pc[v] \notin {"exiting", "exitLocked"}
  BY <1>1 DEF Sweep
<1>3. \A c \in Thread : reap[c] = {}
  BY <1>2 DEF Reaping, Thread, Active
<1>4. ~ToBeJoined(w)
  BY <1>1, <1>3 DEF ToBeJoined
<1>5. pc[w] \in WorkerPc
  BY DEF Control, Types
<1>6. pc[w] \in {"unborn", "released", "gone"}
  BY <1>2, <1>5 DEF WorkerPc, Active
<1> QED
  BY <1>4, <1>6 DEF Reaping

(* Every thread that ends is joined, by one thread, and no worker waits for  *)
(* itself or for a thread that still needs a monitor.                        *)
THEOREM EveryThreadJoinedOnce == Spec => []JoinedOnce
<1>1. Control /\ Reaping /\ Sweep => JoinedOnce
  <2> SUFFICES ASSUME Control, Reaping, Sweep PROVE JoinedOnce
    OBVIOUS
  <2>1. ASSUME NEW c \in Worker, NEW w \in reap[c]
        PROVE  w # c /\ pc[w] \in {"released", "gone"}
    BY <2>1 DEF Reaping
  <2>2. mainPc = "closed" => reap[Main] = {}
    BY DEF Reaping
  <2>3. mainPc = "closed" =>
          \A w \in Worker : pc[w] = "unborn" \/ (pc[w] = "gone" /\ w \in joined)
    BY <2>2, ClosedIsQuiet
  <2> QED
    BY <2>1, <2>3 DEF JoinedOnce, Reaping, OnePlace
<1> QED
  BY <1>1, Inductive, JoinsInductive, PTL

-----------------------------------------------------------------------------
(* Where the tasks are, and the contract TaskPool. *)

LEMMA FlightKept ==
  ASSUME Flight, UNCHANGED <<task, job, call, taken, finished>>,
         \A w \in Worker :
           /\ pc[w] = "running" => pc'[w] = "running"
           /\ pc'[w] \in Leaving \cup {"unborn"}
                => pc[w] \in Leaving \cup {"unborn"} \/ task[w] = None
  PROVE  Flight'
<1>1. \A t : Unfinished(t)' <=> Unfinished(t)
  BY DEF Unfinished
<1>2. Pending' <=> Pending
  BY DEF Pending
<1>3. InOnePlace'
  BY <1>1, <1>2 DEF Flight, InOnePlace
<1>4. \A w \in Worker : /\ job'[w] # None => pc'[w] = "running"
                        /\ pc'[w] \in Leaving \cup {"unborn"} => task'[w] = None
  BY DEF Flight
<1> QED
  BY <1>3, <1>4 DEF Flight

LEMMA StepFlight ==
  ASSUME SpawningTask = {}, Control, Flight, [Next]_vars
  PROVE  Flight'
<1> USE ConstantsAssumption
    DEF Thread, Leaving, counts, lists, workers, mainVars, ghosts
<1>a. /\ pc \in [Worker -> WorkerPc]
      /\ task \in [Worker -> Task \cup {None}] /\ job \in [Worker -> Task \cup {None}]
      /\ call \in [Thread -> Call \cup {None}] /\ taken \subseteq Task
  BY DEF Control, Types
<1>b. /\ \A c \in Worker : call[c] = None
      /\ \A c \in Thread : MayCallRun(c) => c = Main
      /\ finished \subseteq taken
  BY DEF Flight, MayCallRun
<1>c. \A w \in Worker : pc[w] = "taskDone" => task[w] = None
  BY DEF Control, Tasks
<1> USE <1>a, <1>b, <1>c
<1>1. ASSUME NEW c \in Thread, NEW t \in Task, RunRefused(c, t) PROVE Flight'
  <2>1. UNCHANGED <<task, job, call, taken, finished, pc>>
    BY <1>1 DEF RunRefused
  <2> QED
    BY <2>1, FlightKept
<1>2. ASSUME NEW c \in Thread, NEW t \in Task, NEW w \in Worker, RunNewWorker(c, t, w)
      PROVE Flight'
  <2>1. /\ c = Main /\ call[c] = None /\ t \notin taken /\ taken' = taken \cup {t}
        /\ UNCHANGED <<task, job, finished>>
        /\ call' = [call EXCEPT ![c] = [worker |-> w, task |-> t, new |-> TRUE, set |-> FALSE]]
    BY <1>2 DEF RunNewWorker, MayCallRun
  <2>2. /\ call'[Main] # None /\ ~call'[Main].set /\ call'[Main].task = t
        /\ \A d \in Worker : call'[d] = None
    <3> DEFINE k == [worker |-> w, task |-> t, new |-> TRUE, set |-> FALSE]
    <3>1. k # None
      <4>1. k \in Call
        BY DEF Call
      <4> QED
        BY <4>1
    <3>2. call'[Main] = k /\ \A d \in Worker : call'[d] = call[d]
      BY <2>1
    <3> QED
      BY <3>1, <3>2
  <2>3. Pending' /\ ~Pending
    BY <2>1, <2>2 DEF Pending
  <2>4. /\ Unfinished(t)'
        /\ \A u : Unfinished(u)' <=> Unfinished(u) \/ u = t
        /\ ~Unfinished(t)
    BY <2>1 DEF Unfinished
  <2>5. InOnePlace'
    BY <2>1, <2>2, <2>3, <2>4 DEF Flight, InOnePlace
  <2>6. \A v \in Worker : /\ job'[v] # None => pc'[v] = "running"
                          /\ pc'[v] \in Leaving \cup {"unborn"} => task'[v] = None
    BY <1>2, <2>1 DEF RunNewWorker, Flight
  <2> QED
    BY <2>1, <2>2, <2>5, <2>6 DEF Flight
<1>3. ASSUME NEW c \in Thread, NEW t \in Task, NEW w \in Worker, RunIdleWorker(c, t, w)
      PROVE Flight'
  <2>1. /\ c = Main /\ call[c] = None /\ t \notin taken /\ taken' = taken \cup {t}
        /\ UNCHANGED <<task, job, finished>>
        /\ call' = [call EXCEPT ![c] = [worker |-> w, task |-> t, new |-> FALSE, set |-> FALSE]]
    BY <1>3 DEF RunIdleWorker, MayCallRun
  <2>2. /\ call'[Main] # None /\ ~call'[Main].set /\ call'[Main].task = t
        /\ \A d \in Worker : call'[d] = None
    <3> DEFINE k == [worker |-> w, task |-> t, new |-> FALSE, set |-> FALSE]
    <3>1. k # None
      <4>1. k \in Call
        BY DEF Call
      <4> QED
        BY <4>1
    <3>2. call'[Main] = k /\ \A d \in Worker : call'[d] = call[d]
      BY <2>1
    <3> QED
      BY <3>1, <3>2
  <2>3. Pending' /\ ~Pending
    BY <2>1, <2>2 DEF Pending
  <2>4. /\ Unfinished(t)'
        /\ \A u : Unfinished(u)' <=> Unfinished(u) \/ u = t
        /\ ~Unfinished(t)
    BY <2>1 DEF Unfinished
  <2>5. InOnePlace'
    BY <2>1, <2>2, <2>3, <2>4 DEF Flight, InOnePlace
  <2>6. \A v \in Worker : /\ job'[v] # None => pc'[v] = "running"
                          /\ pc'[v] \in Leaving \cup {"unborn"} => task'[v] = None
    BY <1>3, <2>1 DEF RunIdleWorker, Flight
  <2> QED
    BY <2>1, <2>2, <2>5, <2>6 DEF Flight
<1>4. ASSUME NEW c \in Thread, SetTask(c) PROVE Flight'
  <2> DEFINE w == call[c].worker
             t == call[c].task
  <2>1. /\ c = Main /\ Pending /\ w \in Worker /\ t \in Task
        /\ pc[w] \in {"new", "waiting"} /\ task[w] = None
    BY <1>4 DEF SetTask, Pending, Control, Calls, CallOk, Call
  <2>2. /\ task' = [task EXCEPT ![w] = t]
        /\ UNCHANGED <<job, taken, finished, pc>>
    BY <1>4, <2>1 DEF SetTask
  <2>3. /\ call'[Main] = None \/ call'[Main].set
        /\ \A d \in Worker : call'[d] = None
    BY <1>4, <2>1 DEF SetTask
  <2>4. ~Pending' /\ Unfinished(t) /\ \A u : Unfinished(u)' <=> Unfinished(u)
    BY <2>1, <2>2, <2>3 DEF Pending, Unfinished, Flight, InOnePlace
  <2>5. task'[w] = t /\ t # None /\ \A v \in Worker \ {w} : task'[v] = task[v]
    BY <2>1, <2>2
  <2>6. \A v \in Worker : task[v] # t /\ job[v] # t
    BY <2>1 DEF Flight, InOnePlace
  <2>7. \A u \in taken' \ finished' : \E v \in Worker : task'[v] = u \/ job'[v] = u
    <3> SUFFICES ASSUME NEW u \in taken \ finished
                 PROVE  \E v \in Worker : task'[v] = u \/ job'[v] = u
      BY <2>2
    <3>1. CASE u = t
      BY <2>1, <2>5, <3>1
    <3>2. CASE u # t
      BY <2>1, <2>2, <2>5, <3>2 DEF Flight, InOnePlace
    <3> QED
      BY <3>1, <3>2
  <2>8. InOnePlace'
    BY <2>1, <2>2, <2>4, <2>5, <2>6, <2>7 DEF Flight, InOnePlace
  <2>9. \A v \in Worker : /\ job'[v] # None => pc'[v] = "running"
                          /\ pc'[v] \in Leaving \cup {"unborn"} => task'[v] = None
    BY <2>1, <2>2, <2>5 DEF Flight
  <2> QED
    BY <2>2, <2>3, <2>8, <2>9 DEF Flight
<1>5. ASSUME NEW c \in Thread, StartThread(c) PROVE Flight'
  <2>1. /\ c = Main /\ call[c] # None /\ call[c].set /\ call[c].worker \in Worker
        /\ pc[call[c].worker] = "new"
    BY <1>5 DEF StartThread, Control, Calls, CallOk, Call
  <2>2. /\ pc' = [pc EXCEPT ![call[c].worker] = "started"]
        /\ call' = [call EXCEPT ![c] = None]
        /\ UNCHANGED <<task, job, taken, finished>>
    BY <1>5 DEF StartThread
  <2>3. ~Pending /\ ~Pending' /\ \A d \in Worker : call'[d] = None
    BY <2>1, <2>2 DEF Pending
  <2>4. \A u : Unfinished(u)' <=> Unfinished(u)
    BY <2>2 DEF Unfinished
  <2>5. InOnePlace'
    BY <2>2, <2>3, <2>4 DEF Flight, InOnePlace
  <2>6. \A v \in Worker : /\ job'[v] # None => pc'[v] = "running"
                          /\ pc'[v] \in Leaving \cup {"unborn"} => task'[v] = None
    BY <2>1, <2>2 DEF Flight
  <2> QED
    BY <2>2, <2>3, <2>5, <2>6 DEF Flight
<1>6. ASSUME NEW w \in Worker, TakeTask(w) PROVE Flight'
  <2>1. /\ task[w] # None /\ pc[w] \in {"started", "waiting"}
        /\ pc' = [pc EXCEPT ![w] = "running"]
        /\ job' = [job EXCEPT ![w] = task[w]] /\ task' = [task EXCEPT ![w] = None]
        /\ UNCHANGED <<call, taken, finished>>
    BY <1>6 DEF TakeTask
  <2>2. /\ job'[w] = task[w] /\ task'[w] = None /\ job[w] = None
        /\ \A v \in Worker \ {w} : job'[v] = job[v] /\ task'[v] = task[v]
    BY <2>1 DEF Flight
  <2>3. (Pending' <=> Pending) /\ \A u : Unfinished(u)' <=> Unfinished(u)
    BY <2>1 DEF Pending, Unfinished
  <2>4. \A v \in Worker \ {w} : task[w] # task[v] /\ task[w] # job[v]
    BY <2>1 DEF Flight, InOnePlace
  <2>5. \A u \in taken \ finished :
          \/ Pending /\ call[Main].task = u
          \/ \E v \in Worker : task'[v] = u \/ job'[v] = u
    <3> SUFFICES ASSUME NEW u \in taken \ finished, NEW v \in Worker,
                        task[v] = u \/ job[v] = u
                 PROVE  \E x \in Worker : task'[x] = u \/ job'[x] = u
      BY DEF Flight, InOnePlace
    <3>1. u # None
      OBVIOUS
    <3> QED
      BY <2>2, <3>1
  <2>6. InOnePlace'
    <3>1. /\ (Pending => Unfinished(call[Main].task))'
          /\ \A u \in taken' \ finished' :
               \/ Pending' /\ call'[Main].task = u
               \/ \E v \in Worker : task'[v] = u \/ job'[v] = u
      BY <2>1, <2>3, <2>5 DEF Flight, InOnePlace
    <3>2. ASSUME NEW v \in Worker
          PROVE  /\ (task[v] # None => Unfinished(task[v]))'
                 /\ (job[v] # None => Unfinished(job[v]))'
                 /\ Pending' => task'[v] # call'[Main].task /\ job'[v] # call'[Main].task
      <4>1. Pending => call[Main].task # None
        BY DEF Pending, Call
      <4> QED
        BY <2>1, <2>2, <2>3, <4>1 DEF Flight, InOnePlace
    <3>3. ASSUME NEW v \in Worker, NEW x \in Worker
          PROVE  /\ task'[v] # None => task'[v] # job'[x]
                 /\ task'[v] # None /\ x # v => task'[v] # task'[x]
                 /\ job'[v] # None /\ x # v => job'[v] # job'[x]
      BY <2>2, <2>4 DEF Flight, InOnePlace
    <3> QED
      BY <3>1, <3>2, <3>3 DEF InOnePlace
  <2>7. \A v \in Worker : /\ job'[v] # None => pc'[v] = "running"
                          /\ pc'[v] \in Leaving \cup {"unborn"} => task'[v] = None
    BY <2>1, <2>2 DEF Flight
  <2> QED
    BY <2>1, <2>6, <2>7 DEF Flight
<1>7. ASSUME NEW w \in Worker, AfterTask(w) PROVE Flight'
  BY <1>7, FlightKept DEF AfterTask
<1>8. ASSUME NEW w \in Worker, SkipIdle(w) PROVE Flight'
  BY <1>8, FlightKept DEF SkipIdle
<1>9. ASSUME NEW w \in Worker, SetIdle(w) PROVE Flight'
  BY <1>9, FlightKept DEF SetIdle, SetIdleLocked
<1>10. ASSUME NEW w \in Worker, TakeExited(w) PROVE Flight'
  BY <1>10, FlightKept DEF TakeExited, TakeJoinListOf
<1>11. ASSUME NEW w \in Worker, JoinDone(w) PROVE Flight'
  BY <1>11, FlightKept DEF JoinDone
<1>12. ASSUME NEW w \in Worker, SetIdleAfterReap(w) PROVE Flight'
  BY <1>12, FlightKept DEF SetIdleAfterReap, SetIdleLocked
<1>13. ASSUME NEW w \in Worker, WakeDone(w) PROVE Flight'
  BY <1>13, FlightKept DEF WakeDone
<1>14. ASSUME NEW w \in Worker, DeleteReleased(w) PROVE Flight'
  BY <1>14, FlightKept DEF DeleteReleased
<1>15. ASSUME NEW w \in Worker, AddToJoinList(w) PROVE Flight'
  BY <1>15, FlightKept DEF AddToJoinList
<1>16. ASSUME NEW w \in Worker, DeleteExiting(w) PROVE Flight'
  BY <1>16, FlightKept DEF DeleteExiting
<1>17. ASSUME NEW w \in Worker, TaskReturns(w) PROVE Flight'
  <2>1. /\ pc[w] = "running" /\ pc' = [pc EXCEPT ![w] = "taskDone"]
        /\ finished' = finished \cup {job[w]} /\ job' = [job EXCEPT ![w] = None]
        /\ UNCHANGED <<task, call, taken>> /\ job[w] # None
    BY <1>17 DEF TaskReturns, Control, Tasks
  <2>2. job'[w] = None /\ \A v \in Worker \ {w} : job'[v] = job[v]
    BY <2>1
  <2>3. /\ Unfinished(job[w]) /\ (Pending' <=> Pending)
        /\ \A u : Unfinished(u)' <=> Unfinished(u) /\ u # job[w]
    BY <2>1 DEF Pending, Unfinished, Flight, InOnePlace
  <2>4. /\ Pending => call[Main].task # job[w]
        /\ \A v \in Worker : /\ task[v] # None => task[v] # job[w]
                             /\ v # w => job[v] # job[w]
    BY <2>1 DEF Flight, InOnePlace
  <2>5. \A u \in taken' \ finished' :
          \/ Pending' /\ call'[Main].task = u
          \/ \E v \in Worker : task'[v] = u \/ job'[v] = u
    BY <2>1, <2>2, <2>3 DEF Flight, InOnePlace
  <2>6. InOnePlace'
    <3>1. (Pending => Unfinished(call[Main].task))'
      BY <2>1, <2>3, <2>4 DEF Flight, InOnePlace
    <3>2. ASSUME NEW v \in Worker
          PROVE  /\ (task[v] # None => Unfinished(task[v]))'
                 /\ (job[v] # None => Unfinished(job[v]))'
                 /\ Pending' => task'[v] # call'[Main].task /\ job'[v] # call'[Main].task
      <4>1. Pending => call[Main].task # None
        BY DEF Pending, Call
      <4>2. v # w => job[v] # job[w]
        BY <2>4
      <4> QED
        BY <2>1, <2>2, <2>3, <2>4, <4>1, <4>2 DEF Flight, InOnePlace
    <3>3. ASSUME NEW v \in Worker, NEW x \in Worker
          PROVE  /\ task'[v] # None => task'[v] # job'[x]
                 /\ task'[v] # None /\ x # v => task'[v] # task'[x]
                 /\ job'[v] # None /\ x # v => job'[v] # job'[x]
      BY <2>1, <2>2 DEF Flight, InOnePlace
    <3> QED
      BY <2>5, <3>1, <3>2, <3>3 DEF InOnePlace
  <2>7. \A v \in Worker : /\ job'[v] # None => pc'[v] = "running"
                          /\ pc'[v] \in Leaving \cup {"unborn"} => task'[v] = None
    BY <2>1, <2>2 DEF Flight
  <2>8. finished' \subseteq taken'
    BY <2>1, <2>3 DEF Unfinished
  <2> QED
    BY <2>1, <2>6, <2>7, <2>8 DEF Flight
<1>18. ASSUME NEW w \in Worker, ReleaseIdleWorker(w) PROVE Flight'
  BY <1>18, FlightKept DEF ReleaseIdleWorker, RemoveWorkerFromIdleList,
       RemoveWorkerFromAllList
<1>19. ASSUME NEW w \in Worker, NotifyWorker(w) PROVE Flight'
  BY <1>19, FlightKept DEF NotifyWorker, AddWorkerToShutdownList
<1>20. ASSUME NEW c \in Thread, NEW w \in Worker, Join(c, w) PROVE Flight'
  BY <1>20, FlightKept DEF Join
<1>21. ASSUME ShutdownBegin PROVE Flight'
  BY <1>21, FlightKept DEF ShutdownBegin
<1>22. ASSUME NotifyDone PROVE Flight'
  BY <1>22, FlightKept DEF NotifyDone
<1>23. ASSUME AllExited PROVE Flight'
  BY <1>23, FlightKept DEF AllExited
<1>24. ASSUME TakeJoinList PROVE Flight'
  BY <1>24, FlightKept DEF TakeJoinList
<1>25. ASSUME ShutdownEnd PROVE Flight'
  BY <1>25, FlightKept DEF ShutdownEnd
<1>26. ASSUME UNCHANGED vars PROVE Flight'
  BY <1>26, FlightKept DEF vars
<1> QED
  BY <1>1, <1>2, <1>3, <1>4, <1>5, <1>6, <1>7, <1>8, <1>9, <1>10, <1>11,
       <1>12, <1>13, <1>14, <1>15, <1>16, <1>17, <1>18, <1>19, <1>20, <1>21,
       <1>22, <1>23, <1>24, <1>25, <1>26 DEF Next, RunStep, WorkerStep,
       ShutdownStep

(* With only the main thread calling Run, a task the pool took is in one     *)
(* place until it has run, and never runs again.                             *)
THEOREM TasksKeepTheirPlace == ASSUME SpawningTask = {} PROVE Spec => []Flight
<1>1. Init => Flight
  BY ConstantsAssumption DEF Init, Flight, InOnePlace, Pending, Thread
<1>2. Control /\ Flight /\ [Next]_vars => Flight'
  BY StepFlight
<1> QED
  BY <1>1, <1>2, Inductive, PTL DEF Spec

LEMMA ClosedIsDone ==
  ASSUME Control, Reaping, Sweep, Flight, mainPc \in {"join", "closed"}, reap[Main] = {}
  PROVE  taken \subseteq finished
<1>1. \A w \in Worker : pc[w] \in {"unborn", "gone"}
  BY ClosedIsQuiet
<1>2. \A w \in Worker : task[w] = None /\ job[w] = None
  BY <1>1 DEF Flight, Leaving
<1>3. ~Pending
  BY DEF Pending, Control, Listed, Calls, CallOk, Thread
<1>4. None \notin taken
  BY ConstantsAssumption DEF Control, Types
<1> QED
  BY <1>2, <1>3, <1>4 DEF Flight, InOnePlace

(* Isolate::Shutdown waits for all tasks, if no task hands one to the pool.  *)
THEOREM ShutdownWaits == ASSUME SpawningTask = {} PROVE Spec => []ShutdownWaitsForTasks
<1>1. Control /\ Reaping /\ Sweep /\ Flight => ShutdownWaitsForTasks
  BY ClosedIsDone DEF ShutdownWaitsForTasks, Reaping
<1> QED
  BY <1>1, Inductive, JoinsInductive, TasksKeepTheirPlace, PTL

LEMMA StepImplements ==
  ASSUME SpawningTask = {}, Control, Reaping, Sweep, Flight, [Next]_vars
  PROVE  [Abstract!Next]_(Abstract!vars)
<1> USE ConstantsAssumption
    DEF Thread, counts, lists, workers, mainVars, ghosts, Abstract!vars
<1>a. \A c \in Thread : MayCallRun(c) => c = Main
  BY DEF MayCallRun
<1>b. shuttingDown <=> mainPc # "open"
  BY DEF Control, Listed
<1> USE <1>a, <1>b
<1>1. ASSUME NEW c \in Thread, NEW t \in Task, RunRefused(c, t)
      PROVE [Abstract!Next]_(Abstract!vars)
  BY <1>1 DEF RunRefused, MayCallRun
<1>2. ASSUME NEW c \in Thread, NEW t \in Task, NEW w \in Worker, RunNewWorker(c, t, w)
      PROVE [Abstract!Next]_(Abstract!vars)
  <2>1. /\ mainPc = "open" /\ t \notin taken /\ taken' = taken \cup {t}
        /\ UNCHANGED <<refused, finished, mainPc>>
    BY <1>2 DEF RunNewWorker, MayCallRun
  <2>2. Abstract!Take(t)
    BY <2>1 DEF Abstract!Take
  <2> QED
    BY <2>2 DEF Abstract!Next
<1>3. ASSUME NEW c \in Thread, NEW t \in Task, NEW w \in Worker, RunIdleWorker(c, t, w)
      PROVE [Abstract!Next]_(Abstract!vars)
  <2>1. /\ mainPc = "open" /\ t \notin taken /\ taken' = taken \cup {t}
        /\ UNCHANGED <<refused, finished, mainPc>>
    BY <1>3 DEF RunIdleWorker, MayCallRun
  <2>2. Abstract!Take(t)
    BY <2>1 DEF Abstract!Take
  <2> QED
    BY <2>2 DEF Abstract!Next
<1>4. ASSUME NEW c \in Thread, SetTask(c) PROVE [Abstract!Next]_(Abstract!vars)
  BY <1>4 DEF SetTask
<1>5. ASSUME NEW c \in Thread, StartThread(c) PROVE [Abstract!Next]_(Abstract!vars)
  BY <1>5 DEF StartThread
<1>6. ASSUME NEW w \in Worker, TakeTask(w) PROVE [Abstract!Next]_(Abstract!vars)
  BY <1>6 DEF TakeTask
<1>7. ASSUME NEW w \in Worker, AfterTask(w) PROVE [Abstract!Next]_(Abstract!vars)
  BY <1>7 DEF AfterTask
<1>8. ASSUME NEW w \in Worker, SkipIdle(w) PROVE [Abstract!Next]_(Abstract!vars)
  BY <1>8 DEF SkipIdle
<1>9. ASSUME NEW w \in Worker, SetIdle(w) PROVE [Abstract!Next]_(Abstract!vars)
  BY <1>9 DEF SetIdle, SetIdleLocked
<1>10. ASSUME NEW w \in Worker, TakeExited(w) PROVE [Abstract!Next]_(Abstract!vars)
  BY <1>10 DEF TakeExited, TakeJoinListOf
<1>11. ASSUME NEW w \in Worker, JoinDone(w) PROVE [Abstract!Next]_(Abstract!vars)
  BY <1>11 DEF JoinDone
<1>12. ASSUME NEW w \in Worker, SetIdleAfterReap(w)
       PROVE [Abstract!Next]_(Abstract!vars)
  BY <1>12 DEF SetIdleAfterReap, SetIdleLocked
<1>13. ASSUME NEW w \in Worker, WakeDone(w) PROVE [Abstract!Next]_(Abstract!vars)
  BY <1>13 DEF WakeDone
<1>14. ASSUME NEW w \in Worker, DeleteReleased(w)
       PROVE [Abstract!Next]_(Abstract!vars)
  BY <1>14 DEF DeleteReleased
<1>15. ASSUME NEW w \in Worker, AddToJoinList(w)
       PROVE [Abstract!Next]_(Abstract!vars)
  BY <1>15 DEF AddToJoinList
<1>16. ASSUME NEW w \in Worker, DeleteExiting(w)
       PROVE [Abstract!Next]_(Abstract!vars)
  BY <1>16 DEF DeleteExiting
<1>17. ASSUME NEW w \in Worker, TaskReturns(w) PROVE [Abstract!Next]_(Abstract!vars)
  <2>1. /\ pc[w] = "running" /\ job[w] # None /\ finished' = finished \cup {job[w]}
        /\ UNCHANGED <<taken, refused, mainPc>>
    BY <1>17 DEF TaskReturns, Control, Tasks
  <2>2. job[w] \in taken \ finished /\ job[w] \in Task
    BY <2>1 DEF Flight, InOnePlace, Unfinished, Control, Types
  <2>3. mainPc # "closed"
    BY <2>1 DEF Sweep, Active
  <2>4. Abstract!Finish(job[w])
    BY <2>1, <2>2, <2>3 DEF Abstract!Finish
  <2> QED
    BY <2>2, <2>4 DEF Abstract!Next
<1>18. ASSUME NEW w \in Worker, ReleaseIdleWorker(w)
       PROVE [Abstract!Next]_(Abstract!vars)
  BY <1>18 DEF ReleaseIdleWorker, RemoveWorkerFromIdleList, RemoveWorkerFromAllList
<1>19. ASSUME NEW w \in Worker, NotifyWorker(w)
       PROVE [Abstract!Next]_(Abstract!vars)
  BY <1>19 DEF NotifyWorker, AddWorkerToShutdownList
<1>20. ASSUME NEW c \in Thread, NEW w \in Worker, Join(c, w)
       PROVE [Abstract!Next]_(Abstract!vars)
  BY <1>20 DEF Join
<1>21. ASSUME ShutdownBegin PROVE [Abstract!Next]_(Abstract!vars)
  BY <1>21 DEF ShutdownBegin, Abstract!Next, Abstract!Close
<1>22. ASSUME NotifyDone PROVE [Abstract!Next]_(Abstract!vars)
  BY <1>22 DEF NotifyDone
<1>23. ASSUME AllExited PROVE [Abstract!Next]_(Abstract!vars)
  BY <1>23 DEF AllExited
<1>24. ASSUME TakeJoinList PROVE [Abstract!Next]_(Abstract!vars)
  BY <1>24 DEF TakeJoinList
<1>25. ASSUME ShutdownEnd PROVE [Abstract!Next]_(Abstract!vars)
  <2>1. /\ mainPc = "join" /\ mainPc' = "closed" /\ reap[Main] = {}
        /\ UNCHANGED <<taken, refused, finished>>
    BY <1>25 DEF ShutdownEnd
  <2>2. taken \subseteq finished
    BY <2>1, ClosedIsDone
  <2> QED
    BY <2>1, <2>2 DEF Abstract!Next, Abstract!Closed
<1>26. ASSUME UNCHANGED vars PROVE [Abstract!Next]_(Abstract!vars)
  BY <1>26 DEF vars
<1> QED
  BY <1>1, <1>2, <1>3, <1>4, <1>5, <1>6, <1>7, <1>8, <1>9, <1>10, <1>11,
       <1>12, <1>13, <1>14, <1>15, <1>16, <1>17, <1>18, <1>19, <1>20, <1>21,
       <1>22, <1>23, <1>24, <1>25, <1>26 DEF Next, RunStep, WorkerStep,
       ShutdownStep

(* ThreadPool implements TaskPool's initial state and steps; the fairness    *)
(* half of AloneImplementsTaskPool (MCThreadPool) is left to the run.        *)
THEOREM StepsImplementTaskPool ==
  ASSUME SpawningTask = {}
  PROVE  Spec => Abstract!Init /\ [][Abstract!Next]_(Abstract!vars)
<1>1. Init => Abstract!Init
  BY DEF Init, Abstract!Init
<1>2. Control /\ Reaping /\ Sweep /\ Flight /\ [Next]_vars
        => [Abstract!Next]_(Abstract!vars)
  BY StepImplements
<1> QED
  BY <1>1, <1>2, Inductive, JoinsInductive, TasksKeepTheirPlace, PTL DEF Spec

===============================================================================
