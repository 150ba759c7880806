------------------------------ MODULE ThreadPool ------------------------------
(***************************************************************************)
(* vm/thread_pool.cc: the pool that runs child isolates.  A caller of Run   *)
(* hands a task to an idle worker or to a new one; a worker that has been   *)
(* idle for five seconds releases itself; Shutdown, called once by the main *)
(* thread, tells every worker it is done, waits until all of them have      *)
(* deleted themselves and joins their threads.                              *)
(*                                                                          *)
(* A section under ThreadPool::mutex_ is one action.  Worker::monitor_ is   *)
(* held over several actions (a worker reaps exited threads without letting *)
(* go of it), so its owner is a function of the worker's pc.  exit_monitor_ *)
(* is held by Shutdown while it notifies.  The singly linked lists are sets:*)
(* the code takes the most recent idle worker, the model any, and no result *)
(* here depends on the order.                                               *)
(***************************************************************************)
EXTENDS Naturals, FiniteSets

CONSTANTS
  Worker,        (* the Worker objects (and their threads) that may be made *)
  Task,          (* the tasks; each is handed to Run at most once           *)
  SpawningTask,  (* the tasks whose code itself calls Run (Isolate::Spawn)  *)
  Main,          (* the main thread: calls Run, then Shutdown               *)
  None           (* nullptr                                                 *)

(* A call of Run past its locked section: the worker it picked, the task,   *)
(* whether the worker is new, and whether SetTask has been done.            *)
Call == [worker : Worker, task : Task, new : BOOLEAN, set : BOOLEAN]

ASSUME ConstantsAssumption ==
  /\ SpawningTask \subseteq Task
  /\ Main \notin Worker
  /\ None \notin Worker \cup Task \cup {Main} \cup Call

VARIABLES
  shuttingDown,  \* shutting_down_
  all, idle,     \* all_workers_, idle_workers_
  started, stopped, running, idling, \* count_started_, count_stopped_, ...
  joinList,      \* join_list_: workers whose threads are to be joined
  shutdownList,  \* shutting_down_workers_
  pc,            \* where each worker's thread is
  task,          \* Worker::task_
  done,          \* Worker::done_
  job,           \* the task a worker is running
  reap,          \* the join list a thread has taken
  call,          \* the Run each thread is inside of
  mainPc,        \* where Shutdown is
  toNotify,      \* the workers Shutdown has yet to tell (saved)
  taken,         \* tasks Run has returned true for, or is about to
  refused,       \* tasks Run returned false for
  finished,      \* tasks that ran to their end
  joined,        \* threads that were joined
  freedUse       \* threads whose SetTask has touched a deleted Worker

counts   == <<started, stopped, running, idling>>
lists    == <<all, idle, joinList, shutdownList>>
workers  == <<pc, task, done, job>>
mainVars == <<mainPc, toNotify, shuttingDown>>
ghosts   == <<taken, refused, finished, joined, freedUse>>
vars     == <<counts, lists, workers, reap, call, mainVars, ghosts>>

Thread == Worker \cup {Main}

WorkerPc == {"unborn", "new", "started", "running", "taskDone", "reap",
             "joining", "relock", "waiting", "exiting", "exitLocked",
             "released", "gone"}

MainPc == {"open", "notify", "wait", "takeList", "join", "closed"}

Init ==
  /\ shuttingDown = FALSE
  /\ all = {} /\ idle = {} /\ joinList = {} /\ shutdownList = {}
  /\ started = 0 /\ stopped = 0 /\ running = 0 /\ idling = 0
  /\ pc = [w \in Worker |-> "unborn"]
  /\ task = [w \in Worker |-> None]
  /\ done = [w \in Worker |-> FALSE]
  /\ job = [w \in Worker |-> None]
  /\ reap = [t \in Thread |-> {}]
  /\ call = [t \in Thread |-> None]
  /\ mainPc = "open" /\ toNotify = {}
  /\ taken = {} /\ refused = {} /\ finished = {} /\ joined = {}
  /\ freedUse = {}

-----------------------------------------------------------------------------
(* Run *)

(* A worker holds its own monitor_ from the end of a task to its wait.      *)
HoldsMonitor(w) == pc[w] \in {"reap", "joining", "relock"}

(* The main isolate's thread calls Run before Shutdown; a worker does while *)
(* it runs a task that spawns.                                              *)
MayCallRun(c) ==
  /\ call[c] = None
  /\ \/ c = Main /\ mainPc = "open"
     \/ c \in Worker /\ pc[c] = "running" /\ job[c] \in SpawningTask

RunRefused(c, t) ==
  /\ MayCallRun(c)
  /\ t \notin taken \cup refused
  /\ shuttingDown
  /\ refused' = refused \cup {t}
  /\ UNCHANGED <<counts, lists, workers, reap, call, mainVars, taken,
                 finished, joined, freedUse>>

RunNewWorker(c, t, w) ==
  /\ MayCallRun(c)
  /\ t \notin taken \cup refused
  /\ ~shuttingDown
  /\ idle = {}
  /\ pc[w] = "unborn"
  /\ pc' = [pc EXCEPT ![w] = "new"]
  /\ all' = all \cup {w}
  /\ started' = started + 1
  /\ running' = running + 1
  /\ taken' = taken \cup {t}
  /\ call' = [call EXCEPT ![c] = [worker |-> w, task |-> t,
                                  new |-> TRUE, set |-> FALSE]]
  /\ UNCHANGED <<stopped, idling, idle, joinList, shutdownList, task, done,
                 job, reap, mainVars, refused, finished, joined, freedUse>>

RunIdleWorker(c, t, w) ==
  /\ MayCallRun(c)
  /\ t \notin taken \cup refused
  /\ ~shuttingDown
  /\ w \in idle
  /\ idle' = idle \ {w}
  /\ idling' = idling - 1
  /\ running' = running + 1
  /\ taken' = taken \cup {t}
  /\ call' = [call EXCEPT ![c] = [worker |-> w, task |-> t,
                                  new |-> FALSE, set |-> FALSE]]
  /\ UNCHANGED <<started, stopped, all, joinList, shutdownList, workers, reap,
                 mainVars, refused, finished, joined, freedUse>>

(* Worker::SetTask, after mutex_ was released.  On a deleted worker it is   *)
(* undefined; the mildest outcome, the task lost in freed memory, is taken. *)
SetTask(c) ==
  /\ call[c] # None
  /\ ~call[c].set
  /\ LET w == call[c].worker IN
     /\ ~HoldsMonitor(w)
     /\ IF pc[w] = "gone"
          THEN /\ freedUse' = freedUse \cup {c}
               /\ UNCHANGED task
          ELSE /\ task' = [task EXCEPT ![w] = call[c].task]
               /\ UNCHANGED freedUse
  /\ call' = [call EXCEPT ![c] = IF @.new THEN [worker |-> @.worker, task |-> @.task,
                                           new |-> TRUE, set |-> TRUE]
                                          ELSE None]
  /\ UNCHANGED <<counts, lists, pc, done, job, reap, mainVars, taken, refused,
                 finished, joined>>

StartThread(c) ==
  /\ call[c] # None
  /\ call[c].set
  /\ pc' = [pc EXCEPT ![call[c].worker] = "started"]
  /\ call' = [call EXCEPT ![c] = None]
  /\ UNCHANGED <<counts, lists, task, done, job, reap, mainVars, ghosts>>

-----------------------------------------------------------------------------
(* Worker::Main and Worker::Loop *)

(* The loop's head: task_ is taken and the monitor released.  A worker that *)
(* waits comes here for any task, even when it is done_.                    *)
TakeTaskKeepingIt(w) ==  \* mutant: task_ is not reset
  /\ pc[w] \in {"started", "waiting"}
  /\ task[w] # None
  /\ pc' = [pc EXCEPT ![w] = "running"]
  /\ job' = [job EXCEPT ![w] = task[w]]
  /\ UNCHANGED <<counts, lists, task, done, reap, call, mainVars, ghosts>>

TakeTask(w) ==
  /\ pc[w] \in {"started", "waiting"}
  /\ task[w] # None
  /\ pc' = [pc EXCEPT ![w] = "running"]
  /\ job' = [job EXCEPT ![w] = task[w]]
  /\ task' = [task EXCEPT ![w] = None]
  /\ UNCHANGED <<counts, lists, done, reap, call, mainVars, ghosts>>

TaskReturns(w) ==
  /\ pc[w] = "running"
  /\ call[w] = None
  /\ pc' = [pc EXCEPT ![w] = "taskDone"]
  /\ finished' = finished \cup {job[w]}
  /\ job' = [job EXCEPT ![w] = None]
  /\ UNCHANGED <<counts, lists, task, done, reap, call, mainVars, taken,
                 refused, joined, freedUse>>

(* The monitor is entered again and done_ is read under it.                 *)
AfterTask(w) ==
  /\ pc[w] = "taskDone"
  /\ pc' = [pc EXCEPT ![w] = IF done[w] THEN "exiting" ELSE "reap"]
  /\ UNCHANGED <<counts, lists, task, done, job, reap, call, mainVars, ghosts>>

SetIdleStillRunning(w) ==  \* mutant: the running count is kept
  /\ idle' = idle \cup {w}
  /\ idling' = idling + 1
  /\ UNCHANGED running

SetIdleLocked(w) ==
  /\ idle' = idle \cup {w}
  /\ idling' = idling + 1
  /\ running' = running - 1

(* SetIdleAndReapExited, its first section under mutex_: nothing when the  *)
(* pool is shutting down; idle at once when no thread has to be joined;     *)
(* otherwise the worker takes the list to join it outside of mutex_.        *)
SkipIdle(w) ==
  /\ pc[w] = "reap"
  /\ shuttingDown
  /\ pc' = [pc EXCEPT ![w] = "waiting"]
  /\ UNCHANGED <<counts, lists, task, done, job, reap, call, mainVars, ghosts>>

SetIdle(w) ==
  /\ pc[w] = "reap"
  /\ ~shuttingDown
  /\ joinList = {}
  /\ SetIdleLocked(w)
  /\ pc' = [pc EXCEPT ![w] = "waiting"]
  /\ UNCHANGED <<started, stopped, all, joinList, shutdownList, task, done,
                 job, reap, call, mainVars, ghosts>>

TakeJoinListOf(w) ==
  /\ pc[w] = "reap"
  /\ joinList # {}
  /\ reap' = [reap EXCEPT ![w] = joinList]
  /\ pc' = [pc EXCEPT ![w] = "joining"]
  /\ UNCHANGED <<counts, all, idle, shutdownList, task, done, job, call,
                 mainVars, ghosts>>

TakeExitedAnyTime(w) == TakeJoinListOf(w) /\ joinList' = {}  \* mutant: no check

TakeExitedTwice(w) ==  \* mutant: join_list_ is not cleared
  TakeJoinListOf(w) /\ ~shuttingDown /\ UNCHANGED joinList

TakeExited(w) == TakeJoinListOf(w) /\ ~shuttingDown /\ joinList' = {}

(* JoinList::Join: blocks until the thread has ended.                       *)
Join(c, w) ==
  /\ \/ c = Main /\ mainPc = "join"
     \/ c \in Worker /\ pc[c] = "joining"
  /\ w \in reap[c]
  /\ pc[w] = "gone"
  /\ reap' = [reap EXCEPT ![c] = @ \ {w}]
  /\ joined' = joined \cup {w}
  /\ UNCHANGED <<counts, lists, workers, call, mainVars, taken, refused,
                 finished, freedUse>>

JoinDone(w) ==
  /\ pc[w] = "joining"
  /\ reap[w] = {}
  /\ pc' = [pc EXCEPT ![w] = "relock"]
  /\ UNCHANGED <<counts, lists, task, done, job, reap, call, mainVars, ghosts>>

(* SetIdleAndReapExited: its second section under mutex_.                   *)
SetIdleAfterReap(w) ==
  /\ pc[w] = "relock"
  /\ IF shuttingDown THEN UNCHANGED <<idle, idling, running>>
                     ELSE SetIdleLocked(w)
  /\ pc' = [pc EXCEPT ![w] = "waiting"]
  /\ UNCHANGED <<started, stopped, all, joinList, shutdownList, task, done,
                 job, reap, call, mainVars, ghosts>>

(* The wait ends with no task: a worker that is done_ leaves the loop.      *)
WakeDoneFirst(w) ==  \* mutant: done_ is looked at before task_
  /\ pc[w] = "waiting"
  /\ done[w]
  /\ pc' = [pc EXCEPT ![w] = "exiting"]
  /\ UNCHANGED <<counts, lists, task, done, job, reap, call, mainVars, ghosts>>

WakeDone(w) ==
  /\ pc[w] = "waiting"
  /\ task[w] = None
  /\ done[w]
  /\ pc' = [pc EXCEPT ![w] = "exiting"]
  /\ UNCHANGED <<counts, lists, task, done, job, reap, call, mainVars, ghosts>>

Unlisted(w) == TRUE  \* mutant: any worker may be released
RemoveWorkerFromIdleList(w) == w \in idle

RemoveWorkerFromAllList(w) == all' = all \ {w}

(* The wait timed out and ReleaseIdleWorker succeeds: the worker is in no   *)
(* list any more and its thread will be joined by somebody.                 *)
ReleaseIdleWorker(w) ==
  /\ pc[w] = "waiting"
  /\ task[w] = None
  /\ ~done[w]
  /\ ~shuttingDown
  /\ RemoveWorkerFromIdleList(w)
  /\ idle' = idle \ {w}
  /\ RemoveWorkerFromAllList(w)
  /\ joinList' = joinList \cup {w}
  /\ stopped' = stopped + 1
  /\ idling' = idling - 1
  /\ pc' = [pc EXCEPT ![w] = "released"]
  /\ UNCHANGED <<started, running, shutdownList, task, done, job, reap, call,
                 mainVars, ghosts>>

DeleteReleased(w) ==
  /\ pc[w] = "released"
  /\ pc' = [pc EXCEPT ![w] = "gone"]
  /\ UNCHANGED <<counts, lists, task, done, job, reap, call, mainVars, ghosts>>

(* Worker::Main when the pool is shutting down, first under mutex_ ...      *)
AddToJoinList(w) ==
  /\ pc[w] = "exiting"
  /\ joinList' = joinList \cup {w}
  /\ pc' = [pc EXCEPT ![w] = "exitLocked"]
  /\ UNCHANGED <<counts, all, idle, shutdownList, task, done, job, reap, call,
                 mainVars, ghosts>>

(* ... then under exit_monitor_, which Shutdown holds while it notifies.    *)
DeleteExiting(w) ==
  /\ pc[w] = "exitLocked"
  /\ mainPc # "notify"
  /\ shutdownList' = shutdownList \ {w}
  /\ pc' = [pc EXCEPT ![w] = "gone"]
  /\ UNCHANGED <<counts, all, idle, joinList, task, done, job, reap, call,
                 mainVars, ghosts>>

-----------------------------------------------------------------------------
(* Shutdown *)

ShutdownBegin ==
  /\ mainPc = "open"
  /\ call[Main] = None
  /\ shuttingDown' = TRUE
  /\ toNotify' = all
  /\ all' = {} /\ idle' = {}
  /\ stopped' = stopped + Cardinality(all)
  /\ idling' = 0 /\ running' = 0
  /\ mainPc' = "notify"
  /\ UNCHANGED <<started, joinList, shutdownList, workers, reap, call, ghosts>>

AddWorkerToShutdownList(w) == shutdownList' = shutdownList \cup {w}

(* AddWorkerToShutdownList and Worker::Shutdown, which waits for monitor_.  *)
NotifyWorker(w) ==
  /\ mainPc = "notify"
  /\ w \in toNotify
  /\ ~HoldsMonitor(w)
  /\ toNotify' = toNotify \ {w}
  /\ AddWorkerToShutdownList(w)
  /\ done' = [done EXCEPT ![w] = TRUE]
  /\ UNCHANGED <<counts, all, idle, joinList, pc, task, job, reap, call,
                 mainPc, shuttingDown, ghosts>>

NotifyDone ==
  /\ mainPc = "notify"
  /\ toNotify = {}
  /\ mainPc' = "wait"
  /\ UNCHANGED <<counts, lists, workers, reap, call, toNotify, shuttingDown,
                 ghosts>>

AllExited ==
  /\ mainPc = "wait"
  /\ shutdownList = {}
  /\ mainPc' = "takeList"
  /\ UNCHANGED <<counts, lists, workers, reap, call, toNotify, shuttingDown,
                 ghosts>>

TakeJoinList ==
  /\ mainPc = "takeList"
  /\ reap' = [reap EXCEPT ![Main] = joinList]
  /\ joinList' = {}
  /\ mainPc' = "join"
  /\ UNCHANGED <<counts, all, idle, shutdownList, workers, call, toNotify,
                 shuttingDown, ghosts>>

ShutdownEnd ==
  /\ mainPc = "join"
  /\ reap[Main] = {}
  /\ mainPc' = "closed"
  /\ UNCHANGED <<counts, lists, workers, reap, call, toNotify, shuttingDown,
                 ghosts>>

-----------------------------------------------------------------------------
RunStep(c) == SetTask(c) \/ StartThread(c)

WorkerStep(w) ==
  \/ TakeTask(w) \/ AfterTask(w) \/ SkipIdle(w) \/ SetIdle(w)
  \/ TakeExited(w) \/ JoinDone(w) \/ SetIdleAfterReap(w) \/ WakeDone(w)
  \/ DeleteReleased(w) \/ AddToJoinList(w) \/ DeleteExiting(w)

ShutdownStep == NotifyDone \/ AllExited \/ TakeJoinList \/ ShutdownEnd

Next ==
  \/ \E c \in Thread, t \in Task : RunRefused(c, t)
  \/ \E c \in Thread, t \in Task, w \in Worker :
       RunNewWorker(c, t, w) \/ RunIdleWorker(c, t, w)
  \/ \E c \in Thread : RunStep(c)
  \/ \E w \in Worker :
       WorkerStep(w) \/ TaskReturns(w) \/ ReleaseIdleWorker(w) \/ NotifyWorker(w)
  \/ \E c \in Thread, w \in Worker : Join(c, w)
  \/ ShutdownBegin
  \/ ShutdownStep

(* Every thread is scheduled, and every task ends.  Nobody has to call Run  *)
(* or Shutdown, and no worker has to be idle long enough to time out.       *)
Fairness ==
  /\ \A c \in Thread : WF_vars(RunStep(c))
  /\ \A w \in Worker : WF_vars(WorkerStep(w)) /\ WF_vars(TaskReturns(w))
  /\ \A w \in Worker : WF_vars(NotifyWorker(w))
  /\ \A c \in Thread, w \in Worker : WF_vars(Join(c, w))
  /\ WF_vars(ShutdownStep)

Spec == Init /\ [][Next]_vars /\ Fairness

-----------------------------------------------------------------------------
(* Properties *)

TypeOK ==
  /\ shuttingDown \in BOOLEAN
  /\ all \subseteq Worker /\ idle \subseteq Worker
  /\ joinList \subseteq Worker /\ shutdownList \subseteq Worker
  /\ started \in Nat /\ stopped \in Nat /\ running \in Nat /\ idling \in Nat
  /\ pc \in [Worker -> WorkerPc]
  /\ task \in [Worker -> Task \cup {None}]
  /\ done \in [Worker -> BOOLEAN]
  /\ job \in [Worker -> Task \cup {None}]
  /\ reap \in [Thread -> SUBSET Worker]
  /\ call \in [Thread -> Call \cup {None}]
  /\ mainPc \in MainPc /\ toNotify \subseteq Worker
  /\ taken \subseteq Task /\ refused \subseteq Task /\ finished \subseteq Task
  /\ joined \subseteq Worker /\ freedUse \subseteq Thread

Alive(w) == pc[w] \notin {"unborn", "gone"}
Leaving == {"exiting", "exitLocked", "released", "gone"}

(* The four counters, kept by eight different sections, agree with the      *)
(* lists; once Shutdown has swept them every worker that was started counts *)
(* as stopped (its ASSERT(count_started_ == count_stopped_)).               *)
CountsMatchLists ==
  /\ started = stopped + Cardinality(all)
  /\ idling = Cardinality(idle)
  /\ running = Cardinality(all) - Cardinality(idle)

(* SetTask's ASSERT(task_ == nullptr), made after mutex_ was released: the  *)
(* worker a call has picked is no other call's, cannot be picked again, and *)
(* has no task yet.                                                         *)
OneHandOffPerWorker ==
  \A c \in Thread : call[c] # None =>
    /\ call[c].worker \notin idle
    /\ ~call[c].set => task[call[c].worker] = None
    /\ \A d \in Thread \ {c} :
         call[d] # None => call[d].worker # call[c].worker

(* Between mutex_ and SetTask the worker a caller picked stays alive as     *)
(* long as Shutdown has not begun, whatever it times out on; the main       *)
(* thread, which is in Run or in Shutdown, never loses it.                  *)
PickedWorkerAlive ==
  \A c \in Thread :
    call[c] # None /\ (c = Main \/ ~shuttingDown) =>
      pc[call[c].worker] \in {"new", "waiting"}

(* No call of Run touches a deleted Worker: never one of the main thread's, *)
(* whatever other threads do meanwhile, and one of a task that spawns only  *)
(* when Shutdown has overtaken it (the finding on thread_pool.cc:61).       *)
NoUseAfterFree ==
  /\ Main \notin freedUse
  /\ freedUse # {} => shuttingDown /\ SpawningTask # {}

(* Shutdown walks its saved list without mutex_: a worker it has not told   *)
(* yet has not been deleted, even if it timed out in the meantime.          *)
NotifiesLiveWorkers ==
  \A w \in toNotify : Alive(w) /\ pc[w] \notin Leaving

(* Worker::Main's ASSERT(!owned_ && idle_next_ == nullptr): a worker leaves *)
(* only when no list that hands out work can reach it.                      *)
LeavesUnlisted ==
  \A w \in Worker : pc[w] \in Leaving => w \notin all \cup idle \cup toNotify

(* Every thread has one place that will join it, and at the end was joined. *)
(* A worker joins with its own monitor_ held, which Shutdown waits for with *)
(* exit_monitor_ held: the threads it joins were released before Shutdown   *)
(* and need neither monitor to end.                                         *)
JoinedOnce ==
  /\ joined \cap joinList = {}
  /\ \A c \in Thread :
       /\ reap[c] \cap (joined \cup joinList) = {}
       /\ \A d \in Thread \ {c} : reap[c] \cap reap[d] = {}
  /\ \A c \in Worker : \A w \in reap[c] : w # c /\ pc[w] \in {"released", "gone"}
  /\ mainPc = "closed" =>
       \A w \in Worker : pc[w] = "unborn" \/ (pc[w] = "gone" /\ w \in joined)

(* isolate.cc, Isolate::Shutdown: "Waits for all tasks to complete."        *)
ShutdownWaitsForTasks == mainPc = "closed" => taken \subseteq finished

(* The contract of TaskPool, under the refinement below; with its fairness  *)
(* it also says that Shutdown comes to its end when the tasks do.           *)
Abstract == INSTANCE TaskPool
  WITH phase <- CASE mainPc = "open" -> "open"
                  [] mainPc = "closed" -> "closed"
                  [] OTHER -> "closing"
ImplementsTaskPool == Abstract!Spec
===============================================================================
