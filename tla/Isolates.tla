-------------------------------- MODULE Isolates --------------------------------
(***************************************************************************)
(* The isolates of one process, each a thread running an EPollMessageLoop   *)
(* (vm/message_loop.cc, vm/message_loop_epoll.cc), and what they share: the  *)
(* port map, through which they send messages; the list of isolates, which   *)
(* the SIGINT handler walks; the thread pool that runs spawned isolates; and *)
(* the process, which the main isolate or a failing one ends (vm/isolate.cc, *)
(* vm/main.cc).                                                              *)
(*                                                                         *)
(* A critical section is one step, and a field that another thread may       *)
(* change is read again where the code reads it again.  busy[i] stands for   *)
(* "a wait or a timer is outstanding", which a turn may start or end.  The   *)
(* port map is the table PortTable describes and PortMap implements; the     *)
(* pool runs every task it takes, as TaskPool says.                          *)
(***************************************************************************)
EXTENDS Integers, Sequences, FiniteSets

CONSTANTS Isolate, Main, Port, Message, None,
          Failure,         \* an exit code other than 0 and SIGINT
          Quotas,          \* bound: how many messages and ports are made and how
                           \* many SIGINTs arrive; a behaviour keeps to one of them
          ForeignClose     \* may an isolate close a port it did not open?

ASSUME IsolatesAssumption ==
  /\ Main \in Isolate /\ None \notin Isolate
  /\ Quotas \subseteq [messages : Nat, ports : Nat, interrupts : Nat]
  /\ ForeignClose \in BOOLEAN
  /\ Message # {}

SIGINT == 2
Success == 0
ExitCode == {Success, SIGINT, Failure}

VARIABLES
  pc,           \* where the isolate's thread is
  nulled,       \* isolate_ == nullptr in its loop
  exit_code_,
  queue,        \* head_ .. tail_
  batch,        \* the list Run took and has not dispatched yet
  notified,     \* the eventfd's counter is not zero
  open_ports_,
  busy,         \* open_waits_ > 0 or wakeup_ # 0
  afterTurn,    \* what Run does when Interpret returns
  interrupted,  \* kInterruptSIGINT in checked_stack_limit_
  initial,      \* the message a SpawnIsolateTask carries
  owner,        \* PortMap: the loop a port leads to
  opener,       \* who created the port, or None: port numbers are never reused
  listed,       \* isolates_list_head_ ..
  sigStep, sigHost, sigTodo, sigCur, deliveries,   \* the SIGINT handler
  poolOpen,     \* the pool takes tasks
  process,      \* "running", "exited" or "crashed"
  sent,         \* the messages made so far
  quota,        \* the member of Quotas chosen
  posted,       \* history: the messages put into the loop's queue
  settled       \* history: the messages the loop dispatched or deleted

inbox     == <<queue, notified, posted>>
turnVars  == <<nulled, exit_code_, open_ports_, busy>>
ports     == <<owner, opener>>
sigVars   == <<sigStep, sigHost, sigTodo, sigCur, deliveries, quota>>
group     == <<listed, poolOpen, process>>
allButGroup == <<inbox, batch, turnVars, afterTurn, interrupted, initial, ports,
                 sigVars, sent, settled>>
allButPc  == <<allButGroup, group>>
vars == <<pc, allButPc>>


Before  == {"unborn", "tasked"}                    \* no Isolate object yet
Running == {"born", "check", "poll", "take", "dispatch", "event", "activated",
            "turn", "toPrint", "printing"}
Ending  == {"closing", "drain", "leaving"}
After   == {"left", "shutdown", "gone"}            \* the Isolate is deleted

(* Messages and port numbers are all alike: they are taken in a fixed order. *)
Fresh(S) == CHOOSE x \in S : TRUE

Init ==
  /\ pc = [i \in Isolate |-> IF i = Main THEN "tasked" ELSE "unborn"]
  /\ nulled = [i \in Isolate |-> FALSE]
  /\ exit_code_ = [i \in Isolate |-> Success]
  /\ queue = [i \in Isolate |-> <<>>]
  /\ batch = [i \in Isolate |-> <<>>]
  /\ notified = [i \in Isolate |-> FALSE]
  /\ open_ports_ = [i \in Isolate |-> 0]
  /\ busy = [i \in Isolate |-> FALSE]
  /\ afterTurn = [i \in Isolate |-> "dispatch"]
  /\ interrupted = [i \in Isolate |-> FALSE]
  /\ owner = [p \in Port |-> None]
  /\ opener = [p \in Port |-> None]
  /\ listed = {}
  /\ sigStep = "idle" /\ sigHost = None /\ sigTodo = {} /\ sigCur = None
  /\ deliveries = 0 /\ quota \in Quotas
  /\ poolOpen = TRUE /\ process = "running"
  /\ initial = [i \in Isolate |-> Fresh(Message)]
  /\ sent = {Fresh(Message)}
  /\ posted = [i \in Isolate |-> <<>>]
  /\ settled = [i \in Isolate |-> <<>>]

(* The thread of i executes code: no handler has been pushed on its stack. *)
Runs(i) == process = "running" /\ sigHost # i

At(i, here) == Runs(i) /\ pc[i] = here
Goto(i, there) == pc' = [pc EXCEPT ![i] = there]

(* isolates_list_monitor_ *)
HandlerHoldsMonitor == sigStep \in {"walk", "exit", "notify"}
MonitorFree == ~HandlerHoldsMonitor /\ \A i \in Isolate : pc[i] # "printing"
---------------------------------------------------------------------------
(* The life of an isolate: main(), SpawnIsolateTask::Run, Isolate's         *)
(* constructor and destructor.                                              *)

Construct(i) ==
  /\ At(i, "tasked")
  /\ MonitorFree
  /\ listed' = listed \cup {i}
  /\ Goto(i, "born")
  /\ UNCHANGED <<allButGroup, poolOpen, process>>

(* mutant: notify whatever the queue held; the test below is inverted *)
NotifyWhenNotEmpty(i, m) ==
  /\ queue' = [queue EXCEPT ![i] = Append(@, m)]
  /\ notified' = [notified EXCEPT ![i] = @ \/ queue[i] # <<>>]
  /\ posted' = [posted EXCEPT ![i] = Append(@, m)]

(* mutant: the new message is linked in front *)
PostInFront(i, m) ==
  /\ queue' = [queue EXCEPT ![i] = <<m>> \o @]
  /\ notified' = [notified EXCEPT ![i] = TRUE]
  /\ posted' = [posted EXCEPT ![i] = Append(@, m)]

PostMessage(i, m) ==
  /\ queue' = [queue EXCEPT ![i] = Append(@, m)]
  /\ notified' = [notified EXCEPT ![i] = @ \/ queue[i] = <<>>]
  /\ posted' = [posted EXCEPT ![i] = Append(@, m)]

PostInitial(i) ==
  /\ At(i, "born")
  /\ PostMessage(i, initial[i])
  /\ Goto(i, "check")
  /\ UNCHANGED <<batch, turnVars, afterTurn, interrupted, initial, ports, sigVars,
                 group, sent, settled>>

(* mutant: the isolate leaves the list only after it is deleted *)
StayListed(i) == UNCHANGED listed

RemoveIsolateFromList(i) == listed' = listed \ {i}

Delete(i) ==
  /\ At(i, "leaving")
  /\ MonitorFree
  /\ RemoveIsolateFromList(i)
  /\ Goto(i, "left")
  /\ UNCHANGED <<allButGroup, poolOpen, process>>

ChildReturns(i) ==
  /\ At(i, "left") /\ i # Main
  /\ Goto(i, "gone")
  /\ process' = IF exit_code_[i] # Success THEN "exited" ELSE process
  /\ UNCHANGED <<allButGroup, listed, poolOpen>>

(* Isolate::Shutdown: the pool refuses tasks from here on and is joined. *)
MainShutdown ==
  /\ At(Main, "left")
  /\ Goto(Main, "shutdown")
  /\ poolOpen' = FALSE
  /\ UNCHANGED <<allButGroup, listed, process>>

ChildrenGone == \A i \in Isolate \ {Main} : pc[i] \in {"unborn", "gone"}

MainReturns ==
  /\ At(Main, "shutdown")
  /\ ChildrenGone
  /\ process' = "exited"
  /\ Goto(Main, "gone")
  /\ UNCHANGED <<allButGroup, listed, poolOpen>>
---------------------------------------------------------------------------
(* EPollMessageLoop::Run *)

Check(i) ==
  /\ At(i, "check")
  /\ Goto(i, IF nulled[i] THEN "closing" ELSE "poll")
  /\ UNCHANGED allButPc

(* epoll_wait answers with the eventfd, which is read and so reset. *)
PollNotified(i) ==
  /\ At(i, "poll")
  /\ notified[i]
  /\ notified' = [notified EXCEPT ![i] = FALSE]
  /\ Goto(i, "take")
  /\ UNCHANGED <<queue, posted, batch, turnVars, afterTurn, interrupted, initial,
                 ports, sigVars, group, sent, settled>>

(* ... or with the timer or a handle: DispatchWakeup, DispatchSignal. *)
PollEvent(i) ==
  /\ At(i, "poll")
  /\ busy[i]
  /\ Goto(i, "event")
  /\ UNCHANGED allButPc

DispatchEvent(i) ==
  /\ At(i, "event")
  /\ Goto(i, IF nulled[i] THEN "take" ELSE "activated")
  /\ afterTurn' = [afterTurn EXCEPT ![i] = "take"]
  /\ UNCHANGED <<inbox, batch, turnVars, interrupted, initial, ports, sigVars,
                 group, sent, settled>>

(* mutant: the list is read but not emptied *)
TakeMessagesKeeping(i) ==
  /\ batch' = [batch EXCEPT ![i] = queue[i]]
  /\ UNCHANGED queue

TakeMessages(i) ==
  /\ batch' = [batch EXCEPT ![i] = queue[i]]
  /\ queue' = [queue EXCEPT ![i] = <<>>]

Take(i) ==
  /\ At(i, "take")
  /\ TakeMessages(i)
  /\ Goto(i, "dispatch")
  /\ UNCHANGED <<notified, posted, turnVars, afterTurn, interrupted, initial,
                 ports, sigVars, group, sent, settled>>

(* mutant: Run goes back to waiting after the first message of a batch *)
BatchCutShort(i) ==
  /\ At(i, "dispatch")
  /\ batch[i] = <<>> \/ afterTurn[i] = "dispatch"
  /\ Goto(i, "check")
  /\ UNCHANGED allButPc

BatchDone(i) ==
  /\ At(i, "dispatch") /\ batch[i] = <<>>
  /\ Goto(i, "check")
  /\ UNCHANGED allButPc

(* DispatchMessage: deleted unread when the loop is over; otherwise copied   *)
(* into the heap (ActivateMessage), deleted, and then interpreted.           *)
DispatchMessage(i) ==
  /\ At(i, "dispatch") /\ batch[i] # <<>>
  /\ batch' = [batch EXCEPT ![i] = Tail(@)]
  /\ settled' = [settled EXCEPT ![i] = Append(@, Head(batch[i]))]
  /\ Goto(i, IF nulled[i] THEN "dispatch" ELSE "activated")
  /\ afterTurn' = [afterTurn EXCEPT ![i] = "dispatch"]
  /\ UNCHANGED <<inbox, turnVars, interrupted, initial, ports, sigVars, group, sent>>

(* isolate_->Interpret(): isolate_ is read again, and a handler on another   *)
(* thread may have cleared it, which is a crash.                             *)
Interpret(i) ==
  /\ At(i, "activated")
  /\ process' = IF nulled[i] THEN "crashed" ELSE process
  /\ Goto(i, "turn")
  /\ UNCHANGED <<allButGroup, listed, poolOpen>>

(* mutant: ports still open at the end stay in the map *)
LeavePortsOpen(i) == UNCHANGED ports

CloseAllPorts(i) ==
  /\ owner' = IF open_ports_[i] > 0
              THEN [p \in Port |-> IF owner[p] = i THEN None ELSE owner[p]]
              ELSE owner
  /\ UNCHANGED opener

Close(i) ==
  /\ At(i, "closing")
  /\ CloseAllPorts(i)
  /\ Goto(i, "drain")
  /\ UNCHANGED <<inbox, batch, turnVars, afterTurn, interrupted, initial, sigVars,
                 group, sent, settled>>

Drain(i) ==
  /\ At(i, "drain")
  /\ settled' = [settled EXCEPT ![i] = @ \o queue[i]]
  /\ queue' = [queue EXCEPT ![i] = <<>>]
  /\ Goto(i, "leaving")
  /\ UNCHANGED <<notified, posted, batch, turnVars, afterTurn, interrupted,
                 initial, ports, sigVars, group, sent>>
---------------------------------------------------------------------------
(* What Newspeak code does in a turn: the primitives of Port and MessageLoop.*)

OpenPort(i, p) ==
  /\ At(i, "turn")
  /\ \E q \in Port : opener[q] = None
  /\ Cardinality({q \in Port : opener[q] # None}) < quota.ports
  /\ p = Fresh({q \in Port : opener[q] = None})
  /\ open_ports_' = [open_ports_ EXCEPT ![i] = @ + 1]
  /\ owner' = [owner EXCEPT ![p] = i]
  /\ opener' = [opener EXCEPT ![p] = i]
  /\ UNCHANGED <<pc, inbox, batch, nulled, exit_code_, busy, afterTurn,
                 interrupted, initial, sigVars, group, sent, settled>>

MayClose(i, p) == opener[p] # None /\ (ForeignClose \/ opener[p] = i)

(* mutant: the count goes down even when the port was closed before *)
ClosePortUnchecked(i, p) ==
  /\ owner' = [owner EXCEPT ![p] = None]
  /\ open_ports_' = [open_ports_ EXCEPT ![i] = @ - 1]

ClosePort(i, p) ==
  /\ owner' = [owner EXCEPT ![p] = None]
  /\ open_ports_' = [open_ports_ EXCEPT ![i] =
                       IF owner[p] # None THEN @ - 1 ELSE @]

TurnClosesPort(i, p) ==
  /\ At(i, "turn")
  /\ MayClose(i, p)
  /\ ClosePort(i, p)
  /\ UNCHANGED <<pc, inbox, batch, nulled, exit_code_, busy, afterTurn,
                 interrupted, initial, opener, sigVars, group, sent, settled>>

(* PortMap::PostMessage, with the map's mutex held: routed, or deleted. *)
Send(i, p, m) ==
  /\ At(i, "turn")
  /\ opener[p] # None
  /\ Cardinality(sent) < quota.messages /\ m = Fresh(Message \ sent)
  /\ sent' = sent \cup {m}
  /\ IF owner[p] # None THEN PostMessage(owner[p], m) ELSE UNCHANGED inbox
  /\ UNCHANGED <<pc, batch, turnVars, afterTurn, interrupted, initial, ports,
                 sigVars, group, settled>>

(* Isolate::Spawn does not look at what ThreadPool::Run answers. *)
Spawn(i, c, m) ==
  /\ At(i, "turn")
  /\ pc[c] = "unborn" /\ Cardinality(sent) < quota.messages /\ m = Fresh(Message \ sent)
  /\ sent' = sent \cup {m}
  /\ IF poolOpen THEN /\ Goto(c, "tasked")
                      /\ initial' = [initial EXCEPT ![c] = m]
                 ELSE UNCHANGED <<pc, initial>>
  /\ UNCHANGED <<inbox, batch, turnVars, afterTurn, interrupted, ports, sigVars,
                 group, settled>>

ExitLoop(i, code) ==
  /\ exit_code_' = [exit_code_ EXCEPT ![i] = code]
  /\ nulled' = [nulled EXCEPT ![i] = TRUE]

(* Primitive MessageLoop_exit. *)
TurnExits(i) ==
  /\ At(i, "turn")
  /\ \E code \in {Success, Failure} : ExitLoop(i, code)
  /\ Goto(i, afterTurn[i])
  /\ UNCHANGED <<inbox, batch, open_ports_, busy, afterTurn, interrupted, initial,
                 ports, sigVars, group, sent, settled>>

MessageEpilogue(i, more) ==
  IF open_ports_[i] = 0 /\ ~more THEN ExitLoop(i, Success)
                                 ELSE UNCHANGED <<nulled, exit_code_>>

(* Primitive MessageLoop_finish; more: the turn leaves a wait or a timer. *)
TurnFinishes(i) ==
  /\ At(i, "turn")
  /\ \E more \in BOOLEAN : /\ busy' = [busy EXCEPT ![i] = more]
                           /\ MessageEpilogue(i, more)
  /\ Goto(i, afterTurn[i])
  /\ UNCHANGED <<inbox, batch, open_ports_, afterTurn, interrupted, initial, ports,
                 sigVars, group, sent, settled>>

(* StackOverflowOrInterrupt: the bit is fetched and cleared at once, ... *)
StackCheck(i) ==
  /\ At(i, "turn")
  /\ interrupted[i]
  /\ interrupted' = [interrupted EXCEPT ![i] = FALSE]
  /\ Goto(i, "toPrint")
  /\ UNCHANGED <<inbox, batch, turnVars, afterTurn, initial, ports, sigVars, group,
                 sent, settled>>

(* mutant: PrintStack takes no monitor *)
PrintStackUnlocked(i) ==
  /\ At(i, "toPrint")
  /\ Goto(i, "printing")
  /\ UNCHANGED allButPc

(* ... then Isolate::PrintStack waits for the list's monitor, ... *)
PrintStack(i) ==
  /\ At(i, "toPrint")
  /\ MonitorFree
  /\ Goto(i, "printing")
  /\ UNCHANGED allButPc

(* ... and Interpreter::Exit abandons the turn. *)
AbandonTurn(i) ==
  /\ At(i, "printing")
  /\ Goto(i, afterTurn[i])
  /\ UNCHANGED allButPc
---------------------------------------------------------------------------
(* SIGINT_handler, pushed on the stack of any thread (sigHost = None: one    *)
(* of the pool's idle threads).  main() uninstalls it after its isolate is   *)
(* deleted.                                                                  *)

Deliver ==
  /\ process = "running" /\ sigStep = "idle"
  /\ deliveries < quota.interrupts
  /\ pc[Main] \notin After
  /\ deliveries' = deliveries + 1
  /\ sigStep' = "enter"
  /\ \E h \in {Main, None} \cup {i \in Isolate : pc[i] \notin {"unborn", "gone"}} :
       sigHost' = h
  /\ UNCHANGED <<pc, inbox, batch, turnVars, afterTurn, interrupted, initial, ports,
                 sigTodo, sigCur, quota, group, sent, settled>>

InterruptAll ==
  /\ process = "running" /\ sigStep = "enter"
  /\ MonitorFree
  /\ sigStep' = "walk"
  /\ sigTodo' = listed
  /\ UNCHANGED <<pc, inbox, batch, turnVars, afterTurn, interrupted, initial, ports,
                 sigHost, sigCur, deliveries, quota, group, sent, settled>>

(* Isolate::Interrupt: the interpreter's stack limit first, ... *)
InterruptInterpreter(i) ==
  /\ process = "running" /\ sigStep = "walk"
  /\ i \in sigTodo
  /\ interrupted' = [interrupted EXCEPT ![i] = TRUE]
  /\ sigTodo' = sigTodo \ {i}
  /\ sigCur' = i
  /\ sigStep' = "exit"
  /\ UNCHANGED <<pc, inbox, batch, turnVars, afterTurn, initial, ports, sigHost,
                 deliveries, quota, group, sent, settled>>

(* ... then EPollMessageLoop::Interrupt.  An isolate that is leaving has     *)
(* already answered its exit code.                                           *)
InterruptLoop ==
  /\ process = "running" /\ sigStep = "exit"
  /\ ExitLoop(sigCur, IF pc[sigCur] = "leaving" THEN exit_code_[sigCur] ELSE SIGINT)
  /\ sigStep' = "notify"
  /\ UNCHANGED <<pc, inbox, batch, open_ports_, busy, afterTurn, interrupted,
                 initial, ports, sigHost, sigTodo, sigCur, deliveries, quota, group, sent,
                 settled>>

(* mutant: Interrupt only clears isolate_ *)
InterruptSilently == UNCHANGED notified

NotifyInterrupted == notified' = [notified EXCEPT ![sigCur] = TRUE]

InterruptNotify ==
  /\ process = "running" /\ sigStep = "notify"
  /\ NotifyInterrupted
  /\ sigStep' = "walk" /\ sigCur' = None
  /\ UNCHANGED <<pc, queue, posted, batch, turnVars, afterTurn, interrupted,
                 initial, ports, sigHost, sigTodo, deliveries, quota, group, sent, settled>>

(* The handler returns; an epoll_wait it interrupted answers EINTR. *)
HandlerReturns ==
  /\ process = "running" /\ sigStep = "walk" /\ sigTodo = {}
  /\ sigStep' = "idle" /\ sigHost' = None
  /\ IF sigHost \in Isolate /\ pc[sigHost] = "poll" THEN Goto(sigHost, "take")
                                                     ELSE UNCHANGED pc
  /\ UNCHANGED <<inbox, batch, turnVars, afterTurn, interrupted, initial, ports,
                 sigTodo, sigCur, deliveries, quota, group, sent, settled>>
---------------------------------------------------------------------------
(* The steps the VM takes by itself, and those a turn's program decides. *)
LoopStep(i) ==
  \/ Construct(i) \/ PostInitial(i) \/ Delete(i) \/ ChildReturns(i)
  \/ Check(i) \/ PollNotified(i) \/ DispatchEvent(i) \/ Take(i) \/ BatchDone(i)
  \/ DispatchMessage(i) \/ Interpret(i) \/ Close(i) \/ Drain(i)
  \/ StackCheck(i) \/ PrintStack(i) \/ AbandonTurn(i)

EndTurn(i) == TurnFinishes(i) \/ TurnExits(i)

TurnStep(i) ==
  \/ \E p \in Port : OpenPort(i, p) \/ TurnClosesPort(i, p)
  \/ \E p \in Port, m \in Message : Send(i, p, m)
  \/ \E c \in Isolate, m \in Message : Spawn(i, c, m)

HandlerStep ==
  \/ InterruptAll \/ InterruptLoop \/ InterruptNotify \/ HandlerReturns
  \/ \E i \in Isolate : InterruptInterpreter(i)

Over == process # "running" /\ UNCHANGED vars

Next ==
  \/ \E i \in Isolate : LoopStep(i) \/ EndTurn(i) \/ TurnStep(i) \/ PollEvent(i)
  \/ MainShutdown \/ MainReturns
  \/ Deliver \/ HandlerStep
  \/ Over

Spec == Init /\ [][Next]_vars

(* Threads and the handler get to run; a turn need never end. *)
FairSpec ==
  /\ Spec
  /\ \A i \in Isolate : WF_vars(LoopStep(i))
  /\ WF_vars(MainShutdown \/ MainReturns)
  /\ WF_vars(HandlerStep)

(* ... and, where no SIGINT is to end them, every turn ends. *)
FairTurns ==
  FairSpec /\ \A i \in Isolate : WF_vars(quota.interrupts = 0 /\ EndTurn(i))
---------------------------------------------------------------------------
TypeOK ==
  /\ pc \in [Isolate -> Before \cup Running \cup Ending \cup After]
  /\ nulled \in [Isolate -> BOOLEAN]
  /\ exit_code_ \in [Isolate -> ExitCode]
  /\ queue \in [Isolate -> Seq(Message)]
  /\ batch \in [Isolate -> Seq(Message)]
  /\ notified \in [Isolate -> BOOLEAN]
  /\ open_ports_ \in [Isolate -> Nat]
  /\ busy \in [Isolate -> BOOLEAN]
  /\ afterTurn \in [Isolate -> {"dispatch", "take"}]
  /\ interrupted \in [Isolate -> BOOLEAN]
  /\ initial \in [Isolate -> Message]
  /\ owner \in [Port -> Isolate \cup {None}]
  /\ opener \in [Port -> Isolate \cup {None}]
  /\ listed \subseteq Isolate
  /\ sigStep \in {"idle", "enter", "walk", "exit", "notify"}
  /\ sigHost \in Isolate \cup {None}
  /\ sigTodo \subseteq Isolate
  /\ sigCur \in Isolate \cup {None}
  /\ deliveries \in 0 .. quota.interrupts
  /\ poolOpen \in BOOLEAN
  /\ process \in {"running", "exited", "crashed"}
  /\ sent \subseteq Message
  /\ posted \in [Isolate -> Seq(Message)]
  /\ settled \in [Isolate -> Seq(Message)]

(* A loop that is about to wait with a message queued, or was told to stop,   *)
(* finds its eventfd set.  PostMessage only notifies when the queue was empty,  *)
(* and Take empties it later; an interrupt may still be on its way, or its      *)
(* handler sits on the loop's own thread (EINTR).                              *)
NoLostWakeup ==
  \A i \in Isolate :
    /\ pc[i] \in {"check", "poll"} /\ queue[i] # <<>> => notified[i]
    /\ pc[i] = "poll" /\ nulled[i] =>
         notified[i] \/ sigHost = i \/ (sigStep = "notify" /\ sigCur = i)

(* Across threads, no message is lost, duplicated or overtaken between          *)
(* PortMap::PostMessage and its dispatch or deletion; at the end all are gone.  *)
MessagesInOrder ==
  \A i \in Isolate :
    /\ posted[i] = settled[i] \o batch[i] \o queue[i]
    /\ pc[i] \in After \cup {"leaving"} => posted[i] = settled[i]

(* The port map never leads to a loop that drained its queue or was deleted.   *)
(* Run's CloseAllPorts and the loop's end depend on open_ports_, which counts   *)
(* the loop's entries of the shared map.                                       *)
RoutesToLoops ==
  /\ TypeOK
  /\ \A p \in Port : owner[p] # None => pc[owner[p]] \in Running \cup {"closing"}
  /\ \A i \in Isolate :
       pc[i] \in Running \cup {"closing"} =>
         open_ports_[i] = Cardinality({p \in Port : owner[p] = i})

(* The handler only touches isolates that are not deleted: it holds the         *)
(* list's monitor while it walks, and the destructor unlists first.             *)
HandlerTouchesLive ==
  /\ \A i \in sigTodo : pc[i] \notin Before \cup After
  /\ sigCur # None => pc[sigCur] \notin Before \cup After

(* An abandoned turn never leads back to waiting: the monitor PrintStack takes  *)
(* makes it wait until InterruptAll has also stopped the loop.                  *)
AbandonedMeansStopped ==
  \A i \in Isolate : pc[i] = "printing" => nulled[i]

(* SIGINT ends every isolate it reached, whatever its turn is doing.            *)
InterruptEnds ==
  \A i \in Isolate :
    interrupted[i] ~> (process # "running" \/ pc[i] \in After)

(* Every message posted is dispatched or deleted in the end, whether it is in a  *)
(* queue or in the batch that Run took from it, unless the process ends first.   *)
(* (A message is posted once; MessagesInOrder says that it stays in its loop.)  *)
In(m, messages) == \E i \in Isolate : \E n \in DOMAIN messages[i] : messages[i][n] = m
EveryMessageSettles ==
  \A m \in Message : In(m, posted) ~> (process # "running" \/ In(m, settled))

(* "Exit the current isolate. If this is the main isolate or the exit code is   *)
(* non-zero (failure), also exits the process." (newspeak/Actors.ns)            *)
MainExitEndsProcess == pc[Main] = "left" ~> process # "running"
==================================================================================
