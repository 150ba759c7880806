---------------------------- MODULE IsolatesProofs ----------------------------
(***************************************************************************)
(* Proofs about Isolates, for any number of isolates, ports, messages and   *)
(* interrupts.                                                              *)
(***************************************************************************)
EXTENDS Isolates, FiniteSetTheorems, SequenceTheorems, TLAPS

(* The types, with the counts of open ports as integers: that they never go *)
(* below zero follows from PortsCounted.                                    *)
Types ==
  /\ pc \in [Isolate -> Before \cup Running \cup Ending \cup After]
  /\ nulled \in [Isolate -> BOOLEAN]
  /\ exit_code_ \in [Isolate -> ExitCode]
  /\ queue \in [Isolate -> Seq(Message)]
  /\ batch \in [Isolate -> Seq(Message)]
  /\ notified \in [Isolate -> BOOLEAN]
  /\ open_ports_ \in [Isolate -> Int]
  /\ busy \in [Isolate -> BOOLEAN]
  /\ afterTurn \in [Isolate -> {"dispatch", "take"}]
  /\ interrupted \in [Isolate -> BOOLEAN]
  /\ initial \in [Isolate -> Message]
  /\ owner \in [Port -> Isolate \cup {None}]
  /\ opener \in [Port -> Isolate \cup {None}]
  /\ listed \subseteq Isolate
  /\ sigStep \in {"idle", "enter", "walk", "exit", "notify"}
  /\ sigHost \in Isolate \cup {None}
  /\ sigTodo \subseteq Isolate
  /\ sigCur \in Isolate \cup {None}
  /\ quota \in Quotas /\ deliveries \in 0 .. quota.interrupts
  /\ poolOpen \in BOOLEAN
  /\ process \in {"running", "exited", "crashed"}
  /\ sent \subseteq Message
  /\ posted \in [Isolate -> Seq(Message)]
  /\ settled \in [Isolate -> Seq(Message)]

(* Where the handler is, and that the list holds the isolates that exist.   *)
Walking ==
  /\ sigStep = "idle" => sigHost = None
  /\ sigStep \in {"idle", "enter"} => sigTodo = {}
  /\ sigStep \in {"exit", "notify"} <=> sigCur # None
  /\ listed = {i \in Isolate : pc[i] \notin Before \cup After}
  /\ sigTodo \subseteq listed
  /\ sigCur # None => sigCur \in listed

(* A queue with messages has notified its loop, until the loop is about to  *)
(* take them; and NoLostWakeup's second part.                               *)
Woken ==
  \A i \in Isolate :
    /\ pc[i] # "take" /\ queue[i] # <<>> => notified[i]
    /\ pc[i] = "poll" /\ nulled[i] =>
         notified[i] \/ sigHost = i \/ (sigStep = "notify" /\ sigCur = i)

(* An isolate whose interpreter was interrupted is stopped at the handler's *)
(* next step, which comes before it lets go of the monitor.                 *)
Stopped ==
  \A i \in Isolate :
    /\ interrupted[i] \/ pc[i] = "toPrint" =>
         nulled[i] \/ (sigStep = "exit" /\ sigCur = i)
    /\ pc[i] = "printing" => nulled[i]

(* The ports of a loop, and the loops that may have ports.                  *)
Owned(i) == {p \in Port : owner[p] = i}
Alive(i) == pc[i] \in Running \cup {"closing"}

(* The map's entries are ports that their isolates opened, and open_ports_  *)
(* counts them until CloseAllPorts.                                         *)
PortsCounted ==
  /\ \A p \in Port : owner[p] # None => owner[p] = opener[p]
  /\ \A i \in Isolate :
       /\ IsFiniteSet(Owned(i))
       /\ pc[i] \in Before => open_ports_[i] = 0
       /\ ~Alive(i) => Owned(i) = {}
       /\ Alive(i) => open_ports_[i] = Cardinality(Owned(i))
       /\ open_ports_[i] \in Nat

(* Where a loop may have a batch that is not empty.                         *)
Holding(i) ==
  \/ pc[i] = "dispatch"
  \/ /\ pc[i] \in {"activated", "turn", "toPrint", "printing"}
     /\ afterTurn[i] = "dispatch"

(* What was posted and is not settled is in the batch or in the queue; the  *)
(* loop only leaves a batch that is empty, and empties its queue last.      *)
Ordered(i) ==
  /\ posted[i] = settled[i] \o batch[i] \o queue[i]
  /\ batch[i] # <<>> => Holding(i)
  /\ pc[i] \in After \cup {"leaving"} => queue[i] = <<>>
InOrder == \A i \in Isolate : Ordered(i)

Control == Types /\ Walking /\ Woken /\ Stopped

-----------------------------------------------------------------------------
(* What a message is appended to, and what a spawned isolate is given, keep *)
(* their types.                                                             *)
LEMMA PostTyped ==
  ASSUME NEW i \in Isolate, NEW m \in Message,
         queue \in [Isolate -> Seq(Message)], posted \in [Isolate -> Seq(Message)],
         PostMessage(i, m)
  PROVE  queue' \in [Isolate -> Seq(Message)] /\ posted' \in [Isolate -> Seq(Message)]
<1>1. Append(queue[i], m) \in Seq(Message) /\ Append(posted[i], m) \in Seq(Message)
  OBVIOUS
<1> QED
  BY <1>1 DEF PostMessage

(* The first message put into an empty queue sets the eventfd, and none     *)
(* clears it.                                                               *)
LEMMA PostWakes ==
  ASSUME NEW i \in Isolate, NEW m \in Message,
         queue \in [Isolate -> Seq(Message)], notified \in [Isolate -> BOOLEAN],
         PostMessage(i, m)
  PROVE  \A j \in Isolate :
           /\ notified[j] => notified'[j]
           /\ queue'[j] # queue[j] /\ queue[j] = <<>> => notified'[j]
<1> SUFFICES ASSUME NEW j \in Isolate
             PROVE  /\ notified[j] => notified'[j]
                    /\ queue'[j] # queue[j] /\ queue[j] = <<>> => notified'[j]
  OBVIOUS
<1>1. CASE j = i
  BY <1>1 DEF PostMessage
<1>2. CASE j # i
  BY <1>2 DEF PostMessage
<1> QED
  BY <1>1, <1>2

LEMMA SpawnTyped ==
  ASSUME NEW c \in Isolate, NEW m \in Message, initial \in [Isolate -> Message],
         initial' = initial \/ initial' = [initial EXCEPT ![c] = m]
  PROVE  initial' \in [Isolate -> Message]
OBVIOUS


(* Every step keeps the types ...                                           *)
LEMMA StepTypes == Types /\ Walking /\ [Next]_vars => Types'
<1> SUFFICES ASSUME Types, Walking, [Next]_vars PROVE Types'
  OBVIOUS
<1> USE IsolatesAssumption
    DEF Types, At, Runs, Goto, MonitorFree, HandlerHoldsMonitor, ExitLoop,
        Before, Running, Ending, After, inbox, turnVars, ports, sigVars, group,
        allButGroup, allButPc, ExitCode, Walking, SIGINT, Success
<1>1. ASSUME NEW i \in Isolate, Construct(i) PROVE Types'
  BY <1>1 DEF Construct
<1>2. ASSUME NEW i \in Isolate, PostInitial(i) PROVE Types'
  BY SMTT(30), <1>2 DEF PostInitial, PostMessage
<1>3. ASSUME NEW i \in Isolate, Delete(i) PROVE Types'
  BY <1>3 DEF Delete, RemoveIsolateFromList
<1>4. ASSUME NEW i \in Isolate, ChildReturns(i) PROVE Types'
  BY <1>4 DEF ChildReturns
<1>5. ASSUME NEW i \in Isolate, Check(i) PROVE Types'
  BY <1>5 DEF Check
<1>6. ASSUME NEW i \in Isolate, PollNotified(i) PROVE Types'
  BY <1>6 DEF PollNotified
<1>7. ASSUME NEW i \in Isolate, DispatchEvent(i) PROVE Types'
  BY <1>7 DEF DispatchEvent
<1>8. ASSUME NEW i \in Isolate, Take(i) PROVE Types'
  BY SMTT(30), <1>8 DEF Take, TakeMessages
<1>9. ASSUME NEW i \in Isolate, BatchDone(i) PROVE Types'
  BY <1>9 DEF BatchDone
<1>10. ASSUME NEW i \in Isolate, DispatchMessage(i) PROVE Types'
  <2>1. batch[i] # <<>> /\ batch[i] \in Seq(Message) /\ settled[i] \in Seq(Message)
    BY <1>10 DEF DispatchMessage
  <2>2. Tail(batch[i]) \in Seq(Message) /\ Append(settled[i], Head(batch[i])) \in Seq(Message)
    BY <2>1
  <2>3. batch' = [batch EXCEPT ![i] = Tail(batch[i])]
        /\ settled' = [settled EXCEPT ![i] = Append(settled[i], Head(batch[i]))]
    BY <1>10 DEF DispatchMessage
  <2>4. batch' \in [Isolate -> Seq(Message)] /\ settled' \in [Isolate -> Seq(Message)]
    BY <2>2, <2>3
  <2>5. pc' \in [Isolate -> Before \cup Running \cup Ending \cup After]
    BY <1>10 DEF DispatchMessage
  <2>6. afterTurn' \in [Isolate -> {"dispatch", "take"}]
    BY <1>10 DEF DispatchMessage
  <2>7. UNCHANGED <<inbox, turnVars, interrupted, initial, ports, sigVars, group, sent>>
    BY <1>10 DEF DispatchMessage
  <2> QED
    BY <2>4, <2>5, <2>6, <2>7
<1>11. ASSUME NEW i \in Isolate, Interpret(i) PROVE Types'
  BY <1>11 DEF Interpret
<1>12. ASSUME NEW i \in Isolate, Close(i) PROVE Types'
  BY <1>12 DEF Close, CloseAllPorts
<1>13. ASSUME NEW i \in Isolate, Drain(i) PROVE Types'
  BY SMTT(30), <1>13 DEF Drain
<1>14. ASSUME NEW i \in Isolate, StackCheck(i) PROVE Types'
  BY <1>14 DEF StackCheck
<1>15. ASSUME NEW i \in Isolate, PrintStack(i) PROVE Types'
  BY <1>15 DEF PrintStack
<1>16. ASSUME NEW i \in Isolate, AbandonTurn(i) PROVE Types'
  BY <1>16 DEF AbandonTurn
<1>17. ASSUME NEW i \in Isolate, TurnFinishes(i) PROVE Types'
  <2>1. busy' \in [Isolate -> BOOLEAN]
    BY <1>17 DEF TurnFinishes
  <2>2. ExitLoop(i, Success) \/ UNCHANGED <<nulled, exit_code_>>
    BY <1>17 DEF TurnFinishes, MessageEpilogue
  <2>3. pc' \in [Isolate -> Before \cup Running \cup Ending \cup After]
    BY <1>17 DEF TurnFinishes
  <2>4. nulled' \in [Isolate -> BOOLEAN] /\ exit_code_' \in [Isolate -> ExitCode]
    BY ZenonT(30), <2>2
  <2> QED
    BY <1>17, <2>1, <2>2, <2>3, <2>4 DEF TurnFinishes
<1>18. ASSUME NEW i \in Isolate, TurnExits(i) PROVE Types'
  <2>1. PICK code \in {Success, Failure} : ExitLoop(i, code)
    BY <1>18 DEF TurnExits
  <2> QED
    BY <1>18, <2>1 DEF TurnExits
<1>19. ASSUME NEW i \in Isolate, PollEvent(i) PROVE Types'
  BY <1>19 DEF PollEvent
<1>20. ASSUME NEW i \in Isolate, NEW p \in Port, OpenPort(i, p) PROVE Types'
  <2>1. open_ports_' = [open_ports_ EXCEPT ![i] = @ + 1] /\ open_ports_' \in [Isolate -> Int]
    BY SMTT(30), <1>20 DEF OpenPort
  <2>2. owner' \in [Port -> Isolate \cup {None}] /\ opener' \in [Port -> Isolate \cup {None}]
    BY <1>20 DEF OpenPort
  <2>3. UNCHANGED <<pc, inbox, batch, nulled, exit_code_, busy, afterTurn,
                    interrupted, initial, sigVars, group, sent, settled>>
    BY <1>20 DEF OpenPort
  <2> HIDE DEF At, Runs, Goto, MonitorFree, HandlerHoldsMonitor, ExitLoop, Walking
  <2> QED
    BY <2>1, <2>2, <2>3
<1>21. ASSUME NEW i \in Isolate, NEW p \in Port, TurnClosesPort(i, p) PROVE Types'
  <2>1. owner' \in [Port -> Isolate \cup {None}]
    BY <1>21 DEF TurnClosesPort, ClosePort
  <2>2. open_ports_' \in [Isolate -> Int]
    BY <1>21 DEF TurnClosesPort, ClosePort
  <2> QED
    BY <1>21, <2>1, <2>2 DEF TurnClosesPort
<1>22. ASSUME NEW i \in Isolate, NEW p \in Port, NEW m \in Message, Send(i, p, m)
       PROVE Types'
  <2>1. owner[p] # None => owner[p] \in Isolate
    BY <1>22 DEF Send
  <2>2. sent' \subseteq Message
    BY <1>22 DEF Send
  <2>3. UNCHANGED inbox \/ (owner[p] # None /\ PostMessage(owner[p], m))
    BY <1>22 DEF Send
  <2>4. PostMessage(owner[p], m) =>
         /\ queue' = [queue EXCEPT ![owner[p]] = Append(queue[owner[p]], m)]
         /\ posted' = [posted EXCEPT ![owner[p]] = Append(posted[owner[p]], m)]
    BY <1>22 DEF Send, PostMessage
  <2>5. owner[p] # None =>
         /\ Append(queue[owner[p]], m) \in Seq(Message)
         /\ Append(posted[owner[p]], m) \in Seq(Message)
    BY <1>22 DEF Send
  <2>6. notified' \in [Isolate -> BOOLEAN]
    BY ZenonT(30), <1>22 DEF Send, PostMessage
  <2>7. queue' \in [Isolate -> Seq(Message)] /\ posted' \in [Isolate -> Seq(Message)]
    BY <2>1, <2>3, PostTyped DEF Types
  <2> QED
    BY <1>22, <2>1, <2>2, <2>3, <2>4, <2>5, <2>6, <2>7 DEF Send
<1>23. ASSUME NEW i \in Isolate, NEW c \in Isolate, NEW m \in Message, Spawn(i, c, m)
       PROVE Types'
  <2>1. sent' \subseteq Message
    BY <1>23 DEF Spawn
  <2>2. UNCHANGED <<pc, initial>> \/ (Goto(c, "tasked") /\ initial' = [initial EXCEPT ![c] = m])
    BY <1>23 DEF Spawn
  <2>3. initial' \in [Isolate -> Message]
    BY <2>2, SpawnTyped
  <2>4. pc' \in [Isolate -> Before \cup Running \cup Ending \cup After]
    BY <2>2
  <2> QED
    BY <1>23, <2>1, <2>3, <2>4 DEF Spawn
<1>24. ASSUME MainShutdown PROVE Types'
  BY <1>24 DEF MainShutdown
<1>25. ASSUME MainReturns PROVE Types'
  BY <1>25 DEF MainReturns
<1>26. ASSUME Deliver PROVE Types'
  <2>1. sigHost' \in Isolate \cup {None}
    BY <1>26 DEF Deliver
  <2>2. quota.interrupts \in Nat /\ deliveries \in Nat /\ deliveries < quota.interrupts
    BY <1>26 DEF Deliver
  <2>3. deliveries' = deliveries + 1 /\ quota' = quota
    BY <1>26 DEF Deliver
  <2>4. deliveries' \in 0 .. quota'.interrupts
    BY <2>2, <2>3
  <2> QED
    BY <1>26, <2>1, <2>2, <2>3, <2>4 DEF Deliver
<1>27. ASSUME InterruptAll PROVE Types'
  BY <1>27 DEF InterruptAll
<1>28. ASSUME NEW i \in Isolate, InterruptInterpreter(i) PROVE Types'
  BY <1>28 DEF InterruptInterpreter
<1>29. ASSUME InterruptLoop PROVE Types'
  BY <1>29 DEF InterruptLoop
<1>30. ASSUME InterruptNotify PROVE Types'
  BY <1>30 DEF InterruptNotify, NotifyInterrupted
<1>31. ASSUME HandlerReturns PROVE Types'
  BY ZenonT(30), <1>31 DEF HandlerReturns
<1>32. ASSUME UNCHANGED vars PROVE Types'
  BY <1>32 DEF vars
<1> QED
  BY <1>1, <1>2, <1>3, <1>4, <1>5, <1>6, <1>7, <1>8, <1>9, <1>10, <1>11,
       <1>12, <1>13, <1>14, <1>15, <1>16, <1>17, <1>18, <1>19, <1>20, <1>21,
       <1>22, <1>23, <1>24, <1>25, <1>26, <1>27, <1>28, <1>29, <1>30, <1>31,
       <1>32
     DEF Next, LoopStep, EndTurn, TurnStep, HandlerStep, Over

(* ... and the handler's place in the list, whose monitor keeps isolates    *)
(* from being deleted meanwhile, ...                                        *)
LEMMA StepWalking == Types /\ Walking /\ [Next]_vars => Walking'
<1> SUFFICES ASSUME Types, Walking, [Next]_vars PROVE Walking'
  OBVIOUS
<1> DEFINE Typed ==
      /\ pc \in [Isolate -> Before \cup Running \cup Ending \cup After]
      /\ nulled \in [Isolate -> BOOLEAN]
      /\ notified \in [Isolate -> BOOLEAN]
      /\ queue \in [Isolate -> Seq(Message)]
      /\ interrupted \in [Isolate -> BOOLEAN]
      /\ afterTurn \in [Isolate -> {"dispatch", "take"}]
      /\ owner \in [Port -> Isolate \cup {None}]
      /\ sigHost \in Isolate \cup {None} /\ sigCur \in Isolate \cup {None}
      /\ sigTodo \subseteq Isolate /\ listed \subseteq Isolate
<1>a. Typed
  BY DEF Types
<1> USE <1>a
<1> USE IsolatesAssumption
    DEF Walking, At, Runs, Goto, MonitorFree, HandlerHoldsMonitor, ExitLoop,
        Before, Running, Ending, After, inbox, turnVars, ports, sigVars, group,
        allButGroup, allButPc
<1>1. ASSUME NEW i \in Isolate, Construct(i) PROVE Walking'
  BY <1>1 DEF Construct
<1>2. ASSUME NEW i \in Isolate, PostInitial(i) PROVE Walking'
  BY <1>2 DEF PostInitial, PostMessage
<1>3. ASSUME NEW i \in Isolate, Delete(i) PROVE Walking'
  <2>1. /\ pc[i] = "leaving" /\ pc' = [pc EXCEPT ![i] = "left"]
        /\ listed' = listed \ {i} /\ UNCHANGED sigVars
    BY <1>3 DEF Delete, RemoveIsolateFromList
  <2>2. sigStep \notin {"walk", "exit", "notify"}
    BY <1>3 DEF Delete
  <2>3. (sigCur = None /\ sigTodo = {}) \/ sigStep \notin {"idle", "enter"}
    BY <2>2
  <2>4. sigStep \in {"idle", "enter"}
    BY <2>2 DEF Types
  <2>5. listed' = {j \in Isolate : pc'[j] \notin Before \cup After}
    BY <2>1
  <2> QED
    BY <2>1, <2>3, <2>4, <2>5
<1>4. ASSUME NEW i \in Isolate, ChildReturns(i) PROVE Walking'
  BY <1>4 DEF ChildReturns
<1>5. ASSUME NEW i \in Isolate, Check(i) PROVE Walking'
  BY <1>5 DEF Check
<1>6. ASSUME NEW i \in Isolate, PollNotified(i) PROVE Walking'
  BY <1>6 DEF PollNotified
<1>7. ASSUME NEW i \in Isolate, DispatchEvent(i) PROVE Walking'
  BY <1>7 DEF DispatchEvent
<1>8. ASSUME NEW i \in Isolate, Take(i) PROVE Walking'
  BY <1>8 DEF Take, TakeMessages
<1>9. ASSUME NEW i \in Isolate, BatchDone(i) PROVE Walking'
  BY <1>9 DEF BatchDone
<1>10. ASSUME NEW i \in Isolate, DispatchMessage(i) PROVE Walking'
  BY <1>10 DEF DispatchMessage
<1>11. ASSUME NEW i \in Isolate, Interpret(i) PROVE Walking'
  BY <1>11 DEF Interpret
<1>12. ASSUME NEW i \in Isolate, Close(i) PROVE Walking'
  BY <1>12 DEF Close, CloseAllPorts
<1>13. ASSUME NEW i \in Isolate, Drain(i) PROVE Walking'
  BY <1>13 DEF Drain
<1>14. ASSUME NEW i \in Isolate, StackCheck(i) PROVE Walking'
  BY <1>14 DEF StackCheck
<1>15. ASSUME NEW i \in Isolate, PrintStack(i) PROVE Walking'
  BY <1>15 DEF PrintStack
<1>16. ASSUME NEW i \in Isolate, AbandonTurn(i) PROVE Walking'
  BY ZenonT(30), <1>16 DEF AbandonTurn
<1>17. ASSUME NEW i \in Isolate, TurnFinishes(i) PROVE Walking'
  <2>1. PICK more \in BOOLEAN : busy' = [busy EXCEPT ![i] = more] /\ MessageEpilogue(i, more)
    BY <1>17 DEF TurnFinishes
  <2>2. CASE open_ports_[i] = 0 /\ ~more
    BY ZenonT(30), <1>17, <2>1, <2>2 DEF TurnFinishes, MessageEpilogue
  <2>3. CASE ~(open_ports_[i] = 0 /\ ~more)
    BY ZenonT(30), <1>17, <2>1, <2>3 DEF TurnFinishes, MessageEpilogue
  <2> QED
    BY <2>2, <2>3
<1>18. ASSUME NEW i \in Isolate, TurnExits(i) PROVE Walking'
  <2>1. PICK code \in {Success, Failure} : ExitLoop(i, code)
    BY <1>18 DEF TurnExits
  <2> QED
    BY ZenonT(30), <1>18, <2>1 DEF TurnExits
<1>19. ASSUME NEW i \in Isolate, PollEvent(i) PROVE Walking'
  BY <1>19 DEF PollEvent
<1>20. ASSUME NEW i \in Isolate, NEW p \in Port, OpenPort(i, p) PROVE Walking'
  BY <1>20 DEF OpenPort, Fresh
<1>21. ASSUME NEW i \in Isolate, NEW p \in Port, TurnClosesPort(i, p) PROVE Walking'
  BY <1>21 DEF TurnClosesPort, ClosePort
<1>22. ASSUME NEW i \in Isolate, NEW p \in Port, NEW m \in Message, Send(i, p, m)
       PROVE Walking'
  <2>1. CASE owner[p] # None
    BY <1>22, <2>1 DEF Send, PostMessage
  <2>2. CASE owner[p] = None
    BY <1>22, <2>2 DEF Send
  <2> QED
    BY <2>1, <2>2
<1>23. ASSUME NEW i \in Isolate, NEW c \in Isolate, NEW m \in Message, Spawn(i, c, m)
       PROVE Walking'
  <2>1. CASE poolOpen
    BY <1>23, <2>1 DEF Spawn
  <2>2. CASE ~poolOpen
    BY <1>23, <2>2 DEF Spawn
  <2> QED
    BY <2>1, <2>2
<1>24. ASSUME MainShutdown PROVE Walking'
  BY <1>24 DEF MainShutdown
<1>25. ASSUME MainReturns PROVE Walking'
  BY <1>25 DEF MainReturns
<1>26. ASSUME Deliver PROVE Walking'
  <2>1. sigHost' \in Isolate \cup {None}
    BY <1>26 DEF Deliver
  <2> QED
    BY <1>26, <2>1 DEF Deliver
<1>27. ASSUME InterruptAll PROVE Walking'
  BY <1>27 DEF InterruptAll
<1>28. ASSUME NEW i \in Isolate, InterruptInterpreter(i) PROVE Walking'
  BY <1>28 DEF InterruptInterpreter
<1>29. ASSUME InterruptLoop PROVE Walking'
  BY <1>29 DEF InterruptLoop
<1>30. ASSUME InterruptNotify PROVE Walking'
  BY <1>30 DEF InterruptNotify, NotifyInterrupted
<1>31. ASSUME HandlerReturns PROVE Walking'
  BY <1>31 DEF HandlerReturns
<1>32. ASSUME UNCHANGED vars PROVE Walking'
  BY <1>32 DEF vars
<1> QED
  BY <1>1, <1>2, <1>3, <1>4, <1>5, <1>6, <1>7, <1>8, <1>9, <1>10, <1>11,
       <1>12, <1>13, <1>14, <1>15, <1>16, <1>17, <1>18, <1>19, <1>20, <1>21,
       <1>22, <1>23, <1>24, <1>25, <1>26, <1>27, <1>28, <1>29, <1>30, <1>31,
       <1>32
     DEF Next, LoopStep, EndTurn, TurnStep, HandlerStep, Over

(* ... the notification, whichever of PostMessage, Take and InterruptAll    *)
(* comes between, ...                                                       *)
LEMMA StepWoken == Types /\ Walking /\ Woken /\ [Next]_vars => Woken'
<1> SUFFICES ASSUME Types, Walking, Woken, [Next]_vars PROVE Woken'
  OBVIOUS
<1> DEFINE Typed ==
      /\ pc \in [Isolate -> Before \cup Running \cup Ending \cup After]
      /\ nulled \in [Isolate -> BOOLEAN]
      /\ notified \in [Isolate -> BOOLEAN]
      /\ queue \in [Isolate -> Seq(Message)]
      /\ interrupted \in [Isolate -> BOOLEAN]
      /\ afterTurn \in [Isolate -> {"dispatch", "take"}]
      /\ owner \in [Port -> Isolate \cup {None}]
      /\ sigHost \in Isolate \cup {None} /\ sigCur \in Isolate \cup {None}
<1>a. Typed
  BY DEF Types
<1> USE <1>a
<1> USE IsolatesAssumption
    DEF Walking, Woken, At, Runs, Goto, MonitorFree, HandlerHoldsMonitor, ExitLoop,
        Before, Running, Ending, After, inbox, turnVars, ports, sigVars, group,
        allButGroup, allButPc
<1>1. ASSUME NEW i \in Isolate, Construct(i) PROVE Woken'
  BY <1>1 DEF Construct
<1>2. ASSUME NEW i \in Isolate, PostInitial(i) PROVE Woken'
  BY <1>2 DEF PostInitial, PostMessage
<1>3. ASSUME NEW i \in Isolate, Delete(i) PROVE Woken'
  BY <1>3 DEF Delete, RemoveIsolateFromList
<1>4. ASSUME NEW i \in Isolate, ChildReturns(i) PROVE Woken'
  BY <1>4 DEF ChildReturns
<1>5. ASSUME NEW i \in Isolate, Check(i) PROVE Woken'
  BY <1>5 DEF Check
<1>6. ASSUME NEW i \in Isolate, PollNotified(i) PROVE Woken'
  BY <1>6 DEF PollNotified
<1>7. ASSUME NEW i \in Isolate, DispatchEvent(i) PROVE Woken'
  BY <1>7 DEF DispatchEvent
<1>8. ASSUME NEW i \in Isolate, Take(i) PROVE Woken'
  BY <1>8 DEF Take, TakeMessages
<1>9. ASSUME NEW i \in Isolate, BatchDone(i) PROVE Woken'
  BY <1>9 DEF BatchDone
<1>10. ASSUME NEW i \in Isolate, DispatchMessage(i) PROVE Woken'
  BY <1>10 DEF DispatchMessage
<1>11. ASSUME NEW i \in Isolate, Interpret(i) PROVE Woken'
  BY <1>11 DEF Interpret
<1>12. ASSUME NEW i \in Isolate, Close(i) PROVE Woken'
  BY <1>12 DEF Close, CloseAllPorts
<1>13. ASSUME NEW i \in Isolate, Drain(i) PROVE Woken'
  BY <1>13 DEF Drain
<1>14. ASSUME NEW i \in Isolate, StackCheck(i) PROVE Woken'
  BY <1>14 DEF StackCheck
<1>15. ASSUME NEW i \in Isolate, PrintStack(i) PROVE Woken'
  BY <1>15 DEF PrintStack
<1>16. ASSUME NEW i \in Isolate, AbandonTurn(i) PROVE Woken'
  BY <1>16 DEF AbandonTurn
<1>17. ASSUME NEW i \in Isolate, TurnFinishes(i) PROVE Woken'
  <2>1. PICK more \in BOOLEAN : busy' = [busy EXCEPT ![i] = more] /\ MessageEpilogue(i, more)
    BY <1>17 DEF TurnFinishes
  <2>2. CASE open_ports_[i] = 0 /\ ~more
    BY <1>17, <2>1, <2>2 DEF TurnFinishes, MessageEpilogue
  <2>3. CASE ~(open_ports_[i] = 0 /\ ~more)
    BY <1>17, <2>1, <2>3 DEF TurnFinishes, MessageEpilogue
  <2> QED
    BY <2>2, <2>3
<1>18. ASSUME NEW i \in Isolate, TurnExits(i) PROVE Woken'
  <2>1. PICK code \in {Success, Failure} : ExitLoop(i, code)
    BY <1>18 DEF TurnExits
  <2> QED
    BY <1>18, <2>1 DEF TurnExits
<1>19. ASSUME NEW i \in Isolate, PollEvent(i) PROVE Woken'
  BY <1>19 DEF PollEvent
<1>20. ASSUME NEW i \in Isolate, NEW p \in Port, OpenPort(i, p) PROVE Woken'
  BY <1>20 DEF OpenPort, Fresh
<1>21. ASSUME NEW i \in Isolate, NEW p \in Port, TurnClosesPort(i, p) PROVE Woken'
  BY <1>21 DEF TurnClosesPort, ClosePort
<1>22. ASSUME NEW i \in Isolate, NEW p \in Port, NEW m \in Message, Send(i, p, m)
       PROVE Woken'
  <2>1. UNCHANGED <<pc, nulled, sigHost, sigStep, sigCur>>
    BY <1>22 DEF Send
  <2>2. \A j \in Isolate :
          /\ notified[j] => notified'[j]
          /\ queue'[j] # queue[j] /\ queue[j] = <<>> => notified'[j]
    <3>1. CASE owner[p] # None
      BY <1>22, <3>1, PostWakes DEF Send
    <3>2. CASE owner[p] = None
      BY <1>22, <3>2 DEF Send
    <3> QED
      BY <3>1, <3>2
  <2> QED
    BY <2>1, <2>2
<1>23. ASSUME NEW i \in Isolate, NEW c \in Isolate, NEW m \in Message, Spawn(i, c, m)
       PROVE Woken'
  <2>1. CASE poolOpen
    BY <1>23, <2>1 DEF Spawn
  <2>2. CASE ~poolOpen
    BY <1>23, <2>2 DEF Spawn
  <2> QED
    BY <2>1, <2>2
<1>24. ASSUME MainShutdown PROVE Woken'
  BY <1>24 DEF MainShutdown
<1>25. ASSUME MainReturns PROVE Woken'
  BY <1>25 DEF MainReturns
<1>26. ASSUME Deliver PROVE Woken'
  <2>1. sigHost' \in Isolate \cup {None}
    BY <1>26 DEF Deliver
  <2> QED
    BY <1>26, <2>1 DEF Deliver
<1>27. ASSUME InterruptAll PROVE Woken'
  BY <1>27 DEF InterruptAll
<1>28. ASSUME NEW i \in Isolate, InterruptInterpreter(i) PROVE Woken'
  BY <1>28 DEF InterruptInterpreter
<1>29. ASSUME InterruptLoop PROVE Woken'
  BY <1>29 DEF InterruptLoop
<1>30. ASSUME InterruptNotify PROVE Woken'
  BY <1>30 DEF InterruptNotify, NotifyInterrupted
<1>31. ASSUME HandlerReturns PROVE Woken'
  BY <1>31 DEF HandlerReturns
<1>32. ASSUME UNCHANGED vars PROVE Woken'
  BY <1>32 DEF vars
<1> QED
  BY <1>1, <1>2, <1>3, <1>4, <1>5, <1>6, <1>7, <1>8, <1>9, <1>10, <1>11,
       <1>12, <1>13, <1>14, <1>15, <1>16, <1>17, <1>18, <1>19, <1>20, <1>21,
       <1>22, <1>23, <1>24, <1>25, <1>26, <1>27, <1>28, <1>29, <1>30, <1>31,
       <1>32
     DEF Next, LoopStep, EndTurn, TurnStep, HandlerStep, Over

(* ... and the order in which an isolate is interrupted.                    *)
LEMMA StepStopped == Types /\ Walking /\ Stopped /\ [Next]_vars => Stopped'
<1> SUFFICES ASSUME Types, Walking, Stopped, [Next]_vars PROVE Stopped'
  OBVIOUS
<1> DEFINE Typed ==
      /\ pc \in [Isolate -> Before \cup Running \cup Ending \cup After]
      /\ nulled \in [Isolate -> BOOLEAN]
      /\ notified \in [Isolate -> BOOLEAN]
      /\ queue \in [Isolate -> Seq(Message)]
      /\ interrupted \in [Isolate -> BOOLEAN]
      /\ afterTurn \in [Isolate -> {"dispatch", "take"}]
      /\ owner \in [Port -> Isolate \cup {None}]
      /\ sigHost \in Isolate \cup {None} /\ sigCur \in Isolate \cup {None}
<1>a. Typed
  BY DEF Types
<1> USE <1>a
<1> USE IsolatesAssumption
    DEF Walking, Stopped, At, Runs, Goto, MonitorFree, HandlerHoldsMonitor, ExitLoop,
        Before, Running, Ending, After, inbox, turnVars, ports, sigVars, group,
        allButGroup, allButPc
<1>1. ASSUME NEW i \in Isolate, Construct(i) PROVE Stopped'
  BY <1>1 DEF Construct
<1>2. ASSUME NEW i \in Isolate, PostInitial(i) PROVE Stopped'
  BY <1>2 DEF PostInitial, PostMessage
<1>3. ASSUME NEW i \in Isolate, Delete(i) PROVE Stopped'
  BY <1>3 DEF Delete, RemoveIsolateFromList
<1>4. ASSUME NEW i \in Isolate, ChildReturns(i) PROVE Stopped'
  BY <1>4 DEF ChildReturns
<1>5. ASSUME NEW i \in Isolate, Check(i) PROVE Stopped'
  BY <1>5 DEF Check
<1>6. ASSUME NEW i \in Isolate, PollNotified(i) PROVE Stopped'
  BY <1>6 DEF PollNotified
<1>7. ASSUME NEW i \in Isolate, DispatchEvent(i) PROVE Stopped'
  BY <1>7 DEF DispatchEvent
<1>8. ASSUME NEW i \in Isolate, Take(i) PROVE Stopped'
  BY <1>8 DEF Take, TakeMessages
<1>9. ASSUME NEW i \in Isolate, BatchDone(i) PROVE Stopped'
  BY <1>9 DEF BatchDone
<1>10. ASSUME NEW i \in Isolate, DispatchMessage(i) PROVE Stopped'
  BY <1>10 DEF DispatchMessage
<1>11. ASSUME NEW i \in Isolate, Interpret(i) PROVE Stopped'
  BY <1>11 DEF Interpret
<1>12. ASSUME NEW i \in Isolate, Close(i) PROVE Stopped'
  BY <1>12 DEF Close, CloseAllPorts
<1>13. ASSUME NEW i \in Isolate, Drain(i) PROVE Stopped'
  BY <1>13 DEF Drain
<1>14. ASSUME NEW i \in Isolate, StackCheck(i) PROVE Stopped'
  BY <1>14 DEF StackCheck
<1>15. ASSUME NEW i \in Isolate, PrintStack(i) PROVE Stopped'
  BY <1>15 DEF PrintStack
<1>16. ASSUME NEW i \in Isolate, AbandonTurn(i) PROVE Stopped'
  BY <1>16 DEF AbandonTurn
<1>17. ASSUME NEW i \in Isolate, TurnFinishes(i) PROVE Stopped'
  <2>1. PICK more \in BOOLEAN : busy' = [busy EXCEPT ![i] = more] /\ MessageEpilogue(i, more)
    BY <1>17 DEF TurnFinishes
  <2>2. CASE open_ports_[i] = 0 /\ ~more
    BY <1>17, <2>1, <2>2 DEF TurnFinishes, MessageEpilogue
  <2>3. CASE ~(open_ports_[i] = 0 /\ ~more)
    BY <1>17, <2>1, <2>3 DEF TurnFinishes, MessageEpilogue
  <2> QED
    BY <2>2, <2>3
<1>18. ASSUME NEW i \in Isolate, TurnExits(i) PROVE Stopped'
  <2>1. PICK code \in {Success, Failure} : ExitLoop(i, code)
    BY <1>18 DEF TurnExits
  <2> QED
    BY <1>18, <2>1 DEF TurnExits
<1>19. ASSUME NEW i \in Isolate, PollEvent(i) PROVE Stopped'
  BY <1>19 DEF PollEvent
<1>20. ASSUME NEW i \in Isolate, NEW p \in Port, OpenPort(i, p) PROVE Stopped'
  BY <1>20 DEF OpenPort, Fresh
<1>21. ASSUME NEW i \in Isolate, NEW p \in Port, TurnClosesPort(i, p) PROVE Stopped'
  BY <1>21 DEF TurnClosesPort, ClosePort
<1>22. ASSUME NEW i \in Isolate, NEW p \in Port, NEW m \in Message, Send(i, p, m)
       PROVE Stopped'
  <2>1. CASE owner[p] # None
    BY <1>22, <2>1 DEF Send, PostMessage
  <2>2. CASE owner[p] = None
    BY <1>22, <2>2 DEF Send
  <2> QED
    BY <2>1, <2>2
<1>23. ASSUME NEW i \in Isolate, NEW c \in Isolate, NEW m \in Message, Spawn(i, c, m)
       PROVE Stopped'
  <2>1. CASE poolOpen
    BY <1>23, <2>1 DEF Spawn
  <2>2. CASE ~poolOpen
    BY <1>23, <2>2 DEF Spawn
  <2> QED
    BY <2>1, <2>2
<1>24. ASSUME MainShutdown PROVE Stopped'
  BY <1>24 DEF MainShutdown
<1>25. ASSUME MainReturns PROVE Stopped'
  BY <1>25 DEF MainReturns
<1>26. ASSUME Deliver PROVE Stopped'
  <2>1. sigHost' \in Isolate \cup {None}
    BY <1>26 DEF Deliver
  <2> QED
    BY <1>26, <2>1 DEF Deliver
<1>27. ASSUME InterruptAll PROVE Stopped'
  BY <1>27 DEF InterruptAll
<1>28. ASSUME NEW i \in Isolate, InterruptInterpreter(i) PROVE Stopped'
  BY <1>28 DEF InterruptInterpreter
<1>29. ASSUME InterruptLoop PROVE Stopped'
  BY <1>29 DEF InterruptLoop
<1>30. ASSUME InterruptNotify PROVE Stopped'
  BY <1>30 DEF InterruptNotify, NotifyInterrupted
<1>31. ASSUME HandlerReturns PROVE Stopped'
  BY <1>31 DEF HandlerReturns
<1>32. ASSUME UNCHANGED vars PROVE Stopped'
  BY <1>32 DEF vars
<1> QED
  BY <1>1, <1>2, <1>3, <1>4, <1>5, <1>6, <1>7, <1>8, <1>9, <1>10, <1>11,
       <1>12, <1>13, <1>14, <1>15, <1>16, <1>17, <1>18, <1>19, <1>20, <1>21,
       <1>22, <1>23, <1>24, <1>25, <1>26, <1>27, <1>28, <1>29, <1>30, <1>31,
       <1>32
     DEF Next, LoopStep, EndTurn, TurnStep, HandlerStep, Over

-----------------------------------------------------------------------------
(* A number is taken from those that are left.                              *)
LEMMA FreshIn == ASSUME NEW S, S # {} PROVE Fresh(S) \in S
BY DEF Fresh

(* A step that leaves the map and the counts alone, and neither ends a loop *)
(* nor starts one that was deleted, keeps the counts.                       *)
LEMMA PortsKept ==
  ASSUME PortsCounted, UNCHANGED <<ports, open_ports_>>,
         \A i \in Isolate : /\ Alive(i) => Alive(i)'
                            /\ Alive(i)' => Alive(i) \/ pc[i] \in Before
                            /\ pc'[i] \in Before => pc[i] \in Before
  PROVE  PortsCounted'
<1>1. \A i \in Isolate : Owned(i)' = Owned(i)
  BY DEF Owned, ports
<1>2. \A p \in Port : owner'[p] # None => owner'[p] = opener'[p]
  BY DEF PortsCounted, ports
<1>3. ASSUME NEW i \in Isolate
      PROVE  /\ IsFiniteSet(Owned(i)')
             /\ pc'[i] \in Before => open_ports_'[i] = 0
             /\ ~Alive(i)' => Owned(i)' = {}
             /\ Alive(i)' => open_ports_'[i] = Cardinality(Owned(i)')
             /\ open_ports_'[i] \in Nat
  <2>1. CASE Alive(i)
    BY <1>1, <2>1 DEF PortsCounted
  <2>2. CASE ~Alive(i) /\ Alive(i)'
    BY <1>1, <2>2, FS_EmptySet DEF PortsCounted
  <2>3. CASE ~Alive(i) /\ ~Alive(i)'
    BY <1>1, <2>3 DEF PortsCounted
  <2> QED
    BY <2>1, <2>2, <2>3
<1> QED
  BY <1>2, <1>3 DEF PortsCounted

(* Every step keeps open_ports_ equal to the number of the loop's ports     *)
(* while it has any, if no isolate closes another's.                        *)
LEMMA StepPorts ==
  ASSUME ForeignClose = FALSE, Types, PortsCounted, [Next]_vars
  PROVE  PortsCounted'
<1>a. pc \in [Isolate -> Before \cup Running \cup Ending \cup After]
  BY DEF Types
<1>b. afterTurn \in [Isolate -> {"dispatch", "take"}]
  BY DEF Types
<1> USE <1>a, <1>b
<1> USE IsolatesAssumption
    DEF At, Runs, Goto, Before, Running, Ending, After, Alive, inbox, turnVars, ports,
        sigVars, group, allButGroup, allButPc
<1>1. ASSUME NEW i \in Isolate, Construct(i) PROVE PortsCounted'
  BY <1>1, PortsKept DEF Construct
<1>2. ASSUME NEW i \in Isolate, PostInitial(i) PROVE PortsCounted'
  BY <1>2, PortsKept DEF PostInitial, PostMessage
<1>3. ASSUME NEW i \in Isolate, Delete(i) PROVE PortsCounted'
  BY <1>3, PortsKept DEF Delete, RemoveIsolateFromList
<1>4. ASSUME NEW i \in Isolate, ChildReturns(i) PROVE PortsCounted'
  BY <1>4, PortsKept DEF ChildReturns
<1>5. ASSUME NEW i \in Isolate, Check(i) PROVE PortsCounted'
  BY <1>5, PortsKept DEF Check
<1>6. ASSUME NEW i \in Isolate, PollNotified(i) PROVE PortsCounted'
  BY <1>6, PortsKept DEF PollNotified
<1>7. ASSUME NEW i \in Isolate, DispatchEvent(i) PROVE PortsCounted'
  BY <1>7, PortsKept DEF DispatchEvent
<1>8. ASSUME NEW i \in Isolate, Take(i) PROVE PortsCounted'
  BY <1>8, PortsKept DEF Take, TakeMessages
<1>9. ASSUME NEW i \in Isolate, BatchDone(i) PROVE PortsCounted'
  BY <1>9, PortsKept DEF BatchDone
<1>10. ASSUME NEW i \in Isolate, DispatchMessage(i) PROVE PortsCounted'
  BY <1>10, PortsKept DEF DispatchMessage
<1>11. ASSUME NEW i \in Isolate, Interpret(i) PROVE PortsCounted'
  BY <1>11, PortsKept DEF Interpret
<1>12. ASSUME NEW i \in Isolate, Close(i) PROVE PortsCounted'
  <2>1. /\ pc[i] = "closing" /\ pc' = [pc EXCEPT ![i] = "drain"]
        /\ UNCHANGED <<opener, open_ports_>>
    BY <1>12 DEF Close, CloseAllPorts
  <2>2. open_ports_[i] = Cardinality(Owned(i)) /\ IsFiniteSet(Owned(i))
        /\ Cardinality(Owned(i)) \in Nat
    BY <2>1, FS_CardinalityType DEF PortsCounted
  <2>3. CASE open_ports_[i] > 0
    <3>1. owner' = [p \in Port |-> IF owner[p] = i THEN None ELSE owner[p]]
      BY <1>12, <2>3 DEF Close, CloseAllPorts
    <3>2. Owned(i)' = {}
      BY <3>1 DEF Owned
    <3>3. \A j \in Isolate \ {i} : Owned(j)' = Owned(j)
      BY <3>1 DEF Owned
    <3>4. \A q \in Port : owner'[q] # None => owner'[q] = opener'[q]
      BY <2>1, <3>1 DEF PortsCounted
    <3>5. ~Alive(i)' /\ pc'[i] \notin Before /\ IsFiniteSet({})
      BY <2>1, FS_EmptySet
    <3>6. \A j \in Isolate \ {i} : pc'[j] = pc[j] /\ open_ports_'[j] = open_ports_[j]
      BY <2>1
    <3>7. open_ports_'[i] \in Nat
      BY <2>1 DEF PortsCounted
    <3>8. ASSUME NEW j \in Isolate
          PROVE  /\ IsFiniteSet(Owned(j)')
                 /\ pc'[j] \in Before => open_ports_'[j] = 0
                 /\ ~Alive(j)' => Owned(j)' = {}
                 /\ Alive(j)' => open_ports_'[j] = Cardinality(Owned(j)')
                 /\ open_ports_'[j] \in Nat
      <4>1. CASE j = i
        BY <3>2, <3>5, <3>7, <4>1
      <4>2. CASE j # i
        BY <3>3, <3>6, <4>2 DEF PortsCounted
      <4> QED
        BY <4>1, <4>2
    <3> QED
      BY <3>4, <3>8 DEF PortsCounted
  <2>4. CASE ~(open_ports_[i] > 0)
    <3>1. owner' = owner
      BY <1>12, <2>4 DEF Close, CloseAllPorts
    <3>2. Owned(i) = {}
      BY <2>2, <2>4, FS_EmptySet
    <3>3. \A j \in Isolate : Owned(j)' = Owned(j)
      BY <3>1 DEF Owned
    <3> QED
      BY SMTT(30), <2>1, <3>1, <3>2, <3>3 DEF PortsCounted, Types
  <2> QED
    BY <2>3, <2>4
<1>13. ASSUME NEW i \in Isolate, Drain(i) PROVE PortsCounted'
  BY <1>13, PortsKept DEF Drain
<1>14. ASSUME NEW i \in Isolate, StackCheck(i) PROVE PortsCounted'
  BY <1>14, PortsKept DEF StackCheck
<1>15. ASSUME NEW i \in Isolate, PrintStack(i) PROVE PortsCounted'
  BY <1>15, PortsKept DEF PrintStack
<1>16. ASSUME NEW i \in Isolate, AbandonTurn(i) PROVE PortsCounted'
  BY <1>16, PortsKept DEF AbandonTurn
<1>17. ASSUME NEW i \in Isolate, TurnFinishes(i) PROVE PortsCounted'
  BY <1>17, PortsKept DEF TurnFinishes, MessageEpilogue
<1>18. ASSUME NEW i \in Isolate, TurnExits(i) PROVE PortsCounted'
  BY <1>18, PortsKept DEF TurnExits
<1>19. ASSUME NEW i \in Isolate, PollEvent(i) PROVE PortsCounted'
  BY <1>19, PortsKept DEF PollEvent
<1>20. ASSUME NEW i \in Isolate, NEW p \in Port, OpenPort(i, p) PROVE PortsCounted'
  <2>1. opener[p] = None /\ owner[p] = None /\ Alive(i)
    <3>1. p \in {q \in Port : opener[q] = None}
      BY <1>20, FreshIn DEF OpenPort
    <3> QED
      BY <1>20, <3>1 DEF OpenPort, PortsCounted, Types
  <2>2. /\ owner' = [owner EXCEPT ![p] = i] /\ opener' = [opener EXCEPT ![p] = i]
        /\ open_ports_' = [open_ports_ EXCEPT ![i] = @ + 1] /\ pc' = pc
    BY <1>20 DEF OpenPort
  <2>3. Owned(i)' = Owned(i) \cup {p} /\ p \notin Owned(i)
    <3>1. /\ \A q \in Port : owner'[q] = i <=> (q = p \/ owner[q] = i)
          /\ owner[p] # i
      BY <2>1, <2>2 DEF Types
    <3> QED
      BY <3>1 DEF Owned
  <2>4. ASSUME NEW j \in Isolate \ {i}
        PROVE  Owned(j)' = Owned(j) /\ open_ports_'[j] = open_ports_[j]
    <3>1. \A q \in Port : owner'[q] = j <=> owner[q] = j
      BY <2>1, <2>2 DEF Types
    <3>2. open_ports_'[j] = open_ports_[j]
      BY <2>2 DEF Types
    <3> QED
      BY <3>1, <3>2 DEF Owned
  <2>5. /\ IsFiniteSet(Owned(i)')
        /\ Cardinality(Owned(i)') = Cardinality(Owned(i)) + 1
    BY <2>3, FS_AddElement DEF PortsCounted
  <2>6. open_ports_'[i] = open_ports_[i] + 1 /\ open_ports_[i] = Cardinality(Owned(i))
    BY <2>1, <2>2 DEF PortsCounted, Types
  <2>7. \A q \in Port : owner'[q] # None => owner'[q] = opener'[q]
    BY <2>2 DEF PortsCounted, Types
  <2> QED
    BY <2>1, <2>2, <2>4, <2>5, <2>6, <2>7 DEF PortsCounted
<1>21. ASSUME NEW i \in Isolate, NEW p \in Port, TurnClosesPort(i, p) PROVE PortsCounted'
  <2>1. /\ owner' = [owner EXCEPT ![p] = None] /\ opener' = opener /\ pc' = pc
        /\ Alive(i)
    BY <1>21 DEF TurnClosesPort, ClosePort
  <2>2. CASE owner[p] = None
    <3>1. owner' = owner
      BY <2>1, <2>2 DEF Types
    <3>2. open_ports_' = open_ports_
      BY <1>21, <2>2 DEF TurnClosesPort, ClosePort, Types
    <3> QED
      BY <2>1, <3>1, <3>2, PortsKept
  <2>3. CASE owner[p] # None
    <3>1. owner[p] = i
      BY <1>21, <2>3 DEF TurnClosesPort, MayClose, PortsCounted
    <3>2. open_ports_' = [open_ports_ EXCEPT ![i] = @ - 1]
      BY <1>21, <2>3 DEF TurnClosesPort, ClosePort
    <3>3. Owned(i)' = Owned(i) \ {p} /\ p \in Owned(i)
      BY <2>1, <3>1 DEF Owned, Types
    <3>4. \A j \in Isolate \ {i} : Owned(j)' = Owned(j) /\ open_ports_'[j] = open_ports_[j]
      BY SMTT(30), <2>1, <3>1, <3>2 DEF Owned, Types
    <3>5. /\ IsFiniteSet(Owned(i)')
          /\ Cardinality(Owned(i)') = Cardinality(Owned(i)) - 1
          /\ Cardinality(Owned(i)') \in Nat
      BY <3>3, FS_RemoveElement, FS_CardinalityType DEF PortsCounted
    <3>6. open_ports_'[i] = open_ports_[i] - 1 /\ open_ports_[i] = Cardinality(Owned(i))
      BY <2>1, <3>2 DEF PortsCounted, Types
    <3>7. \A q \in Port : owner'[q] # None => owner'[q] = opener'[q]
      BY <2>1 DEF PortsCounted, Types
    <3> QED
      BY <2>1, <3>4, <3>5, <3>6, <3>7 DEF PortsCounted
  <2> QED
    BY <2>2, <2>3
<1>22. ASSUME NEW i \in Isolate, NEW p \in Port, NEW m \in Message, Send(i, p, m)
       PROVE PortsCounted'
  BY <1>22, PortsKept DEF Send
<1>23. ASSUME NEW i \in Isolate, NEW c \in Isolate, NEW m \in Message, Spawn(i, c, m)
       PROVE PortsCounted'
  <2>1. CASE poolOpen
    BY <1>23, <2>1, PortsKept DEF Spawn
  <2>2. CASE ~poolOpen
    BY <1>23, <2>2, PortsKept DEF Spawn
  <2> QED
    BY <2>1, <2>2
<1>24. ASSUME MainShutdown PROVE PortsCounted'
  BY <1>24, PortsKept DEF MainShutdown
<1>25. ASSUME MainReturns PROVE PortsCounted'
  BY <1>25, PortsKept DEF MainReturns
<1>26. ASSUME Deliver PROVE PortsCounted'
  BY <1>26, PortsKept DEF Deliver
<1>27. ASSUME InterruptAll PROVE PortsCounted'
  BY <1>27, PortsKept DEF InterruptAll
<1>28. ASSUME NEW i \in Isolate, InterruptInterpreter(i) PROVE PortsCounted'
  BY <1>28, PortsKept DEF InterruptInterpreter
<1>29. ASSUME InterruptLoop PROVE PortsCounted'
  BY <1>29, PortsKept DEF InterruptLoop
<1>30. ASSUME InterruptNotify PROVE PortsCounted'
  BY <1>30, PortsKept DEF InterruptNotify
<1>31. ASSUME HandlerReturns PROVE PortsCounted'
  <2>1. CASE sigHost \in Isolate /\ pc[sigHost] = "poll"
    BY <1>31, <2>1, PortsKept DEF HandlerReturns
  <2>2. CASE ~(sigHost \in Isolate /\ pc[sigHost] = "poll")
    BY <1>31, <2>2, PortsKept DEF HandlerReturns
  <2> QED
    BY <2>1, <2>2
<1>32. ASSUME UNCHANGED vars PROVE PortsCounted'
  BY <1>32, PortsKept DEF vars
<1> QED
  BY <1>1, <1>2, <1>3, <1>4, <1>5, <1>6, <1>7, <1>8, <1>9, <1>10, <1>11,
       <1>12, <1>13, <1>14, <1>15, <1>16, <1>17, <1>18, <1>19, <1>20, <1>21,
       <1>22, <1>23, <1>24, <1>25, <1>26, <1>27, <1>28, <1>29, <1>30, <1>31,
       <1>32
     DEF Next, LoopStep, EndTurn, TurnStep, HandlerStep, Over

-----------------------------------------------------------------------------
(* What is settled, then the batch, then the queue: posting, settling the   *)
(* first of the batch, taking the queue for the next batch and draining it  *)
(* change none of their order.                                              *)
LEMMA SeqPost ==
  ASSUME NEW s \in Seq(Message), NEW b \in Seq(Message), NEW q \in Seq(Message), NEW m \in Message
  PROVE  Append(s \o b \o q, m) = s \o b \o Append(q, m)
<1>1. s \o b \in Seq(Message) /\ <<m>> \in Seq(Message)
  BY ConcatProperties
<1>2. Append(s \o b \o q, m) = (s \o b \o q) \o <<m>>
  BY <1>1, ConcatProperties, AppendIsConcat
<1>3. Append(q, m) = q \o <<m>>
  BY AppendIsConcat
<1> QED
  BY <1>1, <1>2, <1>3, ConcatAssociative, SMTT(30)

LEMMA SeqSettle ==
  ASSUME NEW s \in Seq(Message), NEW b \in Seq(Message), NEW q \in Seq(Message), b # <<>>
  PROVE  s \o b \o q = Append(s, Head(b)) \o Tail(b) \o q
<1>1. Head(b) \in Message /\ Tail(b) \in Seq(Message) /\ <<Head(b)>> \in Seq(Message)
  BY HeadTailProperties
<1>2. b = <<Head(b)>> \o Tail(b)
  BY <1>1
<1>3. Append(s, Head(b)) = s \o <<Head(b)>>
  BY <1>1, AppendIsConcat
<1>4. s \o (<<Head(b)>> \o Tail(b)) = (s \o <<Head(b)>>) \o Tail(b)
  BY <1>1, ConcatAssociative
<1> QED
  BY <1>2, <1>3, <1>4

LEMMA SeqTake ==
  ASSUME NEW s \in Seq(Message), NEW q \in Seq(Message)
  PROVE  /\ s \o <<>> \o q = s \o q \o <<>>
         /\ s \o <<>> \o q = (s \o q) \o <<>> \o <<>>
<1>1. s \o q \in Seq(Message)
  BY ConcatProperties
<1> QED
  BY <1>1, ConcatEmptySeq

LEMMA PostAppends ==
  ASSUME Types, NEW i \in Isolate, NEW m \in Message
  PROVE  Append(settled[i] \o batch[i] \o queue[i], m)
           = settled[i] \o batch[i] \o Append(queue[i], m)
<1>1. settled[i] \in Seq(Message)
  BY DEF Types
<1>2. batch[i] \in Seq(Message)
  BY DEF Types
<1>3. queue[i] \in Seq(Message)
  BY DEF Types
<1> QED
  BY <1>1, <1>2, <1>3, SeqPost, ZenonT(30)

LEMMA DispatchSettles ==
  ASSUME Types, NEW i \in Isolate, batch[i] # <<>>
  PROVE  settled[i] \o batch[i] \o queue[i]
           = Append(settled[i], Head(batch[i])) \o Tail(batch[i]) \o queue[i]
<1>1. settled[i] \in Seq(Message)
  BY DEF Types
<1>2. batch[i] \in Seq(Message)
  BY DEF Types
<1>3. queue[i] \in Seq(Message)
  BY DEF Types
<1> QED
  BY <1>1, <1>2, <1>3, SeqSettle, Zenon

(* A step that moves no message keeps their order, unless it leaves a batch *)
(* or ends a loop.                                                          *)
LEMMA OrderKept ==
  ASSUME InOrder, UNCHANGED <<posted, settled, batch, queue>>,
         \A i \in Isolate :
           /\ batch[i] # <<>> /\ Holding(i) => Holding(i)'
           /\ pc'[i] \in After \cup {"leaving"} => pc[i] \in After \cup {"leaving"}
  PROVE  InOrder'
BY DEF InOrder, Ordered

(* A message put into the queue of a loop that will still empty it.         *)
LEMMA OrderPosted ==
  ASSUME Types, InOrder, NEW i \in Isolate, NEW m \in Message, PostMessage(i, m),
         pc[i] \notin After \cup {"leaving"}, pc'[i] \notin After \cup {"leaving"},
         UNCHANGED <<batch, settled>>, \A j \in Isolate \ {i} : pc'[j] = pc[j],
         afterTurn' = afterTurn, batch[i] # <<>> /\ Holding(i) => Holding(i)'
  PROVE  InOrder'
<1>1. /\ queue' = [queue EXCEPT ![i] = Append(queue[i], m)]
      /\ posted' = [posted EXCEPT ![i] = Append(posted[i], m)]
  BY DEF PostMessage
<1>2. Append(settled[i] \o batch[i] \o queue[i], m)
        = settled[i] \o batch[i] \o Append(queue[i], m)
  BY PostAppends
<1>3. queue'[i] = Append(queue[i], m) /\ posted'[i] = Append(posted[i], m)
  BY <1>1 DEF Types
<1>4. Ordered(i)'
  BY <1>2, <1>3 DEF InOrder, Ordered
<1>5. ASSUME NEW j \in Isolate \ {i} PROVE Ordered(j)'
  <2>1. queue'[j] = queue[j] /\ posted'[j] = posted[j]
    BY <1>1 DEF Types
  <2>2. Holding(j)' <=> Holding(j)
    BY DEF Holding
  <2> QED
    BY <2>1, <2>2 DEF InOrder, Ordered
<1> QED
  BY <1>4, <1>5 DEF InOrder

(* Every step keeps the messages in their order.                            *)
LEMMA StepOrder ==
  ASSUME Types, PortsCounted, InOrder, [Next]_vars
  PROVE  InOrder'
<1>a. pc \in [Isolate -> Before \cup Running \cup Ending \cup After]
  BY DEF Types
<1>b. afterTurn \in [Isolate -> {"dispatch", "take"}]
  BY DEF Types
<1> USE <1>a, <1>b
<1> USE IsolatesAssumption
    DEF At, Runs, Goto, Before, Running, Ending, After, Alive, inbox, turnVars, ports,
        sigVars, group, allButGroup, allButPc
<1>1. ASSUME NEW i \in Isolate, Construct(i) PROVE InOrder'
  BY <1>1, OrderKept DEF Holding, Construct
<1>2. ASSUME NEW i \in Isolate, PostInitial(i) PROVE InOrder'
  <2>1. initial[i] \in Message
    BY DEF Types
  <2> QED
    BY <1>2, <2>1, OrderPosted DEF PostInitial, Holding
<1>3. ASSUME NEW i \in Isolate, Delete(i) PROVE InOrder'
  BY <1>3, OrderKept DEF Holding, Delete, RemoveIsolateFromList
<1>4. ASSUME NEW i \in Isolate, ChildReturns(i) PROVE InOrder'
  BY <1>4, OrderKept DEF Holding, ChildReturns
<1>5. ASSUME NEW i \in Isolate, Check(i) PROVE InOrder'
  BY <1>5, OrderKept DEF Holding, Check
<1>6. ASSUME NEW i \in Isolate, PollNotified(i) PROVE InOrder'
  BY <1>6, OrderKept DEF Holding, PollNotified
<1>7. ASSUME NEW i \in Isolate, DispatchEvent(i) PROVE InOrder'
  BY <1>7, OrderKept DEF Holding, DispatchEvent
<1>8. ASSUME NEW i \in Isolate, Take(i) PROVE InOrder'
  <2>1. /\ batch'[i] = queue[i] /\ queue'[i] = <<>> /\ pc[i] = "take" /\ pc'[i] = "dispatch"
        /\ settled'[i] = settled[i] /\ posted'[i] = posted[i]
    BY <1>8 DEF Take, TakeMessages, Types
  <2>2. batch[i] = <<>>
    BY <2>1 DEF InOrder, Ordered, Holding
  <2>3. settled[i] \o <<>> \o queue[i] = settled[i] \o queue[i] \o <<>>
    BY SeqTake DEF Types
  <2>4. Ordered(i)'
    BY <2>1, <2>2, <2>3 DEF InOrder, Ordered, Holding
  <2>5. ASSUME NEW j \in Isolate \ {i} PROVE Ordered(j)'
    <3>1. /\ batch'[j] = batch[j] /\ settled'[j] = settled[j] /\ queue'[j] = queue[j]
          /\ posted'[j] = posted[j] /\ pc'[j] = pc[j] /\ afterTurn'[j] = afterTurn[j]
      BY <1>8 DEF Take, TakeMessages, Types
    <3>2. Holding(j)' <=> Holding(j)
      BY <3>1 DEF Holding
    <3> QED
      BY <3>1, <3>2 DEF InOrder, Ordered
  <2> QED
    BY <2>4, <2>5 DEF InOrder
<1>9. ASSUME NEW i \in Isolate, BatchDone(i) PROVE InOrder'
  <2>1. batch[i] = <<>> /\ pc' = [pc EXCEPT ![i] = "check"] /\ UNCHANGED allButPc
    BY <1>9 DEF BatchDone
  <2> QED
    BY <2>1, OrderKept DEF Holding
<1>10. ASSUME NEW i \in Isolate, DispatchMessage(i) PROVE InOrder'
  <2>1. batch[i] # <<>> /\ pc[i] = "dispatch" /\ queue'[i] = queue[i] /\ posted'[i] = posted[i]
    BY <1>10 DEF DispatchMessage
  <2>2. batch'[i] = Tail(batch[i]) /\ settled'[i] = Append(settled[i], Head(batch[i]))
    BY <1>10 DEF DispatchMessage, Types
  <2>3. pc'[i] \in {"dispatch", "activated"} /\ afterTurn'[i] = "dispatch"
    BY <1>10 DEF DispatchMessage
  <2>4. settled[i] \o batch[i] \o queue[i]
          = Append(settled[i], Head(batch[i])) \o Tail(batch[i]) \o queue[i]
    BY <2>1, DispatchSettles
  <2>5. Holding(i)'
    BY <2>3 DEF Holding
  <2>6. Ordered(i)'
    BY <2>1, <2>2, <2>3, <2>4, <2>5 DEF InOrder, Ordered
  <2>7. ASSUME NEW j \in Isolate \ {i} PROVE Ordered(j)'
    <3>1. /\ batch'[j] = batch[j] /\ settled'[j] = settled[j] /\ queue'[j] = queue[j]
          /\ posted'[j] = posted[j] /\ pc'[j] = pc[j] /\ afterTurn'[j] = afterTurn[j]
      BY <1>10 DEF DispatchMessage, Types
    <3>2. Holding(j)' <=> Holding(j)
      BY <3>1 DEF Holding
    <3> QED
      BY <3>1, <3>2 DEF InOrder, Ordered
  <2> QED
    BY <2>6, <2>7 DEF InOrder
<1>11. ASSUME NEW i \in Isolate, Interpret(i) PROVE InOrder'
  BY <1>11, OrderKept DEF Holding, Interpret
<1>12. ASSUME NEW i \in Isolate, Close(i) PROVE InOrder'
  BY <1>12, OrderKept DEF Holding, Close, CloseAllPorts
<1>13. ASSUME NEW i \in Isolate, Drain(i) PROVE InOrder'
  <2>1. /\ settled'[i] = settled[i] \o queue[i] /\ queue'[i] = <<>> /\ pc[i] = "drain"
        /\ batch'[i] = batch[i] /\ posted'[i] = posted[i] /\ pc'[i] = "leaving"
    BY <1>13 DEF Drain, Types
  <2>2. batch[i] = <<>>
    BY <2>1 DEF InOrder, Ordered, Holding
  <2>3. settled[i] \o <<>> \o queue[i] = (settled[i] \o queue[i]) \o <<>> \o <<>>
    BY SeqTake DEF Types
  <2>4. Ordered(i)'
    BY <2>1, <2>2, <2>3 DEF InOrder, Ordered
  <2>5. ASSUME NEW j \in Isolate \ {i} PROVE Ordered(j)'
    <3>1. /\ batch'[j] = batch[j] /\ settled'[j] = settled[j] /\ queue'[j] = queue[j]
          /\ posted'[j] = posted[j] /\ pc'[j] = pc[j] /\ afterTurn'[j] = afterTurn[j]
      BY <1>13 DEF Drain, Types
    <3>2. Holding(j)' <=> Holding(j)
      BY <3>1 DEF Holding
    <3> QED
      BY <3>1, <3>2 DEF InOrder, Ordered
  <2> QED
    BY <2>4, <2>5 DEF InOrder
<1>14. ASSUME NEW i \in Isolate, StackCheck(i) PROVE InOrder'
  BY <1>14, OrderKept DEF Holding, StackCheck
<1>15. ASSUME NEW i \in Isolate, PrintStack(i) PROVE InOrder'
  BY <1>15, OrderKept DEF Holding, PrintStack
<1>16. ASSUME NEW i \in Isolate, AbandonTurn(i) PROVE InOrder'
  BY <1>16, OrderKept DEF Holding, AbandonTurn
<1>17. ASSUME NEW i \in Isolate, TurnFinishes(i) PROVE InOrder'
  BY <1>17, OrderKept DEF Holding, TurnFinishes, MessageEpilogue
<1>18. ASSUME NEW i \in Isolate, TurnExits(i) PROVE InOrder'
  BY <1>18, OrderKept DEF Holding, TurnExits
<1>19. ASSUME NEW i \in Isolate, PollEvent(i) PROVE InOrder'
  BY <1>19, OrderKept DEF Holding, PollEvent
<1>20. ASSUME NEW i \in Isolate, NEW p \in Port, OpenPort(i, p) PROVE InOrder'
  BY <1>20, OrderKept DEF Holding, OpenPort, Fresh
<1>21. ASSUME NEW i \in Isolate, NEW p \in Port, TurnClosesPort(i, p) PROVE InOrder'
  BY <1>21, OrderKept DEF Holding, TurnClosesPort, ClosePort, ClosePort
<1>22. ASSUME NEW i \in Isolate, NEW p \in Port, NEW m \in Message, Send(i, p, m)
       PROVE InOrder'
  <2>1. CASE owner[p] # None
    <3>1. owner[p] \in Isolate /\ Alive(owner[p])
      BY ZenonT(30), <2>1 DEF Types, PortsCounted, Owned
    <3>2. PostMessage(owner[p], m) /\ UNCHANGED <<pc, batch, settled, afterTurn>>
      BY <1>22, <2>1 DEF Send
    <3>3. pc[owner[p]] \notin After \cup {"leaving"}
      BY <3>1
    <3> QED
      BY <3>1, <3>2, <3>3, OrderPosted DEF Holding
  <2>2. CASE owner[p] = None
    BY <1>22, <2>2, OrderKept DEF Send, Holding
  <2> QED
    BY <2>1, <2>2
<1>23. ASSUME NEW i \in Isolate, NEW c \in Isolate, NEW m \in Message, Spawn(i, c, m)
       PROVE InOrder'
  <2>1. CASE poolOpen
    BY <1>23, <2>1, OrderKept DEF Holding, Spawn
  <2>2. CASE ~poolOpen
    BY <1>23, <2>2, OrderKept DEF Holding, Spawn
  <2> QED
    BY <2>1, <2>2
<1>24. ASSUME MainShutdown PROVE InOrder'
  BY <1>24, OrderKept DEF Holding, MainShutdown
<1>25. ASSUME MainReturns PROVE InOrder'
  BY <1>25, OrderKept DEF Holding, MainReturns
<1>26. ASSUME Deliver PROVE InOrder'
  BY <1>26, OrderKept DEF Holding, Deliver
<1>27. ASSUME InterruptAll PROVE InOrder'
  BY <1>27, OrderKept DEF Holding, InterruptAll
<1>28. ASSUME NEW i \in Isolate, InterruptInterpreter(i) PROVE InOrder'
  BY <1>28, OrderKept DEF Holding, InterruptInterpreter
<1>29. ASSUME InterruptLoop PROVE InOrder'
  BY <1>29, OrderKept DEF Holding, InterruptLoop
<1>30. ASSUME InterruptNotify PROVE InOrder'
  BY <1>30, OrderKept DEF Holding, InterruptNotify
<1>31. ASSUME HandlerReturns PROVE InOrder'
  <2>1. CASE sigHost \in Isolate /\ pc[sigHost] = "poll"
    BY <1>31, <2>1, OrderKept DEF Holding, HandlerReturns
  <2>2. CASE ~(sigHost \in Isolate /\ pc[sigHost] = "poll")
    BY <1>31, <2>2, OrderKept DEF Holding, HandlerReturns
  <2> QED
    BY <2>1, <2>2
<1>32. ASSUME UNCHANGED vars PROVE InOrder'
  BY <1>32, OrderKept DEF Holding, vars
<1> QED
  BY <1>1, <1>2, <1>3, <1>4, <1>5, <1>6, <1>7, <1>8, <1>9, <1>10, <1>11,
       <1>12, <1>13, <1>14, <1>15, <1>16, <1>17, <1>18, <1>19, <1>20, <1>21,
       <1>22, <1>23, <1>24, <1>25, <1>26, <1>27, <1>28, <1>29, <1>30, <1>31,
       <1>32
     DEF Next, LoopStep, EndTurn, TurnStep, HandlerStep, Over

-----------------------------------------------------------------------------
(* The initial states, and the four parts together.                         *)
LEMMA InitControl == Init => Control
<1> SUFFICES ASSUME Init PROVE Control
  OBVIOUS
<1> USE IsolatesAssumption DEF Init, Before, Running, Ending, After
<1>1. Types
  <2>1. Fresh(Message) \in Message
    BY FreshIn
  <2>2. quota.interrupts \in Nat
    OBVIOUS
  <2> QED
    BY <2>1, <2>2 DEF Types, ExitCode, Success
<1>2. Walking /\ Woken /\ Stopped
  BY DEF Walking, Woken, Stopped
<1> QED
  BY <1>1, <1>2 DEF Control

LEMMA InitCounted == Init => PortsCounted /\ InOrder
<1> SUFFICES ASSUME Init PROVE PortsCounted /\ InOrder
  OBVIOUS
<1> USE IsolatesAssumption DEF Init, Before, Running, Ending, After
<1>1. \A i \in Isolate : Owned(i) = {} /\ ~Alive(i)
  BY DEF Owned, Alive
<1>2. PortsCounted
  BY <1>1, FS_EmptySet DEF PortsCounted
<1>3. <<>> \o <<>> \o <<>> = <<>>
  OBVIOUS
<1>4. InOrder
  BY <1>3 DEF InOrder, Ordered
<1> QED
  BY <1>2, <1>4

LEMMA ControlInvariant == Spec => []Control
<1>1. Control /\ [Next]_vars => Control'
  BY StepTypes, StepWalking, StepWoken, StepStopped DEF Control
<1> QED
  BY <1>1, InitControl, PTL DEF Spec

LEMMA CountedInvariant ==
  ASSUME ForeignClose = FALSE
  PROVE  Spec => [](Control /\ PortsCounted /\ InOrder)
<1>1. Control /\ PortsCounted /\ InOrder /\ [Next]_vars
        => Control' /\ PortsCounted' /\ InOrder'
  BY StepTypes, StepWalking, StepWoken, StepStopped, StepPorts, StepOrder DEF
       Control
<1> QED
  BY <1>1, InitControl, InitCounted, PTL DEF Spec

-----------------------------------------------------------------------------
(* No message and no interrupt is slept through: a loop about to wait with  *)
(* messages in its queue, or told to stop, finds its eventfd set or is yet  *)
(* to be told (message_loop_epoll.cc: PostMessage, Notify, Run, Interrupt).  *)
THEOREM LoopsAreWoken == Spec => []NoLostWakeup
<1>1. Control => NoLostWakeup
  BY DEF Control, Woken, NoLostWakeup
<1> QED
  BY <1>1, ControlInvariant, PTL

(* SIGINT's handler walks the list while every isolate on it exists: the    *)
(* destructor takes the monitor it holds (isolate.cc: InterruptAll,         *)
(* RemoveIsolateFromList).                                                   *)
THEOREM HandlerIsSafe == Spec => []HandlerTouchesLive
<1>1. Control => HandlerTouchesLive
  BY DEF Control, Types, Walking, HandlerTouchesLive
<1> QED
  BY <1>1, ControlInvariant, PTL

(* A turn abandoned for a SIGINT returns to a loop that is already stopped  *)
(* (isolate.cc: PrintStack and InterruptAll take the same monitor;           *)
(* interpreter.cc: StackOverflow).                                           *)
THEOREM AbandonedTurnsStop == Spec => []AbandonedMeansStopped
<1>1. Control => AbandonedMeansStopped
  BY DEF Control, Stopped, AbandonedMeansStopped
<1> QED
  BY <1>1, ControlInvariant, PTL

(* Where isolates close only ports they opened, the port map leads to no    *)
(* loop that has closed its ports, and open_ports_ is how many it still has *)
(* (message_loop.cc, port.cc: CreatePort, ClosePort, CloseAllPorts).        *)
THEOREM PortsLeadToLoops ==
  ASSUME ForeignClose = FALSE
  PROVE  Spec => []RoutesToLoops
<1>1. Control /\ PortsCounted => RoutesToLoops
  <2> SUFFICES ASSUME Control, PortsCounted PROVE RoutesToLoops
    OBVIOUS
  <2>1. Types
    BY DEF Control
  <2>2. open_ports_ \in [Isolate -> Nat]
    BY <2>1 DEF PortsCounted, Types
  <2>3. TypeOK
    BY <2>1, <2>2 DEF Types, TypeOK
  <2>4. ASSUME NEW p \in Port, owner[p] # None
        PROVE  pc[owner[p]] \in Running \cup {"closing"}
    <3>1. owner[p] \in Isolate
      BY <2>1, <2>4 DEF Types
    <3>2. p \in Owned(owner[p])
      BY DEF Owned
    <3> QED
      BY <3>1, <3>2 DEF PortsCounted, Alive
  <2>5. \A i \in Isolate : pc[i] \in Running \cup {"closing"} =>
          open_ports_[i] = Cardinality({p \in Port : owner[p] = i})
    BY DEF PortsCounted, Alive, Owned
  <2> QED
    BY <2>3, <2>4, <2>5 DEF RoutesToLoops
<1> QED
  BY <1>1, CountedInvariant, PTL

(* Every message posted to a loop is settled, in the batch being dispatched *)
(* or in the queue, in the order of PostMessage's calls, whichever thread   *)
(* made them; and settled once the loop has ended (message_loop.cc).         *)
THEOREM MessagesKeepOrder ==
  ASSUME ForeignClose = FALSE
  PROVE  Spec => []MessagesInOrder
<1>1. Control /\ InOrder => MessagesInOrder
  <2> SUFFICES ASSUME Control, InOrder, NEW i \in Isolate
               PROVE  /\ posted[i] = settled[i] \o batch[i] \o queue[i]
                      /\ pc[i] \in After \cup {"leaving"} => posted[i] = settled[i]
    BY DEF MessagesInOrder
  <2>1. posted[i] = settled[i] \o batch[i] \o queue[i]
    BY DEF InOrder, Ordered
  <2>2. ASSUME pc[i] \in After \cup {"leaving"} PROVE posted[i] = settled[i]
    <3>1. queue[i] = <<>> /\ batch[i] = <<>>
      BY <2>2 DEF InOrder, Ordered, Holding, After
    <3>2. settled[i] \in Seq(Message)
      BY DEF Control, Types
    <3> QED
      BY <2>1, <3>1, <3>2, ConcatEmptySeq
  <2> QED
    BY <2>1, <2>2
<1> QED
  BY <1>1, CountedInvariant, PTL

===============================================================================
