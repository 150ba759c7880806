--------------------------- MODULE LoopEventsProofs ---------------------------
(***************************************************************************)
(* Proofs about LoopEvents, for any children, timers, durations and pipes.   *)
(***************************************************************************)
EXTENDS LoopEvents, FiniteSetTheorems, WellFoundedInduction, TLAPS

(* A stream's signal has a handler and is still true; an id names one handle. *)
Reader == {"open", "reading", "ended", "closed"}
Writer == [ready : {"nil", "true", "false", "closed", "broken"}, pending : Seq(Nat)]
Signals == {"read", "write", "close"}
Event == [handle : Handle \cup {<<>>}, signals : SUBSET Signals]
Signal == [handle : Handle \cup {<<>>}, signals : SUBSET Signals, count : Nat]
TimerEntry == [timer : Timer, due : Nat, id : Nat]

Types ==
  /\ pc \in {"poll", "event", "timers", "callback", "program", "over"}
  /\ handles_ \subseteq Handle /\ interest \subseteq Handle /\ handleMap \subseteq Handle
  /\ subscribed \in [Handle -> SUBSET {"read", "write"}]
  /\ open_waits_ \in Int
  /\ child \in [Child -> {"none", "running", "exited", "reaped", "failed"}]
  /\ input \in [Child -> 0 .. Capacity] /\ inputOpen \in [Child -> BOOLEAN]
  /\ output \in [Child -> Nat] /\ outputOpen \in [Child -> BOOLEAN]
  /\ callback \subseteq Timer /\ exitKnown \subseteq Child
  /\ event \in Event /\ message \in Signal
  /\ heap \subseteq TimerEntry /\ nextId \in Nat
  /\ now \in Nat /\ drainNow \in Nat /\ wakeup_ \in Nat
  /\ timer_fd_ \in [due : Nat, expired : BOOLEAN]
  /\ reader \in [Child -> Reader] /\ writer \in [Child -> Writer]
  /\ panicked \subseteq Handle /\ hasty \subseteq Handle

(* open_waits_ and the epoll set; what is subscribed and what may raise.      *)
Books ==
  /\ IsFiniteSet(handles_)
  /\ open_waits_ = Cardinality(Waited)
  /\ interest = Waited
  /\ \A h \in Handle : subscribed[h] # {} => h \in handles_ /\ ~isProcess(h)
Counted ==
  /\ Books
  /\ \A c \in Child : process(c) \in handles_ <=> child[c] \in {"running", "exited"}
  /\ pc = "event" => event.handle \in interest

(* The descriptor is armed for wakeup_, except in the turn that begins with    *)
(* reading it; then every timer due by wakeup_ fires before the turn ends.     *)
Armed == timer_fd_ = [due |-> wakeup_, expired |-> wakeup_ # 0 /\ wakeup_ <= now]
Read ==
  /\ timer_fd_ = [due |-> 0, expired |-> FALSE]
  /\ wakeup_ # 0 /\ wakeup_ <= now
  /\ pc \in {"timers", "callback"} => wakeup_ <= drainNow
  /\ pc = "program" => \A t \in heap : t.due > wakeup_
  /\ pc \in {"timers", "callback", "program"} \/ (panicked # {} /\ pc = "over")
Timed ==
  /\ Armed \/ Read
  /\ IsFiniteSet(heap) /\ \A t \in heap : t.due # 0
  /\ drainNow <= now
  /\ pc \in {"poll", "event"} => wakeup_ = nextDueTime
  /\ pc = "over" /\ panicked = {} => heap = {} /\ open_waits_ = 0

-----------------------------------------------------------------------------
(* Handles, and the first timer of the heap. *)

LEMMA HandleNames ==
  /\ \A c \in Child : {process(c), stdin(c), stdout(c), stderr(c)} \subseteq Handle
  /\ \A h \in Handle :
       /\ childOf(h) \in Child
       /\ isProcess(h) <=> h = process(childOf(h))
       /\ \/ h = process(childOf(h)) \/ h = stdin(childOf(h))
          \/ h = stdout(childOf(h)) \/ h = stderr(childOf(h))
  /\ \A c, d \in Child :
       /\ process(c) # stdin(d) /\ process(c) # stdout(d) /\ process(c) # stderr(d)
       /\ stdin(c) # stdout(d) /\ stdin(c) # stderr(d) /\ stdout(c) # stderr(d)
       /\ c # d => process(c) # process(d) /\ stdin(c) # stdin(d) /\ stdout(c) # stdout(d)
  /\ \A c \in Child :
       /\ childOf(process(c)) = c /\ childOf(stdin(c)) = c /\ childOf(stdout(c)) = c
       /\ isProcess(process(c)) /\ ~isProcess(stdin(c)) /\ ~isProcess(stdout(c))
       /\ ~isProcess(stderr(c))
  /\ <<>> \notin Handle
BY DEF Handle, process, stdin, stdout, stderr, childOf, isProcess

LEMMA SmallestNat ==
  ASSUME NEW S \in SUBSET Nat, S # {}
  PROVE  \E m \in S : \A n \in S : m <= n
<1> DEFINE R == OpToRel(<, Nat)
<1>1. IsWellFoundedOn(R, Nat)
  BY NatLessThanWellFounded
<1>2. \E m \in S : \A n \in S : ~(<<n, m>> \in R)
  <2> HIDE DEF R
  <2> QED
    BY <1>1, WFMin
<1>3. \A m, n \in Nat : n < m => <<n, m>> \in R
  BY DEF OpToRel
<1> HIDE DEF R
<1>4. PICK m \in S : \A n \in S : ~(<<n, m>> \in R)
  BY <1>2
<1>5. \A n \in S : m \in Nat /\ n \in Nat /\ ~(n < m)
  BY <1>3, <1>4
<1>6. \A n \in S : m <= n
  BY <1>5
<1> QED
  BY <1>6

(* peek: nobody is due before it.                                            *)
LEMMA PeekIsFirst ==
  ASSUME heap \subseteq TimerEntry, heap # {}
  PROVE  peek \in heap /\ \A s \in heap : peek.due <= s.due
<1> USE DEF TimerEntry
<1> DEFINE dues == {s.due : s \in heap}
<1>1. PICK d \in dues : \A e \in dues : d <= e
  <2>1. dues \in SUBSET Nat /\ dues # {}
    OBVIOUS
  <2> QED
    BY <2>1, SmallestNat
<1> DEFINE firsts == {s \in heap : s.due = d}
           ids == {s.id : s \in firsts}
<1>2. PICK i \in ids : \A j \in ids : i <= j
  <2>1. ids \in SUBSET Nat /\ ids # {}
    BY <1>1
  <2> QED
    BY <2>1, SmallestNat
<1>3. PICK t \in firsts : t.id = i
  BY <1>2
<1>4. t \in heap /\ \A s \in heap : ~Earlier(s, t)
  <2> SUFFICES ASSUME NEW s \in heap, Earlier(s, t) PROVE FALSE
    BY <1>3
  <2>1. d <= s.due /\ t.due = d
    BY <1>1, <1>3
  <2>2. s \in firsts /\ s.id < t.id
    BY <2>1 DEF Earlier
  <2> QED
    BY <1>2, <1>3, <2>2
<1>5. peek \in heap /\ \A s \in heap : ~Earlier(s, peek)
  BY <1>4 DEF peek
<1> QED
  BY <1>5 DEF Earlier

-----------------------------------------------------------------------------
(* The books of the epoll set. *)

Typing == /\ handles_ \subseteq Handle /\ subscribed \in [Handle -> SUBSET {"read", "write"}]
          /\ open_waits_ \in Int

LEMMA WaitedFinite ==
  ASSUME Books PROVE IsFiniteSet(Waited) /\ Cardinality(Waited) \in Nat
<1>1. Waited \subseteq handles_
  BY DEF Waited
<1> QED
  BY <1>1, FS_Subset, FS_CardinalityType DEF Books

LEMMA AwaitBooks ==
  ASSUME Typing, Books, NEW h \in handles_, ~isProcess(h),
         NEW signals \in SUBSET {"read", "write"}, signals # {}, AwaitSignal(h, signals)
  PROVE  Books' /\ Typing'
<1> USE DEF Typing, Books
<1>1. /\ handles_' = handles_ /\ subscribed' = [subscribed EXCEPT ![h] = signals]
      /\ interest' = interest \cup {h}
      /\ open_waits_' = IF subscribed[h] = {} THEN open_waits_ + 1 ELSE open_waits_
  BY DEF AwaitSignal
<1>2. Waited' = Waited \cup {h}
  BY <1>1 DEF Waited
<1>3. subscribed[h] = {} <=> h \notin Waited
  BY DEF Waited
<1>4. Cardinality(Waited') = IF h \in Waited THEN Cardinality(Waited)
                             ELSE Cardinality(Waited) + 1
  BY <1>2, WaitedFinite, FS_AddElement
<1> QED
  BY <1>1, <1>2, <1>3, <1>4

LEMMA CloseBooks ==
  ASSUME Typing, Books, NEW h \in Handle, ~isProcess(h), Close(h)
  PROVE  Books' /\ Typing'
<1> USE DEF Typing, Books
<1>1. /\ handles_' = handles_ \ {h} /\ subscribed' = [subscribed EXCEPT ![h] = {}]
      /\ interest' = interest \ {h}
      /\ open_waits_' = IF subscribed[h] # {} THEN open_waits_ - 1 ELSE open_waits_
  BY DEF Close
<1>2. Waited' = Waited \ {h}
  BY <1>1 DEF Waited
<1>3. subscribed[h] # {} <=> h \in Waited
  BY DEF Waited
<1>4. Cardinality(Waited') = IF h \in Waited THEN Cardinality(Waited) - 1
                             ELSE Cardinality(Waited)
  <2>1. CASE h \in Waited
    BY <1>2, <2>1, WaitedFinite, FS_RemoveElement
  <2>2. CASE h \notin Waited
    <3>1. Waited' = Waited
      BY <1>2, <2>2
    <3> QED
      BY <2>2, <3>1
  <2> QED
    BY <2>1, <2>2
<1>5. IsFiniteSet(handles_')
  BY <1>1, FS_RemoveElement, FS_Subset
<1> QED
  BY <1>1, <1>2, <1>3, <1>4, <1>5

LEMMA BooksKept == ASSUME Typing, Books, UNCHANGED loopVars PROVE Books' /\ Typing'
BY DEF Typing, Books, Waited, loopVars

-----------------------------------------------------------------------------
(* Types *)

LEMMA MinPair == \A a, b \in Int : Min({a, b}) = IF a <= b THEN a ELSE b
<1> SUFFICES ASSUME NEW a \in Int, NEW b \in Int
             PROVE  Min({a, b}) = IF a <= b THEN a ELSE b
  OBVIOUS
<1> DEFINE m == IF a <= b THEN a ELSE b
<1>1. m \in {a, b} /\ \A y \in {a, b} : m <= y
  OBVIOUS
<1>2. \A x \in {a, b} : (\A y \in {a, b} : x <= y) => x = m
  OBVIOUS
<1> HIDE DEF m
<1>3. (CHOOSE x \in {a, b} : \A y \in {a, b} : x <= y) = m
  BY <1>1, <1>2
<1> QED
  BY <1>3 DEF Min, m

LEMMA WrittenTyped ==
  ASSUME Types, NEW c \in Child, NEW w \in Writer, NEW slice \in Nat
  PROVE  /\ Written(c, w, slice).stream \in Writer
         /\ Written(c, w, slice).fill \in 0 .. Capacity
<1> USE LoopEventsAssumption
<1> DEFINE n == Min({slice, Capacity - input[c]})
           rest == IF n < slice THEN <<slice - n>> ELSE <<>>
<1>1. input[c] \in 0 .. Capacity
  BY DEF Types
<1>2. n \in 0 .. slice /\ input[c] + n \in 0 .. Capacity
  BY <1>1, MinPair
<1>3. rest \in Seq(Nat)
  BY <1>2
<1> HIDE DEF n
<1>4. [w EXCEPT !.pending = rest \o @] \in Writer
  <2>1. w.pending \in Seq(Nat)
    BY DEF Writer
  <2>2. rest \o w.pending \in Seq(Nat)
    BY <1>3, <2>1
  <2> HIDE DEF rest
  <2> QED
    BY <2>2 DEF Writer
<1>5. Broken \in Writer
  BY DEF Writer, Broken
<1> QED
  BY <1>1, <1>2, <1>4, <1>5 DEF Written, n

LEMMA WritableTyped ==
  ASSUME Types, NEW c \in Child, NEW w \in Writer
  PROVE  /\ onWritable(c, w).stream \in Writer
         /\ onWritable(c, w).fill \in 0 .. Capacity
<1> DEFINE slice == Head(w.pending)
           w2 == [w EXCEPT !.ready = "false", !.pending = Tail(@)]
<1>1. input[c] \in 0 .. Capacity
  BY DEF Types
<1>2. w.pending \in Seq(Nat)
  BY DEF Writer
<1>3. w.pending # <<>> => slice \in Nat /\ w2 \in Writer
  <2> SUFFICES ASSUME w.pending # <<>> PROVE slice \in Nat /\ w2 \in Writer
    OBVIOUS
  <2>1. Head(w.pending) \in Nat /\ Tail(w.pending) \in Seq(Nat)
    BY <1>2
  <2> QED
    BY <2>1 DEF Writer
<1>4. Closed \in Writer /\ [w EXCEPT !.ready = "true"] \in Writer
  BY DEF Writer, Closed
<1>5. w.pending # <<>> => /\ Written(c, w2, slice).stream \in Writer
                          /\ Written(c, w2, slice).fill \in 0 .. Capacity
  BY <1>3, WrittenTyped
<1> HIDE DEF w2, slice
<1> QED
  BY <1>1, <1>4, <1>5 DEF onWritable, w2, slice

(* The typing of what a handle's operations change.                          *)
HandleTypes ==
  /\ handles_ \subseteq Handle /\ interest \subseteq Handle /\ handleMap \subseteq Handle
  /\ subscribed \in [Handle -> SUBSET {"read", "write"}] /\ open_waits_ \in Int

LEMMA HandlesTyped ==
  ASSUME HandleTypes, NEW h \in Handle,
         \/ closeStream(h) \/ KeepHandles
         \/ \E signals \in SUBSET {"read", "write"} : subscribe(h, signals)
  PROVE  HandleTypes'
<1>1. CASE closeStream(h)
  BY <1>1 DEF HandleTypes, closeStream, Close
<1>2. CASE KeepHandles
  BY <1>2 DEF HandleTypes, KeepHandles, loopVars
<1>3. CASE \E signals \in SUBSET {"read", "write"} : subscribe(h, signals)
  <2>1. PICK signals \in SUBSET {"read", "write"} : subscribe(h, signals)
    BY <1>3
  <2>2. subscribed' = [subscribed EXCEPT ![h] = signals]
    BY <2>1 DEF subscribe, AwaitSignal
  <2> QED
    BY <2>1, <2>2 DEF HandleTypes, subscribe, AwaitSignal
<1> QED
  BY <1>1, <1>2, <1>3

LEMMA InitTypes == Init => Types
<1> SUFFICES ASSUME Init PROVE Types
  OBVIOUS
<1>1. <<>> \in Seq(Nat)
  OBVIOUS
<1>2. writer \in [Child -> Writer] /\ reader \in [Child -> Reader]
  BY <1>1 DEF Init, Writer, Reader
<1>3. event \in Event /\ message \in Signal
  BY DEF Init, NoEvent, NoSignal, Event, Signal
<1>4. input \in [Child -> 0 .. Capacity]
  BY LoopEventsAssumption DEF Init
<1>5. timer_fd_ \in [due : Nat, expired : BOOLEAN]
  BY DEF Init
<1>6. /\ subscribed \in [Handle -> SUBSET {"read", "write"}]
      /\ child \in [Child -> {"none", "running", "exited", "reaped", "failed"}]
  BY DEF Init
<1>7. /\ output \in [Child -> Nat] /\ outputOpen \in [Child -> BOOLEAN]
      /\ inputOpen \in [Child -> BOOLEAN]
  BY DEF Init
<1>8. /\ handles_ \subseteq Handle /\ interest \subseteq Handle /\ handleMap \subseteq Handle
      /\ callback \subseteq Timer /\ exitKnown \subseteq Child /\ heap \subseteq TimerEntry
  BY DEF Init
<1>9. /\ pc = "program" /\ open_waits_ \in Int /\ nextId \in Nat /\ now \in Nat
      /\ drainNow \in Nat /\ wakeup_ \in Nat /\ panicked = {} /\ hasty = {}
  <2>1. /\ pc = "program" /\ open_waits_ = 0 /\ nextId = 0 /\ now = 0 /\ drainNow = 0
        /\ wakeup_ = 0
    BY DEF Init
  <2>2. panicked = {} /\ hasty = {}
    BY DEF Init
  <2> QED
    BY <2>1, <2>2
<1> QED
  BY <1>2, <1>3, <1>4, <1>5, <1>6, <1>7, <1>8, <1>9 DEF Types

LEMMA UsesAdds ==
  ASSUME NEW h, Uses(h)
  PROVE  hasty' \in {hasty, hasty \cup {h}} /\ (message.handle = h => h \in hasty')
<1>1. hasty' = hasty \cup ({h} \cap {message.handle})
  BY DEF Uses
<1>2. CASE message.handle = h
  BY <1>1, <1>2
<1>3. CASE message.handle # h
  <2>1. hasty' = hasty
    BY <1>1, <1>3
  <2> QED
    BY <1>3, <2>1
<1> QED
  BY <1>2, <1>3

LEMMA UsesTyped ==
  ASSUME Types, NEW h \in Handle, Uses(h)
  PROVE  hasty' \subseteq Handle
BY UsesAdds DEF Types

(* Whose handler runs.                                                       *)
LEMMA SignalKinds ==
  ASSUME HandleSignal
  PROVE  \/ /\ message.handle = <<>> /\ KeepHandles
            /\ UNCHANGED <<child, output, input, reader, writer, exitKnown, panicked>>
         \/ /\ message.handle # <<>> /\ isProcess(message.handle)
            /\ SignalProcess(childOf(message.handle))
         \/ /\ message.handle # <<>> /\ ~isProcess(message.handle)
            /\ message.handle = stdin(childOf(message.handle))
            /\ SignalWriter(childOf(message.handle))
         \/ /\ message.handle # <<>> /\ ~isProcess(message.handle)
            /\ message.handle # stdin(childOf(message.handle))
            /\ SignalReader(childOf(message.handle))
<1> DEFINE h == message.handle
           c == childOf(h)
<1>1. CASE h = <<>>
  BY <1>1 DEF HandleSignal
<1>2. CASE h # <<>>
  <2>1. (CASE isProcess(h) -> SignalProcess(c)
            [] h = stdin(c) -> SignalWriter(c)
            [] OTHER -> SignalReader(c))
    BY <1>2 DEF HandleSignal
  <2>2. isProcess(h) => h # stdin(c)
    BY DEF isProcess, stdin
  <2>3. \/ isProcess(h) /\ SignalProcess(c)
        \/ ~isProcess(h) /\ h = stdin(c) /\ SignalWriter(c)
        \/ ~isProcess(h) /\ h # stdin(c) /\ SignalReader(c)
    BY <2>1, <2>2
  <2> QED
    BY <1>2, <2>3
<1> QED
  BY <1>1, <1>2

LEMMA StepTypes ==
  ASSUME Types, Counted, [Next]_vars
  PROVE  Types'
<1> USE LoopEventsAssumption DEF Types, Outside, loopVars, timerVars, childVars,
        streamVars, ProgramKeeps
<1>1. ASSUME Tick PROVE Types'
  <2> DEFINE e == timer_fd_.expired \/ (timer_fd_.due # 0 /\ timer_fd_.due <= now + 1)
  <2>1. timer_fd_' = [timer_fd_ EXCEPT !.expired = e] /\ e \in BOOLEAN
    BY <1>1 DEF Tick
  <2> HIDE DEF e
  <2>2. timer_fd_' \in [due : Nat, expired : BOOLEAN]
    BY <2>1
  <2> QED
    BY <1>1, <2>2 DEF Tick
<1>2. ASSUME NEW c \in Child, ChildWrites(c) PROVE Types'
  BY <1>2 DEF ChildWrites
<1>3. ASSUME NEW c \in Child, ChildClosesOutput(c) PROVE Types'
  BY <1>3 DEF ChildClosesOutput
<1>4. ASSUME NEW c \in Child, ChildReads(c) PROVE Types'
  BY <1>4 DEF ChildReads
<1>5. ASSUME NEW c \in Child, ChildExits(c) PROVE Types'
  BY <1>5 DEF ChildExits
<1>6. ASSUME NEW h \in Handle, PollHandle(h) PROVE Types'
  <2>1. event' = [handle |-> h, signals |-> Raised(h)] /\ pc' = "event"
    BY <1>6 DEF PollHandle
  <2>2. Raised(h) \in SUBSET Signals
    BY DEF Raised, Signals
  <2>3. event' \in Event
    BY <2>1, <2>2 DEF Event
  <2> QED
    BY <1>6, <2>1, <2>3 DEF PollHandle
<1>7. ASSUME PollTimer PROVE Types'
  BY <1>7 DEF PollTimer, drainQueue, NoSignal, Signal
<1>8. ASSUME RespondToEvent PROVE Types'
  <2> DEFINE h == event.handle
             c == childOf(h)
             signal == IF h \notin handleMap THEN NoSignal
                       ELSE [handle |-> h,
                             signals |-> IF isProcess(h) THEN {"close"} ELSE event.signals,
                             count |-> IF "read" \in event.signals /\ ~isProcess(h)
                                       THEN output[c] ELSE 0]
  <2>1. h \in Handle /\ event.signals \in SUBSET Signals /\ c \in Child
    BY <1>8, HandleNames DEF RespondToEvent, Counted, Event
  <2>2. signal \in Signal
    BY <2>1 DEF Signal, NoSignal, Signals
  <2>3. message' = signal /\ drainNow' = now /\ pc' = "timers" /\ event' \in Event
    BY <1>8 DEF RespondToEvent, drainQueue, Event, NoEvent
  <2>4. /\ child' \in [Child -> {"none", "running", "exited", "reaped", "failed"}]
        /\ open_waits_' \in Int /\ handles_' \subseteq Handle /\ interest' \subseteq Handle
        /\ subscribed' = subscribed
    BY <1>8, <2>1 DEF RespondToEvent
  <2>5. UNCHANGED <<timerVars, now, output, outputOpen, input, inputOpen, handleMap,
                    streamVars>>
    BY <1>8 DEF RespondToEvent
  <2> QED
    BY <2>2, <2>3, <2>4, <2>5
<1>9. ASSUME Fire PROVE Types'
  <2>1. peek \in heap
    BY <1>9, PeekIsFirst DEF Fire, SomeDue
  <2>2. peek.timer \in Timer
    BY <2>1 DEF TimerEntry
  <2>3. heap' \subseteq TimerEntry /\ nextId' \in Nat /\ callback' \subseteq Timer
        /\ pc' \in {"timers", "callback"}
    <3>1. CASE peek.timer \in callback /\ peek.timer \in Repeating
      <4>1. PICK d \in Durations \ {0} : insert(heap \ {peek}, peek.timer, now + d)
        BY <1>9, <3>1 DEF Fire
      <4>2. now + d \in Nat
        OBVIOUS
      <4> QED
        BY <1>9, <2>2, <3>1, <4>1, <4>2 DEF Fire, insert, TimerEntry
    <3>2. CASE ~(peek.timer \in callback /\ peek.timer \in Repeating)
      BY <1>9, <3>2 DEF Fire
    <3> QED
      BY <3>1, <3>2
  <2> QED
    BY <1>9, <2>3 DEF Fire
<1>10. ASSUME CallbackReturns PROVE Types'
  BY <1>10 DEF CallbackReturns
<1>11. ASSUME HandleSignal PROVE Types'
  <2> DEFINE h == message.handle
             c == childOf(h)
  <2>1. message' \in Signal /\ drainNow' \in Nat /\ pc' \in {"over", "program"}
    BY <1>11 DEF HandleSignal, NoSignal, Signal
  <2>2. UNCHANGED <<event, timerVars, now, outputOpen, inputOpen, hasty>>
    BY <1>11 DEF HandleSignal
  <2>3. h # <<>> => h \in Handle /\ c \in Child
    BY HandleNames DEF Signal
  <2>4. CASE h = <<>>
    BY <1>11, <2>1, <2>2, <2>4 DEF HandleSignal, KeepHandles
  <2>5. CASE h # <<>> /\ isProcess(h)
    <3>1. SignalProcess(c)
      BY <1>11, <2>5, SignalKinds
    <3> QED
      BY <2>1, <2>2, <2>3, <2>5, <3>1 DEF SignalProcess
  <2>6. CASE h # <<>> /\ ~isProcess(h) /\ h = stdin(c)
    <3> DEFINE done == IF "write" \in message.signals THEN onWritable(c, writer[c])
                       ELSE [stream |-> writer[c], fill |-> input[c]]
               w == IF "close" \in message.signals /\ ~IsClosed(done.stream)
                    THEN Closed ELSE done.stream
    <3>1. SignalWriter(c)
      BY <1>11, <2>6, SignalKinds
    <3>2. done.stream \in Writer /\ done.fill \in 0 .. Capacity
      BY <2>3, <2>6, WritableTyped
    <3> HIDE DEF done
    <3>3. w \in Writer
      BY <3>2 DEF Writer, Closed
    <3>4. BecomeWriter(c, w, done.fill) /\ UNCHANGED <<child, output, reader, exitKnown, panicked>>
      BY <3>1 DEF SignalWriter, done
    <3> HIDE DEF w
    <3>5. /\ writer' \in [Child -> Writer] /\ input' \in [Child -> 0 .. Capacity]
      BY <2>3, <2>6, <3>2, <3>3, <3>4 DEF BecomeWriter
    <3>6. HandleTypes'
      BY <2>3, <2>6, <3>4, HandlesTyped DEF BecomeWriter, HandleTypes
    <3> QED
      BY <2>1, <2>2, <3>4, <3>5, <3>6 DEF HandleTypes
  <2>7. CASE h # <<>> /\ ~isProcess(h) /\ h # stdin(c)
    <3>1. SignalReader(c)
      BY <1>11, <2>7, SignalKinds
    <3>p. panicked' \subseteq Handle
      <4>1. panicked' \in {{stdout(c)}, panicked} /\ stdout(c) \in Handle
        BY <2>3, <2>7, <3>1, HandleNames DEF SignalReader
      <4> QED
        BY <4>1
    <3>2. reader' \in [Child -> Reader] /\ UNCHANGED <<child, input, writer, exitKnown>>
      BY ZenonT(30), <2>3, <2>7, <3>1 DEF SignalReader, Reader
    <3>3. output' \in [Child -> Nat]
      <4> DEFINE n == Min({message.count, output[c]})
      <4>1. message.count \in Nat /\ output[c] \in Nat
        BY <2>3, <2>7 DEF Signal
      <4>2. output[c] - n \in Nat
        <5>1. n = IF message.count <= output[c] THEN message.count ELSE output[c]
          BY <4>1, MinPair
        <5> HIDE DEF n
        <5> QED
          BY <4>1, <5>1
      <4> HIDE DEF n
      <4> QED
        BY <2>3, <2>7, <3>1, <4>2 DEF SignalReader, n
    <3>4. HandleTypes'
      <4>1. closeStream(stdout(c)) \/ KeepHandles
        BY <3>1 DEF SignalReader
      <4> QED
        BY <2>3, <2>7, <4>1, HandleNames, HandlesTyped DEF HandleTypes
    <3> QED
      BY <2>1, <2>2, <3>2, <3>3, <3>4, <3>p DEF HandleTypes
  <2> QED
    BY <2>4, <2>5, <2>6, <2>7
<1>12. ASSUME Finish PROVE Types'
  <2>1. nextDueTime \in Nat
    BY PeekIsFirst DEF nextDueTime, TimerEntry
  <2> DEFINE e == nextDueTime # 0 /\ nextDueTime <= now
  <2>2. wakeup_' = nextDueTime /\ pc' \in {"over", "poll"}
        /\ timer_fd_' \in {timer_fd_, [due |-> nextDueTime, expired |-> e]}
    BY <1>12 DEF Finish, MessageEpilogue
  <2>3. e \in BOOLEAN
    OBVIOUS
  <2> HIDE DEF e
  <2>4. timer_fd_' \in [due : Nat, expired : BOOLEAN]
    BY <2>1, <2>2, <2>3
  <2> QED
    BY <1>12, <2>1, <2>2, <2>4 DEF Finish
<1>13. ASSUME NEW c \in Child, StartProcess(c) PROVE Types'
  BY <1>13, HandleNames DEF StartProcess, Ends
<1>14. ASSUME NEW c \in Child, StartProcessFails(c) PROVE Types'
  BY <1>14 DEF StartProcessFails
<1>15. ASSUME NEW c \in Child, ReadFrom(c) PROVE Types'
  <2>1. HandleTypes'
    BY <1>15, HandleNames, HandlesTyped DEF ReadFrom, HandleTypes
  <2>2. reader' \in [Child -> Reader]
    BY <1>15 DEF ReadFrom, Reader
  <2>3. hasty' \subseteq Handle
    BY <1>15, HandleNames, UsesTyped DEF ReadFrom
  <2> QED
    BY <1>15, <2>1, <2>2, <2>3 DEF ReadFrom, HandleTypes
<1>16. ASSUME NEW c \in Child, CloseReader(c) PROVE Types'
  BY <1>16, HandleNames, UsesTyped DEF CloseReader, closeStream, Close, Reader
<1>17. ASSUME NEW c \in Child, onData(c) PROVE Types'
  <2> DEFINE w == [writer[c] EXCEPT !.pending = Append(@, Chunk)]
             done == onWritable(c, w)
  <2>1. w \in Writer
    <3>1. writer[c].pending \in Seq(Nat) /\ writer[c] \in Writer
      BY DEF Writer
    <3>2. Append(writer[c].pending, Chunk) \in Seq(Nat)
      BY <3>1
    <3> QED
      BY <3>1, <3>2 DEF Writer
  <2>2. done.stream \in Writer /\ done.fill \in 0 .. Capacity
    BY <2>1, WritableTyped
  <2> HIDE DEF w
  <2>3. /\ writer' \in [Child -> Writer] /\ input' \in [Child -> 0 .. Capacity]
    <3>1. CASE w.ready = "true"
      <4>1. BecomeWriter(c, done.stream, done.fill)
        BY <1>17, <3>1 DEF onData, w
      <4> HIDE DEF done
      <4> QED
        BY <2>2, <4>1 DEF BecomeWriter
    <3>2. CASE w.ready # "true"
      <4>1. writer' = [writer EXCEPT ![c] = w] /\ input' = input
        BY <1>17, <3>2 DEF onData, w
      <4> QED
        BY <2>1, <4>1
    <3> QED
      BY <3>1, <3>2
  <2>4. HandleTypes'
    <3>1. \/ closeStream(stdin(c)) \/ KeepHandles \/ subscribe(stdin(c), {"write"})
      BY <1>17 DEF onData, BecomeWriter
    <3>2. HandleTypes
      BY DEF HandleTypes
    <3> QED
      BY <3>1, <3>2, HandleNames, HandlesTyped
  <2>5. hasty' \subseteq Handle
    BY <1>17, HandleNames, UsesTyped DEF onData
  <2> QED
    BY <1>17, <2>3, <2>4, <2>5 DEF onData, HandleTypes
<1>18. ASSUME NEW c \in Child, onDone(c) PROVE Types'
  <2> DEFINE w == IF writer[c].pending = <<>> THEN Closed
                  ELSE [writer[c] EXCEPT !.pending = Append(@, Done)]
  <2>1. w \in Writer
    <3>1. writer[c].pending \in Seq(Nat) /\ writer[c] \in Writer
      BY DEF Writer
    <3>2. Append(writer[c].pending, Done) \in Seq(Nat) /\ <<>> \in Seq(Nat)
      BY <3>1 DEF Done
    <3> QED
      BY <3>1, <3>2 DEF Writer, Closed
  <2> HIDE DEF w
  <2>2. BecomeWriter(c, w, input[c])
    BY <1>18 DEF onDone, w
  <2>3. /\ writer' \in [Child -> Writer] /\ input' \in [Child -> 0 .. Capacity]
    BY <2>1, <2>2 DEF BecomeWriter
  <2>4. HandleTypes'
    BY <2>2, HandleNames, HandlesTyped DEF BecomeWriter, HandleTypes
  <2>5. hasty' \subseteq Handle
    BY <1>18, HandleNames, UsesTyped DEF onDone
  <2> QED
    BY <1>18, <2>3, <2>4, <2>5 DEF onDone, HandleTypes
<1>19. ASSUME NEW t \in Timer, StartTimer(t) PROVE Types'
  <2>1. PICK d \in Durations : insert(heap, t, now + d + 1)
    BY <1>19 DEF StartTimer
  <2>2. heap' \subseteq TimerEntry /\ nextId' \in Nat
    BY <2>1 DEF insert, TimerEntry
  <2> QED
    BY <1>19, <2>2 DEF StartTimer
<1>20. ASSUME NEW t \in Timer, CancelTimer(t) PROVE Types'
  BY <1>20 DEF CancelTimer
<1>21. ASSUME UNCHANGED vars PROVE Types'
  BY <1>21 DEF vars
<1> QED
  BY <1>1, <1>2, <1>3, <1>4, <1>5, <1>6, <1>7, <1>8, <1>9, <1>10, <1>11,
       <1>12, <1>13, <1>14, <1>15, <1>16, <1>17, <1>18, <1>19, <1>20, <1>21
       DEF Next, Environment, Turn, Program

-----------------------------------------------------------------------------
(* The wait count and the epoll set. *)

LEMMA HandleOps ==
  ASSUME Types, Counted, NEW h \in Handle, ~isProcess(h),
         \/ closeStream(h) \/ KeepHandles
         \/ h \in handles_ /\ \E signals \in SUBSET {"read", "write"} :
                                 signals # {} /\ subscribe(h, signals),
         \A c \in Child : child'[c] \in {"running", "exited"}
                            <=> child[c] \in {"running", "exited"},
         pc' = "event" => pc = "event" /\ event' = event /\ KeepHandles
  PROVE  Counted'
<1>1. Typing /\ Books
  BY DEF Types, Typing, Counted
<1>2. CASE closeStream(h)
  <2>1. Close(h)
    BY <1>2 DEF closeStream
  <2>2. Books' /\ handles_' = handles_ \ {h}
    BY <1>1, <2>1, CloseBooks DEF Close
  <2>3. \A c \in Child : process(c) \in handles_' <=> process(c) \in handles_
    BY <2>2, HandleNames
  <2>4. pc' = "event" => event'.handle \in interest'
    BY <1>1, <2>2 DEF Counted, KeepHandles, loopVars
  <2> QED
    BY <2>2, <2>3, <2>4 DEF Counted
<1>3. CASE KeepHandles
  <2>1. Books'
    BY <1>1, <1>3, BooksKept DEF KeepHandles
  <2> QED
    BY <1>3, <2>1 DEF Counted, KeepHandles, loopVars
<1>4. CASE h \in handles_ /\ \E signals \in SUBSET {"read", "write"} :
                               signals # {} /\ subscribe(h, signals)
  <2>1. PICK signals \in SUBSET {"read", "write"} : signals # {} /\ AwaitSignal(h, signals)
    BY <1>4 DEF subscribe
  <2>2. Books' /\ handles_' = handles_
    BY <1>1, <1>4, <2>1, AwaitBooks DEF AwaitSignal
  <2> QED
    BY <2>2 DEF Counted, KeepHandles, loopVars
<1> QED
  BY <1>2, <1>3, <1>4

LEMMA CountedKept ==
  ASSUME Types, Counted, UNCHANGED <<loopVars, child>>,
         pc' = "event" => pc = "event" /\ event' = event
  PROVE  Counted'
<1>1. Typing
  BY DEF Types, Typing
<1>2. Books' /\ handles_' = handles_ /\ interest' = interest
  BY <1>1, BooksKept DEF Counted, loopVars
<1> QED
  BY <1>2 DEF Counted

LEMMA StepCounted ==
  ASSUME Types, Counted, [Next]_vars
  PROVE  Counted'
<1> USE DEF Outside, ProgramKeeps
<1>1. ASSUME Tick PROVE Counted'
  BY <1>1, CountedKept DEF Tick, childVars
<1>2. ASSUME NEW c \in Child, ChildWrites(c) PROVE Counted'
  BY <1>2, CountedKept DEF ChildWrites
<1>3. ASSUME NEW c \in Child, ChildClosesOutput(c) PROVE Counted'
  BY <1>3, CountedKept DEF ChildClosesOutput
<1>4. ASSUME NEW c \in Child, ChildReads(c) PROVE Counted'
  BY <1>4, CountedKept DEF ChildReads
<1>5. ASSUME NEW c \in Child, ChildExits(c) PROVE Counted'
  <2>1. Books' /\ handles_' = handles_ /\ interest' = interest
    BY <1>5, BooksKept DEF ChildExits, Types, Typing, Counted, loopVars
  <2>2. \A d \in Child : child'[d] \in {"running", "exited"} <=> child[d] \in {"running", "exited"}
    BY <1>5 DEF ChildExits, Types
  <2> QED
    BY <1>5, <2>1, <2>2 DEF ChildExits, Counted
<1>6. ASSUME NEW h \in Handle, PollHandle(h) PROVE Counted'
  <2>1. Books' /\ UNCHANGED <<handles_, interest, child>> /\ event'.handle = h /\ h \in interest
    BY <1>6, BooksKept DEF PollHandle, Types, Typing, Counted, loopVars, childVars
  <2> QED
    BY <2>1 DEF Counted
<1>7. ASSUME PollTimer PROVE Counted'
  BY <1>7, CountedKept DEF PollTimer, drainQueue, childVars
<1>8. ASSUME RespondToEvent PROVE Counted'
  <2> DEFINE h == event.handle
             c == childOf(h)
  <2>1. pc' = "timers" /\ h \in interest /\ h \in Handle /\ c \in Child
    BY <1>8, HandleNames DEF RespondToEvent, drainQueue, Counted, Types
  <2>2. CASE ~isProcess(h)
    BY <1>8, <2>1, <2>2, CountedKept DEF RespondToEvent
  <2>3. CASE isProcess(h)
    <3>1. /\ child' = [child EXCEPT ![c] = "reaped"] /\ open_waits_' = open_waits_ - 1
          /\ handles_' = handles_ \ {h} /\ interest' = interest \ {h}
          /\ subscribed' = subscribed
      BY <1>8, <2>3 DEF RespondToEvent
    <3>2. h = process(c) /\ h \in handles_ /\ h \in Waited
      BY <2>1, <2>3, HandleNames DEF Counted, Books, Waited
    <3>3. Waited' = Waited \ {h}
      BY <3>1 DEF Waited
    <3>4. Cardinality(Waited') = Cardinality(Waited) - 1
      BY <3>2, <3>3, WaitedFinite, FS_RemoveElement DEF Counted
    <3>5. IsFiniteSet(handles_') /\ subscribed[h] = {}
      BY <2>1, <2>3, <3>1, FS_Subset DEF Counted, Books
    <3>6. Books'
      BY <3>1, <3>3, <3>4, <3>5 DEF Counted, Books
    <3>7. \A d \in Child : process(d) \in handles_' <=> child'[d] \in {"running", "exited"}
      BY <2>1, <3>1, <3>2, HandleNames DEF Counted, Types
    <3> QED
      BY <2>1, <3>6, <3>7 DEF Counted
  <2> QED
    BY <2>2, <2>3
<1>9. ASSUME Fire PROVE Counted'
  BY <1>9, CountedKept DEF Fire, childVars
<1>10. ASSUME CallbackReturns PROVE Counted'
  BY <1>10, CountedKept DEF CallbackReturns, childVars
<1>11. ASSUME HandleSignal PROVE Counted'
  <2> DEFINE h == message.handle
             c == childOf(h)
  <2>1. pc' # "event"
    BY <1>11 DEF HandleSignal
  <2>2. CASE h = <<>>
    BY <1>11, <2>1, <2>2, SignalKinds, CountedKept DEF KeepHandles
  <2>3. CASE h # <<>>
    <3>1. h \in Handle /\ c \in Child
      BY <2>3, HandleNames DEF Types, Signal
    <3>2. CASE SignalProcess(c)
      BY <2>1, <3>2, CountedKept DEF SignalProcess
    <3>3. CASE h = stdin(c) /\ SignalWriter(c)
      <4>1. (closeStream(h) \/ KeepHandles) /\ child' = child /\ ~isProcess(h)
        BY <3>1, <3>3, HandleNames DEF SignalWriter, BecomeWriter
      <4> QED
        BY <2>1, <3>1, <4>1, HandleOps
    <3>4. CASE SignalReader(c)
      <4>1. (closeStream(stdout(c)) \/ KeepHandles) /\ child' = child
        BY <3>4 DEF SignalReader
      <4>2. stdout(c) \in Handle /\ ~isProcess(stdout(c))
        BY <3>1, HandleNames
      <4> QED
        BY <2>1, <4>1, <4>2, HandleOps
    <3> QED
      BY <1>11, <2>3, <3>2, <3>3, <3>4, SignalKinds
  <2> QED
    BY <2>2, <2>3
<1>12. ASSUME Finish PROVE Counted'
  BY <1>12, CountedKept DEF Finish, MessageEpilogue, childVars
<1>13. ASSUME NEW c \in Child, StartProcess(c) PROVE Counted'
  <2> DEFINE p == process(c)
  <2>1. /\ pc' # "event" /\ child[c] = "none" /\ child' = [child EXCEPT ![c] = "running"]
        /\ handles_' = handles_ \cup {p, stdin(c), stdout(c), stderr(c)}
        /\ interest' = interest \cup {p} /\ open_waits_' = open_waits_ + 1
        /\ subscribed' = subscribed
    BY <1>13 DEF StartProcess, InProgram, Ends
  <2>2. p \notin handles_ /\ p \notin Waited
    BY <2>1 DEF Counted, Waited
  <2>3. \A x \in {stdin(c), stdout(c), stderr(c)} : x \in Handle /\ ~isProcess(x)
    BY HandleNames
  <2>4. p \in Handle /\ isProcess(p) /\ \A d \in Child : p = process(d) => d = c
    BY HandleNames
  <2>5. Waited' = Waited \cup {p}
    <3>1. \A x \in handles_' : x \in handles_ \/ x = p \/ x \in {stdin(c), stdout(c), stderr(c)}
      BY <2>1
    <3>2. \A x \in {stdin(c), stdout(c), stderr(c)} : x \notin handles_ => subscribed[x] = {}
      BY <2>3 DEF Counted, Books
    <3>3. handles_ \subseteq handles_' /\ p \in handles_'
      BY <2>1
    <3> QED
      BY <2>1, <2>3, <2>4, <3>1, <3>2, <3>3 DEF Waited
  <2>6. Cardinality(Waited') = Cardinality(Waited) + 1
    BY <2>2, <2>5, WaitedFinite, FS_AddElement DEF Counted
  <2>7. IsFiniteSet(handles_')
    <3>1. IsFiniteSet({p, stdin(c), stdout(c), stderr(c)})
      <4>1. IsFiniteSet({p})
        BY FS_Singleton
      <4>2. IsFiniteSet({p} \cup {stdin(c)})
        BY <4>1, FS_AddElement
      <4>3. IsFiniteSet({p} \cup {stdin(c)} \cup {stdout(c)})
        BY <4>2, FS_AddElement
      <4>4. IsFiniteSet({p} \cup {stdin(c)} \cup {stdout(c)} \cup {stderr(c)})
        BY <4>3, FS_AddElement
      <4>5. {p} \cup {stdin(c)} \cup {stdout(c)} \cup {stderr(c)}
              = {p, stdin(c), stdout(c), stderr(c)}
        OBVIOUS
      <4> QED
        BY <4>4, <4>5
    <3> QED
      BY <2>1, <3>1, FS_Union DEF Counted, Books
  <2>8. Books'
    BY <2>1, <2>5, <2>6, <2>7 DEF Counted, Books
  <2>9. \A d \in Child : process(d) \in handles_' <=> child'[d] \in {"running", "exited"}
    <3> SUFFICES ASSUME NEW d \in Child
                 PROVE  process(d) \in handles_' <=> child'[d] \in {"running", "exited"}
      OBVIOUS
    <3>1. process(d) \notin {stdin(c), stdout(c), stderr(c)}
      BY HandleNames
    <3> QED
      BY <2>1, <2>4, <3>1 DEF Counted, Types
  <2> QED
    BY <2>1, <2>8, <2>9 DEF Counted
<1>14. ASSUME NEW c \in Child, StartProcessFails(c) PROVE Counted'
  <2>1. pc' # "event" /\ UNCHANGED loopVars
    BY <1>14 DEF StartProcessFails, InProgram
  <2>2. child' = [child EXCEPT ![c] = "failed"] /\ child[c] = "none"
    BY <1>14 DEF StartProcessFails
  <2>3. \A d \in Child : child'[d] \in {"running", "exited"} <=> child[d] \in {"running", "exited"}
    BY <2>2 DEF Types
  <2>4. Books' /\ handles_' = handles_
    BY <2>1, BooksKept DEF Types, Typing, Counted, loopVars
  <2> QED
    BY <2>1, <2>3, <2>4 DEF Counted
<1>15. ASSUME NEW c \in Child, ReadFrom(c) PROVE Counted'
  <2>1. stdout(c) \in Handle /\ ~isProcess(stdout(c))
    BY HandleNames
  <2>2. pc' # "event" /\ child' = child
    BY <1>15 DEF ReadFrom, Uses, InProgram, childVars
  <2>3. \/ closeStream(stdout(c)) \/ KeepHandles
        \/ stdout(c) \in handles_ /\ \E signals \in SUBSET {"read", "write"} :
                                signals # {} /\ subscribe(stdout(c), signals)
    BY <1>15 DEF ReadFrom
  <2> QED
    BY <2>1, <2>2, <2>3, HandleOps
<1>16. ASSUME NEW c \in Child, CloseReader(c) PROVE Counted'
  <2>1. stdout(c) \in Handle /\ ~isProcess(stdout(c))
    BY HandleNames
  <2>2. pc' # "event" /\ child' = child
    BY <1>16 DEF CloseReader, Uses, InProgram, childVars
  <2>3. \/ closeStream(stdout(c)) \/ KeepHandles
        \/ stdout(c) \in handles_ /\ \E signals \in SUBSET {"read", "write"} :
                                signals # {} /\ subscribe(stdout(c), signals)
    BY <1>16 DEF CloseReader
  <2> QED
    BY <2>1, <2>2, <2>3, HandleOps
<1>17. ASSUME NEW c \in Child, onData(c) PROVE Counted'
  <2>1. stdin(c) \in Handle /\ ~isProcess(stdin(c))
    BY HandleNames
  <2>2. pc' # "event" /\ child' = child
    BY <1>17 DEF onData, Uses, InProgram, childVars
  <2>3. \/ closeStream(stdin(c)) \/ KeepHandles
        \/ stdin(c) \in handles_ /\ \E signals \in SUBSET {"read", "write"} :
                                signals # {} /\ subscribe(stdin(c), signals)
    BY <1>17 DEF onData, BecomeWriter
  <2> QED
    BY <2>1, <2>2, <2>3, HandleOps
<1>18. ASSUME NEW c \in Child, onDone(c) PROVE Counted'
  <2>1. stdin(c) \in Handle /\ ~isProcess(stdin(c))
    BY HandleNames
  <2>2. pc' # "event" /\ child' = child
    BY <1>18 DEF onDone, Uses, InProgram, childVars
  <2>3. \/ closeStream(stdin(c)) \/ KeepHandles
        \/ stdin(c) \in handles_ /\ \E signals \in SUBSET {"read", "write"} :
                                signals # {} /\ subscribe(stdin(c), signals)
    BY <1>18 DEF onDone, BecomeWriter
  <2> QED
    BY <2>1, <2>2, <2>3, HandleOps
<1>19. ASSUME NEW t \in Timer, StartTimer(t) PROVE Counted'
  BY <1>19, CountedKept DEF StartTimer, childVars
<1>20. ASSUME NEW t \in Timer, CancelTimer(t) PROVE Counted'
  BY <1>20, CountedKept DEF CancelTimer, childVars
<1>21. ASSUME UNCHANGED vars PROVE Counted'
  BY <1>21, CountedKept DEF vars, childVars
<1> QED
  BY <1>1, <1>2, <1>3, <1>4, <1>5, <1>6, <1>7, <1>8, <1>9, <1>10, <1>11,
       <1>12, <1>13, <1>14, <1>15, <1>16, <1>17, <1>18, <1>19, <1>20, <1>21
       DEF Next, Environment, Turn, Program

-----------------------------------------------------------------------------
(* The timer descriptor. *)

LEMMA TimedKept ==
  ASSUME Timed, UNCHANGED <<wakeup_, timer_fd_, heap, now, drainNow, panicked>>,
         \/ pc' = pc /\ pc # "over"
         \/ pc' = pc /\ open_waits_' = open_waits_
         \/ pc = "callback" /\ pc' = "timers"
         \/ pc = "poll" /\ pc' = "event"
  PROVE  Timed'
<1>1. nextDueTime' = nextDueTime
  BY DEF nextDueTime, peek
<1>2. (Armed' <=> Armed) /\ (Read => Read')
  BY DEF Armed, Read
<1> QED
  BY <1>1, <1>2 DEF Timed

LEMMA StepTimed ==
  ASSUME Types, Timed, [Next]_vars
  PROVE  Timed'
<1> USE LoopEventsAssumption
    DEF Outside, ProgramKeeps, timerVars, streamVars, loopVars, InProgram, Uses
<1>a. /\ now \in Nat /\ drainNow \in Nat /\ wakeup_ \in Nat /\ heap \subseteq TimerEntry
      /\ timer_fd_ \in [due : Nat, expired : BOOLEAN]
      /\ pc \in {"poll", "event", "timers", "callback", "program", "over"}
  BY DEF Types
<1>b. heap # {} => peek \in heap /\ \A s \in heap : peek.due <= s.due /\ s.due \in Nat
  BY <1>a, PeekIsFirst DEF TimerEntry
<1> USE <1>a, <1>b
<1>1. ASSUME Tick PROVE Timed'
  <2>1. /\ UNCHANGED <<pc, wakeup_, heap, drainNow, panicked, open_waits_>> /\ now' = now + 1
        /\ pc # "over"
    BY <1>1 DEF Tick
  <2>2. nextDueTime' = nextDueTime
    BY <2>1 DEF nextDueTime, peek
  <2>3. Armed => Armed'
    <3> SUFFICES ASSUME Armed PROVE Armed'
      OBVIOUS
    <3>1. timer_fd_' = [timer_fd_ EXCEPT !.expired = wakeup_ # 0 /\ wakeup_ <= now + 1]
      <4>1. (timer_fd_.expired \/ (timer_fd_.due # 0 /\ timer_fd_.due <= now + 1))
              = (wakeup_ # 0 /\ wakeup_ <= now + 1)
        <5>1. timer_fd_.due = wakeup_ /\ timer_fd_.expired = (wakeup_ # 0 /\ wakeup_ <= now)
          BY DEF Armed
        <5>2. wakeup_ <= now => wakeup_ <= now + 1
          OBVIOUS
        <5> QED
          BY <5>1, <5>2
      <4> QED
        BY <1>1, <4>1 DEF Tick
    <3> QED
      BY <2>1, <3>1 DEF Armed
  <2>4. Read => Read'
    <3> SUFFICES ASSUME Read PROVE Read'
      OBVIOUS
    <3>1. timer_fd_' = [timer_fd_ EXCEPT !.expired = FALSE]
      <4>1. (timer_fd_.expired \/ (timer_fd_.due # 0 /\ timer_fd_.due <= now + 1)) = FALSE
        BY DEF Read
      <4> QED
        BY <1>1, <4>1 DEF Tick
    <3>2. timer_fd_' = [due |-> 0, expired |-> FALSE]
      BY <3>1 DEF Read
    <3> QED
      BY <2>1, <3>2 DEF Read
  <2> QED
    BY <2>1, <2>2, <2>3, <2>4 DEF Timed
<1>2. ASSUME NEW c \in Child, ChildWrites(c) PROVE Timed'
  BY <1>2, TimedKept DEF ChildWrites
<1>3. ASSUME NEW c \in Child, ChildClosesOutput(c) PROVE Timed'
  BY <1>3, TimedKept DEF ChildClosesOutput
<1>4. ASSUME NEW c \in Child, ChildReads(c) PROVE Timed'
  BY <1>4, TimedKept DEF ChildReads
<1>5. ASSUME NEW c \in Child, ChildExits(c) PROVE Timed'
  BY <1>5, TimedKept DEF ChildExits
<1>6. ASSUME NEW h \in Handle, PollHandle(h) PROVE Timed'
  BY <1>6, TimedKept DEF PollHandle
<1>7. ASSUME PollTimer PROVE Timed'
  <2>1. /\ pc = "poll" /\ timer_fd_.expired /\ timer_fd_' = [due |-> 0, expired |-> FALSE]
        /\ drainNow' = now /\ pc' = "timers" /\ UNCHANGED <<wakeup_, heap, now, panicked>>
    BY <1>7 DEF PollTimer, drainQueue
  <2>2. wakeup_ # 0 /\ wakeup_ <= now
    BY <2>1 DEF Timed, Armed, Read
  <2>3. Read'
    BY <2>1, <2>2 DEF Read
  <2> QED
    BY <2>1, <2>3 DEF Timed
<1>8. ASSUME RespondToEvent PROVE Timed'
  <2>1. /\ pc = "event" /\ drainNow' = now /\ pc' = "timers"
        /\ UNCHANGED <<wakeup_, timer_fd_, heap, now, panicked>>
    BY <1>8 DEF RespondToEvent, drainQueue
  <2>2. Armed
    BY <2>1 DEF Timed, Read
  <2>3. Armed'
    BY <2>1, <2>2 DEF Armed
  <2> QED
    BY <2>1, <2>3 DEF Timed
<1>9. ASSUME Fire PROVE Timed'
  <2>1. /\ pc = "timers" /\ heap # {} /\ pc' \in {"timers", "callback"}
        /\ UNCHANGED <<wakeup_, timer_fd_, now, drainNow, panicked>>
    BY <1>9 DEF Fire, SomeDue
  <2>2. (Armed => Armed') /\ (Read => Read')
    BY <2>1 DEF Armed, Read
  <2>3. IsFiniteSet(heap') /\ \A s \in heap' : s.due # 0
    <3>1. IsFiniteSet(heap \ {peek}) /\ \A s \in heap \ {peek} : s.due # 0
      BY FS_Subset DEF Timed
    <3>2. CASE heap' = heap \ {peek}
      BY <3>1, <3>2
    <3>3. CASE \E d \in Durations \ {0} : insert(heap \ {peek}, peek.timer, now + d)
      <4>1. PICK d \in Durations \ {0} : insert(heap \ {peek}, peek.timer, now + d)
        BY <3>3
      <4> DEFINE i == IF heap \ {peek} = {} THEN 0 ELSE nextId
                 e == [timer |-> peek.timer, due |-> now + d, id |-> i]
      <4>2. heap' = (heap \ {peek}) \cup {e} /\ e.due = now + d
        BY <4>1 DEF insert
      <4> HIDE DEF e
      <4>3. now + d # 0
        OBVIOUS
      <4> QED
        BY <3>1, <4>2, <4>3, FS_AddElement
    <3> QED
      BY <1>9, <3>2, <3>3 DEF Fire
  <2> QED
    BY <2>1, <2>2, <2>3 DEF Timed
<1>10. ASSUME CallbackReturns PROVE Timed'
  BY <1>10, TimedKept DEF CallbackReturns
<1>11. ASSUME HandleSignal PROVE Timed'
  <2>1. /\ pc = "timers" /\ ~SomeDue /\ pc' = (IF panicked' # {} THEN "over" ELSE "program")
        /\ drainNow' = 0 /\ UNCHANGED <<wakeup_, timer_fd_, heap, now>>
    BY <1>11 DEF HandleSignal
  <2>2. Read => \A t \in heap : t.due > wakeup_
    BY <2>1 DEF Read, SomeDue, IsDue
  <2>3. (Armed => Armed') /\ (Read => Read')
    BY <2>1, <2>2 DEF Armed, Read
  <2> QED
    BY <2>1, <2>3 DEF Timed
<1>12. ASSUME Finish PROVE Timed'
  <2>1. /\ pc = "program" /\ wakeup_' = nextDueTime /\ UNCHANGED <<heap, now, drainNow, panicked, open_waits_>>
        /\ timer_fd_' = IF wakeup_ = nextDueTime THEN timer_fd_
                        ELSE [due |-> nextDueTime, expired |-> nextDueTime # 0 /\ nextDueTime <= now]
        /\ pc' = IF open_waits_ = 0 /\ nextDueTime = 0 THEN "over" ELSE "poll"
    BY <1>12 DEF Finish, MessageEpilogue
  <2>2. nextDueTime' = nextDueTime
    BY <2>1 DEF nextDueTime, peek
  <2>3. nextDueTime = 0 <=> heap = {}
    BY DEF nextDueTime, Timed
  <2>4. wakeup_ = nextDueTime => Armed
    <3> SUFFICES ASSUME Read, wakeup_ = nextDueTime PROVE FALSE
      BY DEF Timed
    <3>1. heap # {} /\ wakeup_ = peek.due
      BY DEF Read, nextDueTime
    <3> QED
      BY <2>1, <3>1 DEF Read
  <2>5. Armed'
    BY <2>1, <2>4 DEF Armed
  <2> QED
    BY <2>1, <2>2, <2>3, <2>5 DEF Timed
<1>13. ASSUME NEW c \in Child, StartProcess(c) PROVE Timed'
  BY <1>13, TimedKept DEF StartProcess
<1>14. ASSUME NEW c \in Child, StartProcessFails(c) PROVE Timed'
  BY <1>14, TimedKept DEF StartProcessFails
<1>15. ASSUME NEW c \in Child, ReadFrom(c) PROVE Timed'
  BY <1>15, TimedKept DEF ReadFrom
<1>16. ASSUME NEW c \in Child, CloseReader(c) PROVE Timed'
  BY <1>16, TimedKept DEF CloseReader
<1>17. ASSUME NEW c \in Child, onData(c) PROVE Timed'
  BY <1>17, TimedKept DEF onData
<1>18. ASSUME NEW c \in Child, onDone(c) PROVE Timed'
  BY <1>18, TimedKept DEF onDone
<1>19. ASSUME NEW t \in Timer, StartTimer(t) PROVE Timed'
  <2>1. PICK d \in Durations : insert(heap, t, now + d + 1)
    BY <1>19 DEF StartTimer
  <2> DEFINE i == IF heap = {} THEN 0 ELSE nextId
             e == [timer |-> t, due |-> now + d + 1, id |-> i]
  <2>2. heap' = heap \cup {e} /\ e.due = now + d + 1
    BY <2>1 DEF insert
  <2> HIDE DEF e
  <2>3. /\ pc \in {"program", "callback"}
        /\ UNCHANGED <<pc, wakeup_, timer_fd_, now, drainNow, panicked>>
    BY <1>19 DEF StartTimer
  <2>4. IsFiniteSet(heap') /\ \A s \in heap' : s.due # 0
    BY <2>2, FS_AddElement DEF Timed
  <2>5. (Armed => Armed') /\ (Read => Read')
    BY <2>2, <2>3 DEF Armed, Read
  <2> QED
    BY <2>3, <2>4, <2>5 DEF Timed
<1>20. ASSUME NEW t \in Timer, CancelTimer(t) PROVE Timed'
  BY <1>20, TimedKept DEF CancelTimer
<1>21. ASSUME UNCHANGED vars PROVE Timed'
  BY <1>21, TimedKept DEF vars
<1> QED
  BY <1>1, <1>2, <1>3, <1>4, <1>5, <1>6, <1>7, <1>8, <1>9, <1>10, <1>11,
       <1>12, <1>13, <1>14, <1>15, <1>16, <1>17, <1>18, <1>19, <1>20, <1>21
       DEF Next, Environment, Turn, Program

-----------------------------------------------------------------------------
LEMMA WaitsInductive == Spec => [](Types /\ Counted /\ Timed)
<1>1. Init => Counted /\ Timed
  <2> SUFFICES ASSUME Init PROVE Counted /\ Timed
    OBVIOUS
  <2>1. /\ handles_ = {} /\ interest = {} /\ open_waits_ = 0 /\ pc = "program" /\ heap = {}
        /\ subscribed = [h \in Handle |-> {}] /\ child = [c \in Child |-> "none"]
        /\ wakeup_ = 0 /\ timer_fd_ = [due |-> 0, expired |-> FALSE] /\ now = 0 /\ drainNow = 0
    BY DEF Init
  <2>2. Waited = {}
    BY <2>1 DEF Waited
  <2>3. Counted
    BY <2>1, <2>2, FS_EmptySet DEF Counted, Books
  <2>4. Armed
    BY <2>1 DEF Armed
  <2> QED
    BY <2>1, <2>3, <2>4, FS_EmptySet DEF Timed
<1>2. Types /\ Counted /\ Timed /\ [Next]_vars => (Types /\ Counted /\ Timed)'
  BY StepTypes, StepCounted, StepTimed
<1> QED
  BY <1>1, <1>2, InitTypes, PTL DEF Spec

(* open_waits_, by which MessageEpilogue decides to end the loop, counts the *)
(* streams waited for and the children not reaped; the epoll set is these.   *)
THEOREM OpenWaitsAreTrue == Spec => []WaitsCounted
<1>1. Types /\ Counted => WaitsCounted
  <2> SUFFICES ASSUME Types, Counted PROVE WaitsCounted
    OBVIOUS
  <2>1. open_waits_ \in Nat
    BY WaitedFinite DEF Counted, Books
  <2> QED
    BY <2>1 DEF WaitsCounted, TypeOK, Types, Counted, Books
<1> QED
  BY <1>1, WaitsInductive, PTL

(* Whatever arms, expires and is read in between, a loop that waits is woken *)
(* for its first timer, and a loop that ended had nothing left.              *)
THEOREM TimersAreNotLost == Spec => []NoLostTimer
<1>1. Types /\ Counted /\ Timed => NoLostTimer
  <2> SUFFICES ASSUME Types, Counted, Timed PROVE NoLostTimer
    OBVIOUS
  <2>1. pc = "poll" /\ heap # {} =>
          timer_fd_ = [due |-> peek.due, expired |-> peek.due <= now]
    <3> SUFFICES ASSUME pc = "poll", heap # {}
                 PROVE  timer_fd_ = [due |-> peek.due, expired |-> peek.due <= now]
      OBVIOUS
    <3>1. wakeup_ = peek.due /\ peek \in heap /\ peek.due # 0
      BY PeekIsFirst DEF Timed, nextDueTime, Types
    <3>2. timer_fd_ = [due |-> wakeup_, expired |-> wakeup_ # 0 /\ wakeup_ <= now]
      BY DEF Timed, Armed, Read
    <3>3. (wakeup_ # 0 /\ wakeup_ <= now) = (peek.due <= now)
      BY <3>1
    <3> QED
      BY <3>1, <3>2, <3>3
  <2>2. open_waits_ = 0 => Waited = {}
    BY WaitedFinite, FS_EmptySet DEF Counted, Books
  <2> QED
    BY <2>1, <2>2 DEF NoLostTimer, Timed
<1> QED
  BY <1>1, WaitsInductive, PTL

-----------------------------------------------------------------------------
(* Where the streams stand.  A stdout that was used while its signal waited is *)
(* closed; of a stdin that was, nothing is known but that it had been started. *)
Fresh(c) == reader[c] = "open" /\ writer[c] = [ready |-> "nil", pending |-> <<>>]
Streams ==
  /\ \A c \in Child :
       /\ stdin(c) \in handles_ \/ stdout(c) \in handles_ => child[c] # "none"
       /\ child[c] = "none" => Fresh(c)
       /\ subscribed[stdin(c)] # {} =>
            subscribed[stdin(c)] = {"write"} /\ stdin(c) \in handleMap
       /\ subscribed[stdout(c)] # {} =>
            subscribed[stdout(c)] = {"read"} /\ reader[c] = "reading"
       /\ subscribed[stderr(c)] = {}
       /\ stdout(c) \in hasty => reader[c] = "closed"
       /\ writer[c].ready = "true" /\ stdin(c) \notin hasty =>
            input[c] < Capacity /\ writer[c].pending = <<>>

(* What a signal said when it was raised, until its handler runs or the stream *)
(* is used before.                                                            *)
SaidReadable(c, signals, count) ==
  stdout(c) \notin hasty =>
    /\ reader[c] = "reading"
    /\ "read" \in signals => count > 0 /\ count <= output[c]
    /\ "close" \in signals =>
         ~outputOpen[c] /\ output[c] = IF "read" \in signals THEN count ELSE 0
SaidWritable(c, signals) ==
  /\ child[c] # "none" /\ stdin(c) \in handleMap
  /\ "write" \in signals /\ stdin(c) \notin hasty => input[c] < Capacity
StillTrue ==
  /\ \A c \in Child :
       /\ pc = "event" /\ event.handle = stdout(c) => SaidReadable(c, event.signals, output[c])
       /\ pc = "event" /\ event.handle = stdin(c) => SaidWritable(c, event.signals)
       /\ message.handle = stdout(c) =>
            pc \in {"timers", "callback"} /\ SaidReadable(c, message.signals, message.count)
       /\ message.handle = stdin(c) =>
            pc \in {"timers", "callback"} /\ SaidWritable(c, message.signals)
       /\ message.handle # stderr(c)
  /\ SignalsServed

LEMMA HandleEffects ==
  ASSUME NEW h \in Handle
  PROVE  /\ closeStream(h) => /\ handles_' = handles_ \ {h} /\ handleMap' = handleMap
                              /\ subscribed' = [subscribed EXCEPT ![h] = {}]
         /\ KeepHandles => UNCHANGED <<handles_, subscribed, handleMap>>
         /\ \A s : subscribe(h, s) => /\ handles_' = handles_ /\ handleMap' = handleMap \cup {h}
                                      /\ subscribed' = [subscribed EXCEPT ![h] = s]
BY DEF closeStream, Close, KeepHandles, loopVars, subscribe, AwaitSignal

LEMMA StreamsKept ==
  ASSUME Types, Streams, UNCHANGED <<subscribed, reader, writer, hasty>>,
         \A c \in Child :
           /\ input'[c] \in 0 .. input[c]
           /\ child'[c] = "none" => child[c] = "none"
           /\ stdin(c) \in handles_' \/ stdout(c) \in handles_' => child'[c] # "none"
           /\ stdin(c) \in handleMap' <=> stdin(c) \in handleMap
  PROVE  Streams'
<1>1. \A c \in Child : input[c] < Capacity => input'[c] < Capacity
  BY LoopEventsAssumption DEF Types
<1> QED
  BY <1>1 DEF Streams, Fresh

(* A stream's operation on its own handle.                                   *)
LEMMA WriterBecomes ==
  ASSUME Types, Streams, NEW c \in Child, NEW w \in Writer, NEW fill \in 0 .. Capacity,
         BecomeWriter(c, w, fill), UNCHANGED <<child, reader>>, child[c] # "none",
         hasty' \in {hasty, hasty \cup {stdin(c)}},
         w.ready = "true" /\ stdin(c) \notin hasty' => fill < Capacity /\ w.pending = <<>>
  PROVE  Streams'
<1>1. stdin(c) \in Handle /\ \A d \in Child : /\ d # c => stdin(d) # stdin(c)
                                              /\ stdout(d) # stdin(c) /\ stderr(d) # stdin(c)
                                              /\ {stdin(d), stdout(d), stderr(d)} \subseteq Handle
  BY HandleNames
<1>2. handles_' \subseteq handles_ /\ handleMap' = handleMap
  BY <1>1, HandleEffects DEF BecomeWriter
<1>3. \A h \in Handle : subscribed'[h] = subscribed[h] \/ (h = stdin(c) /\ subscribed'[h] = {})
  BY <1>1, HandleEffects DEF BecomeWriter, Types
<1>4. writer'[c] = w /\ input'[c] = fill
      /\ \A d \in Child \ {c} : writer'[d] = writer[d] /\ input'[d] = input[d]
  BY DEF BecomeWriter, Types
<1>5. \A d \in Child : /\ stdout(d) \in hasty' => stdout(d) \in hasty
                       /\ d # c /\ stdin(d) \in hasty => stdin(d) \in hasty'
                       /\ d # c /\ stdin(d) \in hasty' => stdin(d) \in hasty
  BY <1>1
<1>6. ASSUME NEW d \in Child
      PROVE  /\ stdin(d) \in handles_' \/ stdout(d) \in handles_' => child'[d] # "none"
             /\ child'[d] = "none" => Fresh(d)'
             /\ subscribed'[stdin(d)] # {} =>
                  subscribed'[stdin(d)] = {"write"} /\ stdin(d) \in handleMap'
             /\ subscribed'[stdout(d)] # {} =>
                  subscribed'[stdout(d)] = {"read"} /\ reader'[d] = "reading"
             /\ subscribed'[stderr(d)] = {}
             /\ stdout(d) \in hasty' => reader'[d] = "closed"
             /\ writer'[d].ready = "true" /\ stdin(d) \notin hasty' =>
                  input'[d] < Capacity /\ writer'[d].pending = <<>>
  <2>1. child'[d] = "none" => Fresh(d)'
    BY <1>4 DEF Streams, Fresh
  <2>2. /\ subscribed'[stdout(d)] = subscribed[stdout(d)]
        /\ subscribed'[stderr(d)] = subscribed[stderr(d)]
        /\ subscribed'[stdin(d)] = subscribed[stdin(d)] \/ subscribed'[stdin(d)] = {}
    BY <1>1, <1>3
  <2> QED
    BY <1>2, <1>4, <1>5, <2>1, <2>2 DEF Streams
<1> QED
  BY <1>6 DEF Streams

LEMMA ReaderBecomes ==
  ASSUME Types, Streams, NEW c \in Child, NEW r \in Reader,
         reader' = [reader EXCEPT ![c] = r], UNCHANGED <<child, writer, input>>,
         child[c] # "none", hasty' \in {hasty, hasty \cup {stdout(c)}},
         stdout(c) \in hasty' => r = "closed",
         \/ r = "reading" /\ subscribe(stdout(c), {"read"})
         \/ closeStream(stdout(c))
  PROVE  Streams'
<1>1. stdout(c) \in Handle /\ \A d \in Child : /\ d # c => stdout(d) # stdout(c)
                                               /\ stdin(d) # stdout(c) /\ stderr(d) # stdout(c)
                                               /\ {stdin(d), stdout(d), stderr(d)} \subseteq Handle
  BY HandleNames
<1>2. /\ handles_' \subseteq handles_ /\ handleMap \subseteq handleMap'
      /\ \A d \in Child : stdin(d) \in handleMap' => stdin(d) \in handleMap
  BY <1>1, HandleEffects
<1>3. /\ \A h \in Handle : h # stdout(c) => subscribed'[h] = subscribed[h]
      /\ subscribed'[stdout(c)] = {} \/ (r = "reading" /\ subscribed'[stdout(c)] = {"read"})
  BY <1>1, HandleEffects DEF Types
<1>4. reader'[c] = r /\ \A d \in Child \ {c} : reader'[d] = reader[d]
  BY DEF Types
<1>5. \A d \in Child : /\ d # c /\ stdout(d) \in hasty' => stdout(d) \in hasty
                       /\ stdin(d) \in hasty => stdin(d) \in hasty'
  BY <1>1
<1>6. ASSUME NEW d \in Child
      PROVE  /\ stdin(d) \in handles_' \/ stdout(d) \in handles_' => child'[d] # "none"
             /\ child'[d] = "none" => Fresh(d)'
             /\ subscribed'[stdin(d)] # {} =>
                  subscribed'[stdin(d)] = {"write"} /\ stdin(d) \in handleMap'
             /\ subscribed'[stdout(d)] # {} =>
                  subscribed'[stdout(d)] = {"read"} /\ reader'[d] = "reading"
             /\ subscribed'[stderr(d)] = {}
             /\ stdout(d) \in hasty' => reader'[d] = "closed"
             /\ writer'[d].ready = "true" /\ stdin(d) \notin hasty' =>
                  input'[d] < Capacity /\ writer'[d].pending = <<>>
  <2>1. child'[d] = "none" => Fresh(d)'
    BY <1>4 DEF Streams, Fresh
  <2>2. /\ subscribed'[stdin(d)] = subscribed[stdin(d)]
        /\ subscribed'[stderr(d)] = subscribed[stderr(d)]
    BY <1>1, <1>3
  <2>3. subscribed'[stdout(d)] # {} =>
          subscribed'[stdout(d)] = {"read"} /\ reader'[d] = "reading"
    BY <1>1, <1>3, <1>4 DEF Streams
  <2> QED
    BY <1>2, <1>4, <1>5, <2>1, <2>2, <2>3 DEF Streams
<1> QED
  BY <1>6 DEF Streams

(* What onWritable makes of a stream whose pipe has room.                    *)
LEMMA WritableSound ==
  ASSUME Types, NEW c \in Child, NEW w \in Writer, input[c] < Capacity,
         w.ready = "broken" => ~inputOpen[c],
         w.ready = "true" => w.pending = <<>> \/ w.pending = <<Chunk>>
  PROVE  LET d == onWritable(c, w) IN
         /\ d.stream.ready = "true" => d.fill < Capacity /\ d.stream.pending = <<>>
         /\ d.stream.ready = "broken" => ~inputOpen[c]
<1> USE LoopEventsAssumption
<1> DEFINE slice == Head(w.pending)
           w2 == [w EXCEPT !.ready = "false", !.pending = Tail(@)]
           d == onWritable(c, w)
<1>1. input[c] \in 0 .. Capacity /\ w.pending \in Seq(Nat)
  BY DEF Types, Writer
<1>2. CASE IsClosed(w)
  <2>1. d = [stream |-> w, fill |-> input[c]]
    BY <1>2 DEF onWritable
  <2>2. d.stream = w /\ w.ready \in {"closed", "broken"}
    BY <1>2, <2>1 DEF IsClosed
  <2> QED
    BY <2>2
<1>3. CASE ~IsClosed(w) /\ w.pending = <<>>
  <2>1. d = [stream |-> [w EXCEPT !.ready = "true"], fill |-> input[c]]
    BY <1>3 DEF onWritable
  <2>2. d.stream.ready = "true" /\ d.stream.pending = <<>> /\ d.fill = input[c]
    BY <1>3, <2>1 DEF Writer
  <2> QED
    BY <2>2
<1>4. CASE ~IsClosed(w) /\ w.pending # <<>> /\ slice = Done
  <2>1. d.stream = Closed
    BY <1>4 DEF onWritable
  <2> QED
    BY <2>1 DEF Closed
<1>5. CASE ~IsClosed(w) /\ w.pending # <<>> /\ slice # Done
  <2>1. d = Written(c, w2, slice)
    BY <1>5 DEF onWritable
  <2>2. slice \in Nat /\ slice > 0
    BY <1>1, <1>5 DEF Done
  <2>3. w2.ready = "false"
    BY DEF Writer
  <2> DEFINE n == Min({slice, Capacity - input[c]})
             rest == IF n < slice THEN <<slice - n>> ELSE <<>>
  <2>4. n # 0
    <3>1. Capacity - input[c] \in Int /\ Capacity - input[c] > 0
      BY <1>1
    <3> QED
      BY <2>2, <3>1, MinPair
  <2>5. \/ ~inputOpen[c] /\ d.stream = Broken
        \/ d.stream = [w2 EXCEPT !.pending = rest \o @]
    <3> HIDE DEF slice, w2, d
    <3>1. \/ ~inputOpen[c] /\ d = [stream |-> Broken, fill |-> input[c]]
          \/ d = [stream |-> [w2 EXCEPT !.pending = rest \o @], fill |-> input[c] + n]
      BY <2>1, <2>4 DEF Written
    <3> DEFINE v == [w2 EXCEPT !.pending = rest \o @]
    <3> HIDE DEF rest, n, v
    <3>2. \/ ~inputOpen[c] /\ d = [stream |-> Broken, fill |-> input[c]]
          \/ d = [stream |-> v, fill |-> input[c] + n]
      BY <3>1 DEF v
    <3>3. \/ ~inputOpen[c] /\ d.stream = Broken
          \/ d.stream = v
      BY <3>2
    <3> QED
      BY <3>3 DEF v
  <2>6. [w2 EXCEPT !.pending = rest \o @].ready = "false"
    <3>1. w2.ready = "false" /\ "ready" \in DOMAIN w2
      BY <2>3 DEF Writer
    <3> HIDE DEF w2, rest
    <3> QED
      BY <3>1
  <2>7. Broken.ready = "broken"
    BY DEF Broken
  <2> SUFFICES /\ d.stream.ready # "true"
               /\ d.stream.ready = "broken" => ~inputOpen[c]
    OBVIOUS
  <2> DEFINE v == [w2 EXCEPT !.pending = rest \o @]
  <2>8. \/ ~inputOpen[c] /\ d.stream = Broken
        \/ d.stream = v
    BY <2>5
  <2>9. v.ready = "false"
    BY <2>6
  <2> HIDE DEF d, v
  <2> QED
    BY <2>7, <2>8, <2>9
<1> QED
  BY <1>2, <1>3, <1>4, <1>5

LEMMA StepStreams ==
  ASSUME Types, Counted, Streams, StillTrue, [Next]_vars
  PROVE  Streams'
<1> USE LoopEventsAssumption
    DEF Outside, ProgramKeeps, timerVars, loopVars, InProgram, Uses
<1>a. /\ \A c \in Child : input[c] \in 0 .. input[c]
      /\ \A c \in Child : stdin(c) \in handles_ \/ stdout(c) \in handles_ => child[c] # "none"
      /\ \A c \in Child : /\ process(c) # stdin(c) /\ process(c) # stdout(c)
  BY HandleNames DEF Types, Streams
<1> USE <1>a
<1>1. ASSUME Tick PROVE Streams'
  BY <1>1, StreamsKept DEF Tick, childVars, streamVars
<1>2. ASSUME NEW c \in Child, ChildWrites(c) PROVE Streams'
  BY <1>2, StreamsKept DEF ChildWrites, childVars, streamVars
<1>3. ASSUME NEW c \in Child, ChildClosesOutput(c) PROVE Streams'
  BY <1>3, StreamsKept DEF ChildClosesOutput, childVars, streamVars
<1>4. ASSUME NEW c \in Child, ChildReads(c) PROVE Streams'
  <2>1. input' = [input EXCEPT ![c] = @ - 1] /\ input[c] > 0 /\ UNCHANGED <<Outside, child>>
    BY <1>4 DEF ChildReads
  <2>2. \A d \in Child : input'[d] \in 0 .. input[d]
    BY <2>1 DEF Types
  <2> QED
    BY <2>1, <2>2, StreamsKept DEF streamVars
<1>5. ASSUME NEW c \in Child, ChildExits(c) PROVE Streams'
  <2>1. child' = [child EXCEPT ![c] = "exited"] /\ UNCHANGED <<Outside, input>>
    BY <1>5 DEF ChildExits
  <2>2. \A d \in Child : child'[d] = child[d] \/ child'[d] = "exited"
    BY <2>1 DEF Types
  <2> QED
    BY <2>1, <2>2, StreamsKept DEF streamVars
<1>6. ASSUME NEW h \in Handle, PollHandle(h) PROVE Streams'
  BY <1>6, StreamsKept DEF PollHandle, childVars, streamVars
<1>7. ASSUME PollTimer PROVE Streams'
  BY <1>7, StreamsKept DEF PollTimer, childVars, streamVars, drainQueue
<1>8. ASSUME RespondToEvent PROVE Streams'
  <2> DEFINE h == event.handle
             c == childOf(h)
  <2>1. UNCHANGED <<subscribed, reader, writer, hasty, input, handleMap>>
    BY <1>8 DEF RespondToEvent, streamVars
  <2>2. handles_' \subseteq handles_ /\ \A d \in Child : child'[d] = child[d] \/ child'[d] = "reaped"
    BY <1>8 DEF RespondToEvent, Types
  <2> QED
    BY <2>1, <2>2, StreamsKept
<1>9. ASSUME Fire PROVE Streams'
  <2>1. UNCHANGED <<subscribed, reader, writer, hasty, input, handleMap, handles_, child>>
    BY <1>9 DEF Fire, childVars, streamVars
  <2> QED
    BY <2>1, StreamsKept
<1>10. ASSUME CallbackReturns PROVE Streams'
  BY <1>10, StreamsKept DEF CallbackReturns, childVars, streamVars
<1>11. ASSUME HandleSignal PROVE Streams'
  <2> DEFINE h == message.handle
             c == childOf(h)
  <2>1. hasty' = hasty
    BY <1>11 DEF HandleSignal
  <2>2. h # <<>> => h \in Handle /\ c \in Child
    BY HandleNames DEF Types, Signal
  <2>3. CASE h # <<>> /\ h = stdin(c) /\ SignalWriter(c)
    <3> DEFINE d == IF "write" \in message.signals THEN onWritable(c, writer[c])
                    ELSE [stream |-> writer[c], fill |-> input[c]]
               w == IF "close" \in message.signals /\ ~IsClosed(d.stream)
                    THEN Closed ELSE d.stream
    <3>1. c \in Child /\ writer[c] \in Writer /\ input[c] \in 0 .. Capacity
          /\ SaidWritable(c, message.signals)
      BY <2>2, <2>3 DEF Types, StillTrue
    <3>2. d.stream \in Writer /\ d.fill \in 0 .. Capacity
      BY <3>1, WritableTyped
    <3>3. ASSUME stdin(c) \notin hasty
          PROVE  /\ d.stream.ready = "true" => d.fill < Capacity /\ d.stream.pending = <<>>
                 /\ d.stream.ready = "broken" => ~inputOpen[c]
      <4>1. /\ writer[c].ready = "true" => input[c] < Capacity /\ writer[c].pending = <<>>
            /\ writer[c].ready = "broken" => ~inputOpen[c]
        BY <3>1, <3>3 DEF Streams, StillTrue, SignalsServed
      <4>2. CASE "write" \in message.signals
        BY <3>1, <3>3, <4>1, <4>2, WritableSound DEF SaidWritable
      <4>3. CASE "write" \notin message.signals
        BY <4>1, <4>3
      <4> QED
        BY <4>2, <4>3
    <3>4. BecomeWriter(c, w, d.fill) /\ UNCHANGED <<child, output, reader, exitKnown, panicked>>
      <4> SUFFICES SignalWriter(c)
        BY DEF SignalWriter
      <4> QED
        BY <2>3
    <3> HIDE DEF d
    <3>5. /\ w \in Writer
          /\ stdin(c) \notin hasty =>
               /\ w.ready = "true" => d.fill < Capacity /\ w.pending = <<>>
               /\ w.ready = "broken" => ~inputOpen[c]
      BY <3>2, <3>3 DEF Writer, Closed
    <3> HIDE DEF w
    <3>6. child[c] # "none" /\ UNCHANGED <<child, reader, hasty>>
      BY <2>1, <3>1, <3>4 DEF SaidWritable
    <3> HIDE DEF c
    <3> QED
      BY <3>1, <3>2, <3>4, <3>5, <3>6, WriterBecomes
  <2>4. CASE h # <<>> /\ SignalReader(c) /\ h # stdin(c) /\ ~isProcess(h)
    <3>1. c \in Child
      BY <2>2, <2>4
    <3>3. CASE closeStream(stdout(c)) /\ reader' = [reader EXCEPT ![c] = "ended"]
                 /\ reader[c] = "reading"
      <4>1. child[c] # "none" /\ stdout(c) \notin hasty /\ "ended" \in Reader
        BY <3>1, <3>3 DEF Streams, Fresh, Reader
      <4> QED
        BY <2>1, <2>4, <3>1, <3>3, <4>1, ReaderBecomes DEF SignalReader
    <3>4. CASE KeepHandles /\ UNCHANGED reader
      BY <2>1, <2>4, <3>4, StreamsKept DEF SignalReader, KeepHandles
    <3> QED
      BY <2>4, <3>3, <3>4 DEF SignalReader
  <2>5. CASE h = <<>> /\ KeepHandles /\ UNCHANGED <<child, input, reader, writer>>
    BY <2>1, <2>5, StreamsKept DEF KeepHandles
  <2>6. CASE h # <<>> /\ SignalProcess(c)
    <3>1. \A d \in Child : stdin(d) \in handleMap' <=> stdin(d) \in handleMap
      BY <2>2, <2>6, HandleNames DEF SignalProcess
    <3> QED
      BY <2>1, <2>6, <3>1, StreamsKept DEF SignalProcess
  <2> QED
    BY <1>11, <2>3, <2>4, <2>5, <2>6, SignalKinds
<1>12. ASSUME Finish PROVE Streams'
  BY <1>12, StreamsKept DEF Finish, childVars, streamVars
<1>13. ASSUME NEW c \in Child, StartProcess(c) PROVE Streams'
  <2>1. /\ child' = [child EXCEPT ![c] = "running"] /\ handleMap' = handleMap \cup {process(c)}
        /\ handles_' = handles_ \cup {process(c), stdin(c), stdout(c), stderr(c)}
        /\ UNCHANGED <<subscribed, reader, writer, input, hasty>>
    BY <1>13 DEF StartProcess, Ends
  <2>2. child'[c] = "running" /\ \A d \in Child \ {c} : child'[d] = child[d]
    BY <2>1 DEF Types
  <2>3. ASSUME NEW d \in Child, d # c
        PROVE  stdin(d) \in handles_' \/ stdout(d) \in handles_' => child'[d] # "none"
    <3>1. /\ stdin(d) \notin {process(c), stdin(c), stdout(c), stderr(c)}
          /\ stdout(d) \notin {process(c), stdin(c), stdout(c), stderr(c)}
      BY <2>3, HandleNames
    <3> QED
      BY <2>1, <2>2, <2>3, <3>1
  <2>4. \A d \in Child : stdin(d) \in handleMap' <=> stdin(d) \in handleMap
    BY <2>1, HandleNames
  <2> QED
    BY <2>1, <2>2, <2>3, <2>4, StreamsKept
<1>14. ASSUME NEW c \in Child, StartProcessFails(c) PROVE Streams'
  <2>1. child' = [child EXCEPT ![c] = "failed"]
        /\ UNCHANGED <<subscribed, reader, writer, input, handleMap, handles_, hasty>>
    BY <1>14 DEF StartProcessFails
  <2>2. \A d \in Child : child'[d] = child[d] \/ child'[d] = "failed"
    BY <2>1 DEF Types
  <2> QED
    BY <2>1, <2>2, StreamsKept
<1>15. ASSUME NEW c \in Child, ReadFrom(c) PROVE Streams'
  <2>1. "reading" \in Reader
    BY DEF Reader
  <2>2. hasty' \in {hasty, hasty \cup {stdout(c)}} /\ stdout(c) \notin hasty'
    <3>1. reader[c] = "open" /\ hasty' = hasty \cup ({stdout(c)} \cap {message.handle})
      BY <1>15 DEF ReadFrom
    <3>2. stdout(c) \notin hasty /\ message.handle # stdout(c)
      BY <3>1 DEF Streams, StillTrue, SaidReadable
    <3> QED
      BY <3>1, <3>2
  <2> QED
    BY <1>15, <2>1, <2>2, ReaderBecomes DEF ReadFrom, childVars
<1>16. ASSUME NEW c \in Child, CloseReader(c) PROVE Streams'
  <2>1. "closed" \in Reader
    BY DEF Reader
  <2>2. hasty' \in {hasty, hasty \cup {stdout(c)}}
    BY <1>16, UsesAdds DEF CloseReader
  <2> QED
    BY <1>16, <2>1, <2>2, ReaderBecomes DEF CloseReader, childVars
<1>17. ASSUME NEW c \in Child, onData(c) PROVE Streams'
  <2> DEFINE w == [writer[c] EXCEPT !.pending = Append(@, Chunk)]
             done == onWritable(c, w)
  <2>1. writer[c] \in Writer /\ w \in Writer
    <3>1. writer[c].pending \in Seq(Nat) /\ writer[c] \in Writer
      BY DEF Writer, Types
    <3>2. Append(writer[c].pending, Chunk) \in Seq(Nat)
      BY <3>1
    <3> QED
      BY <3>1, <3>2 DEF Writer
  <2>2. w.ready = writer[c].ready /\ w.pending = Append(writer[c].pending, Chunk)
    BY <2>1 DEF Writer
  <2>3. child[c] # "none" /\ UNCHANGED <<child, reader>>
    BY <1>17 DEF onData
  <2>h. hasty' \in {hasty, hasty \cup {stdin(c)}}
    BY <1>17, UsesAdds DEF onData
  <2> HIDE DEF w
  <2>4. CASE w.ready = "true"
    <3>3. done.stream \in Writer /\ done.fill \in 0 .. Capacity
      BY <2>1, WritableTyped
    <3>4. done.stream.ready = "true" /\ stdin(c) \notin hasty'
            => done.fill < Capacity /\ done.stream.pending = <<>>
      <4> SUFFICES ASSUME stdin(c) \notin hasty
                   PROVE  done.stream.ready = "true"
                            => done.fill < Capacity /\ done.stream.pending = <<>>
        BY <2>h
      <4>1. input[c] < Capacity /\ writer[c].pending = <<>>
        BY <2>2, <2>4 DEF Streams
      <4>2. w.pending = <<Chunk>>
        BY <2>2, <4>1
      <4> QED
        BY <2>1, <2>4, <4>1, <4>2, WritableSound
    <3>5. BecomeWriter(c, done.stream, done.fill)
      BY <1>17, <2>4 DEF onData, w
    <3> HIDE DEF done
    <3> QED
      BY <2>3, <2>h, <3>3, <3>4, <3>5, WriterBecomes
  <2>5. CASE w.ready # "true"
    <3>1. writer' = [writer EXCEPT ![c] = w] /\ input' = input
          /\ (subscribe(stdin(c), {"write"}) \/ KeepHandles)
      BY <1>17, <2>5 DEF onData, w
    <3>2. stdin(c) \in Handle /\ \A d \in Child : /\ d # c => stdin(d) # stdin(c)
                                                  /\ stdout(d) # stdin(c) /\ stderr(d) # stdin(c)
                                                  /\ {stdin(d), stdout(d), stderr(d)} \subseteq Handle
      BY HandleNames
    <3>3. handles_' = handles_ /\ handleMap \subseteq handleMap'
      BY <3>1, <3>2, HandleEffects
    <3>4. /\ \A h \in Handle : h # stdin(c) => subscribed'[h] = subscribed[h]
          /\ \/ subscribed'[stdin(c)] = subscribed[stdin(c)]
             \/ subscribed'[stdin(c)] = {"write"} /\ stdin(c) \in handleMap'
      BY <3>1, <3>2, HandleEffects DEF Types
    <3>5. writer'[c] = w /\ \A d \in Child \ {c} : writer'[d] = writer[d]
      BY <3>1 DEF Types
    <3>6. ASSUME NEW d \in Child
          PROVE  /\ stdin(d) \in handles_' \/ stdout(d) \in handles_' => child'[d] # "none"
                 /\ child'[d] = "none" => Fresh(d)'
                 /\ subscribed'[stdin(d)] # {} =>
                      subscribed'[stdin(d)] = {"write"} /\ stdin(d) \in handleMap'
                 /\ subscribed'[stdout(d)] # {} =>
                      subscribed'[stdout(d)] = {"read"} /\ reader'[d] = "reading"
                 /\ subscribed'[stderr(d)] = {}
                 /\ stdout(d) \in hasty' => reader'[d] = "closed"
                 /\ writer'[d].ready = "true" /\ stdin(d) \notin hasty' =>
                      input'[d] < Capacity /\ writer'[d].pending = <<>>
      <4>1. child'[d] = "none" => Fresh(d)'
        BY <2>3, <3>5 DEF Streams, Fresh
      <4>2. subscribed'[stdin(d)] # {} =>
              subscribed'[stdin(d)] = {"write"} /\ stdin(d) \in handleMap'
        BY <3>2, <3>3, <3>4 DEF Streams
      <4>3. /\ subscribed'[stdout(d)] = subscribed[stdout(d)]
            /\ subscribed'[stderr(d)] = subscribed[stderr(d)]
        BY <3>2, <3>4
      <4>4. writer'[d].ready = "true" /\ stdin(d) \notin hasty' =>
              input'[d] < Capacity /\ writer'[d].pending = <<>>
        BY <2>5, <2>h, <3>1, <3>5 DEF Streams
      <4>5. stdout(d) \in hasty' => stdout(d) \in hasty
        BY <2>h, <3>2
      <4> QED
        BY <2>3, <3>3, <4>1, <4>2, <4>3, <4>4, <4>5 DEF Streams
    <3> QED
      BY <3>6 DEF Streams
  <2> QED
    BY <2>4, <2>5
<1>18. ASSUME NEW c \in Child, onDone(c) PROVE Streams'
  <2> DEFINE w == IF writer[c].pending = <<>> THEN Closed
                  ELSE [writer[c] EXCEPT !.pending = Append(@, Done)]
  <2>1. writer[c] \in Writer /\ w \in Writer
    <3>1. writer[c].pending \in Seq(Nat) /\ writer[c] \in Writer
      BY DEF Writer, Types
    <3>2. Append(writer[c].pending, Done) \in Seq(Nat) /\ <<>> \in Seq(Nat)
      BY <3>1 DEF Done
    <3> QED
      BY <3>1, <3>2 DEF Writer, Closed
  <2>2. w.ready # "true" \/ stdin(c) \in hasty
    BY <2>1 DEF Streams, Writer, Closed
  <2> HIDE DEF w
  <2>3. BecomeWriter(c, w, input[c]) /\ input[c] \in 0 .. Capacity
    BY <1>18 DEF onDone, w, Types
  <2>4. child[c] # "none" /\ UNCHANGED <<child, reader>>
    BY <1>18 DEF onDone
  <2>5. hasty' \in {hasty, hasty \cup {stdin(c)}}
    BY <1>18, UsesAdds DEF onDone
  <2> QED
    BY <2>1, <2>2, <2>3, <2>4, <2>5, WriterBecomes
<1>19. ASSUME NEW t \in Timer, StartTimer(t) PROVE Streams'
  <2>1. UNCHANGED <<subscribed, reader, writer, hasty, input, handleMap, handles_, child>>
    BY <1>19 DEF StartTimer, childVars
  <2> QED
    BY <2>1, StreamsKept
<1>20. ASSUME NEW t \in Timer, CancelTimer(t) PROVE Streams'
  BY <1>20, StreamsKept DEF CancelTimer, childVars, streamVars
<1>21. ASSUME UNCHANGED vars PROVE Streams'
  BY <1>21, StreamsKept DEF vars, childVars, streamVars
<1> QED
  BY <1>1, <1>2, <1>3, <1>4, <1>5, <1>6, <1>7, <1>8, <1>9, <1>10, <1>11,
       <1>12, <1>13, <1>14, <1>15, <1>16, <1>17, <1>18, <1>19, <1>20, <1>21
       DEF Next, Environment, Turn, Program

-----------------------------------------------------------------------------
(* What a signal said is still true when its handler runs. *)

LEMMA ServedKept ==
  ASSUME SignalsServed, UNCHANGED <<reader, writer, output, outputOpen, inputOpen, panicked>>,
         hasty \subseteq hasty'
  PROVE  SignalsServed'
BY DEF SignalsServed

(* A step leaves what a signal said alone, or uses its stream.                *)
Waiting(h) == (pc = "event" /\ event.handle = h) \/ message.handle = h
ReaderKept(c) ==
  /\ reader'[c] = reader[c]
  /\ output'[c] \in Nat /\ output[c] <= output'[c]
  /\ ~outputOpen[c] => output'[c] = output[c] /\ ~outputOpen'[c]

LEMMA StillKept ==
  ASSUME Types, StillTrue, SignalsServed', UNCHANGED <<event, message>>, hasty \subseteq hasty',
         pc' = "event" => pc = "event",
         pc \in {"timers", "callback"} => pc' \in {"timers", "callback"},
         \A c \in Child :
           /\ child'[c] = "none" => child[c] = "none"
           /\ stdin(c) \in handleMap => stdin(c) \in handleMap'
           /\ Waiting(stdin(c)) => stdin(c) \in hasty' \/ input'[c] \in 0 .. input[c]
           /\ Waiting(stdout(c)) => stdout(c) \in hasty' \/ ReaderKept(c)
  PROVE  StillTrue'
<1> USE LoopEventsAssumption
<1>1. \A c \in Child : output[c] \in Nat /\ input[c] \in 0 .. Capacity /\ message.count \in Nat
  BY DEF Types, Signal
<1>2. ASSUME NEW c \in Child, NEW signals, Waiting(stdin(c)), SaidWritable(c, signals)
      PROVE  SaidWritable(c, signals)'
  BY <1>1, <1>2 DEF SaidWritable
<1>3. ASSUME NEW c \in Child, NEW signals, message.handle = stdout(c),
             SaidReadable(c, signals, message.count)
      PROVE  SaidReadable(c, signals, message.count)'
  <2>1. stdout(c) \in hasty' \/ ReaderKept(c)
    BY <1>3 DEF Waiting
  <2> QED
    BY <1>1, <1>3, <2>1 DEF SaidReadable, ReaderKept
<1>4. ASSUME NEW c \in Child, NEW signals, pc = "event", event.handle = stdout(c),
             SaidReadable(c, signals, output[c])
      PROVE  SaidReadable(c, signals, output[c])'
  <2>1. stdout(c) \in hasty' \/ ReaderKept(c)
    BY <1>4 DEF Waiting
  <2> QED
    BY <1>1, <1>4, <2>1 DEF SaidReadable, ReaderKept
<1>5. ASSUME NEW c \in Child
      PROVE  /\ pc' = "event" /\ event'.handle = stdout(c) =>
                  SaidReadable(c, event.signals, output[c])'
             /\ pc' = "event" /\ event'.handle = stdin(c) => SaidWritable(c, event.signals)'
             /\ message'.handle = stdout(c) =>
                  pc' \in {"timers", "callback"} /\ SaidReadable(c, message.signals, message.count)'
             /\ message'.handle = stdin(c) =>
                  pc' \in {"timers", "callback"} /\ SaidWritable(c, message.signals)'
             /\ message'.handle # stderr(c)
  <2>1. pc' = "event" /\ event'.handle = stdout(c) => SaidReadable(c, event.signals, output[c])'
    BY <1>4 DEF StillTrue
  <2>2. pc' = "event" /\ event'.handle = stdin(c) => SaidWritable(c, event.signals)'
    BY <1>2 DEF StillTrue, Waiting
  <2>3. message'.handle = stdout(c) =>
          pc' \in {"timers", "callback"} /\ SaidReadable(c, message.signals, message.count)'
    BY <1>3 DEF StillTrue
  <2>4. message'.handle = stdin(c) =>
          pc' \in {"timers", "callback"} /\ SaidWritable(c, message.signals)'
    BY <1>2 DEF StillTrue, Waiting
  <2> QED
    BY <2>1, <2>2, <2>3, <2>4 DEF StillTrue
<1> QED
  BY <1>5 DEF StillTrue

(* No stream's signal is on its way.                                         *)
Quiet == \A c \in Child : message.handle \notin {stdout(c), stdin(c), stderr(c)}

LEMMA QuietStill == ASSUME Quiet', pc' # "event", SignalsServed' PROVE StillTrue'
BY DEF Quiet, StillTrue

LEMMA QuietWhen == ASSUME StillTrue, pc \notin {"timers", "callback"} PROVE Quiet
BY DEF Quiet, StillTrue

(* A step that uses no stream.                                               *)
LEMMA NothingUsed ==
  ASSUME Types, StillTrue,
         UNCHANGED <<event, message, hasty, handleMap, reader, writer, panicked>>,
         pc' = "event" => pc = "event",
         pc \in {"timers", "callback"} => pc' \in {"timers", "callback"},
         \A c \in Child :
           /\ child'[c] = "none" => child[c] = "none"
           /\ input'[c] \in 0 .. input[c]
           /\ output'[c] \in Nat /\ output[c] <= output'[c]
           /\ ~outputOpen[c] => output'[c] = output[c] /\ ~outputOpen'[c]
           /\ inputOpen'[c] => inputOpen[c]
  PROVE  StillTrue'
<1>1. SignalsServed'
  <2>1. ASSUME NEW c \in Child
        PROVE  /\ reader'[c] = "ended" => output'[c] = 0 /\ ~outputOpen'[c]
               /\ writer'[c].ready = "broken" /\ stdin(c) \notin hasty' => ~inputOpen'[c]
    BY DEF StillTrue, SignalsServed
  <2> QED
    BY <2>1 DEF StillTrue, SignalsServed
<1> QED
  BY <1>1, StillKept DEF ReaderKept

(* A stream that was written to, or asked to end.                            *)
LEMMA WriterServed ==
  ASSUME Types, SignalsServed, NEW c \in Child, NEW w \in Writer, NEW fill, BecomeWriter(c, w, fill),
         UNCHANGED <<reader, output, outputOpen, inputOpen, panicked>>, hasty \subseteq hasty',
         w.ready = "broken" /\ stdin(c) \notin hasty' => ~inputOpen[c]
  PROVE  SignalsServed'
<1>1. writer'[c] = w /\ \A d \in Child \ {c} : writer'[d] = writer[d]
  BY DEF BecomeWriter, Types
<1> QED
  BY <1>1 DEF SignalsServed

(* onData and onDone, in a turn or in a callback while signals wait.         *)
LEMMA WriterStill ==
  ASSUME Types, StillTrue, NEW c \in Child, Uses(stdin(c)), SignalsServed',
         UNCHANGED <<pc, event, message, child, reader, output, outputOpen>>,
         handleMap \subseteq handleMap', \A d \in Child \ {c} : input'[d] = input[d]
  PROVE  StillTrue'
<1>1. /\ pc # "event" /\ hasty \subseteq hasty'
      /\ message.handle = stdin(c) => stdin(c) \in hasty'
  BY UsesAdds DEF Uses, InProgram
<1>2. \A d \in Child : output[d] \in Nat /\ input[d] \in 0 .. input[d]
  BY LoopEventsAssumption DEF Types
<1>3. \A d \in Child : /\ Waiting(stdin(d)) => stdin(d) \in hasty' \/ input'[d] \in 0 .. input[d]
                       /\ ReaderKept(d)
  BY <1>1, <1>2 DEF Waiting, ReaderKept
<1> QED
  BY <1>1, <1>3, StillKept

LEMMA StepStill ==
  ASSUME Types, Counted, Streams, StillTrue, [Next]_vars
  PROVE  StillTrue'
<1> USE LoopEventsAssumption
    DEF Outside, ProgramKeeps, timerVars, loopVars, InProgram, Uses
<1>a. /\ SignalsServed
      /\ \A c \in Child : /\ input[c] \in 0 .. input[c] /\ input[c] \in 0 .. Capacity
                          /\ output[c] \in Nat /\ output[c] <= output[c]
                          /\ outputOpen[c] \in BOOLEAN /\ inputOpen[c] \in BOOLEAN
  BY DEF Types, StillTrue
<1> USE <1>a
<1>1. ASSUME Tick PROVE StillTrue'
  BY <1>1, NothingUsed DEF Tick, childVars, streamVars
<1>2. ASSUME NEW c \in Child, ChildWrites(c) PROVE StillTrue'
  <2>1. /\ outputOpen[c] /\ output' = [output EXCEPT ![c] = @ + 1]
        /\ UNCHANGED <<Outside, child, outputOpen, input, inputOpen>>
    BY <1>2 DEF ChildWrites
  <2>2. output'[c] = output[c] + 1 /\ \A d \in Child \ {c} : output'[d] = output[d]
    BY <2>1 DEF Types
  <2> QED
    BY <2>1, <2>2, NothingUsed DEF streamVars
<1>3. ASSUME NEW c \in Child, ChildClosesOutput(c) PROVE StillTrue'
  <2>1. /\ outputOpen' = [outputOpen EXCEPT ![c] = FALSE]
        /\ UNCHANGED <<Outside, child, output, input, inputOpen>>
    BY <1>3 DEF ChildClosesOutput
  <2>2. ~outputOpen'[c] /\ \A d \in Child \ {c} : outputOpen'[d] = outputOpen[d]
    BY <2>1 DEF Types
  <2> QED
    BY <2>1, <2>2, NothingUsed DEF streamVars
<1>4. ASSUME NEW c \in Child, ChildReads(c) PROVE StillTrue'
  <2>1. /\ input' = [input EXCEPT ![c] = @ - 1] /\ input[c] > 0
        /\ UNCHANGED <<Outside, child, output, outputOpen, inputOpen>>
    BY <1>4 DEF ChildReads
  <2>2. \A d \in Child : input'[d] \in 0 .. input[d]
    BY <2>1 DEF Types
  <2> QED
    BY <2>1, <2>2, NothingUsed DEF streamVars
<1>5. ASSUME NEW c \in Child, ChildExits(c) PROVE StillTrue'
  <2>1. /\ child' = [child EXCEPT ![c] = "exited"] /\ inputOpen' = [inputOpen EXCEPT ![c] = FALSE]
        /\ UNCHANGED <<Outside, output, outputOpen, input>>
    BY <1>5 DEF ChildExits
  <2>2. \A d \in Child : /\ child'[d] = child[d] \/ child'[d] = "exited"
                         /\ inputOpen'[d] = inputOpen[d] \/ inputOpen'[d] = FALSE
    BY <2>1 DEF Types
  <2> QED
    BY <2>1, <2>2, NothingUsed DEF streamVars
<1>6. ASSUME NEW h \in Handle, PollHandle(h) PROVE StillTrue'
  <2>1. /\ pc = "poll" /\ h \in interest /\ pc' = "event"
        /\ event'.handle = h /\ event'.signals = Raised(h)
        /\ UNCHANGED <<message, reader, writer, handleMap, child, output, outputOpen, input,
                       inputOpen, panicked, hasty>>
    BY <1>6 DEF PollHandle, childVars, streamVars
  <2>2. h \in handles_ /\ (subscribed[h] # {} \/ isProcess(h))
    BY <2>1 DEF Counted, Books, Waited
  <2>3. Quiet /\ SignalsServed'
    BY <2>1, QuietWhen, ServedKept
  <2>4. ASSUME NEW c \in Child, h = stdout(c)
        PROVE  SaidReadable(c, event.signals, output[c])'
    <3>1. ~isProcess(h) /\ childOf(h) = c
      BY <2>4, HandleNames
    <3>2. reader[c] = "reading" /\ subscribed[h] = {"read"}
      BY <2>2, <2>4, <3>1 DEF Streams
    <3>o. output[c] \in Nat
      BY DEF Types
    <3>3. Raised(h) = (IF output[c] > 0 THEN {"read"} ELSE {})
                        \cup (IF outputOpen[c] THEN {} ELSE {"close"})
      BY <2>4, <3>1, <3>2 DEF Raised
    <3> QED
      BY <2>1, <3>2, <3>3, <3>o DEF SaidReadable
  <2>5. ASSUME NEW c \in Child, h = stdin(c)
        PROVE  SaidWritable(c, event.signals)'
    <3>1. ~isProcess(h) /\ childOf(h) = c /\ h # stdout(c)
      BY <2>5, HandleNames
    <3>2. child[c] # "none" /\ stdin(c) \in handleMap /\ subscribed[h] = {"write"}
      BY <2>2, <2>5, <3>1 DEF Streams
    <3>3. Raised(h) = (IF input[c] < Capacity THEN {"write"} ELSE {})
                        \cup (IF inputOpen[c] THEN {} ELSE {"close"})
      BY <3>1, <3>2 DEF Raised
    <3> QED
      BY <2>1, <3>2, <3>3 DEF SaidWritable
  <2> QED
    BY <2>1, <2>3, <2>4, <2>5 DEF StillTrue, Quiet
<1>7. ASSUME PollTimer PROVE StillTrue'
  <2>1. message'.handle = <<>> /\ pc' # "event"
    BY <1>7 DEF PollTimer, drainQueue, NoSignal
  <2>2. Quiet'
    BY <2>1, HandleNames DEF Quiet
  <2>3. SignalsServed'
    BY <1>7, ServedKept DEF PollTimer, childVars, streamVars
  <2> QED
    BY <2>1, <2>2, <2>3, QuietStill
<1>8. ASSUME RespondToEvent PROVE StillTrue'
  <2> DEFINE h == event.handle
  <2>1. /\ pc = "event" /\ pc' = "timers" /\ h \in Handle
        /\ UNCHANGED <<reader, writer, handleMap, output, outputOpen, input, inputOpen, panicked,
                       hasty>>
        /\ isProcess(h) \/ child' = child
    BY <1>8 DEF RespondToEvent, drainQueue, streamVars, Counted, Types
  <2>2. SignalsServed'
    BY <2>1, ServedKept
  <2>3. message' = IF h \notin handleMap THEN NoSignal
                   ELSE [handle |-> h,
                         signals |-> IF isProcess(h) THEN {"close"} ELSE event.signals,
                         count |-> IF "read" \in event.signals /\ ~isProcess(h)
                                   THEN output[childOf(h)] ELSE 0]
    BY <1>8 DEF RespondToEvent, drainQueue
  <2>4. CASE h \notin handleMap \/ isProcess(h)
    <3>1. message'.handle = <<>> \/ (isProcess(h) /\ message'.handle = h)
      BY <2>3, <2>4 DEF NoSignal
    <3>2. Quiet'
      BY <3>1, HandleNames DEF Quiet
    <3> QED
      BY <2>1, <2>2, <3>2, QuietStill
  <2>5. CASE h \in handleMap /\ ~isProcess(h)
    <3>1. /\ message'.handle = h /\ message'.signals = event.signals
          /\ message'.count = IF "read" \in event.signals THEN output[childOf(h)] ELSE 0
      BY <2>3, <2>5
    <3>2. child' = child
      BY <2>1, <2>5
    <3>3. ASSUME NEW c \in Child, h = stdout(c)
          PROVE  SaidReadable(c, message.signals, message.count)'
      <4>1. SaidReadable(c, event.signals, output[c]) /\ childOf(h) = c
        BY <2>1, <3>3, HandleNames DEF StillTrue
      <4> QED
        BY <2>1, <3>1, <4>1 DEF SaidReadable
    <3>4. ASSUME NEW c \in Child, h = stdin(c)
          PROVE  SaidWritable(c, message.signals)'
      <4>1. SaidWritable(c, event.signals)
        BY <2>1, <3>4 DEF StillTrue
      <4> QED
        BY <2>1, <3>1, <3>2, <4>1 DEF SaidWritable
    <3>5. ASSUME NEW c \in Child PROVE h # stderr(c)
      <4>1. h \in Waited
        BY <2>1 DEF Counted, Books
      <4> QED
        BY <2>5, <4>1 DEF Waited, Streams
    <3> QED
      BY <2>1, <2>2, <3>1, <3>3, <3>4, <3>5 DEF StillTrue
  <2> QED
    BY <2>4, <2>5
<1>9. ASSUME Fire PROVE StillTrue'
  BY <1>9, NothingUsed DEF Fire, childVars, streamVars
<1>10. ASSUME CallbackReturns PROVE StillTrue'
  BY <1>10, NothingUsed DEF CallbackReturns, childVars, streamVars
<1>11. ASSUME HandleSignal PROVE StillTrue'
  <2> DEFINE h == message.handle
             c == childOf(h)
  <2>1. UNCHANGED <<outputOpen, inputOpen, hasty>> /\ pc' # "event"
    BY <1>11 DEF HandleSignal
  <2>2. h # <<>> => h \in Handle /\ c \in Child
    BY HandleNames DEF Types, Signal
  <2>q. Quiet'
    <3>1. message'.handle = <<>>
      BY <1>11 DEF HandleSignal, NoSignal
    <3> QED
      BY <3>1, HandleNames DEF Quiet
  <2>3. CASE h # <<>> /\ h = stdin(c) /\ SignalWriter(c)
    <3> DEFINE d == IF "write" \in message.signals THEN onWritable(c, writer[c])
                    ELSE [stream |-> writer[c], fill |-> input[c]]
               w == IF "close" \in message.signals /\ ~IsClosed(d.stream)
                    THEN Closed ELSE d.stream
    <3>1. c \in Child /\ writer[c] \in Writer /\ input[c] \in 0 .. Capacity
          /\ SaidWritable(c, message.signals)
      BY <2>2, <2>3 DEF Types, StillTrue
    <3>2. d.stream \in Writer /\ d.fill \in 0 .. Capacity
      BY <3>1, WritableTyped
    <3>3. ASSUME stdin(c) \notin hasty
          PROVE  /\ d.stream.ready = "true" => d.fill < Capacity /\ d.stream.pending = <<>>
                 /\ d.stream.ready = "broken" => ~inputOpen[c]
      <4>1. /\ writer[c].ready = "true" => input[c] < Capacity /\ writer[c].pending = <<>>
            /\ writer[c].ready = "broken" => ~inputOpen[c]
        BY <3>1, <3>3 DEF Streams, StillTrue, SignalsServed
      <4>2. CASE "write" \in message.signals
        BY <3>1, <3>3, <4>1, <4>2, WritableSound DEF SaidWritable
      <4>3. CASE "write" \notin message.signals
        BY <4>1, <4>3
      <4> QED
        BY <4>2, <4>3
    <3>4. BecomeWriter(c, w, d.fill) /\ UNCHANGED <<child, output, reader, exitKnown, panicked>>
      <4> SUFFICES SignalWriter(c)
        BY DEF SignalWriter
      <4> QED
        BY <2>3
    <3> HIDE DEF d
    <3>5. /\ w \in Writer
          /\ stdin(c) \notin hasty =>
               /\ w.ready = "true" => d.fill < Capacity /\ w.pending = <<>>
               /\ w.ready = "broken" => ~inputOpen[c]
      BY <3>2, <3>3 DEF Writer, Closed
    <3> HIDE DEF w
    <3>6. UNCHANGED <<reader, output, outputOpen, inputOpen, panicked>>
      BY <2>1, <3>4
    <3> HIDE DEF c
    <3> QED
      BY <2>1, <2>q, <3>1, <3>4, <3>5, <3>6, WriterServed, QuietStill
  <2>4. CASE h # <<>> /\ SignalReader(c) /\ h # stdin(c) /\ ~isProcess(h)
    <3>1. c \in Child /\ h = stdout(c) /\ stdout(c) \in Handle
      BY <2>2, <2>4, HandleNames DEF StillTrue
    <3> DEFINE reads == "read" \in message.signals
               closes == "close" \in message.signals
               n == Min({message.count, output[c]})
               live == reader[c] = "reading"
               fails == reads /\ (~live \/ message.count = 0 \/ n < message.count)
    <3> HIDE DEF c
    <3>2. message.count \in Nat /\ output[c] \in Nat
      BY <3>1 DEF Types, Signal
    <3>3. /\ panicked' = IF fails THEN {stdout(c)} ELSE panicked
          /\ output' = IF reads /\ ~fails THEN [output EXCEPT ![c] = @ - n] ELSE output
          /\ reader' = IF closes /\ live /\ ~fails THEN [reader EXCEPT ![c] = "ended"] ELSE reader
          /\ writer' = writer
      BY <2>4 DEF SignalReader
    <3>4. CASE stdout(c) \in hasty
      <4>1. ~live
        BY <3>1, <3>4 DEF Streams
      <4>2. reader' = reader /\ output' = output /\ writer' = writer
        <5> HIDE DEF n, reads, closes, live
        <5> QED
          BY <3>3, <4>1
      <4>3. panicked' \subseteq hasty'
        <5>1. panicked' \in {{stdout(c)}, panicked}
          BY <3>3
        <5> QED
          BY <2>1, <3>4, <5>1 DEF SignalsServed
      <4>4. SignalsServed'
        BY <2>1, <4>2, <4>3 DEF SignalsServed
      <4> QED
        BY <2>1, <2>q, <4>4, QuietStill
    <3>5. CASE stdout(c) \notin hasty
      <4>1. /\ live
            /\ reads => message.count > 0 /\ message.count <= output[c]
            /\ closes => ~outputOpen[c] /\ output[c] = IF reads THEN message.count ELSE 0
        BY <3>1, <3>5 DEF StillTrue, SaidReadable
      <4>2. reads => n = message.count
        BY <3>2, <4>1, MinPair
      <4>3. ~fails
        <5> HIDE DEF n, reads, closes
        <5> QED
          BY <3>2, <4>1, <4>2
      <4> HIDE DEF n, reads, closes, live, fails
      <4>4. /\ panicked' = panicked /\ writer' = writer
            /\ output'[c] = IF reads THEN output[c] - n ELSE output[c]
            /\ reader'[c] = IF closes THEN "ended" ELSE reader[c]
            /\ \A d \in Child \ {c} : output'[d] = output[d] /\ reader'[d] = reader[d]
        BY <3>1, <3>3, <4>1, <4>3 DEF Types
      <4>5. reader[c] # "ended"
        BY <4>1 DEF live
      <4>6. closes => output'[c] = 0 /\ ~outputOpen[c]
        BY <3>2, <4>1, <4>2, <4>4
      <4>7. ASSUME NEW d \in Child
            PROVE  /\ reader'[d] = "ended" => output'[d] = 0 /\ ~outputOpen'[d]
                   /\ writer'[d].ready = "broken" /\ stdin(d) \notin hasty' => ~inputOpen'[d]
        BY <2>1, <4>4, <4>5, <4>6 DEF SignalsServed
      <4>8. SignalsServed'
        BY <2>1, <4>4, <4>7 DEF SignalsServed
      <4> QED
        BY <2>1, <2>q, <4>8, QuietStill
    <3> QED
      BY <3>4, <3>5
  <2>5. CASE UNCHANGED <<output, reader, writer, panicked>>
    BY <2>1, <2>q, <2>5, ServedKept, QuietStill
  <2>6. CASE h # <<>> /\ SignalProcess(c)
    BY <2>5, <2>6 DEF SignalProcess
  <2> QED
    BY <1>11, <2>3, <2>4, <2>5, <2>6, SignalKinds
<1>12. ASSUME Finish PROVE StillTrue'
  <2>1. Quiet /\ message' = message
    BY <1>12, QuietWhen DEF Finish
  <2>2. pc' # "event" /\ SignalsServed'
    BY <1>12, ServedKept DEF Finish, childVars, streamVars, MessageEpilogue
  <2> QED
    BY <2>1, <2>2, QuietStill DEF Quiet
<1>13. ASSUME NEW c \in Child, StartProcess(c) PROVE StillTrue'
  <2>1. /\ outputOpen' = [outputOpen EXCEPT ![c] = TRUE]
        /\ inputOpen' = [inputOpen EXCEPT ![c] = TRUE]
        /\ child[c] = "none" /\ child' = [child EXCEPT ![c] = "running"]
        /\ handleMap \subseteq handleMap'
        /\ UNCHANGED <<pc, event, message, input, output, reader, writer, panicked, hasty>>
    BY <1>13 DEF StartProcess
  <2>2. reader[c] # "ended" /\ writer[c].ready # "broken"
    BY <2>1 DEF Streams, Fresh
  <2>3. \A d \in Child \ {c} : outputOpen'[d] = outputOpen[d] /\ inputOpen'[d] = inputOpen[d]
    BY <2>1 DEF Types
  <2>4. SignalsServed'
    BY <2>1, <2>2, <2>3 DEF SignalsServed
  <2>5. Waiting(stdout(c)) => stdout(c) \in hasty'
    <3>1. reader[c] # "reading"
      BY <2>1 DEF Streams, Fresh
    <3> QED
      BY <2>1, <3>1 DEF StillTrue, SaidReadable, Waiting
  <2>6. ASSUME NEW d \in Child
        PROVE  /\ child'[d] = "none" => child[d] = "none"
               /\ stdin(d) \in handleMap => stdin(d) \in handleMap'
               /\ Waiting(stdin(d)) => stdin(d) \in hasty' \/ input'[d] \in 0 .. input[d]
               /\ Waiting(stdout(d)) => stdout(d) \in hasty' \/ ReaderKept(d)
    <3>1. child'[d] = "none" => child[d] = "none"
      BY <2>1 DEF Types
    <3> QED
      BY <2>1, <2>3, <2>5, <3>1 DEF ReaderKept
  <2> QED
    BY <2>1, <2>4, <2>6, StillKept
<1>14. ASSUME NEW c \in Child, StartProcessFails(c) PROVE StillTrue'
  <2>1. child' = [child EXCEPT ![c] = "failed"]
    BY <1>14 DEF StartProcessFails
  <2>2. \A d \in Child : child'[d] = child[d] \/ child'[d] = "failed"
    BY <2>1 DEF Types
  <2> QED
    BY <1>14, <2>2, NothingUsed DEF StartProcessFails
<1>15. ASSUME NEW c \in Child, ReadFrom(c) PROVE StillTrue'
  <2>p. pc # "event"
    BY <1>15 DEF ReadFrom
  <2>1. /\ reader' = [reader EXCEPT ![c] = "reading"]
        /\ UNCHANGED <<pc, event, message, childVars, writer, panicked>>
    BY <1>15 DEF ReadFrom
  <2>u. hasty \subseteq hasty' /\ (message.handle = stdout(c) => stdout(c) \in hasty')
    BY <1>15, UsesAdds DEF ReadFrom
  <2>m. handleMap \subseteq handleMap'
    BY <1>15, HandleNames, HandleEffects DEF ReadFrom
  <2>2. reader'[c] # "ended" /\ \A d \in Child \ {c} : reader'[d] = reader[d]
    BY <2>1 DEF Types
  <2>3. SignalsServed'
    BY <2>1, <2>2, <2>u DEF SignalsServed, childVars
  <2>4. Waiting(stdout(c)) => stdout(c) \in hasty'
    BY <2>u, <2>p DEF Waiting
  <2>5. ASSUME NEW d \in Child
        PROVE  /\ child'[d] = "none" => child[d] = "none"
               /\ stdin(d) \in handleMap => stdin(d) \in handleMap'
               /\ Waiting(stdin(d)) => stdin(d) \in hasty' \/ input'[d] \in 0 .. input[d]
               /\ Waiting(stdout(d)) => stdout(d) \in hasty' \/ ReaderKept(d)
    BY <2>1, <2>2, <2>4, <2>m DEF ReaderKept, childVars
  <2> QED
    BY <2>1, <2>3, <2>5, <2>u, StillKept
<1>16. ASSUME NEW c \in Child, CloseReader(c) PROVE StillTrue'
  <2>p. pc # "event"
    BY <1>16 DEF CloseReader
  <2>1. /\ reader' = [reader EXCEPT ![c] = "closed"]
        /\ UNCHANGED <<pc, event, message, childVars, writer, panicked>>
    BY <1>16 DEF CloseReader
  <2>u. hasty \subseteq hasty' /\ (message.handle = stdout(c) => stdout(c) \in hasty')
    BY <1>16, UsesAdds DEF CloseReader
  <2>m. handleMap \subseteq handleMap'
    BY <1>16, HandleNames, HandleEffects DEF CloseReader
  <2>2. reader'[c] # "ended" /\ \A d \in Child \ {c} : reader'[d] = reader[d]
    BY <2>1 DEF Types
  <2>3. SignalsServed'
    BY <2>1, <2>2, <2>u DEF SignalsServed, childVars
  <2>4. Waiting(stdout(c)) => stdout(c) \in hasty'
    BY <2>u, <2>p DEF Waiting
  <2>5. ASSUME NEW d \in Child
        PROVE  /\ child'[d] = "none" => child[d] = "none"
               /\ stdin(d) \in handleMap => stdin(d) \in handleMap'
               /\ Waiting(stdin(d)) => stdin(d) \in hasty' \/ input'[d] \in 0 .. input[d]
               /\ Waiting(stdout(d)) => stdout(d) \in hasty' \/ ReaderKept(d)
    BY <2>1, <2>2, <2>4, <2>m DEF ReaderKept, childVars
  <2> QED
    BY <2>1, <2>3, <2>5, <2>u, StillKept
<1>17. ASSUME NEW c \in Child, onData(c) PROVE StillTrue'
  <2> DEFINE w == [writer[c] EXCEPT !.pending = Append(@, Chunk)]
             done == onWritable(c, w)
  <2>1. writer[c] \in Writer /\ w \in Writer
    <3>1. writer[c].pending \in Seq(Nat) /\ writer[c] \in Writer
      BY DEF Writer, Types
    <3>2. Append(writer[c].pending, Chunk) \in Seq(Nat)
      BY <3>1
    <3> QED
      BY <3>1, <3>2 DEF Writer
  <2>2. w.ready = writer[c].ready /\ w.pending = Append(writer[c].pending, Chunk)
    BY <2>1 DEF Writer
  <2>3. UNCHANGED <<pc, event, message, child, reader, output, outputOpen, inputOpen, panicked>>
    BY <1>17 DEF onData
  <2>u. Uses(stdin(c)) /\ hasty' \in {hasty, hasty \cup {stdin(c)}} /\ hasty \subseteq hasty'
    BY <1>17, UsesAdds DEF onData
  <2>b. writer[c].ready = "broken" /\ stdin(c) \notin hasty => ~inputOpen[c]
    BY DEF SignalsServed
  <2> HIDE DEF w
  <2>4. CASE w.ready = "true"
    <3>3. done.stream \in Writer
      BY <2>1, WritableTyped
    <3>4. done.stream.ready = "broken" /\ stdin(c) \notin hasty' => ~inputOpen[c]
      <4> SUFFICES ASSUME stdin(c) \notin hasty
                   PROVE  done.stream.ready = "broken" => ~inputOpen[c]
        BY <2>u
      <4>1. input[c] < Capacity /\ writer[c].pending = <<>>
        BY <2>2, <2>4 DEF Streams
      <4>2. w.pending = <<Chunk>>
        BY <2>2, <4>1
      <4> QED
        BY <2>1, <2>4, <4>1, <4>2, WritableSound
    <3>5. BecomeWriter(c, done.stream, done.fill)
      BY <1>17, <2>4 DEF onData, w
    <3> HIDE DEF done
    <3> QED
      <4>1. SignalsServed'
        BY <2>3, <2>u, <3>3, <3>4, <3>5, WriterServed
      <4>2. handleMap \subseteq handleMap' /\ \A d \in Child \ {c} : input'[d] = input[d]
        BY <3>5 DEF BecomeWriter, closeStream, KeepHandles, Types
      <4> QED
        BY <2>3, <2>u, <4>1, <4>2, WriterStill
  <2>5. CASE w.ready # "true"
    <3>1. writer' = [writer EXCEPT ![c] = w] /\ input' = input /\ handleMap \subseteq handleMap'
      BY <1>17, <2>5 DEF onData, w, subscribe, KeepHandles
    <3>2. writer'[c] = w /\ \A d \in Child \ {c} : writer'[d] = writer[d]
      BY <3>1 DEF Types
    <3>3. SignalsServed'
      BY <2>2, <2>3, <2>u, <2>b, <3>2 DEF SignalsServed
    <3> QED
      BY <2>3, <2>u, <3>1, <3>3, WriterStill
  <2> QED
    BY <2>4, <2>5
<1>18. ASSUME NEW c \in Child, onDone(c) PROVE StillTrue'
  <2> DEFINE w == IF writer[c].pending = <<>> THEN Closed
                  ELSE [writer[c] EXCEPT !.pending = Append(@, Done)]
  <2>1. writer[c] \in Writer /\ w \in Writer
    <3>1. writer[c].pending \in Seq(Nat) /\ writer[c] \in Writer
      BY DEF Writer, Types
    <3>2. Append(writer[c].pending, Done) \in Seq(Nat) /\ <<>> \in Seq(Nat)
      BY <3>1 DEF Done
    <3> QED
      BY <3>1, <3>2 DEF Writer, Closed
  <2>u. Uses(stdin(c)) /\ hasty' \in {hasty, hasty \cup {stdin(c)}} /\ hasty \subseteq hasty'
    BY <1>18, UsesAdds DEF onDone
  <2>2. w.ready = "broken" /\ stdin(c) \notin hasty => ~inputOpen[c]
    <3>1. writer[c].ready = "broken" /\ stdin(c) \notin hasty => ~inputOpen[c]
      BY DEF SignalsServed
    <3>2. w.ready \in {"closed", writer[c].ready}
      BY <2>1 DEF Writer, Closed
    <3> HIDE DEF w
    <3> QED
      BY <3>1, <3>2
  <2> HIDE DEF w
  <2>3. /\ BecomeWriter(c, w, input[c])
        /\ UNCHANGED <<pc, event, message, child, reader, output, outputOpen, inputOpen, panicked>>
    BY <1>18 DEF onDone, w
  <2>4. SignalsServed'
    BY <2>1, <2>2, <2>3, <2>u, WriterServed
  <2>5. handleMap \subseteq handleMap' /\ \A d \in Child \ {c} : input'[d] = input[d]
    BY <2>3 DEF BecomeWriter, closeStream, KeepHandles, Types
  <2> QED
    BY <2>3, <2>4, <2>5, <2>u, WriterStill
<1>19. ASSUME NEW t \in Timer, StartTimer(t) PROVE StillTrue'
  BY <1>19, NothingUsed DEF StartTimer, childVars, streamVars
<1>20. ASSUME NEW t \in Timer, CancelTimer(t) PROVE StillTrue'
  BY <1>20, NothingUsed DEF CancelTimer, childVars, streamVars
<1>21. ASSUME UNCHANGED vars PROVE StillTrue'
  BY <1>21, NothingUsed DEF vars, childVars, streamVars
<1> QED
  BY <1>1, <1>2, <1>3, <1>4, <1>5, <1>6, <1>7, <1>8, <1>9, <1>10, <1>11,
       <1>12, <1>13, <1>14, <1>15, <1>16, <1>17, <1>18, <1>19, <1>20, <1>21
       DEF Next, Environment, Turn, Program

LEMMA InitStill == Init => Streams /\ StillTrue
<1> SUFFICES ASSUME Init PROVE Streams /\ StillTrue
  OBVIOUS
<1>1. /\ pc = "program" /\ message.handle = <<>> /\ handles_ = {} /\ handleMap = {}
      /\ panicked = {} /\ hasty = {}
  BY DEF Init, NoSignal
<1>2. \A c \in Child : /\ Fresh(c) /\ writer[c].ready = "nil" /\ reader[c] = "open"
                       /\ subscribed[stdin(c)] = {} /\ subscribed[stdout(c)] = {}
                       /\ subscribed[stderr(c)] = {}
  BY HandleNames DEF Init, Fresh
<1>3. SignalsServed
  BY <1>1, <1>2 DEF SignalsServed
<1> QED
  BY <1>1, <1>2, <1>3, HandleNames DEF Streams, StillTrue

(* rawRead and Pipe_read never fail, a ReadStream ends by itself only when     *)
(* every byte was delivered, and a WriteStream breaks only when nobody reads,  *)
(* however the children, the loop, the timers and the program take turns: only *)
(* for a stream that a timer's callback used while its own signal waited may   *)
(* they fail or break it.                                                      *)
THEOREM SignalsStayTrue == Spec => []SignalsServed
<1>1. Init => Streams /\ StillTrue
  BY InitStill
<1>2. (Types /\ Counted /\ Timed) /\ (Streams /\ StillTrue) /\ [Next]_vars
        => (Streams /\ StillTrue)'
  BY StepStreams, StepStill
<1>3. Streams /\ StillTrue => SignalsServed
  BY DEF StillTrue
<1> QED
  BY <1>1, <1>2, <1>3, WaitsInductive, PTL DEF Spec
===============================================================================
