------------------------------- MODULE LoopEvents -------------------------------
(***************************************************************************)
(* What an isolate waits for besides messages: child processes, the pipes    *)
(* to them and timers.  The event half of vm/message_loop_epoll.cc           *)
(* (AwaitSignal, RespondToEvent, StartProcess, Read, Write, Close, the       *)
(* timer descriptor) together with its two clients in Newspeak, the streams  *)
(* of newspeak/IO.ns and the timers of newspeak/Actors.ns.  The loop, the    *)
(* children and the clock take turns in any order.                           *)
(*                                                                         *)
(* A handle is named by the child and the end it stands for; HandleMap says  *)
(* why an id leads to its handle.  A pipe holds a number of bytes.  The      *)
(* isolate has no port open; Isolates is about messages and ports.           *)
(***************************************************************************)
EXTENDS Integers, Sequences, FiniteSets, FiniteSetsExt

CONSTANTS
  Child,               \* processes the program may start
  Timer, Repeating,    \* timers; those created with every:do:
  Durations,           \* milliseconds given to after:do: and every:do:
  Capacity,            \* bytes a pipe holds
  Chunk, MaxPending,   \* bound: size of the chunks a program writes to a child, and
                       \* the number of those not yet taken
  MaxNow,              \* bound: the last reading of the clock
  Beside               \* bound: the timers used beside a child

ASSUME LoopEventsAssumption ==
  /\ Repeating \subseteq Timer /\ Beside \subseteq Timer
  /\ Durations \subseteq Nat
  /\ Capacity \in Nat \ {0} /\ Chunk \in Nat \ {0}
  /\ {MaxPending, MaxNow} \subseteq Nat

Handle == Child \X {"process", "stdin", "stdout", "stderr"}
process(c) == <<c, "process">>
stdin(c)   == <<c, "stdin">>
stdout(c)  == <<c, "stdout">>
stderr(c)  == <<c, "stderr">>
childOf(h) == h[1]
isProcess(h) == h[2] = "process"

VARIABLES
  pc,           \* where the loop's thread is
  event,        \* what epoll_wait returned
  handles_,     \* the registered handles
  subscribed,   \* subscribed_signals_ of each
  interest,     \* the handles in the epoll set
  open_waits_,
  wakeup_,      \* in milliseconds; 0 for none
  timer_fd_,    \* its due time, 0 when disarmed, and whether it has expired
  now,          \* the monotonic clock
  child,        \* "none", "running", "exited", "reaped" or "failed"
  output, outputOpen,  \* a child's stdout pipe, and whether it may still be written
  input, inputOpen,    \* a child's stdin pipe, and whether it may still be read
  handleMap,    \* MessageLoop handleMap: the handles with a handler
  message,      \* the signal queued for a handler
  heap,         \* TimerHeap: [timer, due, id]
  nextId,
  callback,     \* the timers whose callback is not nil
  drainNow,     \* now of TimerHeap drainQueue
  reader,       \* the ReadStream of a child's stdout: "open", "reading" (it has a
                \* sink), "ended" by a signal or "closed" by the program
  writer,       \* the WriteStream of its stdin: ready ("nil", "true", "false";
                \* "closed", or "broken" by an error) and pending
  exitKnown,    \* the children whose exitResolver is resolved
  panicked,     \* the streams for which a primitive that must not fail failed
  hasty         \* ghost: the streams used by a timer's callback while a signal for
                \* them waited for its handler

loopVars   == <<handles_, subscribed, interest, open_waits_>>
timerVars  == <<wakeup_, timer_fd_, heap, nextId, callback>>
childVars  == <<child, output, outputOpen, input, inputOpen>>
streamVars == <<reader, writer, exitKnown, panicked, hasty>>
vars == <<pc, event, loopVars, timerVars, now, childVars, handleMap, message,
          drainNow, streamVars>>

NoEvent == [handle |-> <<>>, signals |-> {}]
NoSignal == [handle |-> <<>>, signals |-> {}, count |-> 0]
Done == 0     \* the nil that onDone puts behind the chunks

Init ==
  /\ pc = "program"                  \* the turn of the startup message
  /\ event = NoEvent /\ message = NoSignal
  /\ handles_ = {} /\ interest = {} /\ open_waits_ = 0
  /\ subscribed = [h \in Handle |-> {}]
  /\ wakeup_ = 0 /\ timer_fd_ = [due |-> 0, expired |-> FALSE]
  /\ now = 0 /\ drainNow = 0
  /\ child = [c \in Child |-> "none"]
  /\ output = [c \in Child |-> 0] /\ outputOpen = [c \in Child |-> FALSE]
  /\ input = [c \in Child |-> 0] /\ inputOpen = [c \in Child |-> FALSE]
  /\ handleMap = {}
  /\ heap = {} /\ nextId = 0 /\ callback = {}
  /\ reader = [c \in Child |-> "open"]
  /\ writer = [c \in Child |-> [ready |-> "nil", pending |-> <<>>]]
  /\ exitKnown = {}
  /\ panicked = {} /\ hasty = {}
-----------------------------------------------------------------------------
(* The children and the clock. *)

Outside == <<pc, event, loopVars, wakeup_, heap, nextId, callback, handleMap, message,
             drainNow, streamVars>>

ChildWrites(c) ==
  /\ outputOpen[c] /\ output[c] < Capacity
  /\ stdout(c) \in handles_
  /\ output' = [output EXCEPT ![c] = @ + 1]
  /\ UNCHANGED <<Outside, now, timer_fd_, child, outputOpen, input, inputOpen>>

(* The pipe's last writer goes; a grandchild may hold it longer than the child. *)
ChildClosesOutput(c) ==
  /\ outputOpen[c]
  /\ outputOpen' = [outputOpen EXCEPT ![c] = FALSE]
  /\ UNCHANGED <<Outside, now, timer_fd_, child, output, input, inputOpen>>

ChildReads(c) ==
  /\ inputOpen[c] /\ input[c] > 0
  /\ input' = [input EXCEPT ![c] = @ - 1]
  /\ UNCHANGED <<Outside, now, timer_fd_, child, output, outputOpen, inputOpen>>

ChildExits(c) ==
  /\ child[c] = "running"
  /\ child' = [child EXCEPT ![c] = "exited"]
  /\ inputOpen' = [inputOpen EXCEPT ![c] = FALSE]
  /\ UNCHANGED <<Outside, now, timer_fd_, output, outputOpen, input>>

Tick ==
  /\ now < MaxNow /\ pc # "over"
  /\ now' = now + 1
  /\ timer_fd_' = [timer_fd_ EXCEPT
                     !.expired = @ \/ (timer_fd_.due # 0 /\ timer_fd_.due <= now + 1)]
  /\ UNCHANGED <<Outside, childVars>>
-----------------------------------------------------------------------------
(* Handles. *)

(* epoll_ctl: the set's entry for the handle is added, changed or deleted.    *)
AwaitSignal(h, signals) ==
  /\ subscribed' = [subscribed EXCEPT ![h] = signals]
  /\ interest' = IF signals = {} THEN interest \ {h} ELSE interest \cup {h}
  /\ open_waits_' = CASE subscribed[h] = {} /\ signals # {} -> open_waits_ + 1
                      [] subscribed[h] # {} /\ signals = {} -> open_waits_ - 1
                      [] OTHER -> open_waits_
  /\ UNCHANGED handles_

subscribe(h, signals) ==
  AwaitSignal(h, signals) /\ handleMap' = handleMap \cup {h}

(* mutant: closing a stream that is waited for does not end the wait *)
CloseStillWaiting(h) ==
  /\ handles_' = handles_ \ {h}
  /\ interest' = interest \ {h}
  /\ subscribed' = [subscribed EXCEPT ![h] = {}]
  /\ UNCHANGED open_waits_

(* Closing the descriptor takes it out of the epoll set. *)
Close(h) ==
  /\ handles_' = handles_ \ {h}
  /\ interest' = interest \ {h}
  /\ subscribed' = [subscribed EXCEPT ![h] = {}]
  /\ open_waits_' = IF subscribed[h] # {} THEN open_waits_ - 1 ELSE open_waits_

(* The streams' close: the instruction that should take the handler out of    *)
(* handleMap comes after handle:: nil, and takes out nothing.                 *)
closeStream(h) == Close(h) /\ UNCHANGED handleMap
KeepHandles == UNCHANGED <<loopVars, handleMap>>

(* The level-triggered condition of a handle in the epoll set.  A pipe whose  *)
(* other end is closed raises EPOLLHUP or EPOLLERR, subscribed or not.        *)
Raised(h) ==
  LET c == childOf(h) IN
  CASE isProcess(h)  -> IF child[c] = "exited" THEN {"read"} ELSE {}
    [] h = stdout(c) -> (IF output[c] > 0 THEN subscribed[h] \cap {"read"} ELSE {})
                          \cup (IF outputOpen[c] THEN {} ELSE {"close"})
    [] OTHER         -> (IF input[c] < Capacity THEN subscribed[h] \cap {"write"} ELSE {})
                          \cup (IF inputOpen[c] THEN {} ELSE {"close"})
-----------------------------------------------------------------------------
(* EPollMessageLoop::Run. *)

PollHandle(h) ==
  /\ pc = "poll" /\ h \in interest /\ Raised(h) # {}
  /\ event' = [handle |-> h, signals |-> Raised(h)]
  /\ pc' = "event"
  /\ UNCHANGED <<loopVars, timerVars, now, childVars, handleMap, message, drainNow,
                 streamVars>>

(* MessageLoop drainQueue: first the timers that are due, then the message.   *)
drainQueue(signal) ==
  /\ message' = signal
  /\ drainNow' = now
  /\ pc' = "timers"

PollTimer ==
  /\ pc = "poll" /\ timer_fd_.expired
  /\ timer_fd_' = [due |-> 0, expired |-> FALSE]
  /\ drainQueue(NoSignal)
  /\ UNCHANGED <<event, loopVars, wakeup_, heap, nextId, callback, now, childVars,
                 handleMap, streamVars>>

(* A process that ended is reaped and its handle deleted; the bytes a pipe    *)
(* holds are counted.  dispatchHandle looks the handler up and queues it.     *)
RespondToEvent ==
  LET h == event.handle  c == childOf(h) IN
  /\ pc = "event"
  /\ IF isProcess(h)
       THEN /\ child' = [child EXCEPT ![c] = "reaped"]
            /\ open_waits_' = open_waits_ - 1
            /\ handles_' = handles_ \ {h} /\ interest' = interest \ {h}
            /\ UNCHANGED subscribed
       ELSE UNCHANGED <<child, loopVars>>
  /\ drainQueue(
       IF h \notin handleMap THEN NoSignal
       ELSE [handle |-> h,
             signals |-> IF isProcess(h) THEN {"close"} ELSE event.signals,
             count |-> IF "read" \in event.signals /\ ~isProcess(h) THEN output[c] ELSE 0])
  /\ event' = NoEvent
  /\ UNCHANGED <<timerVars, now, output, outputOpen, input, inputOpen, handleMap,
                 streamVars>>

(* mutant: the descriptor is armed only while no timer was outstanding *)
EpilogueArmsOnce(wakeup) ==
  /\ wakeup_' = wakeup
  /\ IF wakeup_ # 0 /\ wakeup # 0 THEN UNCHANGED timer_fd_
     ELSE timer_fd_' = [due |-> wakeup, expired |-> wakeup # 0 /\ wakeup <= now]
  /\ pc' = IF open_waits_ = 0 /\ wakeup = 0 THEN "over" ELSE "poll"

MessageEpilogue(wakeup) ==
  /\ wakeup_' = wakeup
  /\ IF wakeup_ = wakeup THEN UNCHANGED timer_fd_
     ELSE timer_fd_' = [due |-> wakeup, expired |-> wakeup # 0 /\ wakeup <= now]
  /\ pc' = IF open_waits_ = 0 /\ wakeup = 0 THEN "over" ELSE "poll"
-----------------------------------------------------------------------------
(* TimerHeap and InternalTimer. *)

Earlier(s, t) == s.due < t.due \/ (s.due = t.due /\ s.id < t.id)
peek == CHOOSE t \in heap : \A s \in heap : ~Earlier(s, t)
nextDueTime == IF heap = {} THEN 0 ELSE peek.due

insert(queue, t, due) ==
  LET id == IF queue = {} THEN 0 ELSE nextId IN
  /\ heap' = queue \cup {[timer |-> t, due |-> due, id |-> id]}
  /\ nextId' = id + 1

(* mutant: a timer due at this very millisecond is left for the next turn *)
IsDueLater(t) == t.due < drainNow
IsDue(t) == t.due <= drainNow
SomeDue == heap # {} /\ IsDue(peek)

(* A cancelled timer is popped and does nothing. *)
Fire ==
  /\ pc = "timers" /\ SomeDue
  /\ LET t == peek.timer  rest == heap \ {peek} IN
     \/ /\ t \notin callback
        /\ heap' = rest
        /\ UNCHANGED <<nextId, callback, pc>>
     \/ /\ t \in callback /\ t \in Repeating
        /\ \E d \in Durations \ {0} : insert(rest, t, now + d)
        /\ pc' = "callback"
        /\ UNCHANGED callback
     \/ /\ t \in callback \ Repeating
        /\ heap' = rest
        /\ callback' = callback \ {t}
        /\ pc' = "callback"
        /\ UNCHANGED nextId
  /\ UNCHANGED <<event, loopVars, wakeup_, timer_fd_, now, childVars, handleMap,
                 message, drainNow, streamVars>>

CallbackReturns ==
  /\ pc = "callback"
  /\ pc' = "timers"
  /\ UNCHANGED <<event, loopVars, timerVars, now, childVars, handleMap, message,
                 drainNow, streamVars>>

Finish ==
  /\ pc = "program"
  /\ MessageEpilogue(nextDueTime)
  /\ UNCHANGED <<event, loopVars, heap, nextId, callback, now, childVars, handleMap,
                 message, drainNow, streamVars>>
-----------------------------------------------------------------------------
(* The streams.  A WriteStream's state after an operation on it depends on    *)
(* what the pipe takes; Written is the pair of both.                          *)

IsClosed(w) == w.ready \in {"closed", "broken"}
Closed == [ready |-> "closed", pending |-> <<>>]
Broken == [ready |-> "broken", pending |-> <<>>]

(* EPollMessageLoop::Write of a slice: EPIPE, EAGAIN or the bytes that fit.   *)
Written(c, w, slice) ==
  LET n == Min({slice, Capacity - input[c]})
      rest == IF n < slice THEN <<slice - n>> ELSE <<>>
  IN  IF ~inputOpen[c] \/ n = 0 THEN [stream |-> Broken, fill |-> input[c]]
      ELSE [stream |-> [w EXCEPT !.pending = rest \o @], fill |-> input[c] + n]

onWritable(c, w) ==
  LET slice == Head(w.pending)
      w2 == [w EXCEPT !.ready = "false", !.pending = Tail(@)]
  IN  IF IsClosed(w) THEN [stream |-> w, fill |-> input[c]]
      ELSE IF w.pending = <<>>
        THEN [stream |-> [w EXCEPT !.ready = "true"], fill |-> input[c]]
      ELSE IF slice = Done THEN [stream |-> Closed, fill |-> input[c]]
      ELSE Written(c, w2, slice)

(* The stream becomes w; its handle is closed when w is and it was not.       *)
BecomeWriter(c, w, fill) ==
  /\ writer' = [writer EXCEPT ![c] = w]
  /\ input' = [input EXCEPT ![c] = fill]
  /\ IF IsClosed(w) /\ ~IsClosed(writer[c]) THEN closeStream(stdin(c)) ELSE KeepHandles

(* Handle onStatus:signals:count: of a WriteStream. *)
SignalWriter(c) ==
  LET done == IF "write" \in message.signals THEN onWritable(c, writer[c])
              ELSE [stream |-> writer[c], fill |-> input[c]]
  IN  /\ BecomeWriter(c, IF "close" \in message.signals /\ ~IsClosed(done.stream)
                         THEN Closed ELSE done.stream, done.fill)
      /\ UNCHANGED <<child, output, reader, exitKnown, panicked>>

(* mutant: a signal that says both is taken for the end of the stream *)
SignalReaderClosing(c) ==
  LET closes == "close" \in message.signals
      reads == "read" \in message.signals /\ ~closes
      fails == reads /\ reader[c] # "reading"
  IN  /\ panicked' = IF fails THEN {stdout(c)} ELSE panicked
      /\ output' = IF reads /\ ~fails THEN [output EXCEPT ![c] = 0] ELSE output
      /\ IF closes /\ reader[c] = "reading"
           THEN closeStream(stdout(c)) /\ reader' = [reader EXCEPT ![c] = "ended"]
           ELSE KeepHandles /\ UNCHANGED reader
      /\ UNCHANGED <<child, input, writer, exitKnown>>

(* ... and of a ReadStream.  Pipe_read fails without a handle, and rawRead    *)
(* panics when it does.                                                       *)
SignalReader(c) ==
  LET n == Min({message.count, output[c]})
      reads == "read" \in message.signals
      live == reader[c] = "reading"
      fails == reads /\ (~live \/ message.count = 0 \/ n < message.count)
  IN  /\ panicked' = IF fails THEN {stdout(c)} ELSE panicked
      /\ IF reads /\ ~fails
           THEN output' = [output EXCEPT ![c] = @ - n] ELSE UNCHANGED output
      /\ IF "close" \in message.signals /\ live /\ ~fails
           THEN /\ closeStream(stdout(c))
                /\ reader' = [reader EXCEPT ![c] = "ended"]
           ELSE KeepHandles /\ UNCHANGED reader
      /\ UNCHANGED <<child, input, writer, exitKnown>>

SignalProcess(c) ==
  /\ handleMap' = handleMap \ {process(c)}
  /\ exitKnown' = exitKnown \cup {c}
  /\ UNCHANGED <<loopVars, child, output, input, reader, writer, panicked>>

(* No timer is due any more: the actor that was sent the signal is drained.   *)
HandleSignal ==
  LET h == message.handle IN
  /\ pc = "timers" /\ ~SomeDue
  /\ \/ /\ h = <<>>
        /\ KeepHandles
        /\ UNCHANGED <<child, output, input, reader, writer, exitKnown,
                       panicked>>
     \/ /\ h # <<>>
        /\ CASE isProcess(h) -> SignalProcess(childOf(h))
             [] h = stdin(childOf(h)) -> SignalWriter(childOf(h))
             [] OTHER -> SignalReader(childOf(h))
  /\ message' = NoSignal
  /\ drainNow' = 0
  /\ pc' = IF panicked' # {} THEN "over" ELSE "program"
  /\ UNCHANGED <<event, timerVars, now, outputOpen, inputOpen, hasty>>
-----------------------------------------------------------------------------
(* What the program does in a turn or a timer's callback. *)

InProgram == pc \in {"program", "callback"}
ChildStarted == \E c \in Child : child[c] \notin {"none", "failed"}
Uses(h) == InProgram /\ hasty' = hasty \cup ({h} \cap {message.handle})
Ends(c) == {process(c), stdin(c), stdout(c), stderr(c)}

ProgramKeeps == <<pc, event, now, message, drainNow, exitKnown, panicked>>

(* pipe2, fork or exec fail: the child is reaped, every descriptor closed.    *)
StartProcessFails(c) ==
  /\ InProgram /\ child[c] = "none"
  /\ child' = [child EXCEPT ![c] = "failed"]
  /\ UNCHANGED <<ProgramKeeps, loopVars, timerVars, output, outputOpen, input,
                 inputOpen, handleMap, reader, writer, hasty>>

StartProcess(c) ==
  /\ InProgram /\ child[c] = "none" /\ \A e \in heap : e.timer \in Beside
  /\ child' = [child EXCEPT ![c] = "running"]
  /\ outputOpen' = [outputOpen EXCEPT ![c] = TRUE]
  /\ inputOpen' = [inputOpen EXCEPT ![c] = TRUE]
  /\ handles_' = handles_ \cup Ends(c)
  /\ interest' = interest \cup {process(c)}
  /\ open_waits_' = open_waits_ + 1
  /\ handleMap' = handleMap \cup {process(c)}
  /\ UNCHANGED <<ProgramKeeps, subscribed, timerVars, output, input,
                 reader, writer, hasty>>

ReadFrom(c) ==      \* >>
  /\ Uses(stdout(c)) /\ reader[c] = "open" /\ stdout(c) \in handles_
  /\ reader' = [reader EXCEPT ![c] = "reading"]
  /\ subscribe(stdout(c), {"read"})
  /\ UNCHANGED <<ProgramKeeps, timerVars, childVars, writer>>

CloseReader(c) ==
  /\ Uses(stdout(c)) /\ stdout(c) \in handles_
  /\ reader' = [reader EXCEPT ![c] = "closed"]
  /\ closeStream(stdout(c))
  /\ UNCHANGED <<ProgramKeeps, timerVars, childVars, writer>>

onData(c) ==
  LET w == [writer[c] EXCEPT !.pending = Append(@, Chunk)] IN
  /\ Uses(stdin(c)) /\ stdin(c) \in handles_
  /\ Len(writer[c].pending) < MaxPending /\ ~\E i \in DOMAIN w.pending : w.pending[i] = Done
  /\ IF w.ready = "true"
       THEN LET done == onWritable(c, w) IN BecomeWriter(c, done.stream, done.fill)
       ELSE /\ writer' = [writer EXCEPT ![c] = w]
            /\ IF w.ready = "nil" THEN subscribe(stdin(c), {"write"}) ELSE KeepHandles
            /\ UNCHANGED input
  /\ UNCHANGED <<ProgramKeeps, timerVars, child, output, outputOpen, inputOpen, reader>>

onDone(c) ==
  LET w == writer[c] IN
  /\ Uses(stdin(c)) /\ stdin(c) \in handles_
  /\ ~\E i \in DOMAIN w.pending : w.pending[i] = Done
  /\ BecomeWriter(c, IF w.pending = <<>> THEN Closed
                     ELSE [w EXCEPT !.pending = Append(@, Done)], input[c])
  /\ UNCHANGED <<ProgramKeeps, timerVars, child, output, outputOpen, inputOpen, reader>>

Scheduled(t) == \E e \in heap : e.timer = t

StartTimer(t) ==
  /\ InProgram /\ (t \in Beside \/ ~ChildStarted)
  /\ ~Scheduled(t) /\ t \notin callback
  /\ \E d \in Durations : now + d + 1 <= MaxNow /\ insert(heap, t, now + d + 1)
  /\ callback' = callback \cup {t}
  /\ UNCHANGED <<ProgramKeeps, loopVars, wakeup_, timer_fd_, childVars, handleMap,
                 reader, writer, hasty>>

CancelTimer(t) ==
  /\ InProgram /\ t \in callback
  /\ callback' = callback \ {t}
  /\ UNCHANGED <<ProgramKeeps, loopVars, wakeup_, timer_fd_, heap, nextId, childVars,
                 handleMap, reader, writer, hasty>>
-----------------------------------------------------------------------------
Environment ==
  \/ Tick
  \/ \E c \in Child : ChildWrites(c) \/ ChildClosesOutput(c) \/ ChildReads(c)
                        \/ ChildExits(c)

Turn == \/ RespondToEvent \/ Fire \/ CallbackReturns
        \/ HandleSignal \/ Finish

Program ==
  \/ \E c \in Child : \/ StartProcess(c) \/ StartProcessFails(c) \/ ReadFrom(c)
                      \/ CloseReader(c) \/ onData(c) \/ onDone(c)
  \/ \E t \in Timer : StartTimer(t) \/ CancelTimer(t)

Next == \/ Environment \/ Turn \/ Program
        \/ PollTimer \/ \E h \in Handle : PollHandle(h)

Spec == Init /\ [][Next]_vars

(* The thread runs and its turns end; epoll_wait takes descriptors that stay *)
(* ready in turns, so that none is passed over for ever.  Nothing depends on  *)
(* this for the pipe to a child.                                             *)
FairSpec ==
  /\ Spec
  /\ WF_vars(Turn) /\ SF_vars(PollTimer)
  /\ \A c \in Child : SF_vars(PollHandle(process(c))) /\ SF_vars(PollHandle(stdout(c)))
-----------------------------------------------------------------------------
TypeOK ==
  /\ pc \in {"poll", "event", "timers", "callback", "program", "over"}
  /\ handles_ \subseteq Handle /\ interest \subseteq Handle /\ handleMap \subseteq Handle
  /\ subscribed \in [Handle -> SUBSET {"read", "write"}]
  /\ open_waits_ \in Nat
  /\ child \in [Child -> {"none", "running", "exited", "reaped", "failed"}]
  /\ input \in [Child -> 0 .. Capacity]
  /\ callback \subseteq Timer /\ exitKnown \subseteq Child

(* open_waits_, by which the loop decides to end, counts what can still raise *)
(* an event: the streams that are waited for, and the children that run or    *)
(* wait to be reaped.  The epoll set holds just these, and no deleted handle. *)
Waited == {h \in handles_ : subscribed[h] # {}} \cup {h \in handles_ : isProcess(h)}
WaitsCounted ==
  /\ TypeOK
  /\ open_waits_ = Cardinality(Waited)
  /\ interest = Waited
  /\ \A c \in Child : process(c) \in handles_ <=> child[c] \in {"running", "exited"}

(* MessageEpilogue arms the descriptor only for a new due time.  A loop that  *)
(* waits is nevertheless always woken for its first timer: the descriptor is  *)
(* armed for it, or has expired and was not read.  And a loop with a timer,   *)
(* a child or a stream left has not ended.                                    *)
NoLostTimer ==
  /\ pc \in {"poll", "event"} =>
       wakeup_ = nextDueTime
  /\ pc = "poll" /\ heap # {} =>
       timer_fd_ = [due |-> peek.due, expired |-> peek.due <= now]
  /\ pc = "over" /\ panicked = {} => heap = {} /\ Waited = {}

(* A signal is still true of its handle when its handler runs.  So rawRead    *)
(* and Pipe_read never fail (rawRead would panic; Pipe_read asserts that it    *)
(* reads what was counted), a ReadStream ends by itself only when every byte   *)
(* the child wrote was delivered, and a WriteStream breaks only when nobody    *)
(* reads: EAGAIN is an error like any other to onWritable.  What goes wrong    *)
(* otherwise goes wrong with a stream that a timer's callback used while its   *)
(* signal waited: a callback runs between the event and its handler.          *)
SignalsServed ==
  /\ panicked \subseteq hasty
  /\ \A c \in Child :
       /\ reader[c] = "ended" => output[c] = 0 /\ ~outputOpen[c]
       /\ writer[c].ready = "broken" /\ stdin(c) \notin hasty => ~inputOpen[c]

(* The same without the exception.  It does not hold: the callback may close   *)
(* the stream, or fill its pipe (Actors.ns:549).                              *)
EverySignalServed ==
  /\ panicked = {}
  /\ \A c \in Child : writer[c].ready = "broken" => ~inputOpen[c]

(* What happened outside gets its answer: a child that exits is reaped and    *)
(* its exit code known, a stream whose writers are gone ends, a timer that is *)
(* due fires or was cancelled.                                                *)
Answered ==
  /\ \A c \in Child :
       /\ (child[c] = "exited") ~> (c \in exitKnown \/ panicked # {})
       /\ (reader[c] = "reading" /\ ~outputOpen[c]) ~> (reader[c] # "reading" \/ panicked # {})
  /\ \A t \in Timer :
       (\E e \in heap : e.timer = t /\ e.due <= now) ~>
         (panicked # {} \/ ~\E e \in heap : e.timer = t /\ e.due <= now)
===============================================================================
