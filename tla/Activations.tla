---------------------------- MODULE Activations -----------------------------
(* The interpreter's stack of frames and the activation objects made of them *)
(* (vm/interpreter.cc).  A context lives as a frame; EnsureActivation gives   *)
(* the frame an object, "married" to it by the frame's address, which is kept *)
(* where the sender would be; FlushAllFrames turns every frame into its       *)
(* object, CreateBaseFrame turns one object back into the only frame.  A      *)
(* frame that returns leaves its object as it is: HasLivingFrame finds out    *)
(* later that the frame is gone, or that another one has its address.         *)
EXTENDS Naturals, Sequences, FiniteSets

CONSTANTS StackSizes,     \* the sizes of a stack to consider, in slots (kStackSlots)
          MaxContexts, MaxClosures, MaxBci, MaxDepth, MaxTurns, MaxReflections,
          Methods, Arity, NumTemps, UnwindProtect, SimulationRoot,
          Dispatch, CannotReturn, AboutToReturn

VARIABLES
  frames,        \* the stack, base first
  slots,         \* the size of the stack
  ip,            \* method and bytecode position of the last frame; nil between turns
  acts,          \* context -> its activation object
  closures,      \* the closures: defining activation, initial bci, copied values
  running,       \* between ActivateDispatch and ReturnFromDispatch
  used, turns, reflections,   \* counts of contexts, turns, reflective calls
  contexts       \* history: the contexts of Contexts.tla this state stands for

vars == <<frames, slots, ip, acts, closures, running, used, turns, reflections, contexts>>

C == INSTANCE Contexts WITH current <- IF frames = <<>> THEN 0 ELSE frames[Len(frames)].ctx

Ids == 1..MaxContexts
Nil == 0
Value == 1
NotActivation == MaxContexts + 1    \* a SmallInteger where a sender should be
NoIp == [method |-> Dispatch, bci |-> Nil]

(* an activation object: `fp' is the address in its sender slot, 0 if the slot *)
(* holds `sender'                                                              *)
NoActivation == [exists |-> FALSE, fp |-> 0, sender |-> Nil, bci |-> Nil,
                 method |-> Dispatch, closure |-> Nil, temps |-> <<>>]

(* --- frames -------------------------------------------------------------- *)
NumArgs(method, closure) == IF closure = Nil THEN Arity[method] ELSE 0

(* slots in use below a frame of f's caller, and above the last local of f *)
SavedSP(f) == f.at - 3 - NumArgs(f.method, f.closure)
SP(f) == f.at + 4 + Len(f.temps) - NumArgs(f.method, f.closure)

Machine == [frames |-> frames, ip |-> ip, acts |-> acts]
Last(m) == m.frames[Len(m.frames)]
Current == frames[Len(frames)].ctx

(* where frame i continues: its ip, saved in the frame it called *)
IpOf(m, i) == IF i = Len(m.frames) THEN m.ip ELSE m.frames[i + 1].savedIp

(* PopFrame (LocalReturn): sp, fp and ip are the caller's again *)
PopTo(m, i) == [m EXCEPT !.frames = SubSeq(m.frames, 1, i), !.ip = IpOf(m, i)]

Push(m, value) == [m EXCEPT !.frames[Len(m.frames)].temps = Append(@, value)]

(* A frame on top of m.  The base frame has no saved fp, and where another one *)
(* saves its caller's ip it has its sender.                                    *)
Enter(m, c, method, closure, temps, start) ==
  LET base == m.frames = <<>>
      args == NumArgs(method, closure)
      frame == [ctx |-> c, at |-> (IF base THEN 0 ELSE SP(Last(m))) + 3 + args,
                owned |-> FALSE, method |-> method, closure |-> closure, temps |-> temps,
                savedIp |-> m.ip, baseSender |-> Nil]
  IN  [m EXCEPT !.frames = Append(@, frame), !.ip = [method |-> method, bci |-> start]]

(* --- collections ----------------------------------------------------------- *)
(* Before a collection every saved ip becomes a bci, relative to the method of *)
(* the frame it belongs to; behind it, an ip again.                            *)
GCPrologue(m) ==
  [i \in 1..Len(m.frames) |-> IF IpOf(m, i).method = m.frames[i].method THEN IpOf(m, i).bci ELSE Nil]
(* mutant: the ip of a frame is restored with its callee's method *)
EpilogueOffByOne(m, bcis) ==
  LET ipOf(i) == [method |-> m.frames[IF i = Len(m.frames) THEN i ELSE i + 1].method, bci |-> bcis[i]]
  IN  [m EXCEPT !.ip = ipOf(Len(m.frames)),
                !.frames = [i \in 1..Len(m.frames) |->
                   IF i = 1 THEN m.frames[1] ELSE [m.frames[i] EXCEPT !.savedIp = ipOf(i - 1)]]]
GCEpilogue(m, bcis) ==
  LET ipOf(i) == [method |-> m.frames[i].method, bci |-> bcis[i]]
  IN  [m EXCEPT !.ip = ipOf(Len(m.frames)),
                !.frames = [i \in 1..Len(m.frames) |->
                   IF i = 1 THEN m.frames[1] ELSE [m.frames[i] EXCEPT !.savedIp = ipOf(i - 1)]]]

(* what a safepoint leaves; if it does not collect, the same *)
Safepoint(m) == IF m.frames = <<>> THEN m ELSE GCEpilogue(m, GCPrologue(m))

EnsureActivation(m, i) ==
  LET f == m.frames[i]
  IN  IF f.owned THEN m
      ELSE [Safepoint(m) EXCEPT
                     !.frames[i].owned = TRUE,
                     !.acts[f.ctx] = [exists |-> TRUE, fp |-> f.at, sender |-> Nil, bci |-> Nil,
                                      method |-> f.method, closure |-> f.closure, temps |-> <<>>]]

SenderOf(m, i) == IF i = 1 THEN m.frames[1].baseSender ELSE m.frames[i - 1].ctx

FlushAllFrames(m) ==
  [frames |-> <<>>, ip |-> NoIp,
   acts |-> [c \in Ids |->
     IF \E i \in 1..Len(m.frames) : m.frames[i].ctx = c
     THEN LET i == CHOOSE j \in 1..Len(m.frames) : m.frames[j].ctx = c
          IN  [EnsureActivation(m, i).acts[c] EXCEPT
                 !.fp = 0, !.sender = SenderOf(m, i), !.bci = IpOf(m, i).bci,
                 !.temps = m.frames[i].temps]
     ELSE m.acts[c]]]

CreateBaseFrame(m, c) ==
  LET a == m.acts[c]
      args == NumArgs(a.method, a.closure)
      frame == [ctx |-> c, at |-> 3 + args, owned |-> TRUE, method |-> a.method,
                closure |-> a.closure, temps |-> a.temps, savedIp |-> NoIp,
                baseSender |-> IF a.fp # 0 THEN NotActivation ELSE a.sender]
  IN  [frames |-> <<frame>>, ip |-> [method |-> a.method, bci |-> a.bci],
       acts |-> [m.acts EXCEPT ![c] = [@ EXCEPT !.fp = frame.at, !.sender = Nil,
                                                !.temps = SubSeq(a.temps, 1, args)]]]

(* all frames but the running one become objects *)
KeepOnlyTop(m) == CreateBaseFrame(FlushAllFrames(m), Last(m).ctx)

(* StackOverflowOrInterruptCheck, at every entry and backward jump *)
StackOverflowOrInterrupt(m) == IF SP(Last(m)) > slots THEN KeepOnlyTop(m) ELSE m

(* --- objects and their frames -------------------------------------------- *)
(* mutant: whatever frame has the address is taken for the activation's own *)
HasFrameAtAddress(m, c) ==
  /\ m.acts[c].fp # 0
  /\ \E i \in 1..Len(m.frames) : m.frames[i].at = m.acts[c].fp
HasLivingFrame(m, c) ==
  /\ m.acts[c].fp # 0
  /\ \E i \in 1..Len(m.frames) : /\ m.frames[i].at = m.acts[c].fp
                                 /\ m.frames[i].owned /\ m.frames[i].ctx = c

LivingFrame(m, c) == CHOOSE i \in 1..Len(m.frames) : m.frames[i].at = m.acts[c].fp

(* the other effect of HasLivingFrame: "Frame is gone." *)
Checked(m, c) ==
  IF m.acts[c].fp # 0 /\ ~HasLivingFrame(m, c)
  THEN [m EXCEPT !.acts[c].fp = 0, !.acts[c].sender = Nil, !.acts[c].bci = Nil]
  ELSE m

(* a field of a married activation is set in the object, and the stack rebuilt *)
Change(m, c, Set(_)) ==
  IF HasLivingFrame(m, c)
  THEN LET flushed == FlushAllFrames(m)
       IN  CreateBaseFrame([flushed EXCEPT !.acts[c] = Set(@)], Last(m).ctx)
  ELSE [Checked(m, c) EXCEPT !.acts[c] = Set(@)]

(* LocalBaseReturn, NonLocalReturn: can the object be returned to? *)
Returnable(m, c) == c \in Ids /\ m.acts[c].bci # Nil

(* --- the contexts a machine stands for -------------------------------------- *)
FrameOf(m, c) == {i \in 1..Len(m.frames) : m.frames[i].ctx = c}

(* a context without a frame whose object, if it has one, may not know it yet *)
Gone(m, c) == ~m.acts[c].exists \/ m.acts[c].fp # 0

ContextOf(m, c) ==
  IF FrameOf(m, c) # {}
  THEN LET i == CHOOSE j \in FrameOf(m, c) : TRUE
           f == m.frames[i]
       IN  [sender |-> SenderOf(m, i), bci |-> IpOf(m, i).bci, method |-> f.method,
            closure |-> f.closure, temps |-> f.temps]
  ELSE LET a == m.acts[c]
       IN  IF Gone(m, c)
           THEN [sender |-> Nil, bci |-> Nil, temps |-> <<>>,
                 method |-> IF a.exists THEN a.method ELSE contexts[c].method,
                 closure |-> IF a.exists THEN a.closure ELSE contexts[c].closure]
           ELSE [sender |-> a.sender, bci |-> a.bci, method |-> a.method, closure |-> a.closure,
                 temps |-> IF a.bci = Nil THEN <<>> ELSE a.temps]

LiveContext(c) == contexts[c].bci # Nil

(* --- actions -------------------------------------------------------------- *)
Commit(m) ==
  /\ frames' = m.frames /\ ip' = m.ip /\ acts' = m.acts
  /\ contexts' = [c \in Ids |-> ContextOf(m, c)]
  /\ UNCHANGED slots

Alive == running /\ frames # <<>>
MayStart == Alive /\ used < MaxContexts

StartIn(m, method, closure, temps, start) ==
  /\ Commit(StackOverflowOrInterrupt(Enter(m, used + 1, method, closure, temps, start)))
  /\ used' = used + 1

MethodTemps(method) ==
  [i \in 1..NumTemps[method] |-> IF i <= Arity[method] THEN Value ELSE Nil]

Activate(m, method) == StartIn(m, method, Nil, MethodTemps(method), 1)

(* behind a call; the last position of a method stands for a loop *)
NextBci(b) == IF b < MaxBci THEN b + 1 ELSE b

Quiet == UNCHANGED <<turns, reflections>>

Init ==
  /\ slots \in StackSizes
  /\ frames = <<>> /\ ip = NoIp
  /\ acts = [c \in Ids |-> NoActivation]
  /\ closures = <<>> /\ running = FALSE
  /\ used = 0 /\ turns = 0 /\ reflections = 0
  /\ contexts = [c \in Ids |-> C!Unused]

DispatchTurn ==
  /\ ~running /\ turns < MaxTurns /\ used < MaxContexts
  /\ Activate(Machine, Dispatch)
  /\ running' = TRUE /\ turns' = turns + 1
  /\ UNCHANGED <<closures, reflections>>

(* The primitive that ends a turn pops the frame of dispatchMessage, which has *)
(* no sender unless the program gave it one that is alive.                      *)
ReturnFromDispatch ==
  /\ Alive /\ frames[Len(frames)].method = Dispatch
  /\ LET sender == SenderOf(Machine, Len(frames)) IN sender # Nil => LiveContext(sender)
  /\ LET f == frames[Len(frames)]
     IN  Commit(IF Len(frames) = 1 /\ f.baseSender # Nil
                THEN CreateBaseFrame([Machine EXCEPT !.frames = <<>>], f.baseSender)
                ELSE IF Len(frames) = 1 THEN [Machine EXCEPT !.frames = <<>>, !.ip = NoIp]
                ELSE PopTo(Machine, Len(frames) - 1))
  /\ running' = FALSE
  /\ UNCHANGED <<closures, used>>
  /\ Quiet

Send(method) ==
  /\ MayStart
  /\ Len(Last(Machine).temps) < MaxDepth
  /\ Activate([Machine EXCEPT !.ip.bci = NextBci(@)], method)
  /\ UNCHANGED <<closures, running>>
  /\ Quiet

ActivateClosure(c) ==
  /\ MayStart
  /\ c \in 1..Len(closures)
  /\ Len(Last(Machine).temps) < MaxDepth
  /\ StartIn([Machine EXCEPT !.ip.bci = NextBci(@)],
             acts[closures[c].definer].method, c, closures[c].copied, closures[c].bci)
  /\ UNCHANGED <<closures, running>>
  /\ Quiet

PushClosure(copied) ==
  LET m == EnsureActivation(Machine, Len(frames))
      f == Last(m)
      rest == Len(f.temps) - copied
  IN  /\ Alive /\ Len(closures) < MaxClosures
      /\ rest >= NumTemps[f.method] /\ rest < MaxDepth
      /\ closures' = Append(closures,
           [definer |-> f.ctx, bci |-> ip.bci, copied |-> SubSeq(f.temps, rest + 1, Len(f.temps))])
      /\ Commit([m EXCEPT !.ip.bci = NextBci(@),
                          !.frames[Len(frames)].temps = Append(SubSeq(@, 1, rest), Value)])
      /\ UNCHANGED <<running, used>>
      /\ Quiet

SendCannotReturn(m) ==
  used < MaxContexts /\ Activate(EnsureActivation(m, Len(m.frames)), CannotReturn)
SendAboutToReturnThrough(m) ==
  used < MaxContexts /\ Activate(EnsureActivation(m, Len(m.frames)), AboutToReturn)

(* `dying' objects lose sender and bci, and `sender' becomes the only frame *)
ResumeObject(m, dying, sender) ==
  /\ Len(m.acts[sender].temps) < MaxDepth
  /\ LET zapped == [c \in Ids |-> IF c \in dying
                                  THEN [m.acts[c] EXCEPT !.fp = 0, !.sender = Nil, !.bci = Nil]
                                  ELSE m.acts[c]]
     IN  Commit(Push(CreateBaseFrame([m EXCEPT !.acts = zapped], sender), Value))
  /\ UNCHANGED used

(* mutant: the base frame's activation stays resumable *)
BaseReturnUnzapped ==
  LET m == FlushAllFrames(Machine)
      top == Current
      sender == m.acts[top].sender
  IN  IF ~Returnable(m, sender) THEN SendCannotReturn(CreateBaseFrame(m, top))
      ELSE ResumeObject(m, {}, sender)
LocalBaseReturn ==
  LET m == FlushAllFrames(Machine)
      top == Current
      sender == m.acts[top].sender
  IN  IF ~Returnable(m, sender) THEN SendCannotReturn(CreateBaseFrame(m, top))
      ELSE ResumeObject(m, {top}, sender)

LocalReturn ==
  /\ Alive
  /\ IF Len(frames) = 1 THEN LocalBaseReturn
     ELSE LET m == PopTo(Machine, Len(frames) - 1)
          IN  /\ Len(Last(m).temps) < MaxDepth
              /\ Commit(Push(m, Value))
              /\ UNCHANGED used
  /\ UNCHANGED <<closures, running>>
  /\ Quiet

(* --- return from a closure through its home -------------------------------- *)
(* the static chain *)
Home(c) ==
  LET out[n \in 0..MaxClosures] ==
        IF n = 0 THEN closures[c].definer
        ELSE IF acts[out[n - 1]].closure = Nil THEN out[n - 1]
        ELSE closures[acts[out[n - 1]].closure].definer
  IN  out[MaxClosures]

Blocking(method) == method \in UnwindProtect \cup SimulationRoot

(* The frame the walk down the stack ends at: the home's, or one that the     *)
(* return cannot simply cross; 0 if it finds neither.                          *)
(* mutant: the walk does not stop at an ensure: *)
WalkPastEnsure(home) ==
  LET stops == {i \in 1..(Len(frames) - 1) :
                  \/ frames[i].owned /\ frames[i].ctx = home
                  \/ frames[i].method \in SimulationRoot}
  IN  IF stops = {} THEN 0 ELSE CHOOSE i \in stops : \A j \in stops : j <= i
WalkFrames(home) ==
  LET stops == {i \in 1..(Len(frames) - 1) :
                  \/ frames[i].owned /\ frames[i].ctx = home
                  \/ Blocking(frames[i].method)}
  IN  IF stops = {} THEN 0 ELSE CHOOSE i \in stops : \A j \in stops : j <= i

(* the sender chain of objects above `top'; an address ends it like nil *)
SenderObject(m, c) ==
  IF c \notin Ids \/ m.acts[c].fp # 0 THEN Nil ELSE m.acts[c].sender
ChainAbove(m, top) ==
  LET up[n \in 0..MaxContexts] == IF n = 0 THEN top ELSE SenderObject(m, up[n - 1])
  IN  up

(* the slow case: every frame is an object, and the dynamic chain decides *)
ReturnThroughObjects(home) ==
  LET m == FlushAllFrames(Machine)
      top == Current
      up == ChainAbove(m, top)
      stops == {n \in 1..MaxContexts :
                  up[n] \notin Ids \/ up[n] = home \/ Blocking(m.acts[up[n]].method)}
      at == CHOOSE n \in stops : \A k \in stops : n <= k
      stop == up[at]
      sender == SenderObject(m, home)
  IN  IF stop \in Ids /\ stop # home /\ m.acts[stop].method \in UnwindProtect
      THEN SendAboutToReturnThrough(CreateBaseFrame(m, top))
      ELSE IF stop # home \/ ~Returnable(m, sender)
      THEN SendCannotReturn(CreateBaseFrame(m, top))
      ELSE ResumeObject(m, {up[n] : n \in 0..at}, sender)

NonLocalReturn ==
  /\ Alive
  /\ frames[Len(frames)].closure # Nil
  /\ LET home == Home(frames[Len(frames)].closure)
         i == WalkFrames(home)
     IN  IF i > 1 /\ frames[i].owned /\ frames[i].ctx = home
         THEN LET m == PopTo(Machine, i - 1)
              IN  /\ Len(Last(m).temps) < MaxDepth
                  /\ Commit(Push(m, Value))
                  /\ UNCHANGED used
         ELSE ReturnThroughObjects(home)
  /\ UNCHANGED <<closures, running>>
  /\ Quiet

(* --- bytecodes that stay in their frame ------------------------------------ *)
BackwardJump ==
  /\ Alive
  /\ Commit(StackOverflowOrInterrupt(Machine))
  /\ UNCHANGED <<closures, running, used>>
  /\ Quiet

Pop ==
  LET f == frames[Len(frames)]
  IN  /\ Alive
      /\ Len(f.temps) > NumTemps[f.method] /\ f.closure = Nil
      /\ Commit([Machine EXCEPT !.frames[Len(frames)].temps = SubSeq(@, 1, Len(@) - 1)])
      /\ UNCHANGED <<closures, running, used>>
      /\ Quiet

(* --- the primitives of class Activation ------------------------------------ *)
Exists(c) == acts[c].exists

(* what a program may change is what keeps activations resumable (the library *)
(* restarts, terminates and rethreads contexts, no more)                       *)
Reflect ==
  /\ Alive /\ reflections < MaxReflections
  /\ reflections' = reflections + 1
  /\ UNCHANGED <<closures, running, used, turns>>

CurrentActivation == Commit(EnsureActivation(Machine, Len(frames)))

(* what a primitive answers, and the machine it leaves: the object of a frame  *)
(* that is gone is updated, a sender that is a frame gets its object           *)
ActivationSender(c) ==
  LET m == Checked(Machine, c)
      i == LivingFrame(m, c)
  IN  IF ~HasLivingFrame(m, c) THEN [answer |-> m.acts[c].sender, then |-> m]
      ELSE [answer |-> SenderOf(m, i), then |-> IF i = 1 THEN m ELSE EnsureActivation(m, i - 1)]

ActivationBCI(c) ==
  LET m == Checked(Machine, c)
  IN  [answer |-> IF HasLivingFrame(m, c) THEN IpOf(m, LivingFrame(m, c)).bci ELSE m.acts[c].bci,
       then |-> m]

(* tempSize and tempAt: in the frame while it lives *)
TempsOf(m, c) == IF HasLivingFrame(m, c) THEN m.frames[LivingFrame(m, c)].temps ELSE m.acts[c].temps
ActivationTempSize(c) == Len(TempsOf(Checked(Machine, c), c))
ActivationTempAt(c, i) == TempsOf(Checked(Machine, c), c)[i]

ActivationSenderPut(c, s) ==
  Commit(Change(Machine, c, LAMBDA a : [a EXCEPT !.fp = 0, !.sender = s]))
ActivationBCIPut(c, b) ==
  Commit(Change(Machine, c, LAMBDA a : [a EXCEPT !.bci = b]))
ActivationMethodPut(c, method) ==
  Commit(Change(Machine, c, LAMBDA a : [a EXCEPT !.method = method]))
ActivationTempSizePut(c, n) ==
  Commit(Change(Machine, c, LAMBDA a :
    [a EXCEPT !.temps = [i \in 1..n |-> IF i <= Len(a.temps) THEN a.temps[i] ELSE Nil]]))

(* in the frame while it lives: FrameTempPut ends the process at a parameter *)
ActivationTempAtPut(c, i, v) ==
  LET m == Checked(Machine, c)
  IN  /\ i <= ActivationTempSize(c)
      /\ Commit(IF HasLivingFrame(m, c) THEN [m EXCEPT !.frames[LivingFrame(m, c)].temps[i] = v]
                ELSE [m EXCEPT !.acts[c].temps[i] = v])

Jump(c) ==
  /\ acts[c].bci # Nil
  /\ Commit(CreateBaseFrame(FlushAllFrames(Machine), c))

Acyclic(c, s) == s # Nil => c \notin C!Chain(s)
SameShape(method, c) == Arity[method] = Arity[acts[c].method] /\ NumTemps[method] = NumTemps[acts[c].method]

Reflection ==
  /\ Reflect
  /\ \/ CurrentActivation
     \/ \E c \in Ids :
          /\ Exists(c)
          /\ \/ Commit(ActivationSender(c).then)
             \/ Commit(ActivationBCI(c).then)
             \/ Commit(Checked(Machine, c))
             \/ \E s \in Ids \cup {Nil} : /\ s # Nil => Exists(s)
                                          /\ Acyclic(c, s) /\ ActivationSenderPut(c, s)
             \/ \E b \in 0..1 : /\ LiveContext(c) /\ (b = Nil => c # Current)
                                /\ ActivationBCIPut(c, b)
             \/ \E method \in Methods : SameShape(method, c) /\ ActivationMethodPut(c, method)
             \/ \E n \in 0..MaxDepth : /\ LiveContext(c) /\ n >= NumTemps[acts[c].method]
                                       /\ ActivationTempSizePut(c, n)
             \/ \E i \in 1..MaxDepth : /\ LiveContext(c) /\ i > Arity[acts[c].method]
                                       /\ ActivationTempAtPut(c, i, Value)
             \/ Jump(c)

Next ==
  \/ DispatchTurn \/ ReturnFromDispatch
  \/ \E method \in Methods : Send(method)
  \/ \E c \in 1..MaxClosures : ActivateClosure(c)
  \/ \E copied \in 0..1 : PushClosure(copied)
  \/ LocalReturn \/ NonLocalReturn \/ BackwardJump \/ Pop
  \/ Reflection

Spec == Init /\ [][Next]_vars

(* --- properties ------------------------------------------------------------ *)
(* Types; an activation with a living frame is that frame's own                *)
(* (EnsureActivation, CreateBaseFrame); and an ip points into the method of    *)
(* the frame that continues there, so that GCPrologue may convert it.          *)
TypeOK ==
  /\ Len(frames) <= MaxContexts /\ used \in 0..MaxContexts
  /\ \A i \in 1..Len(frames) :
       /\ frames[i].ctx \in 1..used
       /\ frames[i].baseSender \in Ids \cup {Nil}
       /\ frames[i].owned => acts[frames[i].ctx].exists /\ acts[frames[i].ctx].fp = frames[i].at
       /\ i > 1 => frames[i].at > frames[i - 1].at
       /\ IpOf(Machine, i).method = frames[i].method /\ IpOf(Machine, i).bci # Nil
  /\ \A c \in Ids : acts[c].exists => c <= used /\ (acts[c].fp # 0 => acts[c].sender = Nil)

(* The stack and the objects together are the contexts of Contexts.tla, and   *)
(* every step of the interpreter is one of theirs: flushing, rebuilding,       *)
(* collecting and finding out that a frame is gone cannot be noticed           *)
(* (interpreter.cc, against the simulator of Mirrors.ns).                      *)
ImplementsContexts == C!Spec

(* What class Activation answers about a context is true of it, whether it is  *)
(* a frame, an object, or an object whose frame is gone and which does not know *)
(* yet (ActivationSender, ActivationBCI, ActivationTempSize, ActivationTempAt).  *)
AnswersTrue ==
  \A c \in Ids : Exists(c) =>
    LET k == contexts[c]
    IN  /\ ActivationSender(c).answer = k.sender
        /\ ActivationBCI(c).answer = k.bci
        /\ LiveContext(c) => /\ ActivationTempSize(c) = Len(k.temps)
                             /\ \A i \in 1..Len(k.temps) : ActivationTempAt(c, i) = k.temps[i]

(* A return through blocks never silently crosses ensure: - an activation of   *)
(* ensure: that waits is over only by its own return, by a return from its own *)
(* blocks, or by the program's explicit change (NonLocalReturn, which sends    *)
(* aboutToReturn:through: instead).                                            *)
Skipped(c) ==
  /\ LiveContext(c) /\ contexts[c].method \in UnwindProtect
  /\ Current # c
  /\ frames[Len(frames)].closure # Nil => Home(frames[Len(frames)].closure) # c
  /\ ~LiveContext(c)'
  /\ reflections' = reflections
EnsureNotSkipped == [][\A c \in Ids : ~Skipped(c)]_vars

(* No frame is ever made of an activation whose sender is still the address of *)
(* a frame (the assertion of CreateBaseFrame).  It holds within one turn: after *)
(* ReturnFromDispatch an activation may keep a bci and an address although its  *)
(* frame is gone, and Activation_jump in a later turn takes it for suspended.   *)
SenderIsNoAddress == \A i \in 1..Len(frames) : frames[i].baseSender # NotActivation
=============================================================================
