------------------------------ MODULE Contexts ------------------------------
(* What the program is promised about activations: every method or closure   *)
(* that was activated has one heap object, its context, with a sender, a bci *)
(* (nil once it has returned) and temporaries, and one context runs.  It is   *)
(* the machine the image side simulates (Mirrors.ns, class Simulator; class   *)
(* Activation of KernelForPrimordialSoup.ns), with no stack at all.  The      *)
(* interpreter, which keeps most contexts as frames of a stack and makes      *)
(* objects of them when it has to, implements it: Activations.tla.            *)
EXTENDS Naturals, Sequences

CONSTANTS
  MaxContexts,          \* bound: contexts activated over a behaviour
  MaxClosures,          \* bound: closures created
  MaxBci,               \* bound: bytecode positions in a method
  MaxDepth,             \* bound: parameters, temporaries and operands of a context
  MaxTurns,             \* bound: turns dispatched
  Methods,              \* the methods a program sends
  Arity,                \* method -> number of parameters
  NumTemps,             \* method -> number of parameters and temporaries
  UnwindProtect,        \* methods marked as ensure: (primitive 162)
  SimulationRoot,       \* methods marked as a simulation's root (primitive 163)
  Dispatch, CannotReturn, AboutToReturn   \* the methods the VM itself activates

VARIABLES
  contexts,             \* id -> context
  current,              \* the context that runs; Nil between turns without one
  running,              \* a turn is on
  closures,             \* the closures created so far
  used,                 \* contexts activated so far
  turns                 \* turns dispatched so far

vars == <<contexts, current, running, closures, used, turns>>

Ids == 1..MaxContexts
Nil == 0
Value == 1              \* any argument, result or operand; Nil is the other value

Unused == [sender |-> Nil, bci |-> Nil, method |-> Dispatch, closure |-> Nil, temps |-> <<>>]

Dead(c) == contexts[c].bci = Nil

(* a context that has returned: nothing is promised of its temporaries *)
Terminated(k) == [k EXCEPT !.sender = Nil, !.bci = Nil, !.temps = <<>>]

(* what a method's context holds when it starts *)
FirstTemps(method) ==
  [i \in 1..NumTemps[method] |-> IF i <= Arity[method] THEN Value ELSE Nil]

MethodContext(method, sender) ==
  [sender |-> sender, bci |-> 1, method |-> method, closure |-> Nil, temps |-> FirstTemps(method)]

(* the sender chain above c, c included; nil ends it *)
Chain(c) ==
  LET up[n \in 0..MaxContexts] ==
        IF n = 0 THEN c ELSE IF up[n - 1] = Nil THEN Nil ELSE contexts[up[n - 1]].sender
  IN  {up[n] : n \in 0..MaxContexts} \ {Nil}

(* the position of c on the chain above the current context; 0 if not on it *)
Above(c) ==
  LET up[n \in 0..MaxContexts] ==
        IF n = 0 THEN current ELSE IF up[n - 1] = Nil THEN Nil ELSE contexts[up[n - 1]].sender
      at == {n \in 1..MaxContexts : up[n] = c}
  IN  IF at = {} THEN 0 ELSE CHOOSE n \in at : \A k \in at : n <= k

(* the method activation that lexically encloses c *)
Home(c) ==
  LET out[n \in 0..MaxClosures] ==
        IF n = 0 THEN c
        ELSE IF contexts[out[n - 1]].closure = Nil THEN out[n - 1]
        ELSE closures[contexts[out[n - 1]].closure].definer
  IN  out[MaxClosures]

(* the last position of a method stands for a loop *)
NextBci(b) == IF b < MaxBci THEN b + 1 ELSE b

(* `from' calls: it continues behind the call when `callee' returns *)
Call(ks, from, callee) ==
  [ks EXCEPT ![used + 1] = callee, ![from].bci = NextBci(@)]

Start(ks) == contexts' = ks /\ used' = used + 1 /\ current' = used + 1

CanStart == running /\ current # Nil /\ used < MaxContexts

Init ==
  /\ contexts = [c \in Ids |-> Unused]
  /\ current = Nil /\ running = FALSE /\ closures = <<>> /\ used = 0 /\ turns = 0

DispatchTurn ==
  /\ ~running /\ turns < MaxTurns /\ used < MaxContexts
  /\ Start([contexts EXCEPT ![used + 1] = MethodContext(Dispatch, current)])
  /\ running' = TRUE /\ turns' = turns + 1
  /\ UNCHANGED closures

FinishTurn ==
  /\ running /\ contexts[current].method = Dispatch
  /\ contexts[current].sender # Nil => ~Dead(contexts[current].sender)
  /\ running' = FALSE
  /\ current' = contexts[current].sender
  /\ contexts' = [contexts EXCEPT ![current] = Terminated(@)]
  /\ UNCHANGED <<closures, used, turns>>

Send(method) ==
  /\ CanStart
  /\ Len(contexts[current].temps) < MaxDepth
  /\ Start(Call(contexts, current, MethodContext(method, current)))
  /\ UNCHANGED <<running, closures, turns>>

ValueClosure(c) ==
  /\ CanStart
  /\ c \in 1..Len(closures)
  /\ Len(contexts[current].temps) < MaxDepth
  /\ Start(Call(contexts, current,
       [sender |-> current, bci |-> closures[c].bci, closure |-> c,
        method |-> contexts[closures[c].definer].method, temps |-> closures[c].copied]))
  /\ UNCHANGED <<running, closures, turns>>

(* a closure over the current context that copies its top operand or nothing *)
PushClosure(copied) ==
  LET k == contexts[current]
      rest == Len(k.temps) - copied
  IN  /\ running /\ current # Nil
      /\ Len(closures) < MaxClosures
      /\ rest >= NumTemps[k.method] /\ rest < MaxDepth
      /\ closures' = Append(closures,
           [definer |-> current, bci |-> k.bci, copied |-> SubSeq(k.temps, rest + 1, Len(k.temps))])
      /\ contexts' = [contexts EXCEPT ![current].bci = NextBci(@),
                                      ![current].temps = Append(SubSeq(k.temps, 1, rest), Value)]
      /\ UNCHANGED <<current, running, used, turns>>

(* cannotReturn: and aboutToReturn:through: are sent to the current context *)
Complain(method) ==
  /\ CanStart
  /\ Start([contexts EXCEPT ![used + 1] = MethodContext(method, current)])

(* the contexts in `dying' are over and `target' gets the result *)
Resume(dying, target) ==
  /\ Len(contexts[target].temps) < MaxDepth
  /\ contexts' = [c \in Ids |->
       IF c \in dying THEN Terminated(contexts[c])
       ELSE IF c = target THEN [contexts[c] EXCEPT !.temps = Append(@, Value)]
       ELSE contexts[c]]
  /\ current' = target
  /\ UNCHANGED used

LocalReturn ==
  /\ running /\ current # Nil
  /\ LET sender == contexts[current].sender
     IN  IF sender = Nil \/ Dead(sender)
         THEN Complain(CannotReturn)
         ELSE Resume({current}, sender)
  /\ UNCHANGED <<running, closures, turns>>

(* the contexts a return to the home's sender leaves on its way *)
Between(home) == {c \in Ids : Above(c) \in 1..(Above(home) - 1)}

Blocking(c) == contexts[c].method \in UnwindProtect \cup SimulationRoot

NonLocalReturn ==
  /\ running /\ current # Nil
  /\ contexts[current].closure # Nil
  /\ LET home == Home(current)
         crossed == IF Above(home) = 0 THEN Chain(current) \ {current} ELSE Between(home)
         blocks == {c \in crossed : Blocking(c)}
         first == CHOOSE c \in blocks : \A d \in blocks : Above(c) <= Above(d)
         sender == contexts[home].sender
     IN  IF blocks # {}
         THEN Complain(IF contexts[first].method \in UnwindProtect THEN AboutToReturn ELSE CannotReturn)
         ELSE IF Above(home) = 0 \/ sender = Nil \/ Dead(sender)
         THEN Complain(CannotReturn)
         ELSE Resume({current, home} \cup Between(home), sender)
  /\ UNCHANGED <<running, closures, turns>>

Pop ==
  LET k == contexts[current]
  IN  /\ running /\ current # Nil
      /\ Len(k.temps) > NumTemps[k.method] /\ k.closure = Nil
      /\ contexts' = [contexts EXCEPT ![current].temps = SubSeq(k.temps, 1, Len(k.temps) - 1)]
      /\ UNCHANGED <<current, running, closures, used, turns>>

(* --- what the program does to contexts through class Activation ----------- *)
SetSender(c, s) ==
  /\ running
  /\ c \in 1..used /\ s \in 0..used
  /\ s # Nil => c \notin Chain(s)              \* senders never form a cycle
  /\ contexts' = [contexts EXCEPT ![c].sender = s]
  /\ UNCHANGED <<current, running, closures, used, turns>>

SetBci(c, b) ==
  /\ running
  /\ c \in 1..used /\ ~Dead(c) /\ b \in 0..MaxBci
  /\ b = Nil => c # current                    \* the running context stays alive
  /\ contexts' = [contexts EXCEPT ![c].bci = b,
                                  ![c].temps = IF b = Nil THEN <<>> ELSE @]
  /\ UNCHANGED <<current, running, closures, used, turns>>

SetMethod(c, method) ==
  /\ running
  /\ c \in 1..used
  /\ contexts' = [contexts EXCEPT ![c].method = method]
  /\ UNCHANGED <<current, running, closures, used, turns>>

SetTemp(c, i, v) ==
  /\ running
  /\ c \in 1..used /\ ~Dead(c) /\ i \in 1..Len(contexts[c].temps)
  /\ contexts' = [contexts EXCEPT ![c].temps[i] = v]
  /\ UNCHANGED <<current, running, closures, used, turns>>

SetSize(c, n) ==
  LET old == contexts[c].temps
  IN  /\ running
      /\ c \in 1..used /\ ~Dead(c) /\ n \in 0..MaxDepth
      /\ contexts' = [contexts EXCEPT ![c].temps =
                        [i \in 1..n |-> IF i <= Len(old) THEN old[i] ELSE Nil]]
      /\ UNCHANGED <<current, running, closures, used, turns>>

Jump(c) ==
  /\ running
  /\ c \in 1..used /\ ~Dead(c)
  /\ current' = c
  /\ UNCHANGED <<contexts, running, closures, used, turns>>

Next ==
  \/ DispatchTurn \/ FinishTurn
  \/ \E method \in Methods : Send(method)
  \/ \E c \in 1..MaxClosures : ValueClosure(c)
  \/ \E copied \in 0..1 : PushClosure(copied)
  \/ LocalReturn \/ NonLocalReturn \/ Pop
  \/ \E c \in Ids : \/ \E s \in 0..MaxContexts : SetSender(c, s)
                    \/ \E b \in 0..MaxBci : SetBci(c, b)
                    \/ \E method \in Methods : SetMethod(c, method)
                    \/ \E i \in 1..MaxDepth, v \in {Nil, Value} : SetTemp(c, i, v)
                    \/ \E n \in 0..MaxDepth : SetSize(c, n)
                    \/ Jump(c)

Spec == Init /\ [][Next]_vars
=============================================================================
