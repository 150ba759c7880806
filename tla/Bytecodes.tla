------------------------------- MODULE Bytecodes -------------------------------
(* One method from its compilation to its execution: the code generator of        *)
(* Newspeak2PrimordialSoupCompilation.ns writes bytes, keeps count of the operand *)
(* stack and patches jumps; Interpreter::Interpret reads the bytes again.  The    *)
(* two have nothing in common but the bytes.                                      *)
(*                                                                                *)
(* The compiler's walk over a syntax tree is any sequence of its visits: leaves   *)
(* whose operands are there, and conditionals, loops and closures, which nest.    *)
(* What the interpreter's stack holds is not modelled, only how much.             *)
EXTENDS Integers, Sequences, SequencesExt

CONSTANTS
    Arities,        \* numbers of arguments of the method
    ClosureArities, \* numbers of arguments and of copied values of its closures
    Copies,
    Temporaries,    \* numbers of temporaries of the method, and of a closure
    Operands,       \* operands at and around the limits of the encodings
    Lengths,        \* of straight-line code that jumps go over, in statements
    LeafCost,       \* bound: what an instruction with such operands counts for, and
    LengthCost,     \* such straight-line code,
    MaxVisits,      \* among the compiler's visits to the nodes of one method
    HandlersResume, \* whether handlers of NonBooleanReceiver resume it
    kMaxTemps       \* the values an Activation has room for

VARIABLES
    cgen,      \* the CodeGenerator: its code, its counts, and a listing of what was
               \* written where, for which body and at which depth
    open,      \* the nodes being visited, innermost last
    visits,
    maxStack,  \* the size of activation that close asks for; 0 before
    frame,     \* the running activation's ip_, arguments and FrameNumLocals
    closures   \* those created and not yet activated
vars == <<cgen, open, visits, maxStack, frame, closures>>

Largest(m, n) == IF m >= n THEN m ELSE n

-----------------------------------------------------------------------------
(* CodeGeneratorV5: one operator per instruction, with the bytes, the operands it *)
(* takes off and puts on the stack, and what it is meant to do.                   *)

Instruction(bytes, pops, pushes, does) ==
    [bytes |-> bytes, pops |-> pops, pushes |-> pushes, does |-> does]

Short(n) == <<n % 256, n \div 256>>
WithSelector(index, numArgs) == <<index % 256, (index \div 256) + 16 * numArgs>>
HasShortForm(index, numArgs) == index <= 7 /\ numArgs <= 1

specialSelectors == [s \in 0..31 |-> 176 + s]
specialArity == <<1, 1, 1, 1, 1, 1, 1, 1, 1, 1, 1, 1, 1, 1, 0, 1, 1, 2, 0, 0, 1, 2, 0, 1,
                  1, 0, 0, 1, 1, 1, 0, 0>>

pushNil == Instruction(<<152>>, 0, 1, <<"Push", "nil">>)
pushBoolean(b) == Instruction(<<IF b = "true" THEN 154 ELSE 153>>, 0, 1, <<"Push", b>>)
pushSelf == Instruction(<<155>>, 0, 1, <<"PushReceiver">>)
pushMixin == Instruction(<<156>>, 0, 1, <<"PushMixin">>)
pop == Instruction(<<158>>, 1, 0, <<"Pop">>)
dup == Instruction(<<159>>, 0, 1, <<"Dup">>)

pushLiteral(index) ==
    Instruction(IF index < 8 THEN <<144 + index>> ELSE <<248>> \o Short(index),
                0, 1, <<"PushLiteral", index>>)
pushInteger(n) ==
    Instruction(IF n \in -1..2 THEN <<161 + n>>
                ELSE <<249, n % 256, (n \div 256) % 256>>,
                0, 1, <<"PushInteger", n>>)
pushEnclosingObject(depth) ==
    IF depth = 0 THEN pushSelf
    ELSE Instruction(<<233, depth>>, 0, 1, <<"PushEnclosingObject", depth>>)

pushParameter(offset) == IF offset <= 7 THEN <<112 + offset>> ELSE <<228, offset>>
pushLocal(offset) == IF offset <= 7 THEN <<120 + offset>> ELSE <<229, offset>>
popIntoLocal(offset) == IF offset <= 7 THEN <<128 + offset>> ELSE <<230, offset>>
storeIntoLocal(offset) == IF offset <= 7 THEN <<136 + offset>> ELSE <<231, offset>>
pushTemporary(index, currentArgs) ==
    Instruction(IF index < currentArgs THEN pushParameter(currentArgs - index)
                ELSE pushLocal(index - currentArgs),
                0, 1, <<"PushTemp", index>>)
popIntoTemporary(index, currentArgs) ==
    Instruction(popIntoLocal(index - currentArgs), 1, 0, <<"PopIntoTemp", index>>)
storeIntoTemporary(index, currentArgs) ==
    Instruction(storeIntoLocal(index - currentArgs), 0, 0, <<"StoreIntoTemp", index>>)
pushRemoteTemporary(index, vector, currentArgs) ==
    Instruction(<<245, index, vector - currentArgs>>, 0, 1, <<"PushRemote", index, vector>>)
popIntoRemoteTemporary(index, vector, currentArgs) ==
    Instruction(<<246, index, vector - currentArgs>>, 1, 0, <<"PopIntoRemote", index, vector>>)
storeIntoRemoteTemporary(index, vector, currentArgs) ==
    Instruction(<<247, index, vector - currentArgs>>, 0, 0, <<"StoreIntoRemote", index, vector>>)

createEmptyArray(size) == Instruction(<<222, size>>, 0, 1, <<"PushNewArray", size>>)
(* mutant: the depth does not go back by the elements *)
createFullArrayOnTop(size) ==
    Instruction(<<223, size>>, 0, 1, <<"PushNewArrayWithElements", size>>)
createFullArray(size) == Instruction(<<223, size>>, size, 1, <<"PushNewArrayWithElements", size>>)

commonSend(s) ==
    Instruction(<<specialSelectors[s]>>, specialArity[s + 1] + 1, 1, <<"CommonSend", s>>)
ordinarySend(index, numArgs) ==
    Instruction(IF HasShortForm(index, numArgs) THEN <<64 + 8 * numArgs + index>>
                ELSE <<250>> \o WithSelector(index, numArgs),
                numArgs + 1, 1, <<"OrdinarySend", index, numArgs>>)
selfSend(index, numArgs) ==
    Instruction(IF HasShortForm(index, numArgs) THEN <<80 + 8 * numArgs + index>>
                ELSE <<251>> \o WithSelector(index, numArgs),
                numArgs, 1, <<"SelfSend", index, numArgs>>)
implicitReceiverSend(index, numArgs) ==
    Instruction(IF HasShortForm(index, numArgs) THEN <<96 + 8 * numArgs + index>>
                ELSE <<253>> \o WithSelector(index, numArgs),
                numArgs, 1, <<"ImplicitReceiverSend", index, numArgs>>)
superSend(index, numArgs) ==
    Instruction(<<252>> \o WithSelector(index, numArgs), numArgs, 1,
                <<"SuperSend", index, numArgs>>)
outerSend(index, numArgs, depth) ==
    Instruction(<<254>> \o WithSelector(index, numArgs) \o <<depth>>, numArgs, 1,
                <<"OuterSend", index, numArgs, depth>>)
eventualSend(index, numArgs) ==
    Instruction(<<239>> \o WithSelector(index, numArgs), numArgs + 1, 1,
                <<"EventualSend", index, numArgs>>)

Result == {"nil", "false", "true", "self", "top"}
returnLocal(value) ==
    Instruction(<<CASE value = "nil" -> 166 [] value = "false" -> 167
                    [] value = "true" -> 168 [] value = "self" -> 169 [] value = "top" -> 170>>,
                IF value = "top" THEN 1 ELSE 0, 0, <<"LocalReturn", value>>)
returnNonLocal(value) ==
    Instruction(<<CASE value = "nil" -> 171 [] value = "false" -> 172
                    [] value = "true" -> 173 [] value = "self" -> 174 [] value = "top" -> 175>>,
                IF value = "top" THEN 1 ELSE 0, 0, <<"NonLocalReturn", value>>)

\* Forward jumps are written with a distance of 0 and patched.
jumpBy(distance) == Instruction(<<241>> \o Short(distance), 0, 0, <<"Jump", 0>>)
jumpIf(bool, distance) ==
    Instruction(<<IF bool = "true" THEN 242 ELSE 243>> \o Short(distance), 1, 0,
                <<"Branch", bool, 0>>)
(* mutant: the distance does not include the bytes of the jump itself *)
jumpBackFromOpcode(target, bci) ==
    LET distance == bci - target
    IN Instruction(IF distance \in 0..14 THEN <<1 + distance>> ELSE <<240>> \o Short(distance),
                   0, 0, <<"Jump", target>>)
jumpBackTo(target, bci) ==
    LET distance == bci - target
    IN Instruction(IF distance \in 0..14 THEN <<1 + distance>>
                   ELSE <<240>> \o Short(distance + 3),
                   0, 0, <<"Jump", target>>)
createClosureOfArity(numArgs, numCopied, length) ==
    Instruction(<<255, 16 * numCopied + numArgs>> \o Short(length), numCopied, 1,
                <<"PushClosure", numCopied, numArgs, 0>>)

-----------------------------------------------------------------------------
(* The code generator's state. *)

Bci(g) == Len(g.code) + 1

\* decrementStackDepthBy:, incrementStackDepthBy: and the bytes; check: refuses
\* an operand that is out of range, as the bytecode array does any that is no byte.
Emit(g, instruction) ==
    LET depth == g.currentStackDepth - instruction.pops + instruction.pushes
    IN [g EXCEPT !.code = @ \o instruction.bytes,
                 !.currentStackDepth = depth,
                 !.maxStackDepth = IF instruction.pushes = 0 THEN @ ELSE Largest(@, depth),
                 !.returned = instruction.does[1] \in {"LocalReturn", "NonLocalReturn"},
                 !.listing = Append(@, [bci |-> Bci(g), does |-> instruction.does,
                                        depth |-> g.currentStackDepth, body |-> g.body])]
EmitAll(g, instructions) == FoldLeft(Emit, g, instructions)
\* The same n times, none of which leaves less on the stack than it found.
EmitTimes(g, n, instructions) ==
    LET once == EmitAll([g EXCEPT !.maxStackDepth = 0], instructions)
        code == SubSeq(once.code, Bci(g), Len(once.code))
        lines == SubSeq(once.listing, Len(g.listing) + 1, Len(once.listing))
        grows == once.currentStackDepth - g.currentStackDepth
        Line(k, round) == [lines[k] EXCEPT !.bci = @ + round * Len(code), !.depth = @ + round * grows]
    IN IF n = 0 THEN g ELSE
       [once EXCEPT
            !.code = g.code \o [k \in 1..(n * Len(code)) |-> code[1 + ((k - 1) % Len(code))]],
            !.listing = g.listing \o [k \in 1..(n * Len(lines)) |->
                            Line(1 + ((k - 1) % Len(lines)), (k - 1) \div Len(lines))],
            !.currentStackDepth = g.currentStackDepth + n * grows,
            !.maxStackDepth = Largest(g.maxStackDepth, @ + (n - 1) * grows)]
Encodable(instruction) == \A i \in 1..Len(instruction.bytes) : instruction.bytes[i] \in 0..255

\* In the listing a patched jump's target, its last operand, is the bci reached.
Patch(g, at, jumpBci, distance) ==
    LET Retarget(does) == [does EXCEPT ![Len(does)] = jumpBci + distance]
    IN [g EXCEPT !.code[jumpBci - 2] = distance % 256,
                 !.code[jumpBci - 1] = distance \div 256,
                 !.returned = FALSE,
                 !.listing = [i \in DOMAIN @ |->
                    IF @[i].bci = at THEN [@[i] EXCEPT !.does = Retarget(@)] ELSE @[i]]]
patchJumpAt(g, jumpBci, distance) == Patch(g, jumpBci - 3, jumpBci, distance)
patchJumpIfAt(g, jumpBci, distance) == Patch(g, jumpBci - 3, jumpBci, distance)
patchClosureJumpAt(g, blockBci, distance) == Patch(g, blockBci - 4, blockBci, distance)

\* argCount:, and addLocalVar: for each of the method's own variables.
Fresh(numArgs, numTemps) ==
    [code |-> <<>>, currentStackDepth |-> 0, maxStackDepth |-> 0, currentArgs |-> numArgs,
     maxLocals |-> numArgs + numTemps, maxClosureContextSize |-> 0, listing |-> <<>>,
     returned |-> FALSE,      \* the statement just visited was a return
     body |-> 1, temps |-> numArgs + numTemps,
     bodies |-> <<[args |-> numArgs, copied |-> 0, depth |-> 0]>>]

-----------------------------------------------------------------------------
(* The compiler's visits. *)

Start == IF open = <<>> THEN 0 ELSE Last(open).depth
Operand == cgen.currentStackDepth - Start      \* values of the innermost node on the stack
InClosure == cgen.body > 1
Locals == cgen.currentArgs..(cgen.temps - 1)    \* those that can be stored into

Room(cost) == maxStack = 0 /\ visits + cost <= MaxVisits
Visit(g, nodes, cost) ==
    /\ Room(cost)
    /\ visits' = visits + cost
    /\ cgen' = g /\ open' = nodes
    /\ UNCHANGED <<maxStack, frame, closures>>

\* The few instructions of which most methods here are made; of the temporaries they
\* name the first parameter and the last local, the farthest from the frame.
Few ==
    {pushSelf, dup, pop, ordinarySend(0, 0), selfSend(1, 1), eventualSend(2, 0)}
    \cup {pushTemporary(i, cgen.currentArgs) : i \in {0, cgen.temps - 1} \cap Nat}
    \cup {popIntoTemporary(i, cgen.currentArgs) : i \in {cgen.temps - 1} \cap Locals}

\* receiverNode:, localReadNode:, popAndStoreInto:, the sends and so on, one by one.
LeafNode ==
    /\ Room(1) /\ ~cgen.returned
    /\ \E i \in Few :
        /\ Operand >= i.pops
        /\ i = dup => Operand >= 1
        /\ Visit(Emit(cgen, i), open, 1)

\* Every instruction at and around the limits of its operands; what it needs on
\* the stack is pushed for it, as the arguments of a send are.
Encoded(operand) ==
    {pushNil, pushBoolean("true"), pushBoolean("false"), pushMixin}
    \cup {pushLiteral(i) : i \in operand.literals}
    \cup {pushInteger(n) : n \in operand.integers}
    \cup {pushEnclosingObject(d) : d \in operand.depths \cap 0..127}
    \cup {createEmptyArray(n) : n \in operand.sizes} \cup {createFullArray(n) : n \in operand.sizes}
    \cup {commonSend(s) : s \in DOMAIN specialSelectors}
    \cup UNION {{ordinarySend(i, n), selfSend(i, n), implicitReceiverSend(i, n), superSend(i, n),
                 eventualSend(i, n)} : i \in operand.selectors, n \in operand.arguments}
    \cup {outerSend(i, n, d) :
            i \in operand.selectors, n \in operand.arguments, d \in operand.depths}
    \cup UNION {{pushRemoteTemporary(i, v, cgen.currentArgs), popIntoRemoteTemporary(i, v, cgen.currentArgs),
                 storeIntoRemoteTemporary(i, v, cgen.currentArgs)} :
                    i \in operand.sizes, v \in Locals}
    \cup {pushTemporary(i, cgen.currentArgs) : i \in 0..(cgen.temps - 1)}
    \cup UNION {{popIntoTemporary(i, cgen.currentArgs), storeIntoTemporary(i, cgen.currentArgs)} : i \in Locals}
ValueNode ==
    /\ Room(LeafCost) /\ ~cgen.returned
    /\ \E i \in Encoded(Operands) :
        LET needed == IF i.does[1] \in {"StoreIntoRemote", "StoreIntoTemp"} THEN 1 ELSE i.pops
        IN /\ Encodable(i)
           /\ Visit(Emit(EmitTimes(cgen, needed, <<pushSelf>>), i), open, LeafCost)

\* The statements of a branch or a body: n values computed for effect, by an
\* instruction of one byte or of three.
Statements ==
    /\ Room(LengthCost) /\ ~cgen.returned
    /\ open # <<>> /\ Last(open).node # "condition" /\ Operand = 0
    /\ \E n \in Lengths, value \in {pushSelf, pushInteger(256)} :
        Visit(EmitTimes(cgen, n, <<value, pop>>), open, LengthCost)

\* localReturnNode: in a method, and in a closure blockLocalReturnNode:, which ends
\* it, or nonLocalReturnNode:.  Where a value is expected of the return itself,
\* the depth is counted as though there were one, but not for the short returns.
ReturnCost(value) == IF value \in {"self", "top"} THEN 0 ELSE LeafCost
ReturnNode ==
    /\ Room(0) /\ ~cgen.returned
    /\ \E value \in Result, valueExpected \in BOOLEAN :
        LET here == IF ~InClosure THEN returnLocal(value)
                    ELSE IF Last(open).node = "closure" THEN returnLocal(value) ELSE returnNonLocal(value)
            g == Emit(cgen, here)
        IN /\ Operand = IF value = "top" THEN 1 ELSE 0
           /\ valueExpected => value = "top" /\ open # <<>> /\ Last(open).node \in {"then", "else"}
           /\ Visit(IF valueExpected
                    THEN [g EXCEPT !.currentStackDepth = @ + 1, !.maxStackDepth = Largest(@, g.currentStackDepth + 1)]
                    ELSE g, open, ReturnCost(value))
NonLocalReturnNode ==
    \E value \in Result :
        /\ InClosure /\ Last(open).node = "closure"
        /\ ~cgen.returned /\ Operand = IF value = "top" THEN 1 ELSE 0
        /\ Visit(Emit(cgen, returnNonLocal(value)), open, ReturnCost(value))

\* conditionalNode: up to the jump over its first branch
BeginConditional ==
    \E ifTrue \in {"true", "false"} :
        LET g == Emit(cgen, jumpIf(IF ifTrue = "true" THEN "false" ELSE "true", 0))
        IN /\ Operand >= 1 /\ ~cgen.returned
           /\ Visit(g, Append(open, [node |-> "then", depth |-> g.currentStackDepth, ifPos |-> Bci(g)]), 1)

\* "jump to end (but needs patching)"; the depth the listing has of the jump is that
\* of the branch it ends, which the compiler has just reset.
ElseBranch ==
    LET then == Last(open)
        g == [Emit(cgen, jumpBy(0)) EXCEPT !.currentStackDepth = then.depth]
    IN /\ open # <<>> /\ then.node = "then"
       /\ Operand \in {0, 1}
       /\ Visit(g, Append(Front(open), [node |-> "else", depth |-> then.depth, ifPos |-> then.ifPos,
                                        endThen |-> Bci(g), values |-> Operand]), 0)

\* A conditional with one branch is only visited for effect; the two branches of
\* another leave as many values (unbalancedStack).
EndConditional ==
    LET node == Last(open)
    IN /\ open # <<>>
       /\ \/ node.node = "then" /\ Operand = 0
             /\ Visit(patchJumpIfAt(cgen, node.ifPos, Bci(cgen) - node.ifPos), Front(open), 0)
          \/ node.node = "else" /\ Operand = node.values
             /\ Visit(patchJumpIfAt(patchJumpAt(cgen, node.endThen, Bci(cgen) - node.endThen),
                                    node.ifPos, node.endThen - node.ifPos), Front(open), 0)

\* loopNode: up to the condition, from there to the body, and the rest
BeginLoop ==
    /\ ~cgen.returned
    /\ Visit(cgen, Append(open, [node |-> "condition", depth |-> cgen.currentStackDepth,
                                 topOfLoop |-> Bci(cgen)]), 1)
LoopBody ==
    \E isWhileTrue \in {"true", "false"} :
        LET node == Last(open)
            g == Emit(cgen, jumpIf(IF isWhileTrue = "true" THEN "false" ELSE "true", 0))
        IN /\ open # <<>> /\ node.node = "condition" /\ Operand = 1 /\ ~cgen.returned
           /\ Visit(g, Append(Front(open), [node |-> "loop", depth |-> node.depth,
                                            topOfLoop |-> node.topOfLoop, whilePos |-> Bci(g)]), 0)
EndLoop ==
    \E valueExpected \in BOOLEAN :
        LET node == Last(open)
            g == Emit(cgen, jumpBackTo(node.topOfLoop, Bci(cgen)))
            looped == patchJumpIfAt(g, node.whilePos, Bci(g) - node.whilePos)
        IN /\ open # <<>> /\ node.node = "loop" /\ Operand = 0
           /\ Visit(IF valueExpected THEN Emit(looped, pushNil) ELSE looped, Front(open), 0)

\* closureNode: what it copies, the closure, and the nils its body starts with
BeginClosure ==
    /\ Room(2) /\ ~cgen.returned
    /\ \E numArgs \in ClosureArities, numCopied \in Copies, pushNilCount \in Temporaries :
        LET copied == [k \in 1..numCopied |-> pushTemporary(0, cgen.currentArgs)]
            outer == EmitAll(cgen, Append(copied, createClosureOfArity(numArgs, numCopied, 0)))
            index == Len(cgen.bodies) + 1
            inner == EmitAll([outer EXCEPT
                        !.maxStackDepth = 0, !.currentArgs = numArgs, !.body = index,
                        !.temps = numArgs + numCopied + pushNilCount,
                        !.maxLocals = Largest(@, numArgs + numCopied + pushNilCount),
                        !.bodies = Append(@, [args |-> numArgs, copied |-> numCopied,
                                              depth |-> outer.currentStackDepth])],
                        [k \in 1..pushNilCount |-> pushNil])
        IN /\ numCopied > 0 => cgen.temps > 0
           /\ Visit(inner, Append(open, [node |-> "closure", depth |-> inner.currentStackDepth,
                blockPos |-> Bci(outer), saved |-> outer]), 2)
EndClosure ==
    LET node == Last(open)
        body == cgen.bodies[cgen.body]
    IN /\ open # <<>> /\ node.node = "closure" /\ cgen.returned
       /\ Visit(patchClosureJumpAt(
            [cgen EXCEPT !.maxClosureContextSize =
                            Largest(@, body.args + body.copied + cgen.maxStackDepth),
                         !.currentStackDepth = node.saved.currentStackDepth,
                         !.maxStackDepth = node.saved.maxStackDepth,
                         !.currentArgs = node.saved.currentArgs,
                         !.temps = node.saved.temps, !.body = node.saved.body],
            node.blockPos, Bci(cgen) - node.blockPos), Front(open), 0)

NoFrame == [ip |-> 0, args |-> 0, locals |-> 0]

\* close, and the first activation of the method
Close ==
    LET g == cgen
        methodContextSize == g.maxStackDepth + g.currentArgs + g.maxLocals
    IN /\ maxStack = 0 /\ open = <<>> /\ g.returned
       /\ maxStack' = Largest(methodContextSize, g.maxClosureContextSize)
       /\ frame' = [ip |-> 1, args |-> g.currentArgs, locals |-> g.maxLocals - g.currentArgs]
       /\ UNCHANGED <<cgen, open, visits, closures>>

-----------------------------------------------------------------------------
(* Interpreter::Interpret.  Each group of bytecodes answers what it does, in the  *)
(* terms of the listing, and where the next instruction starts.                   *)

Byte(n) == cgen.code[frame.ip + n]
byte1 == Byte(0)
byte2 == Byte(1)
byte3 == Byte(2)
byte4 == Byte(3)
Does(next, does) == [next |-> next, does |-> does]

\* FrameTemp numbers parameters and locals as the compiler does; FrameParameter
\* counts back from the frame's saved ip.
TempOfParameter(index) == frame.args - index
TempOfLocal(index) == frame.args + index

\* After the operands have been read, forward or back, from there.
ShortBranch ==
    LET ip == frame.ip + 1
        distance == byte1 % 16
    IN CASE byte1 \in 0..15  -> Does(ip, <<"Jump", ip - distance>>)
         [] byte1 \in 16..31 -> Does(ip, <<"Jump", ip + distance>>)
         [] byte1 \in 32..47 -> Does(ip, <<"Branch", "true", ip + distance>>)
         [] byte1 \in 48..63 -> Does(ip, <<"Branch", "false", ip + distance>>)
LongBranch ==
    LET ip == frame.ip + 3
        delta == byte3 * 256 + byte2
    IN CASE byte1 = 240 -> Does(ip, <<"Jump", ip - delta>>)
         [] byte1 = 241 -> Does(ip, <<"Jump", ip + delta>>)
         [] byte1 = 242 -> Does(ip, <<"Branch", "true", ip + delta>>)
         [] byte1 = 243 -> Does(ip, <<"Branch", "false", ip + delta>>)

ShortSend ==
    LET kind == IF byte1 < 80 THEN "OrdinarySend"
                ELSE IF byte1 < 96 THEN "SelfSend" ELSE "ImplicitReceiverSend"
    IN Does(frame.ip + 1, <<kind, byte1 % 8, (byte1 \div 8) % 2>>)
LongSend ==
    LET num_args == byte3 \div 16
        selector_index == (byte3 % 16) * 256 + byte2
        Kind(byte) == CASE byte = 239 -> "EventualSend" [] byte = 250 -> "OrdinarySend"
                        [] byte = 251 -> "SelfSend" [] byte = 252 -> "SuperSend"
                        [] byte = 253 -> "ImplicitReceiverSend"
    IN IF byte1 = 254
       THEN Does(frame.ip + 4, <<"OuterSend", selector_index, num_args, byte4>>)
       ELSE Does(frame.ip + 3, <<Kind(byte1), selector_index, num_args>>)
CommonSend == Does(frame.ip + 1, <<"CommonSend", byte1 - 176>>)

ShortVariable ==
    LET index == byte1 % 8
        ip == frame.ip + 1
    IN CASE byte1 \in 112..119 -> Does(ip, <<"PushTemp", TempOfParameter(index)>>)
         [] byte1 \in 120..127 -> Does(ip, <<"PushTemp", TempOfLocal(index)>>)
         [] byte1 \in 128..135 -> Does(ip, <<"PopIntoTemp", TempOfLocal(index)>>)
         [] byte1 \in 136..143 -> Does(ip, <<"StoreIntoTemp", TempOfLocal(index)>>)
         [] byte1 \in 144..151 -> Does(ip, <<"PushLiteral", index>>)
LongVariable ==
    LET ip == frame.ip + 2
    IN CASE byte1 = 222 -> Does(ip, <<"PushNewArray", byte2>>)
         [] byte1 = 223 -> Does(ip, <<"PushNewArrayWithElements", byte2>>)
         [] byte1 = 228 -> Does(ip, <<"PushTemp", TempOfParameter(byte2)>>)
         [] byte1 = 229 -> Does(ip, <<"PushTemp", TempOfLocal(byte2)>>)
         [] byte1 = 230 -> Does(ip, <<"PopIntoTemp", TempOfLocal(byte2)>>)
         [] byte1 = 231 -> Does(ip, <<"StoreIntoTemp", TempOfLocal(byte2)>>)
         [] byte1 = 233 -> Does(ip, <<"PushEnclosingObject", byte2>>)
RemoteVariable ==
    LET kind == CASE byte1 = 245 -> "PushRemote" [] byte1 = 246 -> "PopIntoRemote"
                  [] byte1 = 247 -> "StoreIntoRemote"
    IN Does(frame.ip + 3, <<kind, byte2, TempOfLocal(byte3)>>)
Literal ==
    LET signed == IF byte3 >= 128 THEN byte3 - 256 ELSE byte3       \* static_cast<int8_t>
    IN Does(frame.ip + 3, IF byte1 = 248 THEN <<"PushLiteral", byte3 * 256 + byte2>>
                          ELSE <<"PushInteger", signed * 256 + byte2>>)
Constant ==
    LET ip == frame.ip + 1
    IN CASE byte1 = 152 -> Does(ip, <<"Push", "nil">>)
         [] byte1 = 153 -> Does(ip, <<"Push", "false">>)
         [] byte1 = 154 -> Does(ip, <<"Push", "true">>)
         [] byte1 = 155 -> Does(ip, <<"PushReceiver">>)
         [] byte1 = 156 -> Does(ip, <<"PushMixin">>)
         [] byte1 = 158 -> Does(ip, <<"Pop">>)
         [] byte1 = 159 -> Does(ip, <<"Dup">>)
         [] byte1 \in 160..163 -> Does(ip, <<"PushInteger", byte1 - 161>>)
Return ==
    LET value == <<"nil", "false", "true", "self", "top">>
    IN Does(frame.ip + 1, IF byte1 <= 170 THEN <<"LocalReturn", value[byte1 - 165]>>
                          ELSE <<"NonLocalReturn", value[byte1 - 170]>>)
PushClosure ==
    LET ip == frame.ip + 4
    IN Does(ip, <<"PushClosure", byte2 \div 16, byte2 % 8, ip + byte4 * 256 + byte3>>)

Decoded ==
    CASE byte1 \in 0..63 -> ShortBranch
      [] byte1 \in 64..111 -> ShortSend
      [] byte1 \in 112..151 -> ShortVariable
      [] byte1 \in 152..163 -> Constant
      [] byte1 \in 166..175 -> Return
      [] byte1 \in 176..207 -> CommonSend
      [] byte1 \in 222..233 -> LongVariable
      [] byte1 \in 240..243 -> LongBranch
      [] byte1 \in 245..247 -> RemoteVariable
      [] byte1 \in 248..249 -> Literal
      [] byte1 = 255 -> PushClosure
      [] byte1 \in {239} \cup 250..254 -> LongSend

Running == frame.ip # 0

\* A callee finds its receiver and its arguments on the stack, below them what is
\* the caller's, and returns by putting one value in their place.
Called(num_args) == 1 - (num_args + 1)
AbsentReceiver == 1            \* InsertAbsentReceiver
EventualArguments(num_args) == \* an array of them; the loop, the receiver, the selector, it
    (1 - num_args) - 1 - 1 + 4
Growth(does) ==
    CASE does[1] \in {"Push", "PushReceiver", "PushMixin", "Dup", "PushLiteral", "PushInteger", "PushTemp",
                      "PushRemote", "PushEnclosingObject", "PushNewArray"} -> 1
      [] does[1] \in {"Pop", "PopIntoTemp", "PopIntoRemote", "Branch"} -> -1
      [] does[1] \in {"StoreIntoTemp", "StoreIntoRemote", "Jump"} -> 0
      [] does[1] \in {"PushNewArrayWithElements", "PushClosure"} -> 1 - does[2]
      [] does[1] = "CommonSend" -> Called(specialArity[does[2] + 1])
      [] does[1] = "OrdinarySend" -> Called(does[3])
      [] does[1] \in {"SelfSend", "SuperSend", "ImplicitReceiverSend", "OuterSend"} ->
            AbsentReceiver + Called(does[3])
      [] does[1] = "EventualSend" -> EventualArguments(does[3]) + Called(3)

Continue(next, growth) ==
    /\ frame' = [frame EXCEPT !.ip = next, !.locals = @ + growth]
    /\ UNCHANGED <<cgen, open, visits, maxStack>>

\* Everything but the following.
Straight ==
    /\ Running
    /\ Decoded.does[1] \notin {"Jump", "Branch", "PushClosure", "LocalReturn", "NonLocalReturn"}
    /\ Continue(Decoded.next, Growth(Decoded.does)) /\ UNCHANGED closures
Jump ==
    /\ Running /\ Decoded.does[1] = "Jump"
    /\ Continue(Decoded.does[2], 0) /\ UNCHANGED closures
\* What is on top is the Boolean of the branch, or the other one, or, for which
\* nonBooleanReceiver: is sent, none.  When a handler resumes that exception, the
\* send returns to the instruction after the branch, with its result.
Branch ==
    /\ Running /\ Decoded.does[1] = "Branch"
    /\ \/ Continue(Decoded.does[3], -1)
       \/ Continue(Decoded.next, -1)
       \/ HandlersResume /\ Continue(Decoded.next, -1 + 2 + Called(1))
    /\ UNCHANGED closures
CreateClosure ==
    LET does == Decoded.does
    IN /\ Running /\ does[1] = "PushClosure"
       /\ closures' = closures \cup
            {[initial_bci |-> Decoded.next, num_args |-> does[3], num_copied |-> does[2]]}
       /\ Continue(does[4], 1 - does[2])
LeaveFrame ==
    /\ Running /\ Decoded.does[1] \in {"LocalReturn", "NonLocalReturn"}
    /\ frame' = NoFrame
    /\ UNCHANGED <<cgen, open, visits, maxStack, closures>>
\* ActivateClosure: of frames that share nothing here, the one at a time
ActivateClosure ==
    \E c \in closures :
        /\ maxStack > 0 /\ ~Running
        /\ frame' = [ip |-> c.initial_bci, args |-> c.num_args, locals |-> c.num_copied]
        /\ closures' = closures \ {c}
        /\ UNCHANGED <<cgen, open, visits, maxStack>>

Compile ==
    \/ LeafNode \/ ValueNode \/ Statements \/ ReturnNode \/ NonLocalReturnNode
    \/ BeginConditional \/ ElseBranch \/ EndConditional
    \/ BeginLoop \/ LoopBody \/ EndLoop
    \/ BeginClosure \/ EndClosure \/ Close
Interpret == Straight \/ Jump \/ Branch \/ CreateClosure \/ LeaveFrame \/ ActivateClosure

Next == Compile \/ Interpret

Init ==
    /\ \E numArgs \in Arities, numTemps \in Temporaries : cgen = Fresh(numArgs, numTemps)
    /\ open = <<>> /\ visits = 0 /\ maxStack = 0
    /\ frame = NoFrame /\ closures = {}

Spec == Init /\ [][Next]_vars

-----------------------------------------------------------------------------
(* Properties. *)

Written == {cgen.listing[i] : i \in DOMAIN cgen.listing}
Here == CHOOSE entry \in Written : entry.bci = frame.ip

\* Interpret reads exactly the instructions that the compiler wrote: whatever was
\* patched, wherever it jumps, it arrives where one starts and never falls off the
\* end, and finds there the operation, the operands and the targets meant by it
\* (CodeGeneratorV5, Interpreter::Interpret).  With closures of up to 15 arguments,
\* which createClosureOfArity: accepts, it does not hold: Interpret keeps three bits
\* of that number (interpreter.cc:1570).  Sends are of up to 15 arguments, the
\* most that fit their byte.
RunsAsCompiled ==
    Running => /\ \E entry \in Written : entry.bci = frame.ip
               /\ Decoded.does = Here.does

\* The depth that CodeGenerator counts without executing anything is the depth of
\* Interpret's stack at every instruction, on every path to it; and an activation
\* of the size that close asks for holds the arguments, locals and operands.
StackAsTracked ==
    Running =>
        LET body == cgen.bodies[Here.body]
            implicit == IF Here.body = 1 THEN cgen.maxLocals - body.args ELSE body.copied
        IN /\ frame.args = body.args
           /\ frame.locals = implicit + (Here.depth - body.depth)
           /\ frame.args + frame.locals <= maxStack

\* "We must ensure sufficient space": EnsureActivation allocates activations of
\* one size, to which FlushAllFrames copies what frames hold.

FramesFitActivations == Running => frame.args + frame.locals <= kMaxTemps
===============================================================================
