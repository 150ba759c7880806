----------------------------- MODULE MCComputation -----------------------------
(* What a program computes, each by itself: Numbers, the arithmetic of integers    *)
(* in three representations; Elements, arrays, strings and closures; Bytecodes,    *)
(* the compiling of a small method and the running of its frame; and Activations,  *)
(* frames and the objects made of them.                                            *)
EXTENDS MCNumbers

CONSTANTS kBitsPerByte, kWordBytes, kFNVPrime, Salts, Randoms, Worlds, Indices, Integers64, MaxCalls,
          Arities, ClosureArities, Copies, Temporaries, Operands, Lengths, LeafCost, LengthCost,
          MaxVisits, HandlersResume, kMaxTemps,
          StackSizes, MaxContexts, MaxClosures, MaxBci, MaxDepth, MaxTurns, MaxReflections,
          Methods, UnwindProtect, SimulationRoot, Dispatch, CannotReturn, AboutToReturn

VARIABLES objects, half, salt, call,
          cgen, open, visits, maxStack, frame, closures,
          frames, slots, ip, acts, blocks, running, used, turns, reflections, contexts,
          tested

Indexed == INSTANCE Elements
elementVars == <<objects, half, salt, call>>

Code == INSTANCE Bytecodes
codeVars == <<cgen, open, visits, maxStack, frame, closures>>

\* The arguments of each method, which are all its temporaries.
MCArity == [m |-> 0, ensure |-> 1, root |-> 0, dispatch |-> 0, cannotReturn |-> 1, aboutToReturn |-> 1]
Stack == INSTANCE Activations WITH closures <- blocks, Arity <- MCArity, NumTemps <- MCArity
stackVars == <<frames, slots, ip, acts, blocks, running, used, turns, reflections, contexts>>

\* Three arrays, byte arrays and pairs of strings: with overlaps, with a part of one
\* string in the other, and empty.
World(array, bytes, string, other) ==
    [array |-> array, bytes |-> bytes, string |-> string, other |-> other]
MCWorlds ==
    {World(<<<<"smi", 2>>, <<"smi", 0>>, <<"object", 4>>>>, <<3, 2, 3, 0>>, <<3, 2>>, <<3, 2>>),
     World(<<<<"smi", 3>>, <<"smi", 1>>>>, <<0>>, <<1, 3, 1, 3>>, <<1, 3>>),
     World(<<>>, <<1, 3, 1>>, <<>>, <<1>>)}
MCIndices == (-1)..5
\* Around the limits of every format and of a small integer.
MCIntegers64 == {-33, -32, -16, -9, -8, -3, -2, -1, 0, 1, 2, 3, 4, 7, 8, 15, 16, 31, 32}

\* Operands on both sides of every limit between a short and a long encoding, and at
\* the ends of the ranges that the code generator accepts.
MCOperands == [literals |-> {0, 7, 8, 255, 256, 65535},
               integers |-> {-32768, -257, -256, -2, -1, 0, 1, 2, 3, 255, 256, 32767},
               depths |-> {0, 1, 127, 255},
               sizes |-> {0, 3, 255},
               selectors |-> {0, 7, 8, 4095},
               arguments |-> {0, 1, 2, 15}]

\* The others stand still.
ComputationInit ==
    /\ tested \in {"numbers", "elements", "code", "frames"}
    /\ Stack!Init
    /\ IF tested = "numbers" THEN Init
       ELSE left = Nothing /\ right = Nothing /\ primitive = "none" /\ result = Nothing
    /\ IF tested = "elements" THEN Indexed!Init
       ELSE objects = <<>> /\ half = 0 /\ salt = 0 /\ call = Indexed!NoCall
    /\ IF tested = "code" THEN Code!Init
       ELSE /\ cgen = Code!Fresh(0, 0) /\ open = <<>> /\ visits = 0 /\ maxStack = 0
            /\ frame = Code!NoFrame /\ closures = {}

ComputationNext ==
    \/ tested = "numbers" /\ Arithmetic /\ UNCHANGED <<tested, elementVars, codeVars, stackVars>>
    \/ tested = "numbers" /\ Comparisons /\ UNCHANGED <<tested, elementVars, codeVars, stackVars>>
    \/ tested = "numbers" /\ Bits /\ UNCHANGED <<tested, elementVars, codeVars, stackVars>>
    \/ tested = "numbers" /\ Conversions /\ UNCHANGED <<tested, elementVars, codeVars, stackVars>>
    \/ tested = "elements" /\ Indexed!Next /\ UNCHANGED <<tested, vars, codeVars, stackVars>>
    \/ tested = "code" /\ Code!Compile /\ UNCHANGED <<tested, vars, elementVars, stackVars>>
    \/ tested = "code" /\ Code!Interpret /\ UNCHANGED <<tested, vars, elementVars, stackVars>>
    \/ tested = "frames" /\ Stack!Next /\ UNCHANGED <<tested, vars, elementVars, codeVars>>

ComputationSpec == ComputationInit /\ [][ComputationNext]_<<vars, elementVars, codeVars, stackVars, tested>>

\* Whatever path computed it, every number primitive's result is exact, unless a carry
\* was dropped (DroppedCarry), and in the smallest representation, unless it was read as
\* an unsigned word and is the largest of a smaller one (FromUint64); bits are those of
\* endless two's complement; conversions lose nothing but a fraction
\* (primitives.cc:415-1222, large_integer.cc).
NumbersExact == tested = "numbers" => ArithmeticExact /\ BitwiseExact /\ ConversionsExact

\* Every primitive of arrays, strings and closures does what its name promises, also
\* when its allocation moves everything, and the predicted short cuts do the same
\* (primitives.cc:1298-2784, interpreter.cc:1317-1388).
ElementsExact == tested = "elements" => Indexed!ElementsExact

\* Strings are equal exactly when their bytes are, and then hash alike, never 0
\* (object.cc:241-258, KernelForPrimordialSoup.ns:2143).
StringsEqualByContents == tested = "elements" => Indexed!StringsEqualByContents

\* The interpreter does what the compiler meant by every instruction, at every length
\* of its encoding, for closures of at most seven arguments and sends of at most fifteen
\* (Intermediates.ns, interpreter.cc:1026-1450; beyond, see MCBytecodesArity.cfg).
RunsAsCompiled == tested = "code" => Code!RunsAsCompiled

\* Whenever an instruction runs, the frame is as deep as the compiler counted when it
\* wrote it (Intermediates.ns:38-120).
StackAsTracked == tested = "code" => Code!StackAsTracked

\* Frames and activation objects fit together, and what class Activation answers about
\* a context is true of it, whether it is a frame, an object, or an object whose frame is
\* gone and which does not know it yet (interpreter.cc:1453-1581).
AnswersSound == tested = "frames" => Stack!TypeOK /\ Stack!AnswersTrue

\* The stack and the objects together are the contexts of Contexts.tla: overflow, flushing,
\* rebuilding, collecting and finding out that a frame is gone cannot be noticed
\* (interpreter.cc:795-1030, 1453-1581).
ImplementsContexts == Stack!ImplementsContexts

\* A return through blocks never silently crosses a waiting activation of ensure:
\* (NonLocalReturn, interpreter.cc:908-1010).
EnsureNotSkipped == Stack!EnsureNotSkipped
================================================================================
