----------------------------- MODULE MCBytecodes -----------------------------
(* Operands on both sides of every limit between a short and a long encoding,   *)
(* and at the ends of the ranges that the code generator accepts.               *)
EXTENDS Bytecodes

MCOperands == [literals |-> {0, 7, 8, 255, 256, 65535},
               integers |-> {-32768, -257, -256, -2, -1, 0, 1, 2, 3, 255, 256, 32767},
               depths |-> {0, 1, 127, 255},
               sizes |-> {0, 3, 255},
               selectors |-> {0, 7, 8, 4095},
               arguments |-> {0, 1, 2, 15}]
=============================================================================
