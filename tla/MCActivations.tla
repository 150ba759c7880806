----------------------------- MODULE MCActivations -----------------------------
(* Three methods of a program to activate: an ordinary one, ensure: and a           *)
(* simulation's root, and the three the interpreter activates by itself.           *)
EXTENDS Activations

MCArity == [m |-> 0, ensure |-> 1, root |-> 0, dispatch |-> 0, cannotReturn |-> 1, aboutToReturn |-> 1]
MCNumTemps == MCArity

(* Frames and activation objects fit together, and what class Activation answers   *)
(* about a context is true of it, whether it is a frame, an object, or an object    *)
(* whose frame is gone and which does not know it yet (interpreter.cc:1453-1581).   *)
AnswersSound == TypeOK /\ AnswersTrue
================================================================================
