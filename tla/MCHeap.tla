--------------------------------- MODULE MCHeap ---------------------------------
(* Instances of Heap for TLC: one object of one kind among others of another.  *)
EXTENDS Heap, TLC

CONSTANT One

Mix(one, others) == [x \in Obj |-> IF x = One THEN one ELSE others]

AllMixes   == {Mix("weak", "plain"), Mix("plain", "class"),
               Mix("ephemeron", "plain"), Mix("unused", "ephemeron")}
Classes    == {Mix("class", "plain")}
Ephemerons == {Mix("ephemeron", "plain")}

Symmetry == Permutations(Obj \ {One})
=================================================================================
