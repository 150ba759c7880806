-------------------------------- MODULE MCHeapAll --------------------------------
(* The two views of the heap, each by itself: Heap, the steps of the collector,   *)
(* and HeapMemory, the headers and the free list.                                *)
EXTENDS MCHeap

CONSTANTS NewUnits, RegionUnits, LargeUnits, MaxTag, SizeClasses, LimitSlack, Arrays,
          Digits, MaxRoots, MaxRegions, MaxLoaded, MaxCalls, LargeShifts, SelfReference

VARIABLES heap, tested

Memory == INSTANCE HeapMemory

AllInit ==
  /\ Init /\ Memory!Init
  /\ tested \in {"objects", "memory"}
  /\ tested = "memory" => kind = Mix("plain", "class")

AllNext ==
  /\ UNCHANGED tested
  /\ \/ tested = "objects" /\ Next /\ UNCHANGED heap
     \/ tested = "memory" /\ Memory!Next /\ UNCHANGED vars

AllSpec == AllInit /\ [][AllNext]_<<vars, heap, tested>>

(* Every pass over a space finds exactly its objects, what the program holds is    *)
(* intact, the free lists hold free elements once each, and old_size_ covers what  *)
(* is in old space (heap.cc:747-829, 1321-1378, 1525-1594).                      *)
MemorySound == Memory!MemorySound

(* allInstances and referencesTo: stay within the array they allocated, and the    *)
(* copies of a scavenge stay clear of the tenure stack (heap.cc:467-478, 1441,     *)
(* 1519).                                                                        *)
NoOverrun == Memory!NoOverrun
==================================================================================
