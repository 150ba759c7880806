---------------------------- MODULE CollectionProofs ----------------------------
(***************************************************************************)
(* What a collection keeps and what it frees, proved about Heap: nothing     *)
(* that was alive when it began is lost, and nothing else is left but what it *)
(* had to take for alive.                                                    *)
(***************************************************************************)
EXTENDS HeapProofs

(* A set of objects from which nothing outside is reached: what is alive is the *)
(* least of them that has the roots.                                         *)
Target(p, T) == p # Nil => p.o \in T
Closed(T) == \A x \in T :
  /\ ~PutAside(x) => /\ \A i \in Slots(x) : Target(field[x][i], T)
                     /\ cid[x] # 0 => Target(class_table_[cid[x]], T)
  /\ IsEphemeron(x) /\ Target(field[x][1], T) => Target(field[x][2], T)

LEMMA KindsApart ==
  \A x : /\ IsEphemeron(x) => Slots(x) = {1, 2} /\ ~IsWeakArray(x)
         /\ ~IsEphemeron(x) => Slots(x) = {1}
BY DEF IsEphemeron, IsWeakArray, Slots

(* The pointers an object holds.                                             *)
LEMMA HeldIs ==
  ASSUME NEW x, NEW S
  PROVE  /\ IsWeakArray(x) => Held(x, S) = {}
         /\ IsEphemeron(x) => Held(x, S) = IF Target(field[x][1], S)
                                           THEN Pointers({field[x][1], field[x][2]}) ELSE {}
         /\ ~PutAside(x) => Held(x, S) = Pointers(Slot(x) \cup ClassOf(x))
<1>1. IsWeakArray(x) => Held(x, S) = {}
  BY DEF Held, IsWeakArray, IsEphemeron
<1>2. ~PutAside(x) => Held(x, S) = Pointers(Slot(x) \cup ClassOf(x))
  BY DEF Held, PutAside
<1>3. ASSUME IsEphemeron(x)
      PROVE  Held(x, S) = IF Target(field[x][1], S)
                          THEN Pointers({field[x][1], field[x][2]}) ELSE {}
  <2>1. Slots(x) = {1, 2} /\ ~IsWeakArray(x)
    BY <1>3, KindsApart
  <2>2. Slot(x) = {field[x][1], field[x][2]}
    BY <2>1 DEF Slot
  <2>3. Held(x, S) = IF key(x) = Nil \/ key(x).o \in S THEN Pointers(Slot(x)) ELSE {}
    BY <1>3, <2>1 DEF Held
  <2> QED
    BY <2>2, <2>3 DEF key, Target
<1> QED
  BY <1>1, <1>2, <1>3

(* What part of a closed set holds is in the set.                            *)
LEMMA HeldInside ==
  ASSUME NEW T, Closed(T), NEW R, R \subseteq T, NEW x \in R, NEW p \in Held(x, R)
  PROVE  p.o \in T
<1>1. x \in T /\ ~IsWeakArray(x)
  BY HeldIs
<1>2. CASE IsEphemeron(x)
  <2>1. Target(field[x][1], R) /\ p \in {field[x][1], field[x][2]} /\ p # Nil
    BY <1>2, HeldIs DEF Pointers
  <2>2. Target(field[x][1], T)
    BY <2>1 DEF Target
  <2>3. Target(field[x][2], T)
    BY <1>1, <1>2, <2>2 DEF Closed
  <2> QED
    BY <2>1, <2>2, <2>3 DEF Target
<1>3. CASE ~PutAside(x)
  <2>1. p \in Slot(x) \cup ClassOf(x) /\ p # Nil
    BY <1>3, HeldIs DEF Pointers
  <2>2. \A q \in Slot(x) : Target(q, T)
    BY <1>1, <1>3 DEF Closed, Slot
  <2>3. \A q \in ClassOf(x) : Target(q, T)
    BY <1>1, <1>3 DEF Closed, ClassOf
  <2> QED
    BY <2>1, <2>2, <2>3 DEF Target
<1> QED
  BY <1>1, <1>2, <1>3 DEF PutAside

LEMMA HoldersClosed ==
  ASSUME NEW T, \A x \in T : \A p \in Held(x, T) : p.o \in T
  PROVE  Closed(T)
<1> SUFFICES ASSUME NEW x \in T
             PROVE  /\ ~PutAside(x) => /\ \A i \in Slots(x) : Target(field[x][i], T)
                                       /\ cid[x] # 0 => Target(class_table_[cid[x]], T)
                    /\ IsEphemeron(x) /\ Target(field[x][1], T) => Target(field[x][2], T)
  BY DEF Closed
<1>1. ASSUME ~PutAside(x)
      PROVE  /\ \A i \in Slots(x) : Target(field[x][i], T)
             /\ cid[x] # 0 => Target(class_table_[cid[x]], T)
  <2>1. \A p \in Slot(x) \cup ClassOf(x) : p # Nil => p.o \in T
    BY <1>1, HeldIs DEF Pointers
  <2> QED
    BY <2>1 DEF Slot, ClassOf, Target
<1>2. ASSUME IsEphemeron(x), Target(field[x][1], T) PROVE Target(field[x][2], T)
  <2>1. Held(x, T) = Pointers({field[x][1], field[x][2]})
    BY <1>2, HeldIs
  <2> QED
    BY <2>1 DEF Pointers, Target
<1> QED
  BY <1>1, <1>2

-----------------------------------------------------------------------------
(* Alive(S) is the least closed set around S: it is in every other one, and it is *)
(* closed, because a set that grows with every step is soon that of all objects. *)

LEMMA AliveLeast ==
  ASSUME NEW S, NEW T, S \subseteq T, Closed(T)
  PROVE  Alive(S) \subseteq T
<1> DEFINE N == Cardinality(Obj)
<1>0. N \in Nat
  BY Constants
<1>1. PICK grow : /\ Alive(S) = grow[N] /\ grow[0] = S
                  /\ \A n \in 1..N : grow[n] = grow[n - 1] \cup
                       {p.o : p \in UNION {Held(x, grow[n - 1]) : x \in grow[n - 1]}}
  BY ONLY AliveInSteps
<1> HIDE DEF N
<1> DEFINE bad == {n \in 0..N : ~(grow[n] \subseteq T)}
<1>2. bad = {}
  <2> SUFFICES ASSUME bad # {} PROVE FALSE
    OBVIOUS
  <2>1. bad \in SUBSET Nat
    BY <1>0
  <2>2. PICK n \in bad : \A j \in bad : n <= j
    <3> HIDE DEF bad
    <3> QED
      BY <2>1, SmallestNat
  <2>3. n \in 0..N /\ ~(grow[n] \subseteq T)
    BY <2>2
  <2>4. n # 0
    BY <1>1, <2>3
  <2>5. n - 1 \in 0..N /\ n - 1 \notin bad /\ n \in 1..N
    BY <1>0, <2>1, <2>2, <2>3, <2>4
  <2>6. grow[n - 1] \subseteq T
    BY <2>5
  <2>7. grow[n] = grow[n - 1] \cup {p.o : p \in UNION {Held(x, grow[n - 1]) : x \in grow[n - 1]}}
    BY <1>1, <2>5
  <2>8. \A x \in grow[n - 1] : \A p \in Held(x, grow[n - 1]) : p.o \in T
    BY <2>6, HeldInside
  <2> QED
    BY <2>3, <2>6, <2>7, <2>8
<1>3. N \in 0..N
  BY <1>0
<1> QED
  BY <1>1, <1>2, <1>3

LEMMA AliveClosed ==
  ASSUME Types, NEW S \in SUBSET Obj
  PROVE  Closed(Alive(S)) /\ S \subseteq Alive(S)
<1> DEFINE N == Cardinality(Obj)
           More(R) == R \cup {p.o : p \in UNION {Held(x, R) : x \in R}}
<1>0. N \in Nat /\ IsFiniteSet(Obj)
  BY Constants
<1>1. PICK grow : /\ Alive(S) = grow[N] /\ grow[0] = S
                  /\ \A n \in 1..N : grow[n] = grow[n - 1] \cup
                       {p.o : p \in UNION {Held(x, grow[n - 1]) : x \in grow[n - 1]}}
  BY ONLY AliveInSteps
<1>2. \A n \in 1..N : grow[n] = More(grow[n - 1])
  BY <1>1
<1>3. \A R : R \subseteq More(R) /\ (Closed(R) => More(R) = R) /\ (More(R) = R => Closed(R))
  <2> SUFFICES ASSUME NEW R PROVE (Closed(R) => More(R) = R) /\ (More(R) = R => Closed(R))
    OBVIOUS
  <2>1. Closed(R) => \A x \in R : \A p \in Held(x, R) : p.o \in R
    BY HeldInside
  <2>2. More(R) = R => \A x \in R : \A p \in Held(x, R) : p.o \in R
    OBVIOUS
  <2>3. Closed(R) => More(R) = R
    BY <2>1
  <2> QED
    BY <2>2, <2>3, HoldersClosed
<1>4. \A R \in SUBSET Obj : More(R) \in SUBSET Obj
  BY HeldTyped, PointerParts
<1> HIDE DEF N, More
<1> DEFINE Fine(n) == /\ grow[n] \in SUBSET Obj /\ S \subseteq grow[n]
                      /\ Closed(grow[n]) \/ n <= Cardinality(grow[n])
           bad == {n \in 0..N : ~Fine(n)}
<1>5. bad = {}
  <2> SUFFICES ASSUME bad # {} PROVE FALSE
    OBVIOUS
  <2>1. bad \in SUBSET Nat
    BY <1>0
  <2>2. PICK n \in bad : \A j \in bad : n <= j
    <3> HIDE DEF bad
    <3> QED
      BY <2>1, SmallestNat
  <2>3. n \in 0..N /\ ~Fine(n)
    BY <2>2
  <2>4. n # 0
    <3>1. IsFiniteSet(S)
      BY <1>0, FS_Subset
    <3>2. Cardinality(S) \in Nat
      BY <3>1, FS_CardinalityType
    <3> QED
      BY <1>1, <2>3, <3>2
  <2>5. n - 1 \in 0..N /\ n - 1 \notin bad /\ n \in 1..N
    <3>1. n \in Nat /\ n - 1 \in 0..N /\ ~(n <= n - 1) /\ n \in 1..N
      BY <1>0, <2>3, <2>4
    <3> HIDE DEF bad
    <3> QED
      BY <2>2, <3>1
  <2>6. Fine(n - 1)
    BY <2>5
  <2>7. grow[n] = More(grow[n - 1]) /\ grow[n] \in SUBSET Obj /\ S \subseteq grow[n]
    BY <1>2, <1>3, <1>4, <2>5, <2>6
  <2>8. CASE Closed(grow[n - 1])
    BY <1>3, <2>3, <2>6, <2>7, <2>8
  <2>9. CASE ~Closed(grow[n - 1])
    <3>1. grow[n - 1] \subseteq grow[n] /\ grow[n - 1] # grow[n]
      BY <1>3, <2>7, <2>9
    <3>2. IsFiniteSet(grow[n]) /\ IsFiniteSet(grow[n - 1])
      BY <1>0, <2>6, <2>7, FS_Subset
    <3>4. Cardinality(grow[n - 1]) \in Nat /\ Cardinality(grow[n]) \in Nat
      BY <3>2, FS_CardinalityType
    <3>3. Cardinality(grow[n - 1]) < Cardinality(grow[n])
      BY <3>1, <3>2, <3>4, FS_Subset
    <3>5. n - 1 <= Cardinality(grow[n - 1]) /\ n \in Nat
      BY <2>1, <2>2, <2>6, <2>9
    <3>6. n <= Cardinality(grow[n])
      BY <3>3, <3>4, <3>5
    <3> QED
      BY <2>3, <2>7, <3>6
  <2> QED
    BY <2>8, <2>9
<1>6. Fine(N)
  BY <1>0, <1>5
<1>7. CASE N <= Cardinality(grow[N])
  <2>1. Cardinality(grow[N]) <= N /\ Cardinality(grow[N]) \in Nat
    <3>1. IsFiniteSet(grow[N])
      BY <1>0, <1>6, FS_Subset
    <3> QED
      BY <1>0, <1>6, <3>1, FS_Subset, FS_CardinalityType DEF N
  <2>2. grow[N] = Obj
    BY <1>0, <1>6, <1>7, <2>1, FS_Subset DEF N
  <2>3. More(Obj) = Obj
    BY <1>3, <1>4
  <2> QED
    BY <1>1, <1>3, <1>6, <2>2, <2>3
<1>8. CASE Closed(grow[N])
  BY <1>1, <1>6, <1>8
<1> QED
  BY <1>6, <1>7, <1>8

-----------------------------------------------------------------------------
(* While a collection runs the graph stays what it was, up to where objects are, *)
(* until the last step clears weak pointers and frees what did not survive.    *)
SameTarget(p, q) == (p = Nil <=> q = Nil) /\ (p # Nil => q.o = p.o)
SameGraph ==
  /\ kind' = kind /\ cid' = cid
  /\ \A x \in Obj : \A i \in Slots(x) : SameTarget(field[x][i], field'[x][i])
  /\ \A k \in Cid : SameTarget(class_table_[k], class_table_'[k])
Steady ==
  /\ SameGraph /\ Rooted' = Rooted /\ InUse' = InUse
  /\ before' = before /\ reach' = reach

LEMMA ClosedKept ==
  ASSUME Types, SameGraph, NEW T \in SUBSET Obj
  PROVE  Closed(T)' <=> Closed(T)
<1>1. \A x : Slots(x)' = Slots(x) /\ PutAside(x)' = PutAside(x) /\ IsEphemeron(x)' = IsEphemeron(x)
  BY DEF SameGraph, Slots, PutAside, IsEphemeron, IsWeakArray
<1>2. \A x \in Obj : \A i \in Slots(x) : Target(field[x][i], T)' <=> Target(field[x][i], T)
  BY DEF SameGraph, SameTarget, Target
<1>3. \A x \in Obj : cid'[x] = cid[x] /\
        (cid[x] # 0 => (Target(class_table_[cid[x]], T)' <=> Target(class_table_[cid[x]], T)))
  BY DEF SameGraph, SameTarget, Target, Types
<1>4. \A x \in Obj : IsEphemeron(x) =>
        /\ Target(field[x][1], T)' <=> Target(field[x][1], T)
        /\ Target(field[x][2], T)' <=> Target(field[x][2], T)
  BY <1>2, KindsApart
<1>5. T \subseteq Obj
  OBVIOUS
<1> QED
  BY <1>1, <1>2, <1>3, <1>4, <1>5 DEF Closed

(* The closed set may be the value of a variable that stays.                  *)
LEMMA ReachKept ==
  ASSUME Types, SameGraph, reach' = reach
  PROVE  Closed(reach)' <=> Closed(reach)
<1>1. PICK R \in SUBSET Obj : R = reach
  BY DEF Types
<1>2. Closed(R)' <=> Closed(R)
  BY ClosedKept
<1>3. Closed(R) <=> Closed(reach)
  BY <1>1
<1>4. Closed(R)' <=> Closed(reach)'
  BY <1>1 DEF Closed, Target
<1> QED
  BY <1>2, <1>3, <1>4

(* What was alive when the collection began can still be reached, and is there;  *)
(* what the collection has come across is among what it may come across.       *)
There == {x \in Obj : place[x] \in {"to", "old"}}
Kept ==
  /\ before \subseteq InUse
  /\ \A T \in SUBSET Obj : Rooted \subseteq T /\ Closed(T) => before \subseteq T
Within ==
  /\ Closed(reach) /\ Rooted \subseteq reach
  /\ Copying => There \subseteq reach
  /\ Marking => marked \subseteq reach

(* A step of a collection before its last.                                    *)
Carried == Steady /\ Kept' /\ Within'

LEMMA KeptOn ==
  ASSUME Types, Kept, Steady
  PROVE  Kept'
<1>1. before' \subseteq InUse'
  BY DEF Kept, Steady
<1>2. ASSUME NEW T \in SUBSET Obj, Rooted' \subseteq T, Closed(T)' PROVE before' \subseteq T
  <2>1. Closed(T) /\ Rooted \subseteq T
    BY <1>2, ClosedKept DEF Steady
  <2> QED
    BY <2>1 DEF Kept, Steady
<1> QED
  BY <1>1, <1>2 DEF Kept

LEMMA WithinOn ==
  ASSUME Types, Within, Steady,
         Copying' => There' \subseteq reach, Marking' => marked' \subseteq reach
  PROVE  Within'
<1>1. Closed(reach)' /\ Rooted' \subseteq reach'
  BY ReachKept DEF Within, Steady
<1> QED
  BY <1>1 DEF Within, Steady

(* Everything in use is closed when the program runs.                        *)
LEMMA InUseClosed ==
  ASSUME Types, Tabled, Idle
  PROVE  Closed(InUse) /\ Rooted \subseteq InUse
<1>1. \A p \in Ptr \cup {Nil} : Valid(p) => Target(p, InUse)
  BY PointerParts DEF Valid, Target, InUse, Location
<1>2. Rooted \subseteq InUse
  BY <1>1, PointerParts DEF Rooted, Idle, Settled, Types, Target
<1>3. \A x \in InUse : x \in Obj /\ \A i \in Slots(x) : Target(field[x][i], InUse)
  BY <1>1 DEF Idle, Settled, Types, InUse
<1>4. \A x \in InUse : cid[x] # 0 => Target(class_table_[cid[x]], InUse)
  BY <1>1, <1>3 DEF Idle, Settled, Types
<1>5. \A x \in InUse : IsEphemeron(x) => Target(field[x][2], InUse)
  BY <1>3, KindsApart
<1> QED
  BY <1>2, <1>3, <1>4, <1>5 DEF Closed

LEMMA StartsKept ==
  ASSUME Types, Tabled, Idle, SameGraph, Rooted' = Rooted, InUse' = InUse,
         before' = Alive(Rooted)
  PROVE  Kept'
<1>1. before' \subseteq InUse'
  BY InUseClosed, AliveLeast
<1>2. ASSUME NEW T \in SUBSET Obj, Rooted' \subseteq T, Closed(T)' PROVE before' \subseteq T
  <2>1. Closed(T) /\ Rooted \subseteq T
    BY <1>2, ClosedKept
  <2> QED
    BY <2>1, AliveLeast
<1> QED
  BY <1>1, <1>2 DEF Kept

LEMMA StartScavengeStarts ==
  ASSUME Types, Tabled, Idle, NEW all \in BOOLEAN, kind' = kind, StartScavenge(all)
  PROVE  Kept' /\ Within'
<1>1. /\ field' = [x \in Obj |-> [i \in Slots(x) |-> Flipped(field[x][i])]]
      /\ class_table_' = [k \in Cid |-> Flipped(class_table_[k])]
      /\ stack' = {Flipped(p) : p \in stack}
      /\ place' = [x \in Obj |-> IF place[x] = "to" THEN "from" ELSE place[x]]
      /\ cid' = cid /\ phase' = "remembered"
      /\ before' = Alive(Rooted) /\ reach' = Alive(Rooted \cup Old)
  BY DEF StartScavenge, FlipSpaces
<1>2. \A p \in Ptr \cup {Nil} : SameTarget(p, Flipped(p))
  BY FlippedPointers DEF SameTarget
<1>3. SameGraph
  <2>1. \A x \in Obj : \A i \in Slots(x) : SameTarget(field[x][i], field'[x][i])
    BY <1>1, <1>2 DEF Types
  <2>2. \A k \in Cid : SameTarget(class_table_[k], class_table_'[k])
    BY <1>1, <1>2 DEF Types
  <2> QED
    BY <1>1, <2>1, <2>2 DEF SameGraph
<1>4. Rooted' = Rooted
  <2>1. \A p \in stack : p \in Ptr /\ p # Nil /\ Flipped(p).o = p.o
    BY <1>2, PointerParts DEF Types, SameTarget
  <2> QED
    BY <1>1, <2>1 DEF Rooted
<1>5. InUse' = InUse /\ There' = Old
  BY <1>1 DEF InUse, There, Old, Idle, Settled
<1>6. Kept'
  BY <1>1, <1>3, <1>4, <1>5, StartsKept
<1>7. Closed(reach)' /\ Rooted \cup Old \subseteq reach' /\ reach' \subseteq Obj
  <2>1. Rooted \cup Old \in SUBSET Obj
    BY RootedTyped
  <2>2. PICK R : R = Alive(Rooted \cup Old)
    OBVIOUS
  <2>3. Closed(R) /\ Rooted \cup Old \subseteq R /\ R \in SUBSET Obj
    BY <2>1, <2>2, AliveClosed, AliveTyped
  <2>4. Closed(R)'
    BY <1>3, <2>3, ClosedKept
  <2>5. Closed(R)' <=> Closed(reach)'
    BY <1>1, <2>2 DEF Closed, Target
  <2> QED
    BY <1>1, <2>2, <2>3, <2>4, <2>5
<1>8. ~Marking'
  BY <1>1 DEF Marking, MarkingWork
<1> QED
  BY <1>4, <1>5, <1>6, <1>7, <1>8 DEF Within

LEMMA StartMarkSweepStarts ==
  ASSUME Types, Tabled, Idle, kind' = kind, StartMarkSweep
  PROVE  Kept' /\ Within'
<1>1. /\ place' = place /\ field' = field /\ cid' = cid /\ class_table_' = class_table_
      /\ stack' = stack /\ phase' = "mark"
      /\ before' = Alive(Rooted) /\ reach' = Alive(Rooted)
      /\ marked' = marked \cup NotMarked(stack)
  BY DEF StartMarkSweep, MarkObjects, graph
<1>2. SameGraph /\ Rooted' = Rooted /\ InUse' = InUse
  BY <1>1 DEF SameGraph, SameTarget, Rooted, InUse
<1>3. Kept'
  BY <1>1, <1>2, StartsKept
<1>4. Closed(reach)' /\ Rooted \subseteq reach' /\ reach' \subseteq Obj
  <2>1. Rooted \in SUBSET Obj
    BY RootedTyped
  <2>2. PICK R : R = Alive(Rooted)
    OBVIOUS
  <2>3. Closed(R) /\ Rooted \subseteq R /\ R \in SUBSET Obj
    BY <2>1, <2>2, AliveClosed, AliveTyped
  <2>4. Closed(R)'
    BY <1>2, <2>3, ClosedKept
  <2>5. Closed(R)' <=> Closed(reach)'
    BY <1>1, <2>2 DEF Closed, Target
  <2> QED
    BY <1>1, <2>2, <2>3, <2>4, <2>5
<1>5. marked' \subseteq Rooted
  BY <1>1 DEF Idle, NotMarked, Pointers, Rooted
<1>6. ~Copying'
  BY <1>1 DEF Copying, CopyingWork
<1> QED
  BY <1>2, <1>3, <1>4, <1>5, <1>6 DEF Within

(* Copying: the visited object's pointers are updated, M moves.               *)
LEMMA SlotsForwarded ==
  ASSUME Types, Copying, NEW x \in InUse, NEW ptrs, Slot(x) \subseteq ptrs,
         ptrs \subseteq Ptr \cup {Nil}, NEW M, M = Unforwarded(ptrs), place' = Moved(M),
         field' = [field EXCEPT ![x] = ForwardSlots(x, Moved(M))]
  PROVE  \A y \in Obj : \A i \in Slots(y) : SameTarget(field[y][i], field'[y][i])
<1>1. /\ M \in SUBSET Obj /\ \A y \in M : place[y] = "from"
      /\ \A p \in ptrs : p # Nil /\ p.at = "from" /\ place[p.o] = "from" => p.o \in M
  BY UnforwardedTyped
<1>2. \A p \in Slot(x) : Leads(p) /\ p \in ptrs /\ p \in Ptr \cup {Nil}
  BY DEF Copying, CopyingDone, Leading, Slot
<1>3. \A p \in Slot(x) : SameTarget(p, Forward(p, Moved(M)))
  <2> SUFFICES ASSUME NEW p \in Slot(x) PROVE SameTarget(p, Forward(p, Moved(M)))
    OBVIOUS
  <2>1. /\ Forward(p, Moved(M)) = Nil <=> p = Nil
        /\ p # Nil => Forward(p, Moved(M)).o = p.o
    BY <1>1, <1>2, Forwarding
  <2> QED
    BY <2>1 DEF SameTarget
<1>4. x \in Obj /\ \A i \in Slots(x) : field[x][i] \in Slot(x) /\ field'[x][i] = Forward(field[x][i], Moved(M))
  BY DEF InUse, Types, ForwardSlots, Slot
<1>5. \A y \in Obj \ {x} : field'[y] = field[y]
  BY DEF Types
<1>6. ASSUME NEW y \in Obj, NEW i \in Slots(y) PROVE SameTarget(field[y][i], field'[y][i])
  <2>1. CASE y = x
    BY <1>3, <1>4, <2>1
  <2>2. CASE y # x
    BY <1>5, <2>2 DEF SameTarget
  <2> QED
    BY <2>1, <2>2
<1> QED
  BY <1>6

LEMMA CopiedOn ==
  ASSUME Types, Copying, Kept, Within, NEW M \in SUBSET Obj, \A y \in M : place[y] = "from",
         place' = Moved(M), M \subseteq reach, kind' = kind, cid' = cid,
         class_table_' = class_table_, Rooted' = Rooted, before' = before, reach' = reach,
         \A y \in Obj : \A i \in Slots(y) : SameTarget(field[y][i], field'[y][i]), ~Marking'
  PROVE  Carried
<1>1. /\ InUse' = InUse
      /\ \A y \in Obj : y \notin M => place'[y] = place[y]
  BY Moving
<1>2. Steady
  BY <1>1 DEF Steady, SameGraph, SameTarget
<1>3. There' \subseteq There \cup M
  BY <1>1 DEF There
<1>4. There' \subseteq reach
  BY <1>3 DEF Within
<1> QED
  BY <1>2, <1>4, KeptOn, WithinOn DEF Carried

LEMMA SlotsTyped ==
  ASSUME Types, NEW x \in Obj
  PROVE  Slot(x) \cup ClassOf(x) \subseteq Ptr \cup {Nil}
BY DEF Types, Slot, ClassOf

LEMMA StaysCopying ==
  ASSUME phase' \in {"remembered", "loop", "scan", "tenure", "ephemerons", "mourn"}
  PROVE  ~Marking'
BY DEF Marking, MarkingWork

LEMMA SameFields ==
  ASSUME field' = field
  PROVE  \A y \in Obj : \A i \in Slots(y) : SameTarget(field[y][i], field'[y][i])
BY DEF SameTarget

LEMMA VisitKept ==
  ASSUME Types, Copying, Kept, Within, kind' = kind, NEW x \in Works, NEW bits,
         Visit(x, bits), phase' = phase, ~Marking'
  PROVE  Carried
<1> DEFINE M == IF PutAside(x) THEN {} ELSE Unforwarded(VisitedPointers(x))
<1>1. /\ place' = Moved(M) /\ cid' = cid /\ class_table_' = class_table_
      /\ stack' = stack /\ before' = before /\ reach' = reach
  BY DEF Visit, ghosts, Copied
<1>2. x \in Obj /\ place[x] \in {"to", "old"} /\ x \in InUse /\ x \in reach
  BY DEF Copying, CopyingWork, Works, Types, InUse, Within, There
<1>3. VisitedPointers(x) = Slot(x) \cup ClassOf(x) /\ VisitedPointers(x) \subseteq Ptr \cup {Nil}
  BY <1>2, SlotsTyped DEF VisitedPointers
<1>4. M \in SUBSET Obj /\ (\A y \in M : place[y] = "from") /\ M \subseteq reach
  <2>1. CASE PutAside(x)
    BY <2>1
  <2>2. CASE ~PutAside(x)
    <3>1. \A p \in Slot(x) \cup ClassOf(x) : Target(p, reach)
      BY <1>2, <2>2 DEF Within, Closed, Slot, ClassOf
    <3>2. M = Unforwarded(VisitedPointers(x))
      BY <2>2
    <3>3. M \subseteq reach
      BY <1>3, <3>1, <3>2 DEF Unforwarded, Pointers, Target
    <3> QED
      BY <1>3, <3>2, <3>3, UnforwardedTyped
  <2> QED
    BY <2>1, <2>2
<1>5. \A y \in Obj : \A i \in Slots(y) : SameTarget(field[y][i], field'[y][i])
  <2>1. CASE PutAside(x)
    BY <2>1, SameFields DEF Visit
  <2>2. CASE ~PutAside(x)
    <3>1. M = Unforwarded(VisitedPointers(x)) /\ field' = [field EXCEPT ![x] = ForwardSlots(x, Moved(M))]
      BY <2>2 DEF Visit
    <3> HIDE DEF M
    <3> QED
      BY <1>1, <1>2, <1>3, <3>1, SlotsForwarded
  <2> QED
    BY <2>1, <2>2
<1>6. Rooted' = Rooted
  BY <1>1 DEF Rooted
<1> HIDE DEF M
<1> QED
  BY <1>1, <1>4, <1>5, <1>6, CopiedOn

LEMMA TurningKept ==
  ASSUME Types, Copying, Kept, Within, kind' = kind, ~Marking',
         place' = place, field' = field, cid' = cid, class_table_' = class_table_,
         stack' = stack, before' = before, reach' = reach
  PROVE  Carried
<1>1. Steady
  BY DEF Steady, SameGraph, SameTarget, Rooted, InUse
<1>2. There' \subseteq reach
  BY DEF There, Within
<1> QED
  BY <1>1, <1>2, KeptOn, WithinOn DEF Carried

LEMMA ScavengeRootsKept ==
  ASSUME Types, Copying, Kept, Within, kind' = kind, ScavengeRoots
  PROVE  Carried
<1> DEFINE M == Unforwarded(stack)
<1>1. /\ place' = Moved(M) /\ cid' = cid /\ class_table_' = class_table_ /\ field' = field
      /\ stack' = {Forward(p, Moved(M)) : p \in stack} /\ phase' = "loop"
      /\ before' = before /\ reach' = reach
  BY DEF ScavengeRoots, ghosts, Copied
<1>2. stack \subseteq Ptr \cup {Nil} /\ \A p \in stack : p \in Ptr /\ p # Nil /\ Leads(p)
  BY PointerParts DEF Types, Copying, CopyingDone, Leading
<1>3. /\ M \in SUBSET Obj /\ (\A y \in M : place[y] = "from")
      /\ \A p \in stack : p.at = "from" /\ place[p.o] = "from" => p.o \in M
  BY <1>2, UnforwardedTyped
<1>4. M \subseteq reach
  BY DEF Unforwarded, Pointers, Within, Rooted
<1> HIDE DEF M
<1>5. \A p \in stack : Forward(p, Moved(M)).o = p.o
  <2> SUFFICES ASSUME NEW p \in stack PROVE Forward(p, Moved(M)).o = p.o
    OBVIOUS
  <2>1. p \in Ptr \cup {Nil} /\ Leads(p) /\ p # Nil
        /\ (p # Nil /\ p.at = "from" /\ place[p.o] = "from" => p.o \in M)
    BY <1>2, <1>3
  <2> QED
    BY <1>1, <1>3, <2>1, Forwarding
<1>6. Rooted' = Rooted
  BY <1>1, <1>5 DEF Rooted
<1>7. ~Marking'
  BY <1>1, StaysCopying
<1> QED
  BY <1>1, <1>3, <1>4, <1>6, <1>7, SameFields, CopiedOn

LEMMA FireKept ==
  ASSUME Types, Copying, Kept, Within, kind' = kind, NEW x \in pending,
         IsScavengeSurvivor(key(x)), NEW M, M = Unforwarded(Slot(x)), Copied(M, {}),
         field' = [field EXCEPT ![x] = ForwardSlots(x, Moved(M))],
         cid' = cid, class_table_' = class_table_, stack' = stack,
         before' = before, reach' = reach, ~Marking'
  PROVE  Carried
<1>1. x \in Obj /\ x \in InUse /\ x \in There /\ x \in reach /\ IsEphemeron(x)
  BY DEF Copying, CopyingWork, Apart, Lists, Types, InUse, Within, There
<1>2. Slot(x) \subseteq Ptr \cup {Nil} /\ Slots(x) = {1, 2} /\ Slot(x) = {field[x][1], field[x][2]}
  BY <1>1, SlotsTyped, KindsApart DEF Slot
<1>3. M \in SUBSET Obj /\ \A y \in M : place[y] = "from"
  BY <1>2, UnforwardedTyped
<1>4. Target(field[x][1], reach)
  <2>1. Leads(field[x][1]) /\ field[x][1] \in Ptr \cup {Nil}
    BY <1>1, <1>2 DEF Copying, CopyingDone, Leading
  <2>2. field[x][1] = Nil \/ field[x][1].at = "old" \/ place[field[x][1].o] # "from"
    BY DEF IsScavengeSurvivor, key, IsForwarded
  <2>3. field[x][1] # Nil => field[x][1].o \in There
    <3> SUFFICES ASSUME field[x][1] # Nil PROVE field[x][1].o \in There
      OBVIOUS
    <3>1. field[x][1].o \in Obj /\ place[field[x][1].o] \in Location
      BY <2>1, PointerParts DEF Leads, Valid, Types, Location
    <3>2. place[field[x][1].o] # "from"
      BY <2>1, <2>2, <3>1 DEF Leads, Valid
    <3> QED
      BY <3>1, <3>2 DEF There, Location
  <2> QED
    BY <2>3 DEF Target, Within
<1>5. Target(field[x][2], reach)
  BY <1>1, <1>4 DEF Within, Closed
<1>6. M \subseteq reach
  BY <1>2, <1>4, <1>5 DEF Unforwarded, Pointers, Target
<1>7. \A y \in Obj : \A i \in Slots(y) : SameTarget(field[y][i], field'[y][i])
  BY <1>1, <1>2, SlotsForwarded DEF Copied
<1>8. Rooted' = Rooted /\ place' = Moved(M)
  BY DEF Rooted, Copied
<1> QED
  BY <1>3, <1>6, <1>7, <1>8, CopiedOn

LEMMA CopyingKept ==
  ASSUME Types, Copying, Kept, Within, kind' = kind,
         \/ \E x \in Obj : ScavengeRemembered(x)
         \/ ScavengeRoots \/ TestScavengeLoop \/ ScavengeToSpace
         \/ ProcessTenureStack \/ ScavengeEphemeronList
  PROVE  Carried
<1>1. ASSUME NEW x \in Obj, ScavengeRemembered(x) PROVE Carried
  <2>1. phase' = phase /\ phase = "remembered" /\ x \in Works /\ Visit(x, rbits \ {x})
    BY <1>1 DEF ScavengeRemembered, Works
  <2> QED
    BY <2>1, StaysCopying, VisitKept
<1>2. CASE TestScavengeLoop
  <2>1. phase' \in {"mourn", "scan"}
    BY <1>2 DEF TestScavengeLoop
  <2> QED
    BY <1>2, <2>1, StaysCopying, TurningKept DEF TestScavengeLoop, graph, ghosts
<1>3. CASE ScavengeToSpace
  <2>1. ASSUME NEW x \in toScan, Visit(x, rbits), phase' = phase, phase = "scan" PROVE Carried
    BY <2>1, StaysCopying, VisitKept DEF Works
  <2>2. ASSUME phase' = "tenure", UNCHANGED <<place, aged, graph, remembered, work, lists, marked, ghosts>>
        PROVE  Carried
    BY <2>2, StaysCopying, TurningKept DEF graph, ghosts
  <2> QED
    BY <1>3, <2>1, <2>2 DEF ScavengeToSpace
<1>4. CASE ProcessTenureStack
  <2>1. ASSUME NEW x \in tenured, Visit(x, rbits), phase' = phase, phase = "tenure" PROVE Carried
    BY <2>1, StaysCopying, VisitKept DEF Works
  <2>2. ASSUME phase' = "ephemerons", UNCHANGED <<place, graph, ghosts>> PROVE Carried
    BY <2>2, StaysCopying, TurningKept DEF graph, ghosts
  <2> QED
    BY <1>4, <2>1, <2>2 DEF ProcessTenureStack
<1>5. CASE ScavengeEphemeronList
  <2>1. /\ phase = "ephemerons" /\ phase' \in {"ephemerons", "loop"}
        /\ cid' = cid /\ class_table_' = class_table_ /\ stack' = stack
        /\ before' = before /\ reach' = reach
    BY <1>5 DEF ScavengeEphemeronList, ghosts
  <2>2. ~Marking'
    BY <2>1, StaysCopying
  <2>3. ASSUME NEW x \in pending, IsScavengeSurvivor(key(x)), Copied(Unforwarded(Slot(x)), {}),
               field' = [field EXCEPT ![x] = ForwardSlots(x, Moved(Unforwarded(Slot(x))))]
        PROVE  Carried
    BY <2>1, <2>2, <2>3, FireKept
  <2>4. CASE place' = place /\ field' = field
    BY <2>1, <2>2, <2>4, TurningKept
  <2> QED
    BY <1>5, <2>3, <2>4 DEF ScavengeEphemeronList
<1> QED
  BY <1>1, <1>2, <1>3, <1>4, <1>5, ScavengeRootsKept

(* Marking moves nothing.                                                    *)
LEMMA MarkedOn ==
  ASSUME Types, Marking, Kept, Within, kind' = kind,
         phase' \in {"mark", "markEphemerons", "sweep"},
         place' = place, graph' = graph, ghosts' = ghosts, marked' \subseteq reach
  PROVE  Carried
<1>1. Steady
  BY DEF Steady, SameGraph, SameTarget, Rooted, InUse, graph, ghosts
<1>2. ~Copying'
  BY DEF Copying, CopyingWork
<1> QED
  BY <1>1, <1>2, KeptOn, WithinOn DEF Carried

LEMMA MarkPointersInside ==
  ASSUME Types, Marking, Within, NEW x, NEW ptrs, NEW done, MarkPointers(x, ptrs, done),
         \A p \in ptrs : Target(p, reach)
  PROVE  marked' \subseteq reach
<1>1. marked' = marked \cup NotMarked(ptrs)
  BY DEF MarkPointers, MarkObjects
<1>2. NotMarked(ptrs) \subseteq reach
  BY DEF NotMarked, Pointers, Target
<1> QED
  BY <1>1, <1>2 DEF Within

LEMMA MarkingKept ==
  ASSUME Types, Marking, Kept, Within, kind' = kind, ProcessMarkStack \/ MarkEphemeronList
  PROVE  Carried
<1>1. Waiting \subseteq reach
  BY DEF Marking, MarkingDone, Within
<1>2. CASE ProcessMarkStack
  <2>1. /\ phase = "mark" /\ phase' \in {"mark", "markEphemerons", "sweep"}
        /\ place' = place /\ graph' = graph /\ ghosts' = ghosts
    BY <1>2 DEF ProcessMarkStack
  <2>2. ASSUME NEW x \in toScan, MarkPointers(x, IF PutAside(x) THEN {} ELSE VisitedPointers(x), {x})
        PROVE  marked' \subseteq reach
    <3>1. x \in reach
      BY <1>1 DEF Waiting, Works
    <3>2. \A p \in (IF PutAside(x) THEN {} ELSE VisitedPointers(x)) : Target(p, reach)
      BY <3>1 DEF Within, Closed, VisitedPointers, Slot, ClassOf
    <3> QED
      BY <2>2, <3>2, MarkPointersInside
  <2>3. CASE marked' = marked
    BY <2>1, <2>3, MarkedOn DEF Within
  <2> QED
    BY <1>2, <2>1, <2>2, <2>3, MarkedOn DEF ProcessMarkStack
<1>3. CASE MarkEphemeronList
  <2>1. /\ phase = "markEphemerons" /\ phase' \in {"mark", "markEphemerons", "sweep"}
        /\ place' = place /\ graph' = graph /\ ghosts' = ghosts
    BY <1>3 DEF MarkEphemeronList
  <2>2. ASSUME NEW x \in pending, IsMarkSweepSurvivor(key(x)), MarkPointers(x, Slot(x), {})
        PROVE  marked' \subseteq reach
    <3>1. x \in reach /\ IsEphemeron(x)
      BY <1>1 DEF Waiting, Lists, Marking, MarkingWork, Apart
    <3>2. Target(field[x][1], reach)
      BY <2>2 DEF IsMarkSweepSurvivor, key, Target, Within
    <3>3. Target(field[x][2], reach)
      BY <3>1, <3>2 DEF Within, Closed
    <3>4. \A p \in Slot(x) : Target(p, reach)
      BY <3>1, <3>2, <3>3, KindsApart DEF Slot
    <3> QED
      BY <2>2, <3>4, MarkPointersInside
  <2>3. CASE marked' = marked
    BY <2>1, <2>3, MarkedOn DEF Within
  <2> QED
    BY <1>3, <2>1, <2>2, <2>3, MarkedOn DEF MarkEphemeronList
<1> QED
  BY <1>2, <1>3

-----------------------------------------------------------------------------
(* Together: while a collection runs.                                        *)
Linked == IInv /\ (~Running => Kept /\ Within)

LEMMA StutterLinked == Linked /\ UNCHANGED vars => Linked'
<1> SUFFICES ASSUME Linked, UNCHANGED vars PROVE Linked'
  OBVIOUS
<1>1. IInv'
  BY StutterKeeps DEF Linked
<1>2. CASE Running
  BY <1>1, <1>2 DEF Linked, Running, vars, gcVars
<1>3. CASE ~Running
  <2>1. Types /\ Kept /\ Within
    BY <1>3 DEF Linked, IInv
  <2>2. Steady
    BY DEF Steady, SameGraph, SameTarget, Rooted, InUse, vars, graph, gcVars
  <2>3. marked' = marked /\ place' = place /\ phase' = phase
    BY DEF vars, gcVars
  <2>4. Copying' => There' \subseteq reach
    <3>1. Copying' => Copying
      <4>1. Idle \/ Copying \/ Marking
        BY DEF Linked, IInv
      <4>2. ~Idle
        BY <1>3 DEF Idle, Running
      <4>3. Marking => ~Copying'
        BY <2>3 DEF Marking, MarkingWork, Copying, CopyingWork
      <4> QED
        BY <4>1, <4>2, <4>3
    <3> QED
      BY <2>1, <2>3, <3>1 DEF Within, There
  <2>5. Marking' => marked' \subseteq reach
    <3>1. Marking' => Marking
      <4>1. Idle \/ Copying \/ Marking
        BY DEF Linked, IInv
      <4>2. ~Idle
        BY <1>3 DEF Idle, Running
      <4>3. Copying => ~Marking'
        BY <2>3 DEF Marking, MarkingWork, Copying, CopyingWork
      <4> QED
        BY <4>1, <4>2, <4>3
    <3> QED
      BY <2>1, <2>3, <3>1 DEF Within
  <2> QED
    BY <1>1, <2>1, <2>2, <2>4, <2>5, KeptOn, WithinOn DEF Linked
<1> QED
  BY <1>2, <1>3

(* The program does not begin a collection by itself.                         *)
LEMMA ProgramStays ==
  ASSUME Allocating \/ Mutating
  PROVE  phase' = phase
<1>1. ASSUME NEW x, NEW at, New(x, at) PROVE phase' = phase
  BY <1>1 DEF New, gcVars
<1>2. ASSUME NEW x, NEW c, NEW k, NEW at, NewInstance(x, c, k, at) PROVE phase' = phase
  BY <1>2 DEF NewInstance, gcVars
<1>3. ASSUME NEW x, NEW c, NEW k, Behavior_adoptInstance(x, c, k) PROVE phase' = phase
  BY <1>3 DEF Behavior_adoptInstance, gcVars
<1>4. ASSUME NEW x, NEW i, Load(x, i) \/ (\E p : Store(x, i, p)) PROVE phase' = phase
  BY <1>4 DEF Load, Store, gcVars
<1>5. ASSUME NEW p, Drop(p) PROVE phase' = phase
  BY <1>5 DEF Drop, gcVars
<1>6. ASSUME NEW to, BecomeForward(to) PROVE phase' = phase
  BY <1>6 DEF BecomeForward, gcVars
<1>7. CASE Allocating
  BY <1>1, <1>2, <1>7 DEF Allocating
<1>8. CASE Mutating
  BY <1>3, <1>4, <1>5, <1>6, <1>8 DEF Mutating
<1> QED
  BY <1>7, <1>8

LEMMA LinkedOn == Linked /\ [Next]_vars => Linked'
<1> SUFFICES ASSUME Linked, Next PROVE Linked'
  BY StutterLinked
<1>1. IInv /\ Types /\ Tabled /\ (Idle \/ Copying \/ Marking) /\ IInv'
  BY StepKeeps DEF Linked, IInv
<1>2. kind' = kind
  BY DEF Next
<1>3. ASSUME Running, Starting PROVE Kept' /\ Within'
  BY <1>1, <1>2, <1>3, RunningIsIdle, StartScavengeStarts, StartMarkSweepStarts DEF Starting
<1>4. CASE Running /\ (Allocating \/ Mutating)
  <2>1. phase' = phase
    BY <1>4, ProgramStays
  <2> QED
    BY <1>1, <1>4, <2>1 DEF Linked, Running
<1>5. CASE ~Running /\ Collecting
  <2>1. Kept /\ Within /\ (Copying \/ Marking)
    BY <1>1, <1>5, RunningIsIdle DEF Linked
  <2>2. CASE MournScavenge \/ MournAndSweep
    BY <1>1, <2>2 DEF MournScavenge, MournAndSweep, Linked, Running
  <2>3. CASE ProcessMarkStack \/ MarkEphemeronList
    <3>1. Marking
      BY <2>1, <2>3 DEF ProcessMarkStack, MarkEphemeronList, Copying, CopyingWork
    <3> QED
      BY <1>1, <1>2, <2>1, <2>3, <3>1, MarkingKept DEF Linked, Carried
  <2>4. CASE \/ \E x \in Obj : ScavengeRemembered(x)
             \/ ScavengeRoots \/ TestScavengeLoop \/ ScavengeToSpace
             \/ ProcessTenureStack \/ ScavengeEphemeronList
    <3>1. Copying
      BY <2>1, <2>4 DEF ScavengeRemembered, ScavengeRoots, TestScavengeLoop, ScavengeToSpace,
                        ProcessTenureStack, ScavengeEphemeronList, Marking, MarkingWork
    <3> QED
      BY <1>1, <1>2, <2>1, <2>4, <3>1, CopyingKept DEF Linked, Carried
  <2> QED
    BY <1>5, <2>2, <2>3, <2>4 DEF Collecting
<1>6. Collecting => ~Running
  BY DEF Collecting, ScavengeRemembered, ScavengeRoots, TestScavengeLoop, ScavengeToSpace,
         ProcessTenureStack, ScavengeEphemeronList, MournScavenge, ProcessMarkStack,
         MarkEphemeronList, MournAndSweep, Running
<1>7. Running /\ Starting => Linked'
  BY <1>1, <1>3 DEF Linked
<1> QED
  BY <1>4, <1>5, <1>6, <1>7 DEF Next

LEMMA AlwaysLinked == Spec => []Linked
<1>1. Init => Linked
  BY InitIdle DEF Init, Linked, Running
<1> QED
  BY <1>1, LinkedOn, PTL DEF Spec

-----------------------------------------------------------------------------
LEMMA PhaseOfCopying ==
  ASSUME IInv, phase \in {"remembered", "loop", "scan", "tenure", "ephemerons", "mourn"}
  PROVE  Copying /\ ~Running /\ Types /\ Tabled
BY DEF IInv, Idle, Marking, MarkingWork, Running

LEMMA PhaseOfMarking ==
  ASSUME IInv, phase \in {"mark", "markEphemerons", "sweep"}
  PROVE  Marking /\ ~Running /\ Types /\ Tabled
BY DEF IInv, Idle, Copying, CopyingWork, Running

LEMMA NextWhenMourning ==
  ASSUME Next
  PROVE  /\ phase = "mourn" => MournScavenge
         /\ phase = "sweep" => MournAndSweep
BY DEF Next, Running, Collecting, ScavengeRemembered, ScavengeRoots, TestScavengeLoop,
       ScavengeToSpace, ProcessTenureStack, ScavengeEphemeronList, MournScavenge,
       ProcessMarkStack, MarkEphemeronList, MournAndSweep

(* A collection frees all that it did not have to take for alive: after a       *)
(* mark-sweep only what the roots reached when it began is left, after a        *)
(* scavenge what they or an old object reached; neither a weak array nor an      *)
(* ephemeron with a dead key keeps anything (heap.cc:315-348, 638-668).         *)
THEOREM GarbageIsCollected == Spec => CollectsGarbage
<1>1. ASSUME Linked, [Next]_vars
      PROVE  [phase = "mourn" \/ phase = "sweep" =>
                 \A x \in Obj : place'[x] # "free" => x \in reach]_vars
  <2> SUFFICES ASSUME Next, phase = "mourn" \/ phase = "sweep",
                      NEW x \in Obj, place'[x] # "free"
               PROVE  x \in reach
    BY <1>1
  <2>1. IInv /\ (~Running => Within)
    BY <1>1 DEF Linked
  <2>2. CASE phase = "mourn"
    <3>1. Copying /\ Within /\ Types
      BY <2>1, <2>2, PhaseOfCopying
    <3>2. place' = [y \in Obj |-> IF y \in {z \in Obj : place[z] = "from"} THEN "free" ELSE place[y]]
      BY <2>2, NextWhenMourning DEF MournScavenge, Freed
    <3>3. place[x] # "from" /\ place[x] # "free"
      BY <3>2
    <3>4. x \in There
      BY <3>1, <3>3 DEF There, Types, Location
    <3> QED
      BY <3>1, <3>4 DEF Within
  <2>3. CASE phase = "sweep"
    <3>1. Marking /\ Within
      BY <2>1, <2>3, PhaseOfMarking
    <3>2. place' = [y \in Obj |-> IF y \in Obj \ marked THEN "free" ELSE place[y]]
      BY <2>3, NextWhenMourning DEF MournAndSweep, Freed
    <3>3. x \in marked
      BY <3>2
    <3> QED
      BY <3>1, <3>3 DEF Within
  <2> QED
    BY <2>2, <2>3
<1> QED
  BY <1>1, AlwaysLinked, PTL DEF Spec, CollectsGarbage

-----------------------------------------------------------------------------
(* An ephemeron left on the list when there is nothing more to visit has a key  *)
(* that did not survive.  The first pass of a scavenge relies on the roots for   *)
(* it: the loop is left before any pass when nothing on the stack was new.     *)
Hopeless ==
  /\ phase \in {"ephemerons", "loop", "mourn"} /\ toScan = {} /\ tenured = {} =>
       \A x \in ephemeron_list_ : ~IsScavengeSurvivor(key(x))
  /\ phase \in {"markEphemerons", "sweep"} /\ toScan = {} =>
       \A x \in ephemeron_list_ : ~IsMarkSweepSurvivor(key(x))
AtWork(p) == p.at = "from" /\ (place[p.o] = "from" \/ p.o \in toScan \cup tenured)
Spark ==
  phase = "remembered" =>
    \/ ephemeron_list_ = {} /\ \A x \in todo : ~IsEphemeron(x)
    \/ \E p \in stack : AtWork(p)
Ending == Hopeless /\ Spark

LEMMA StartScavengeSparks ==
  ASSUME FreshRoot = TRUE, Types, Idle, kind' = kind, NEW all \in BOOLEAN, StartScavenge(all)
  PROVE  Ending'
<1>1. /\ (\A x \in Old : ~IsEphemeron(x)) \/ \E p \in stack : IsNewObject(p)
      /\ stack' = {Flipped(p) : p \in stack}
      /\ place' = [x \in Obj |-> IF place[x] = "to" THEN "from" ELSE place[x]]
      /\ phase' = "remembered" /\ todo' = {x \in Obj : rset[x] > 0}
      /\ ephemeron_list_' = ephemeron_list_
  BY DEF StartScavenge, FlipSpaces, lists
<1>2. ephemeron_list_' = {} /\ todo' \subseteq Old
  BY <1>1 DEF Idle, Waiting, Lists, Remembered
<1>3. ASSUME NEW p \in stack, IsNewObject(p) PROVE AtWork(Flipped(p))'
  <2>1. p \in Ptr /\ p # Nil /\ p.o \in Obj /\ p.at = "to" /\ place[p.o] = "to"
    BY <1>3, PointerParts DEF Types, Idle, Settled, Valid, IsNewObject, Location
  <2>2. Flipped(p).o = p.o /\ Flipped(p).at = "from"
    BY <2>1, FlippedPointers
  <2>3. place'[p.o] = "from"
    BY <1>1, <2>1
  <2> QED
    BY <2>2, <2>3 DEF AtWork
<1>4. Spark'
  <2>1. CASE \A x \in Old : ~IsEphemeron(x)
    BY <1>2, <2>1 DEF Spark, IsEphemeron
  <2>2. CASE \E p \in stack : IsNewObject(p)
    BY <1>1, <1>3, <2>2 DEF Spark
  <2> QED
    BY <1>1, <2>1, <2>2
<1> QED
  BY <1>1, <1>4 DEF Ending, Hopeless

(* Before the roots: whatever moves is work.                                  *)
LEMMA ScavengeRememberedSparks ==
  ASSUME Types, Copying, Ending, kind' = kind, NEW x \in Obj, ScavengeRemembered(x)
  PROVE  Ending'
<1> DEFINE M == IF PutAside(x) THEN {} ELSE Unforwarded(VisitedPointers(x))
<1>1. /\ place' = Moved(M) /\ stack' = stack /\ phase = "remembered" /\ phase' = "remembered"
      /\ x \in todo /\ todo' = todo \ {x}
      /\ toScan' = (toScan \ {x}) \cup (M \ aged) /\ tenured' = (tenured \ {x}) \cup (M \cap aged)
      /\ ephemeron_list_' = ephemeron_list_ \cup {y \in {x} : IsEphemeron(y)}
  BY DEF ScavengeRemembered, Visit, Copied
<1>2. x \notin toScan \cup tenured
  BY <1>1 DEF Copying, CopyingWork, Apart
<1> HIDE DEF M
<1>3. ASSUME NEW p \in stack, AtWork(p) PROVE AtWork(p)'
  <2>1. p.o \in Obj /\ p.at = "from"
    BY <1>3, PointerParts DEF Types, AtWork
  <2>2. CASE p.o \in M
    BY <1>1, <2>1, <2>2 DEF AtWork
  <2>3. CASE p.o \notin M
    <3>1. place'[p.o] = place[p.o]
      BY <1>1, <2>1, <2>3 DEF Moved
    <3> QED
      BY <1>1, <1>2, <1>3, <3>1 DEF AtWork
  <2> QED
    BY <2>2, <2>3
<1>4. Spark'
  <2>1. CASE ephemeron_list_ = {} /\ \A y \in todo : ~IsEphemeron(y)
    BY <1>1, <2>1 DEF Spark, IsEphemeron
  <2>2. CASE \E p \in stack : AtWork(p)
    BY <1>1, <1>3, <2>2 DEF Spark
  <2> QED
    BY <1>1, <2>1, <2>2 DEF Ending, Spark
<1> QED
  BY <1>1, <1>4 DEF Ending, Hopeless

LEMMA ScavengeRootsSparks ==
  ASSUME Types, Ending, kind' = kind, ScavengeRoots
  PROVE  Ending'
<1> DEFINE M == Unforwarded(stack)
<1>1. /\ phase = "remembered" /\ phase' = "loop" /\ todo = {}
      /\ toScan' = (toScan \ {}) \cup (M \ aged) /\ tenured' = (tenured \ {}) \cup (M \cap aged)
      /\ ephemeron_list_' = ephemeron_list_
  BY DEF ScavengeRoots, Copied, lists
<1>2. ASSUME NEW p \in stack, AtWork(p) PROVE ~(toScan' = {} /\ tenured' = {})
  <2>1. p \in Ptr /\ p # Nil /\ p.at = "from"
    BY <1>2, PointerParts DEF Types, AtWork
  <2>2. p.o \in M \/ p.o \in toScan \cup tenured
    BY <1>2, <2>1 DEF AtWork, Unforwarded, Pointers, IsForwarded
  <2> HIDE DEF M
  <2> QED
    BY <1>1, <2>2
<1> HIDE DEF M
<1>3. ephemeron_list_ = {} \/ \E p \in stack : AtWork(p)
  BY <1>1 DEF Ending, Spark
<1>4. CASE ephemeron_list_ = {}
  BY <1>1, <1>4 DEF Ending, Hopeless, Spark
<1>5. CASE \E p \in stack : AtWork(p)
  BY <1>1, <1>2, <1>5 DEF Ending, Hopeless, Spark
<1> QED
  BY <1>3, <1>4, <1>5

(* A pass over the list that moved nothing decided nothing either.            *)
LEMMA ScavengeEphemeronListEnds ==
  ASSUME Types, Copying, Ending, kind' = kind, ScavengeEphemeronList
  PROVE  Ending'
<1>1. phase = "ephemerons" /\ phase' \in {"ephemerons", "loop"}
  BY DEF ScavengeEphemeronList
<1> SUFFICES ASSUME toScan' = {}, tenured' = {}, NEW y \in ephemeron_list_'
             PROVE  ~IsScavengeSurvivor(key(y))'
  BY <1>1 DEF Ending, Hopeless, Spark
<1>2. ASSUME NEW x \in pending, Copied(Unforwarded(Slot(x)), {}),
             field' = [field EXCEPT ![x] = ForwardSlots(x, Moved(Unforwarded(Slot(x))))],
             ephemeron_list_' = ephemeron_list_
      PROVE  ~IsScavengeSurvivor(key(y))'
  <2> DEFINE M == Unforwarded(Slot(x))
  <2>1. M = {} /\ toScan = {} /\ tenured = {}
    BY <1>2 DEF Copied
  <2>2. place' = Moved(M)
    BY <1>2 DEF Copied
  <2> HIDE DEF M
  <2>3. \A z \in Obj : place'[z] = place[z]
    BY <2>1, <2>2 DEF Moved
  <2>4. y # x /\ y \in Obj /\ IsEphemeron(y)
    BY <1>2 DEF Copying, CopyingWork, Apart, Types
  <2>5. field'[y] = field[y]
    BY <1>2, <2>4 DEF Types
  <2>6. ~IsScavengeSurvivor(key(y)) /\ y \in ephemeron_list_
    BY <1>1, <1>2, <2>1 DEF Ending, Hopeless
  <2>7. key(y) \in Ptr \cup {Nil}
    BY <2>4, KindsApart DEF key, Types
  <2> QED
    BY <2>3, <2>5, <2>6, <2>7, PointerParts DEF IsScavengeSurvivor, IsForwarded, key
<1>3. ASSUME UNCHANGED <<place, field, work>>, NEW x, ~IsScavengeSurvivor(key(x)),
             ephemeron_list_' = ephemeron_list_ \cup {x}
      PROVE  ~IsScavengeSurvivor(key(y))'
  <2>1. \/ y = x
        \/ y \in ephemeron_list_ /\ toScan = {} /\ tenured = {}
    BY <1>3 DEF work
  <2>2. ~IsScavengeSurvivor(key(y))
    BY <1>1, <1>3, <2>1 DEF Ending, Hopeless
  <2> QED
    BY <1>3, <2>2 DEF IsScavengeSurvivor, IsForwarded, key
<1>4. ASSUME UNCHANGED <<place, field, work, ephemeron_list_>>
      PROVE  ~IsScavengeSurvivor(key(y))'
  <2>1. ~IsScavengeSurvivor(key(y))
    BY <1>1, <1>4 DEF Ending, Hopeless, work
  <2> QED
    BY <1>4, <2>1 DEF IsScavengeSurvivor, IsForwarded, key
<1> QED
  BY <1>2, <1>3, <1>4 DEF ScavengeEphemeronList

LEMMA MarkEphemeronListEnds ==
  ASSUME Types, Ending, kind' = kind, MarkEphemeronList
  PROVE  Ending'
<1>1. /\ phase = "markEphemerons" /\ phase' \in {"markEphemerons", "sweep", "mark"}
      /\ place' = place /\ field' = field
  BY DEF MarkEphemeronList, graph
<1> SUFFICES ASSUME toScan' = {}, NEW y \in ephemeron_list_', phase' # "mark"
             PROVE  ~IsMarkSweepSurvivor(key(y))'
  BY <1>1 DEF Ending, Hopeless, Spark
<1>2. ASSUME NEW x \in pending, MarkPointers(x, Slot(x), {}), ephemeron_list_' = ephemeron_list_
      PROVE  marked' = marked /\ toScan = {}
  BY <1>2 DEF MarkPointers, MarkObjects
<1>3. ASSUME toScan = {}, marked' = marked, y \in ephemeron_list_ \/ ~IsMarkSweepSurvivor(key(y))
      PROVE  ~IsMarkSweepSurvivor(key(y))'
  <2>1. ~IsMarkSweepSurvivor(key(y))
    BY <1>1, <1>3 DEF Ending, Hopeless
  <2> QED
    BY <1>1, <1>3, <2>1 DEF IsMarkSweepSurvivor, key
<1>4. /\ toScan = {} /\ marked' = marked
      /\ y \in ephemeron_list_ \/ ~IsMarkSweepSurvivor(key(y))
  BY <1>2 DEF MarkEphemeronList
<1> QED
  BY <1>3, <1>4

LEMMA EndingOn ==
  ASSUME FreshRoot = TRUE, IInv, Ending, [Next]_vars
  PROVE  Ending'
<1> USE DEF Running
<1>1. Types /\ Tabled /\ (Idle \/ Copying \/ Marking)
  BY DEF IInv
<1>2. CASE phase' = "mutator" \/ phase' = "mark"
  BY <1>2 DEF Ending, Hopeless, Spark
<1>3. CASE UNCHANGED vars
  <2>1. /\ phase' = phase /\ place' = place /\ field' = field /\ stack' = stack
        /\ toScan' = toScan /\ tenured' = tenured /\ todo' = todo /\ kind' = kind
        /\ ephemeron_list_' = ephemeron_list_ /\ marked' = marked
    BY <1>3 DEF vars, gcVars, work, lists, graph
  <2> QED
    BY <2>1 DEF Ending, Hopeless, Spark, AtWork, IsScavengeSurvivor, IsForwarded,
                IsMarkSweepSurvivor, key, IsEphemeron
<1>4. CASE Running /\ (Allocating \/ Mutating)
  <2>1. phase' = phase
    BY <1>4, ProgramStays
  <2> QED
    BY <1>2, <1>4, <2>1
<1>5. CASE Running /\ Starting /\ kind' = kind
  <2>1. Idle
    BY <1>5, RunningIsIdle
  <2>2. StartMarkSweep => phase' = "mark"
    BY DEF StartMarkSweep
  <2> QED
    BY <1>1, <1>2, <1>5, <2>1, <2>2, StartScavengeSparks DEF Starting
<1>6. CASE Collecting /\ kind' = kind
  <2>1. ASSUME NEW x \in Obj, ScavengeRemembered(x) PROVE Ending'
    <3>1. Copying
      BY <2>1, PhaseOfCopying DEF ScavengeRemembered
    <3> QED
      BY <1>1, <1>6, <2>1, <3>1, ScavengeRememberedSparks
  <2>2. ASSUME ScavengeRoots PROVE Ending'
    BY <1>1, <1>6, <2>2, ScavengeRootsSparks
  <2>3. ASSUME TestScavengeLoop PROVE Ending'
    <3>1. /\ phase = "loop" /\ phase' \in {"mourn", "scan"} /\ place' = place /\ field' = field
          /\ toScan' = toScan /\ tenured' = tenured /\ ephemeron_list_' = ephemeron_list_
      BY <2>3 DEF TestScavengeLoop, graph, work, lists
    <3> QED
      BY <3>1 DEF Ending, Hopeless, Spark, IsScavengeSurvivor, IsForwarded, key
  <2>4. ASSUME ScavengeToSpace PROVE Ending'
    <3>1. phase' \in {"scan", "tenure"}
      BY <2>4 DEF ScavengeToSpace
    <3> QED
      BY <3>1 DEF Ending, Hopeless, Spark
  <2>5. ASSUME ProcessTenureStack PROVE Ending'
    <3>1. phase' = "tenure" \/ (phase' = "ephemerons" /\ ephemeron_list_' = {})
      BY <2>5 DEF ProcessTenureStack
    <3> QED
      BY <3>1 DEF Ending, Hopeless, Spark
  <2>6. ASSUME ScavengeEphemeronList PROVE Ending'
    <3>1. Copying
      BY <2>6, PhaseOfCopying DEF ScavengeEphemeronList
    <3> QED
      BY <1>1, <1>6, <2>6, <3>1, ScavengeEphemeronListEnds
  <2>7. ASSUME ProcessMarkStack PROVE Ending'
    <3>1. phase' = "mark" \/ (phase' = "markEphemerons" /\ ephemeron_list_' = {})
      BY <2>7 DEF ProcessMarkStack
    <3> QED
      BY <3>1 DEF Ending, Hopeless, Spark
  <2>8. ASSUME MarkEphemeronList PROVE Ending'
    BY <1>1, <1>6, <2>8, MarkEphemeronListEnds
  <2>9. ASSUME MournScavenge \/ MournAndSweep PROVE Ending'
    BY <1>2, <2>9 DEF MournScavenge, MournAndSweep
  <2> QED
    BY <1>6, <2>1, <2>2, <2>3, <2>4, <2>5, <2>6, <2>7, <2>8, <2>9 DEF Collecting
<1> QED
  BY <1>3, <1>4, <1>5, <1>6 DEF Next

LEMMA AlwaysEnding ==
  ASSUME FreshRoot = TRUE
  PROVE  Spec => []Ending
<1>1. Init => Ending
  BY DEF Init, Ending, Hopeless, Spark
<1>2. IInv /\ Ending /\ [Next]_vars => Ending'
  BY EndingOn
<1> QED
  BY <1>1, <1>2, Invariant, PTL DEF Spec

-----------------------------------------------------------------------------
(* What is kept when the last step of a collection comes: in a scavenge what    *)
(* has left from-space, in a mark-sweep what is marked.                       *)
LEMMA ThereClosed ==
  ASSUME Unbarriered = {}, Types, Tabled, Copying, Hopeless, phase = "mourn"
  PROVE  /\ Closed(There) /\ Rooted \subseteq There
         /\ \A x \in There : cid[x] # 0 => Target(class_table_[cid[x]], There)
         /\ \A x \in ephemeron_list_ : ~Target(field[x][1], There)
<1>1. /\ toScan = {} /\ tenured = {} /\ todo = {} /\ pending = {}
      /\ \A y \in weak_list_ : IsWeakArray(y)
      /\ \A y \in ephemeron_list_ : IsEphemeron(y)
      /\ \A p \in stack : p.at # "from"
      /\ Waiting = ephemeron_list_ \cup weak_list_
  BY DEF Copying, CopyingWork, Apart, Waiting, Works, Lists
<1>2. /\ \A x \in There : \A i \in Slots(x) : Leads(field[x][i]) /\ field[x][i] \in Ptr \cup {Nil}
      /\ \A p \in stack : Leads(p) /\ p \in Ptr
      /\ \A k \in Cid : Leads(class_table_[k]) /\ class_table_[k] \in Ptr \cup {Nil}
      /\ \A x \in There \ Waiting : Traced(x)
  BY DEF Copying, CopyingDone, Leading, Types, InUse, There
<1>3. \A p \in Ptr \cup {Nil} : Leads(p) /\ (p = Nil \/ p.at # "from" \/ place[p.o] # "from")
                                  => Target(p, There)
  <2> SUFFICES ASSUME NEW p \in Ptr, Leads(p), p.at # "from" \/ place[p.o] # "from"
               PROVE  p.o \in There
    BY DEF Target
  <2>1. p.o \in Obj /\ p.at \in Location /\ p # Nil /\ place[p.o] \in Location \cup {"free"}
    BY PointerParts DEF Types
  <2> QED
    BY <2>1 DEF Leads, Valid, There, Location
<1>4. \A x \in There : cid[x] # 0 => Target(class_table_[cid[x]], There)
  <2> SUFFICES ASSUME NEW x \in There, cid[x] # 0 PROVE Target(class_table_[cid[x]], There)
    OBVIOUS
  <2>1. x \in Obj /\ cid[x] \in Cid /\ x \notin Waiting
    BY <1>1 DEF Types, There, Tabled, IsWeakArray, IsEphemeron
  <2>2. Traced(x)
    BY <1>2, <2>1
  <2> QED
    BY <1>2, <1>3, <2>1, <2>2 DEF Traced
<1>5. \A x \in There \ Waiting : \A i \in Slots(x) : Target(field[x][i], There)
  BY <1>2, <1>3 DEF Traced
<1>6. \A x \in ephemeron_list_ : ~Target(field[x][1], There)
  BY <1>1 DEF Hopeless, IsScavengeSurvivor, IsForwarded, key, Target, There
<1>7. Rooted \subseteq There
  BY <1>1, <1>2, <1>3, PointerParts DEF Rooted, Target
<1>8. \A x \in There : ~PutAside(x) => \A i \in Slots(x) : Target(field[x][i], There)
  BY <1>1, <1>5 DEF PutAside
<1>9. \A x \in There : IsEphemeron(x) /\ Target(field[x][1], There) => Target(field[x][2], There)
  <2> SUFFICES ASSUME NEW x \in There, IsEphemeron(x), Target(field[x][1], There)
               PROVE  Target(field[x][2], There)
    OBVIOUS
  <2>1. x \notin Waiting /\ 2 \in Slots(x)
    BY <1>1, <1>6, KindsApart
  <2> QED
    BY <1>5, <2>1
<1> QED
  BY <1>4, <1>6, <1>7, <1>8, <1>9 DEF Closed

LEMMA MarkedClosed ==
  ASSUME Unbarriered = {}, Types, Tabled, Marking, Hopeless, phase = "sweep"
  PROVE  /\ Closed(marked) /\ Rooted \subseteq marked
         /\ \A x \in marked : cid[x] # 0 => Target(class_table_[cid[x]], marked)
         /\ \A x \in ephemeron_list_ : ~Target(field[x][1], marked)
<1>1. /\ toScan = {} /\ tenured = {} /\ todo = {} /\ pending = {}
      /\ \A y \in weak_list_ : IsWeakArray(y)
      /\ \A y \in ephemeron_list_ : IsEphemeron(y)
      /\ Waiting = ephemeron_list_ \cup weak_list_
      /\ \A x \in marked \ Waiting : Reached(x)
  BY DEF Marking, MarkingWork, MarkingDone, Apart, Waiting, Works, Lists
<1>2. \A x \in marked \ Waiting : \A i \in Slots(x) : Target(field[x][i], marked)
  BY <1>1 DEF Reached, IsMarkSweepSurvivor, Slot, Target
<1>3. \A x \in marked : cid[x] # 0 => Target(class_table_[cid[x]], marked)
  <2> SUFFICES ASSUME NEW x \in marked, cid[x] # 0 PROVE Target(class_table_[cid[x]], marked)
    OBVIOUS
  <2>1. x \in Obj /\ x \notin Waiting
    BY <1>1 DEF Types, Tabled, IsWeakArray, IsEphemeron
  <2> QED
    BY <1>1, <2>1 DEF Reached, IsMarkSweepSurvivor, ClassOf, Target
<1>4. \A x \in ephemeron_list_ : ~Target(field[x][1], marked)
  BY <1>1 DEF Hopeless, IsMarkSweepSurvivor, key, Target
<1>5. Rooted \subseteq marked
  BY DEF Rooted, Marking, MarkingDone
<1>6. \A x \in marked : ~PutAside(x) => \A i \in Slots(x) : Target(field[x][i], marked)
  BY <1>1, <1>2 DEF PutAside
<1>7. \A x \in marked : IsEphemeron(x) /\ Target(field[x][1], marked) => Target(field[x][2], marked)
  <2> SUFFICES ASSUME NEW x \in marked, IsEphemeron(x), Target(field[x][1], marked)
               PROVE  Target(field[x][2], marked)
    OBVIOUS
  <2>1. x \notin Waiting /\ 2 \in Slots(x)
    BY <1>1, <1>4, KindsApart
  <2> QED
    BY <1>2, <2>1
<1> QED
  BY <1>3, <1>4, <1>5, <1>6, <1>7 DEF Closed

(* What one step of a collection does to an object that was alive.            *)
Preserves(x) ==
  /\ place'[x] # "free"
  /\ \A i \in Slots(x) : KeepsSlot(x, i)
  /\ cid'[x] = cid[x]
  /\ cid[x] # 0 => Same(class_table_[cid[x]], class_table_'[cid[x]])

LEMMA KeptSlot ==
  ASSUME NEW x, NEW i, SameTarget(field[x][i], field'[x][i])
  PROVE  KeepsSlot(x, i)
BY DEF SameTarget, KeepsSlot, Same

LEMMA StepPreserves ==
  ASSUME Unbarriered = {}, Types, Tabled, Kept, Steady, NEW x \in before
  PROVE  Preserves(x)
<1>1. x \in InUse /\ x \in Obj /\ x \in InUse'
  BY DEF Kept, Steady, InUse
<1>2. place'[x] # "free"
  BY <1>1 DEF InUse
<1>3. \A i \in Slots(x) : KeepsSlot(x, i)
  BY <1>1, KeptSlot DEF Steady, SameGraph
<1>4. cid'[x] = cid[x]
  BY DEF Steady, SameGraph
<1>5. ASSUME cid[x] # 0 PROVE Same(class_table_[cid[x]], class_table_'[cid[x]])
  <2>1. cid[x] \in Cid /\ class_table_[cid[x]] # Nil
    BY <1>1, <1>5 DEF Types, Tabled
  <2> QED
    BY <2>1 DEF Steady, SameGraph, SameTarget, Same
<1> QED
  BY <1>2, <1>3, <1>4, <1>5 DEF Preserves

(* The fields when the dead objects are gone.                                 *)
LEMMA MourningFields ==
  ASSUME Types, NEW dead, NEW kept, Freed(dead, SlotsAfter(kept)), NEW x \in Obj, x \notin dead
  PROVE  /\ place'[x] = place[x] /\ cid'[x] = cid[x]
         /\ x \in ephemeron_list_ => field'[x] = [i \in Slots(x) |-> Nil]
         /\ x \in weak_list_ /\ x \notin ephemeron_list_ => field'[x] = kept[x]
         /\ x \notin ephemeron_list_ \cup weak_list_ => field'[x] = field[x]
<1>1. /\ place' = [y \in Obj |-> IF y \in dead THEN "free" ELSE place[y]]
      /\ field' = [y \in Obj |-> IF y \in dead THEN [i \in Slots(y) |-> Nil] ELSE SlotsAfter(kept)[y]]
      /\ cid' = [y \in Obj |-> IF y \in dead THEN 0 ELSE cid[y]]
  BY DEF Freed
<1>2. field'[x] = SlotsAfter(kept)[x]
  BY <1>1
<1>3. SlotsAfter(kept)[x] = IF x \in ephemeron_list_ THEN [i \in Slots(x) |-> Nil]
                            ELSE IF x \in weak_list_ THEN kept[x] ELSE field[x]
  BY DEF SlotsAfter
<1> QED
  BY <1>1, <1>2, <1>3

(* Whatever becomes of weak pointers: cleared is only what leads out of T.     *)
LEMMA LastPreserves ==
  ASSUME Unbarriered = {}, Types, Tabled, Kept,
         NEW T \in SUBSET Obj, Closed(T), Rooted \subseteq T,
         \A y \in T : place[y] # "free" /\ (cid[y] # 0 => Target(class_table_[cid[y]], T)),
         \A y \in weak_list_ : IsWeakArray(y),
         \A y \in ephemeron_list_ : IsEphemeron(y) /\ ~Target(field[y][1], T),
         NEW kept,
         \A y \in T : \A i \in Slots(y) :
            y \in weak_list_ => \/ SameTarget(field[y][i], kept[y][i])
                                \/ kept[y][i] = Nil /\ ~Target(field[y][i], T),
         \A k \in Cid : Target(class_table_[k], T) => SameTarget(class_table_[k], class_table_'[k]),
         NEW dead, dead \cap T = {},
         Freed(dead, SlotsAfter(kept)),
         NEW x \in before
  PROVE  Preserves(x)
<1>1. before \subseteq T /\ x \in T /\ x \in Obj /\ x \in InUse
  BY DEF Kept, InUse
<1>2. /\ place'[x] = place[x] /\ cid'[x] = cid[x]
      /\ x \in ephemeron_list_ => field'[x] = [i \in Slots(x) |-> Nil]
      /\ x \in weak_list_ /\ x \notin ephemeron_list_ => field'[x] = kept[x]
      /\ x \notin ephemeron_list_ \cup weak_list_ => field'[x] = field[x]
  <2>1. x \notin dead /\ Freed(dead, SlotsAfter(kept))
    BY <1>1
  <2> QED
    BY <1>1, <2>1, MourningFields
<1>3. ASSUME NEW i \in Slots(x) PROVE KeepsSlot(x, i)
  <2>1. CASE x \in ephemeron_list_
    <3>1. field'[x][i] = Nil /\ IsEphemeron(x)
      BY <1>2, <2>1
    <3>2. key(x) # Nil /\ key(x).o \notin before
      BY <1>1, <2>1 DEF key, Target
    <3> QED
      BY <3>1, <3>2 DEF KeepsSlot, MayClear
  <2>2. CASE x \in weak_list_ /\ x \notin ephemeron_list_
    <3>1. field'[x][i] = kept[x][i] /\ IsWeakArray(x)
      BY <1>2, <2>2
    <3>2. CASE SameTarget(field[x][i], kept[x][i])
      BY <3>1, <3>2, KeptSlot
    <3>3. CASE kept[x][i] = Nil /\ ~Target(field[x][i], T)
      BY <1>1, <3>1, <3>3 DEF KeepsSlot, MayClear, Target
    <3> QED
      BY <1>1, <2>2, <3>2, <3>3
  <2>3. CASE x \notin ephemeron_list_ \cup weak_list_
    BY <1>2, <2>3, KeptSlot DEF SameTarget
  <2> QED
    BY <2>1, <2>2, <2>3
<1>4. ASSUME cid[x] # 0 PROVE Same(class_table_[cid[x]], class_table_'[cid[x]])
  <2>1. cid[x] \in Cid /\ class_table_[cid[x]] # Nil /\ Target(class_table_[cid[x]], T)
    BY <1>1, <1>4 DEF Types, Tabled
  <2> QED
    BY <2>1 DEF SameTarget, Same
<1> QED
  BY <1>1, <1>2, <1>3, <1>4 DEF Preserves

LEMMA MournPreserves ==
  ASSUME Unbarriered = {}, Types, Tabled, Copying, Hopeless, Kept, MournScavenge,
         NEW x \in before
  PROVE  Preserves(x)
<1> DEFINE kept == [y \in Obj |-> [i \in Slots(y) |-> Mourned(field[y][i])]]
           dead == {y \in Obj : place[y] = "from"}
<1>1. /\ phase = "mourn" /\ Freed(dead, SlotsAfter(kept))
      /\ class_table_' = [k \in Cid |-> Mourned(class_table_[k])]
  BY DEF MournScavenge, MournedClass
<1>2. PICK T : T = There
  OBVIOUS
<1>3. /\ T \in SUBSET Obj /\ \A y \in Obj : y \in T <=> place[y] \in {"to", "old"}
      /\ Closed(T) /\ Rooted \subseteq T
      /\ \A y \in T : cid[y] # 0 => Target(class_table_[cid[y]], T)
      /\ \A y \in ephemeron_list_ : ~Target(field[y][1], T)
  <2>1. /\ Closed(There) /\ Rooted \subseteq There
        /\ \A y \in There : cid[y] # 0 => Target(class_table_[cid[y]], There)
        /\ \A y \in ephemeron_list_ : ~Target(field[y][1], There)
    BY <1>1, ThereClosed
  <2> QED
    BY <1>2, <2>1 DEF There
<1>4. /\ \A y \in weak_list_ : IsWeakArray(y)
      /\ \A y \in ephemeron_list_ : IsEphemeron(y)
  BY DEF Copying, CopyingWork, Apart
<1>5. \A p \in Ptr \cup {Nil} : Leads(p) =>
        \/ SameTarget(p, Mourned(p))
        \/ Mourned(p) = Nil /\ ~Target(p, T)
  <2> SUFFICES ASSUME NEW p \in Ptr \cup {Nil}, Leads(p)
               PROVE  \/ SameTarget(p, Mourned(p))
                      \/ Mourned(p) = Nil /\ ~Target(p, T)
    OBVIOUS
  <2>1. CASE p = Nil
    BY <2>1 DEF Mourned, SameTarget
  <2>2. CASE p # Nil /\ Mourned(p) # Nil
    BY <2>2, MournedPointers DEF SameTarget
  <2>3. CASE p # Nil /\ Mourned(p) = Nil
    BY <1>3, <2>3, MournedPointers DEF Target
  <2> QED
    BY <2>1, <2>2, <2>3
<1>6. /\ \A y \in T : \A i \in Slots(y) : Leads(field[y][i]) /\ field[y][i] \in Ptr \cup {Nil}
      /\ \A k \in Cid : Leads(class_table_[k]) /\ class_table_[k] \in Ptr \cup {Nil}
  BY <1>3 DEF Copying, CopyingDone, Leading, Types, InUse
<1>7. \A y \in T : \A i \in Slots(y) :
         y \in weak_list_ => \/ SameTarget(field[y][i], kept[y][i])
                             \/ kept[y][i] = Nil /\ ~Target(field[y][i], T)
  <2>1. \A y \in T : \A i \in Slots(y) : kept[y][i] = Mourned(field[y][i])
    BY <1>3
  <2> QED
    BY <1>5, <1>6, <2>1
<1>8. \A k \in Cid : Target(class_table_[k], T) => SameTarget(class_table_[k], class_table_'[k])
  BY <1>1, <1>5, <1>6 DEF SameTarget
<1>9. dead \cap T = {} /\ \A y \in T : place[y] # "free"
  BY <1>3
<1> HIDE DEF kept, dead
<1> QED
  BY <1>1, <1>3, <1>4, <1>7, <1>8, <1>9, LastPreserves

LEMMA SweepPreserves ==
  ASSUME Unbarriered = {}, Types, Tabled, Marking, Hopeless, Kept, MournAndSweep,
         NEW x \in before
  PROVE  Preserves(x)
<1> DEFINE kept == [y \in Obj |-> [i \in Slots(y) |-> MarkedOrNil(field[y][i])]]
           dead == Obj \ marked
<1>1. /\ phase = "sweep" /\ Freed(dead, SlotsAfter(kept))
      /\ class_table_' = [k \in Cid |-> MarkedOrNil(class_table_[k])]
  BY DEF MournAndSweep
<1>2. PICK T : T = marked
  OBVIOUS
<1>3. /\ T \in SUBSET Obj /\ Closed(T) /\ Rooted \subseteq T
      /\ \A y \in T : cid[y] # 0 => Target(class_table_[cid[y]], T)
      /\ \A y \in ephemeron_list_ : ~Target(field[y][1], T)
  <2>1. /\ Closed(marked) /\ Rooted \subseteq marked
        /\ \A y \in marked : cid[y] # 0 => Target(class_table_[cid[y]], marked)
        /\ \A y \in ephemeron_list_ : ~Target(field[y][1], marked)
    BY <1>1, MarkedClosed
  <2> QED
    BY <1>2, <2>1 DEF Types
<1>4. /\ \A y \in weak_list_ : IsWeakArray(y)
      /\ \A y \in ephemeron_list_ : IsEphemeron(y)
  BY DEF Marking, MarkingWork, Apart
<1>5. \A p : \/ SameTarget(p, MarkedOrNil(p))
             \/ MarkedOrNil(p) = Nil /\ ~Target(p, T)
  BY <1>2 DEF MarkedOrNil, IsMarkSweepSurvivor, SameTarget, Target
<1>6. \A y \in T : \A i \in Slots(y) : kept[y][i] = MarkedOrNil(field[y][i])
  BY <1>3
<1>7. \A k \in Cid : Target(class_table_[k], T) => SameTarget(class_table_[k], class_table_'[k])
  BY <1>1, <1>5 DEF SameTarget
<1>8. dead \cap T = {} /\ \A y \in T : place[y] # "free"
  BY <1>2 DEF Marking, MarkingDone, InUse
<1> HIDE DEF kept, dead
<1>9. \A y \in T : \A i \in Slots(y) :
         y \in weak_list_ => \/ SameTarget(field[y][i], kept[y][i])
                             \/ kept[y][i] = Nil /\ ~Target(field[y][i], T)
  BY <1>5, <1>6
<1> QED
  BY <1>1, <1>3, <1>4, <1>7, <1>8, <1>9, LastPreserves

LEMMA CollectionPreserves ==
  ASSUME Unbarriered = {}, Linked, Ending, ~Running, Next, NEW x \in before
  PROVE  Preserves(x)
<1>1. IInv /\ Types /\ Tabled /\ Kept /\ Within /\ kind' = kind
  BY DEF Linked, IInv, Next
<1>2. Copying \/ Marking
  BY <1>1, RunningIsIdle DEF IInv
<1>3. Collecting
  BY DEF Next
<1>4. CASE MournScavenge
  <2>1. Copying
    BY <1>1, <1>4, PhaseOfCopying DEF MournScavenge
  <2> QED
    BY <1>1, <1>4, <2>1, MournPreserves DEF Ending
<1>5. CASE MournAndSweep
  <2>1. Marking
    BY <1>1, <1>5, PhaseOfMarking DEF MournAndSweep
  <2> QED
    BY <1>1, <1>5, <2>1, SweepPreserves DEF Ending
<1>6. CASE ProcessMarkStack \/ MarkEphemeronList
  <2>1. Marking
    BY <1>2, <1>6 DEF ProcessMarkStack, MarkEphemeronList, Copying, CopyingWork
  <2>2. Steady
    BY <1>1, <1>6, <2>1, MarkingKept DEF Carried
  <2> QED
    BY <1>1, <2>2, StepPreserves
<1>7. CASE \/ \E y \in Obj : ScavengeRemembered(y)
           \/ ScavengeRoots \/ TestScavengeLoop \/ ScavengeToSpace
           \/ ProcessTenureStack \/ ScavengeEphemeronList
  <2>1. Copying
    BY <1>2, <1>7 DEF ScavengeRemembered, ScavengeRoots, TestScavengeLoop, ScavengeToSpace,
                      ProcessTenureStack, ScavengeEphemeronList, Marking, MarkingWork
  <2>2. Steady
    BY <1>1, <1>7, <2>1, CopyingKept DEF Carried
  <2> QED
    BY <1>1, <2>2, StepPreserves
<1> QED
  BY <1>3, <1>4, <1>5, <1>6, <1>7 DEF Collecting

(* A collection loses nothing that the program could reach when it began: no     *)
(* step of a scavenge or a mark-sweep frees a live object, points one of its     *)
(* slots elsewhere, takes its class, or clears a slot other than a weak one of a *)
(* dead target or an ephemeron's of a dead key (heap.cc:535-1057), when no old    *)
(* object is given a class that is new, and something on the stack is new when    *)
(* a scavenge finds an old ephemeron.                                         *)
THEOREM LivingAreKept ==
  ASSUME FreshRoot = TRUE, Unbarriered = {}
  PROVE  Spec => GCKeepsLive
<1>1. ASSUME Linked, Ending, [Next]_vars
      PROVE  [~Running => \A x \in before :
                /\ place'[x] # "free"
                /\ \A i \in Slots(x) : KeepsSlot(x, i)
                /\ cid'[x] = cid[x]
                /\ cid[x] # 0 => Same(class_table_[cid[x]], class_table_'[cid[x]])]_vars
  BY <1>1, CollectionPreserves DEF Preserves
<1> QED
  BY <1>1, AlwaysLinked, AlwaysEnding, PTL DEF Spec, GCKeepsLive

(* The value of a live ephemeron with a live key survives every collection       *)
(* (docs/design.md:41) under the same two conditions: the loop that is left       *)
(* before the first pass is the only way to lose it (heap.cc:573-630).          *)
THEOREM ValuesAreKept ==
  ASSUME FreshRoot = TRUE, Unbarriered = {}
  PROVE  Spec => ValueKeptWhileKeyAlive
<1>1. ASSUME Linked, Ending, [Next]_vars
      PROVE  [~Running => \A x \in before :
                IsEphemeron(x) /\ key(x) # Nil /\ key(x).o \in before /\ field[x][2] # Nil
                  => field'[x][2] # Nil]_vars
  <2> SUFFICES ASSUME Next, ~Running, NEW x \in before, IsEphemeron(x), key(x) # Nil,
                      key(x).o \in before, field[x][2] # Nil
               PROVE  field'[x][2] # Nil
    BY <1>1
  <2>1. KeepsSlot(x, 2)
    BY <1>1, CollectionPreserves, KindsApart DEF Preserves
  <2> QED
    BY <2>1, KindsApart DEF KeepsSlot, MayClear, Same
<1> QED
  BY <1>1, AlwaysLinked, AlwaysEnding, PTL DEF Spec, ValueKeptWhileKeyAlive
=================================================================================
