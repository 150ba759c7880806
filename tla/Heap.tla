----------------------------------- MODULE Heap -----------------------------------
(***************************************************************************)
(* The garbage-collected heap of one isolate (vm/heap.cc, vm/heap.h and the  *)
(* write barrier of vm/object.h): a semispace scavenger for new space, mark-  *)
(* sweep for both spaces, the remembered set between them, weak arrays,       *)
(* ephemerons and the weak class table.                                      *)
(*                                                                         *)
(* An object keeps its identity when it moves; what changes is place[x], and  *)
(* a pointer [o, at] names the object and the space it was in when the        *)
(* pointer was written, so a pointer nobody updated is seen to dangle.  The   *)
(* spaces carry the names of their roles, and a flip renames them.  A         *)
(* collection runs while the program is stopped, and each step of it visits   *)
(* one object; within a list the order of visits is left open.                *)
(***************************************************************************)
EXTENDS Integers, FiniteSets

CONSTANTS Obj, Nil,
          Mixes,                 \* bound: how many objects of which kind
          Cid,                   \* class ids from kFirstRegularObjectCid on
          MaxStack,              \* bound: how many objects the stack holds
          Unbarriered,           \* the objects that may, when old, get a class that is new
          FreshRoot              \* is something on the stack new when a scavenge
                                 \* finds an old ephemeron?

Kind == {"plain", "weak", "ephemeron", "class", "unused"}

ASSUME HeapAssumption ==
  /\ Mixes \subseteq [Obj -> Kind]
  /\ IsFiniteSet(Obj) /\ IsFiniteSet(Cid) /\ Cid = 1..Cardinality(Cid)
  /\ MaxStack \in Nat /\ Unbarriered \subseteq Obj /\ FreshRoot \in BOOLEAN
  /\ Nil \notin [o : Obj, at : {"from", "to", "old"}]

VARIABLES
  kind,         \* what x is when it is allocated
  place,        \* where x is: "to", "old", "from" during a scavenge, or "free"
  aged,         \* x is below survivor_end_: it survived a scavenge already
  field,        \* the pointers in x
  cid,          \* x's class id; 0 stands for a class fixed in the object store
  id,           \* a behavior's id slot; 0 is nil
  class_table_,
  stack,        \* the roots: the interpreter's stack, the handles
  rset,         \* how often x is in remembered_set_
  rbits,        \* the objects whose header says is_remembered
  phase,        \* where the collection is; "mutator" when there is none
  todo,         \* remembered_set_ as ScavengeRoots found it, not visited yet
  toScan,       \* to-space from scan to top_; the mark stack of a mark-sweep
  tenured,      \* the tenure stack
  ephemeron_list_, weak_list_,
  pending,      \* what the pass over the ephemeron list has not looked at yet
  marked,
  before,       \* ghost: what was alive when the collection began
  reach         \* ghost: what the collection may keep

graph   == <<field, cid, id, class_table_, stack>>
work    == <<todo, toScan, tenured>>
lists   == <<ephemeron_list_, weak_list_, pending>>
remembered == <<rset, rbits>>
gcVars  == <<phase, work, lists, marked, before, reach>>
ghosts  == <<before, reach>>
vars    == <<kind, place, aged, graph, remembered, gcVars>>

Ptr == [o : Obj, at : {"from", "to", "old"}]
To(x) == [o |-> x, at |-> place[x]]

IsWeakArray(x) == kind[x] = "weak"
IsEphemeron(x) == kind[x] = "ephemeron"
IsBehavior(x)  == kind[x] = "class"

(* An ephemeron's slots are key and value; its finalizer is treated as the    *)
(* value is.  One slot is enough for everything else.                         *)
Slots(x) == IF IsEphemeron(x) THEN {1, 2} ELSE {1}
key(x) == field[x][1]

Slot(x)      == {field[x][i] : i \in Slots(x)}
ClassOf(x)   == IF cid[x] = 0 THEN {} ELSE {class_table_[cid[x]]}
Pointers(ptrs) == ptrs \ {Nil}

IsNewObject(p) == p # Nil /\ p.at # "old"

-----------------------------------------------------------------------------
(* What a collection has to keep.  S is known to be alive; an ephemeron holds  *)
(* its value only while its key is alive, a weak array holds nothing, and an   *)
(* object holds its class.                                                    *)
Held(x, S) ==
  CASE IsWeakArray(x) -> {}
    [] IsEphemeron(x) -> IF key(x) = Nil \/ key(x).o \in S
                          THEN Pointers(Slot(x)) ELSE {}
    [] OTHER           -> Pointers(Slot(x) \cup ClassOf(x))
Alive(S) ==
  LET grow[n \in 0..Cardinality(Obj)] ==
        IF n = 0 THEN S
        ELSE LET R == grow[n - 1]
             IN  R \cup {p.o : p \in UNION {Held(x, R) : x \in R}}
  IN  grow[Cardinality(Obj)]

InUse == {x \in Obj : place[x] # "free"}
Old   == {x \in Obj : place[x] = "old"}
Rooted == {p.o : p \in stack}

Init ==
  /\ kind \in Mixes
  /\ place = [x \in Obj |-> "free"] /\ aged = {}
  /\ field = [x \in Obj |-> [i \in Slots(x) |-> Nil]]
  /\ cid = [x \in Obj |-> 0] /\ id = [x \in Obj |-> 0]
  /\ class_table_ = [c \in Cid |-> Nil]
  /\ stack = {}
  /\ rset = [x \in Obj |-> 0] /\ rbits = {}
  /\ phase = "mutator" /\ todo = {} /\ toScan = {} /\ tenured = {}
  /\ ephemeron_list_ = {} /\ weak_list_ = {} /\ pending = {}
  /\ marked = {} /\ before = {} /\ reach = {}

-----------------------------------------------------------------------------
(* The program runs.                                                          *)
Running == phase = "mutator"

(* AddToRememberedSet.  Its assertion is that x is not in the set yet.        *)
AddToRememberedSet(x, r) == [r EXCEPT ![x] = IF @ < 2 THEN @ + 1 ELSE 2]

Push(p) == /\ Cardinality(stack \cup {p}) <= MaxStack
           /\ stack' = stack \cup {p}

(* AllocateNormal: new space, or old space when the object is large or        *)
(* new space is still full after a scavenge.                                  *)
Allocate(x, at, classId) ==
  /\ place[x] = "free" /\ kind[x] # "unused"
  /\ place' = [place EXCEPT ![x] = at]
  /\ field' = [field EXCEPT ![x] = [i \in Slots(x) |-> Nil]]
  /\ cid' = [cid EXCEPT ![x] = classId]
  /\ Push([o |-> x, at |-> at])

New(x, at) ==
  /\ Allocate(x, at, 0)
  /\ id' = [id EXCEPT ![x] = 0]
  /\ UNCHANGED <<aged, class_table_, remembered, gcVars>>

(* AllocateClassId and RegisterClass: a behavior gets its id when it is first  *)
(* needed.  k is its id, or any free entry of the table.                      *)
Registers(c, k) ==
  /\ IF id[c] # 0 THEN k = id[c] ELSE class_table_[k] = Nil
  /\ id' = [id EXCEPT ![c] = k]
  /\ class_table_' = [class_table_ EXCEPT ![k] = IF id[c] # 0 THEN @ ELSE To(c)]

NewInstance(x, c, k, at) ==
  /\ IsBehavior(c) /\ kind[x] = "plain"
  /\ To(c) \in stack
  /\ at = "old" => x \in Unbarriered \/ place[c] = "old"
  /\ Registers(c, k)
  /\ Allocate(x, at, k)
  /\ UNCHANGED <<aged, remembered, gcVars>>

Behavior_adoptInstance(x, c, k) ==
  /\ IsBehavior(c) /\ cid[x] # 0 /\ To(c) \in stack /\ To(x) \in stack
  /\ place[x] = "old" => x \in Unbarriered \/ place[c] = "old"
  /\ Registers(c, k)
  /\ cid' = [cid EXCEPT ![x] = k]
  /\ UNCHANGED <<place, aged, field, stack, remembered, gcVars>>

(* The generational write barrier. *)
Barrier(x, p) ==
  IF place[x] = "old" /\ IsNewObject(p) /\ x \notin rbits
  THEN rset' = AddToRememberedSet(x, rset) /\ rbits' = rbits \cup {x}
  ELSE UNCHANGED remembered

Store(x, i, p) ==
  /\ To(x) \in stack /\ p \in stack \cup {Nil} /\ p # field[x][i]
  /\ field' = [field EXCEPT ![x][i] = p]
  /\ Barrier(x, p)
  /\ UNCHANGED <<place, aged, cid, id, class_table_, stack, gcVars>>

Load(x, i) ==
  /\ To(x) \in stack /\ field[x][i] # Nil
  /\ Push(field[x][i])
  /\ UNCHANGED <<place, aged, field, cid, id, class_table_, remembered, gcVars>>

Drop(p) ==
  /\ p \in stack
  /\ stack' = stack \ {p}
  /\ UNCHANGED <<place, aged, field, cid, id, class_table_, remembered, gcVars>>

-----------------------------------------------------------------------------
(* BecomeForward: every pointer to a forwarder, in DOMAIN to, leads to to[x]    *)
(* afterwards, and the forwarder is gone.  Merges are allowed; chains, and an   *)
(* object both forwarded and forwarded to, are refused.                       *)
Corpse(p, to) == p # Nil /\ p.o \in DOMAIN to
Followed(p, to) == IF Corpse(p, to) THEN To(to[p.o]) ELSE p

(* mutant: the entry the forwardee had is freed at once *)
TakesOverFreeing(t, c, to) ==
  LET f == t.table[c].o
      d == to[f]
      without == IF t.ids[d] = 0 THEN t.table ELSE [t.table EXCEPT ![t.ids[d]] = Nil]
  IN  [table |-> [without EXCEPT ![c] = To(d)], ids |-> [t.ids EXCEPT ![d] = c],
       done |-> t.done \cup {f}]

(* The forwardee takes over the entry of the forwarder, whose corpse goes into  *)
(* the entry the forwardee had, so that its instances are found and migrated.  *)
TakesOver(t, c, to) ==
  LET f == t.table[c].o
      d == to[f]
      without == IF t.ids[d] = 0 THEN t.table
                 ELSE [t.table EXCEPT ![t.ids[d]] = t.table[c]]
  IN  [table |-> [without EXCEPT ![c] = To(d)], ids |-> [t.ids EXCEPT ![d] = c],
       done |-> t.done \cup {f}]

(* ForwardClassIds: in the order of the table, each forwarder once.            *)
ForwardClassIds(to) ==
  LET upTo[c \in 0..Cardinality(Cid)] ==
        IF c = 0 THEN [table |-> class_table_, ids |-> id, done |-> {}]
        ELSE LET t == upTo[c - 1]
             IN  IF Corpse(t.table[c], to) /\ t.table[c].o \notin t.done
                 THEN TakesOver(t, c, to) ELSE t
  IN  upTo[Cardinality(Cid)]

(* ForwardRoots, ForwardHeap, which rebuilds the remembered set, and            *)
(* MournClassTableForwarded.                                                 *)
BecomeForward(to) ==
  LET gone == DOMAIN to
      t    == ForwardClassIds(to)
      slots == [x \in Obj |-> IF x \in gone THEN [i \in Slots(x) |-> Nil]
                              ELSE [i \in Slots(x) |-> Followed(field[x][i], to)]]
      cids == [x \in Obj |->
                 IF x \in gone \/ cid[x] = 0 THEN 0
                 ELSE IF Corpse(t.table[cid[x]], to)
                      THEN t.ids[to[t.table[cid[x]].o]] ELSE cid[x]]
      classNew(x) == cids[x] # 0 /\ IsNewObject(Followed(t.table[cid[x]], to))
      adds == {x \in Old \ gone :
                 classNew(x) \/ \E i \in Slots(x) : IsNewObject(slots[x][i])}
  IN  /\ gone # {} /\ gone \subseteq Rooted
      /\ \A x \in gone : to[x] \in Rooted \ gone
      /\ \A x \in gone : IsBehavior(x) => IsBehavior(to[x])
      /\ place' = [x \in Obj |-> IF x \in gone THEN "free" ELSE place[x]]
      /\ aged' = aged \ gone
      /\ field' = slots /\ cid' = cids
      /\ id' = [x \in Obj |-> IF x \in gone THEN 0 ELSE t.ids[x]]
      /\ class_table_' = [k \in Cid |-> IF Corpse(t.table[k], to) THEN Nil ELSE t.table[k]]
      /\ stack' = {Followed(p, to) : p \in stack}
      /\ rset' = [x \in Obj |-> IF x \in adds THEN 1 ELSE 0] /\ rbits' = adds
      /\ UNCHANGED gcVars

Forwardings == UNION {[S -> Rooted \ S] : S \in SUBSET Rooted \ {{}}}

-----------------------------------------------------------------------------
(* Scavenge.                                                                  *)

(* ScavengePointers and ScavengeClass, for the pointers ptrs: what they reach  *)
(* in from-space and is not forwarded yet moves, to old space if it survived   *)
(* once already and to to-space otherwise.                                    *)
IsForwarded(x) == place[x] # "from"
Unforwarded(ptrs) == {p.o : p \in {q \in Pointers(ptrs) :
                                     q.at = "from" /\ ~IsForwarded(q.o)}}
Moved(M) == [x \in Obj |-> IF x \notin M THEN place[x]
                           ELSE IF x \in aged THEN "old" ELSE "to"]
Forward(p, where) == IF p = Nil THEN Nil
                     ELSE IF p.at = "from" THEN [o |-> p.o, at |-> where[p.o]]
                     ELSE p
ForwardSlots(x, where) == [i \in Slots(x) |-> Forward(field[x][i], where)]

(* AllocateCopy and AllocateTenure leave what was copied to be visited.  done  *)
(* is what this step has visited.                                            *)
Copied(M, done) ==
  /\ place' = Moved(M)
  /\ todo' = todo \ done
  /\ toScan' = (toScan \ done) \cup (M \ aged)
  /\ tenured' = (tenured \ done) \cup (M \cap aged)

(* FlipSpaces: pointers keep their addresses, the spaces change their roles.  *)
Flipped(p) == IF p = Nil THEN Nil
              ELSE CASE p.at = "to" -> [p EXCEPT !.at = "from"]
                     [] p.at = "from" -> [p EXCEPT !.at = "to"]
                     [] OTHER -> p
FlipSpaces ==
  /\ place' = [x \in Obj |-> IF place[x] = "to" THEN "from" ELSE place[x]]
  /\ field' = [x \in Obj |-> [i \in Slots(x) |-> Flipped(field[x][i])]]
  /\ class_table_' = [k \in Cid |-> Flipped(class_table_[k])]
  /\ stack' = {Flipped(p) : p \in stack}

(* kNewSpace, or kRememberedSet, which tenures everything.                    *)
StartScavenge(tenureAll) ==
  /\ FreshRoot => (\A x \in Old : ~IsEphemeron(x)) \/ \E p \in stack : IsNewObject(p)
  /\ aged' = IF tenureAll THEN {x \in Obj : place[x] = "to"} ELSE aged
  /\ FlipSpaces
  /\ phase' = "remembered"
  /\ todo' = {x \in Obj : rset[x] > 0} /\ rset' = [x \in Obj |-> 0]
  /\ before' = Alive(Rooted) /\ reach' = Alive(Rooted \cup Old)
  /\ UNCHANGED <<cid, id, rbits, toScan, tenured, lists, marked>>

(* The class of an object that moved just now counts as a new target wherever  *)
(* it moved to: ScavengeClass answers true.                                   *)
HasNewTarget(x, M) ==
  LET toNew(p) == IsNewObject(Forward(p, Moved(M)))
  IN  \/ \E p \in Slot(x) : toNew(p)
      \/ \E p \in Pointers(ClassOf(x)) : toNew(p) \/ p.o \in Unforwarded(ClassOf(x))

(* AddToRememberedSet where a visit asks for it. *)
Remember(x, needed, bits) ==
  LET adds == needed /\ place[x] = "old"
  IN  /\ rset' = IF adds THEN AddToRememberedSet(x, rset) ELSE rset
      /\ rbits' = IF adds THEN bits \cup {x} ELSE bits

(* mutant: the object's class is not visited *)
VisitedPointersNoClass(x) == Slot(x)

VisitedPointers(x) == Slot(x) \cup ClassOf(x)

(* mutant: weak arrays are visited like any object *)
PutAsideNotWeak(x) == IsEphemeron(x)

PutAside(x) == IsWeakArray(x) \/ IsEphemeron(x)

(* ScavengeOldObject and the body of ScavengeToSpace: weak arrays and          *)
(* ephemerons are put aside.  bits are the remembered bits that stay.         *)
Visit(x, bits) ==
  LET M == IF PutAside(x) THEN {}
           ELSE Unforwarded(VisitedPointers(x))
  IN  /\ Copied(M, {x})
      /\ weak_list_' = weak_list_ \cup {y \in {x} : IsWeakArray(y)}
      /\ ephemeron_list_' = ephemeron_list_ \cup {y \in {x} : IsEphemeron(y)}
      /\ IF PutAside(x)
         THEN field' = field /\ Remember(x, FALSE, bits)
         ELSE /\ field' = [field EXCEPT ![x] = ForwardSlots(x, Moved(M))]
              /\ Remember(x, HasNewTarget(x, M), bits)
      /\ UNCHANGED <<aged, cid, id, class_table_, stack, pending, marked, ghosts>>

(* ScavengeRoots: the remembered set first, then handles and stack.           *)
ScavengeRemembered(x) ==
  /\ phase = "remembered" /\ x \in todo
  /\ Visit(x, rbits \ {x})
  /\ UNCHANGED phase

ScavengeRoots ==
  /\ phase = "remembered" /\ todo = {}
  /\ LET M == Unforwarded(stack) IN
     /\ Copied(M, {})
     /\ stack' = {Forward(p, Moved(M)) : p \in stack}
  /\ phase' = "loop"
  /\ UNCHANGED <<aged, field, cid, id, class_table_, remembered, lists, marked,
                 ghosts>>

(* mutant: the tenure stack is forgotten *)
NothingInToSpace == toScan = {}

(* The condition of the loop in Scavenge.                                     *)
NothingToScan == toScan = {} /\ tenured = {}

TestScavengeLoop ==
  /\ phase = "loop"
  /\ phase' = IF NothingToScan THEN "mourn" ELSE "scan"
  /\ UNCHANGED <<place, aged, graph, remembered, work, lists, marked, ghosts>>

ScavengeToSpace ==
  /\ phase = "scan"
  /\ \/ \E x \in toScan : Visit(x, rbits) /\ UNCHANGED phase
     \/ /\ toScan = {} /\ phase' = "tenure"
        /\ UNCHANGED <<place, aged, graph, remembered, work, lists, marked, ghosts>>

ProcessTenureStack ==
  /\ phase = "tenure"
  /\ \/ \E x \in tenured : Visit(x, rbits) /\ UNCHANGED phase
     \/ /\ tenured = {} /\ phase' = "ephemerons"
        /\ pending' = ephemeron_list_ /\ ephemeron_list_' = {}
        /\ UNCHANGED <<place, aged, graph, remembered, work, weak_list_, marked,
                       ghosts>>

IsScavengeSurvivor(p) == p = Nil \/ p.at = "old" \/ IsForwarded(p.o)

(* One pass over the list; an ephemeron whose key has no fate yet goes back.   *)
ScavengeEphemeronList ==
  /\ phase = "ephemerons"
  /\ \/ \E x \in pending :
          /\ pending' = pending \ {x}
          /\ IF IsScavengeSurvivor(key(x))
             THEN LET M == Unforwarded(Slot(x)) IN
                  /\ Copied(M, {})
                  /\ field' = [field EXCEPT ![x] = ForwardSlots(x, Moved(M))]
                  /\ Remember(x, HasNewTarget(x, M), rbits)
                  /\ UNCHANGED ephemeron_list_
             ELSE /\ ephemeron_list_' = ephemeron_list_ \cup {x}
                  /\ UNCHANGED <<place, field, remembered, work>>
          /\ UNCHANGED phase
     \/ /\ pending = {} /\ phase' = "loop"
        /\ UNCHANGED <<place, field, remembered, work, ephemeron_list_, pending>>
  /\ UNCHANGED <<aged, cid, id, class_table_, stack, weak_list_, marked, ghosts>>

(* AddToRememberedSet for the old ones of X, all at once.                      *)
RememberAll(X) ==
  LET adds == {x \in X : place[x] = "old"}
  IN  /\ rset' = [x \in Obj |-> IF x \in adds THEN AddToRememberedSet(x, rset)[x]
                                ELSE rset[x]]
      /\ rbits' = rbits \cup adds

(* What is left of the objects once those in dead are gone.                    *)
Freed(dead, slots) ==
  /\ place' = [x \in Obj |-> IF x \in dead THEN "free" ELSE place[x]]
  /\ field' = [x \in Obj |-> IF x \in dead THEN [i \in Slots(x) |-> Nil] ELSE slots[x]]
  /\ cid' = [x \in Obj |-> IF x \in dead THEN 0 ELSE cid[x]]
  /\ id' = [x \in Obj |-> IF x \in dead THEN 0 ELSE id[x]]

(* mutant: MournEphemeronList clears the value and leaves the key *)
SlotsAfterValueOnly(kept) ==
  [x \in Obj |-> IF x \in ephemeron_list_ THEN [field[x] EXCEPT ![2] = Nil]
                 ELSE IF x \in weak_list_ THEN kept[x] ELSE field[x]]

(* What mourning makes of the fields: an ephemeron still on the list is       *)
(* cleared, a weak array becomes what kept says.                             *)
SlotsAfter(kept) ==
  [x \in Obj |-> IF x \in ephemeron_list_ THEN [i \in Slots(x) |-> Nil]
                 ELSE IF x \in weak_list_ THEN kept[x] ELSE field[x]]

(* MournWeakPointerScavenge *)
Mourned(p) == IF p = Nil THEN Nil
              ELSE IF p.at = "from" /\ ~IsForwarded(p.o) THEN Nil
              ELSE Forward(p, place)

(* Does the weak array have a target in new space after mourning?             *)
KeepsNewTarget(x) == \E p \in Slot(x) : IsNewObject(Mourned(p))

MournedClass(p) == Mourned(p)

(* MournEphemeronList, MournWeakListScavenge, MournClassTableScavenge; then    *)
(* from-space is empty and the survivors are below survivor_end_.             *)
MournScavenge ==
  /\ phase = "mourn"
  /\ Freed({x \in Obj : place[x] = "from"},
           SlotsAfter([x \in Obj |-> [i \in Slots(x) |-> Mourned(field[x][i])]]))
  /\ RememberAll({x \in weak_list_ : KeepsNewTarget(x)})
  /\ class_table_' = [k \in Cid |-> MournedClass(class_table_[k])]
  /\ aged' = {x \in Obj : place[x] = "to"}
  /\ ephemeron_list_' = {} /\ weak_list_' = {} /\ before' = {} /\ reach' = {}
  /\ phase' = "mutator"
  /\ UNCHANGED <<stack, work, pending, marked>>

-----------------------------------------------------------------------------
(* MarkSweep.  toScan is the mark stack.                                      *)

(* mutant: a marked object keeps its remembered bit *)
KeepBits(new) == rbits

(* MarkObject clears the remembered bit of what it marks.                     *)
BitsAfterMarking(new) == rbits \ new

MarkObjects(new) == marked' = marked \cup new

NotMarked(ptrs) == {p.o : p \in Pointers(ptrs)} \ marked

StartMarkSweep ==
  /\ rset' = [x \in Obj |-> 0]
  /\ LET new == NotMarked(stack) IN
     MarkObjects(new) /\ toScan' = new /\ rbits' = BitsAfterMarking(new)
  /\ phase' = "mark" /\ before' = Alive(Rooted) /\ reach' = before'
  /\ UNCHANGED <<place, aged, graph, todo, tenured, lists>>

(* What MarkObject does with the pointers of x, which is remembered again if   *)
(* it is old and has a new target.                                            *)
MarkPointers(x, ptrs, done) ==
  LET new == NotMarked(ptrs)
  IN  /\ MarkObjects(new)
      /\ toScan' = (toScan \ done) \cup new
      /\ Remember(x, \E p \in ptrs : IsNewObject(p), BitsAfterMarking(new))

ProcessMarkStack ==
  /\ phase = "mark"
  /\ \/ \E x \in toScan :
          /\ weak_list_' = weak_list_ \cup {y \in {x} : IsWeakArray(y)}
          /\ ephemeron_list_' = ephemeron_list_ \cup {y \in {x} : IsEphemeron(y)}
          /\ MarkPointers(x, IF PutAside(x) THEN {}
                             ELSE VisitedPointers(x), {x})
          /\ UNCHANGED <<phase, pending>>
     \/ /\ toScan = {} /\ phase' = "markEphemerons"
        /\ pending' = ephemeron_list_ /\ ephemeron_list_' = {}
        /\ UNCHANGED <<remembered, toScan, marked, weak_list_>>
  /\ UNCHANGED <<place, aged, graph, todo, tenured, ghosts>>

IsMarkSweepSurvivor(p) == p = Nil \/ p.o \in marked

MarkEphemeronList ==
  /\ phase = "markEphemerons"
  /\ \/ \E x \in pending :
          /\ pending' = pending \ {x}
          /\ IF IsMarkSweepSurvivor(key(x))
             THEN MarkPointers(x, Slot(x), {}) /\ UNCHANGED ephemeron_list_
             ELSE /\ ephemeron_list_' = ephemeron_list_ \cup {x}
                  /\ UNCHANGED <<remembered, toScan, marked>>
          /\ UNCHANGED phase
     \/ /\ pending = {} /\ phase' = IF toScan = {} THEN "sweep" ELSE "mark"
        /\ UNCHANGED <<remembered, toScan, marked, ephemeron_list_, pending>>
  /\ UNCHANGED <<place, aged, graph, todo, tenured, weak_list_, ghosts>>

(* MournWeakPointerMarkSweep, and the class table's entries likewise.          *)
MarkedOrNil(p) == IF IsMarkSweepSurvivor(p) THEN p ELSE Nil

(* MournEphemeronList, MournWeakListMarkSweep, MournClassTableMarkSweep, Sweep *)
MournAndSweep ==
  /\ phase = "sweep"
  /\ Freed(Obj \ marked,
           SlotsAfter([x \in Obj |-> [i \in Slots(x) |-> MarkedOrNil(field[x][i])]]))
  /\ rset' = [x \in Obj |->
       IF x \in weak_list_ /\ place[x] = "old"
          /\ \E p \in Slot(x) : IsNewObject(MarkedOrNil(p))
       THEN AddToRememberedSet(x, rset)[x] ELSE rset[x]]
  /\ rbits' = {x \in marked : x \in rbits \/ rset'[x] > 0}
  /\ class_table_' = [k \in Cid |-> MarkedOrNil(class_table_[k])]
  /\ aged' = aged \cap marked
  /\ marked' = {} /\ ephemeron_list_' = {} /\ weak_list_' = {} /\ before' = {} /\ reach' = {}
  /\ phase' = "mutator"
  /\ UNCHANGED <<stack, work, pending>>

-----------------------------------------------------------------------------
Allocating == \/ \E x \in Obj, at \in {"to", "old"} : New(x, at)
              \/ \E x \in Obj, c \in Obj, k \in Cid, at \in {"to", "old"} :
                    NewInstance(x, c, k, at)
Mutating   == \/ \E x \in Obj, c \in Obj, k \in Cid : Behavior_adoptInstance(x, c, k)
              \/ \E x \in Obj : \E i \in Slots(x) :
                    Load(x, i) \/ \E p \in stack \cup {Nil} : Store(x, i, p)
              \/ \E p \in stack : Drop(p)
              \/ \E to \in Forwardings : BecomeForward(to)
Starting   == \/ \E all \in BOOLEAN : StartScavenge(all)
              \/ StartMarkSweep
Collecting == \/ \E x \in Obj : ScavengeRemembered(x)
              \/ ScavengeRoots \/ TestScavengeLoop \/ ScavengeToSpace
              \/ ProcessTenureStack \/ ScavengeEphemeronList \/ MournScavenge
              \/ ProcessMarkStack \/ MarkEphemeronList \/ MournAndSweep

Next == /\ \/ Running /\ (Allocating \/ Mutating \/ Starting)
           \/ Collecting
        /\ UNCHANGED kind

Spec == Init /\ [][Next]_vars
(* A collection is a call: once begun it runs.                                *)
FairSpec == Spec /\ WF_vars(Collecting /\ UNCHANGED kind)

-----------------------------------------------------------------------------
TypeOK ==
  /\ kind \in [Obj -> Kind]
  /\ place \in [Obj -> {"free", "from", "to", "old"}] /\ aged \subseteq Obj
  /\ field \in [Obj -> UNION {[S -> Ptr \cup {Nil}] : S \in {{1}, {1, 2}}}]
  /\ \A x \in Obj : DOMAIN field[x] = Slots(x)
  /\ cid \in [Obj -> Cid \cup {0}] /\ id \in [Obj -> Cid \cup {0}]
  /\ class_table_ \in [Cid -> Ptr \cup {Nil}]
  /\ stack \subseteq Ptr
  /\ rset \in [Obj -> 0..2] /\ rbits \subseteq Obj
  /\ phase \in {"mutator", "remembered", "loop", "scan", "tenure", "ephemerons",
                "mourn", "mark", "markEphemerons", "sweep"}
  /\ todo \subseteq Obj /\ toScan \subseteq Obj /\ tenured \subseteq Obj
  /\ ephemeron_list_ \subseteq Obj /\ pending \subseteq Obj
  /\ weak_list_ \subseteq Obj
  /\ marked \subseteq Obj /\ before \subseteq Obj /\ reach \subseteq Obj

(* A pointer leads to where its object is. *)
Valid(p) == p = Nil \/ place[p.o] = p.at

(* Between collections every pointer in any object that is not free, live or   *)
(* garbage, on the stack and in the class table leads to an object that is     *)
(* there: the scavenger updated every pointer to what it moved, and both       *)
(* collectors cleared every weak one to what they freed (heap.cc:535-1057).    *)
HeapSound ==
  /\ TypeOK
  /\ Running =>
    /\ \A x \in InUse : \A p \in Slot(x) : Valid(p)
    /\ \A p \in stack : Valid(p)
    /\ \A k \in Cid : Valid(class_table_[k])

(* Every object has a class: the class table has an entry for its class id,    *)
(* that entry is a behavior, and the behavior carries this id (heap.cc:        *)
(* 1147-1153 asserts the same after a become).  An object that was given a new *)
(* class while it was old may lose it, and only its own.                       *)
ClassSound(x) ==
  cid[x] # 0 => LET p == class_table_[cid[x]]
                IN  p # Nil /\ IsBehavior(p.o) /\ id[p.o] = cid[x]
ClassesSound == Running => \A x \in InUse \ Unbarriered : ClassSound(x)

(* The same without the exception.  It does not hold: adoptInstance and the    *)
(* allocation of an old instance store a class without a barrier (heap.cc:168, *)
(* heap.h:159), and the class may be new.                                      *)
EveryClassSound == Running => \A x \in InUse : ClassSound(x)

(* An old object that points to a new one, or whose class is new, is in the    *)
(* remembered set, or the next scavenge would miss it (object.h:267-271, heap. *)
(* cc:573-589); none is there twice, not even in the middle of a collection    *)
(* (heap.h:150-151 asserts it), and between collections the header bit says    *)
(* who is there: only old objects.  The class that an old object got while the *)
(* class was new does not count.                                               *)
RememberedExact ==
  /\ \A x \in Obj : rset[x] < 2
  /\ Running =>
       /\ \A x \in Old :
            (\E p \in Slot(x) \cup (IF x \in Unbarriered THEN {} ELSE ClassOf(x)) : IsNewObject(p))
               => rset[x] > 0
       /\ rbits = {x \in Obj : rset[x] > 0}
       /\ rbits \subseteq Old

(* May the collection clear slot i of x?  A weak array's when its target was   *)
(* dead, an ephemeron's when its key was.                                     *)
MayClear(x, i) ==
  \/ IsWeakArray(x) /\ field[x][i].o \notin before
  \/ IsEphemeron(x) /\ key(x) # Nil /\ key(x).o \notin before
Same(p, q) == p # Nil /\ q # Nil /\ p.o = q.o
KeepsSlot(x, i) == \/ field[x][i] = Nil /\ field'[x][i] = Nil
                   \/ Same(field[x][i], field'[x][i])
                   \/ field'[x][i] = Nil /\ MayClear(x, i)

(* A collection loses nothing the program can reach: no step of it frees what  *)
(* was alive when it began, points one of its slots elsewhere, or clears a     *)
(* slot other than a weak one of a dead target or an ephemeron's of a dead     *)
(* key; and the live objects keep their classes.                              *)
GCKeepsLive ==
  [][~Running => \A x \in before :
       /\ place'[x] # "free"
       /\ \A i \in Slots(x) : KeepsSlot(x, i)
       /\ cid'[x] = cid[x]
       /\ cid[x] # 0 => Same(class_table_[cid[x]], class_table_'[cid[x]])]_vars

(* A collection frees garbage: a mark-sweep all of it, a scavenge what neither *)
(* the roots nor any old object reaches.  Weak arrays keep nothing, nor do     *)
(* ephemerons with a dead key.                                                *)
CollectsGarbage ==
  [][phase = "mourn" \/ phase = "sweep" =>
       \A x \in Obj : place'[x] # "free" => x \in reach]_vars

(* become exchanges objects and nothing else: an instance has afterwards the   *)
(* class it had, or the one its class was forwarded to, whichever class ids    *)
(* that moved around (heap.cc:1237-1277).                                     *)
BecomeKeepsClasses ==
  [][Running /\ (\E x \in InUse : place'[x] = "free") =>
      \A to \in Forwardings : BecomeForward(to) =>
       \A x \in InUse \ DOMAIN to : cid[x] # 0 =>
          /\ cid'[x] # 0
          /\ class_table_'[cid'[x]] = Followed(class_table_[cid[x]], to)]_vars

(* The value of a live ephemeron survives every collection its key survives    *)
(* (docs/design.md:41; newspeak/KernelWeakTests.ns:26-42).                    *)
ValueKeptWhileKeyAlive ==
  [][~Running => \A x \in before :
       IsEphemeron(x) /\ key(x) # Nil /\ key(x).o \in before /\ field[x][2] # Nil
         => field'[x][2] # Nil]_vars

(* Every collection ends: the ephemeron passes stop when one fires nothing.    *)
GCEnds == ~Running ~> Running
==================================================================================
