------------------------------- MODULE HeapProofs -------------------------------
(***************************************************************************)
(* Proofs about Heap, for any objects of any kinds, any number of class ids  *)
(* and a stack of any size.                                                  *)
(***************************************************************************)
EXTENDS Heap, FiniteSetTheorems, WellFoundedInduction, TLAPS

Location == {"from", "to", "old"}
Phase == {"mutator", "remembered", "loop", "scan", "tenure", "ephemerons", "mourn",
          "mark", "markEphemerons", "sweep"}
Contents == UNION {[S -> Ptr \cup {Nil}] : S \in {{1}, {1, 2}}}

Lists == ephemeron_list_ \cup weak_list_ \cup pending
Works == todo \cup toScan \cup tenured
Waiting == Works \cup Lists
Remembered == {x \in Obj : rset[x] > 0}

Types ==
  /\ kind \in [Obj -> Kind]
  /\ place \in [Obj -> Location \cup {"free"}] /\ aged \subseteq Obj
  /\ field \in [Obj -> Contents]
  /\ \A x \in Obj : field[x] \in [Slots(x) -> Ptr \cup {Nil}]
  /\ cid \in [Obj -> Cid \cup {0}] /\ id \in [Obj -> Cid \cup {0}]
  /\ class_table_ \in [Cid -> Ptr \cup {Nil}]
  /\ stack \subseteq Ptr
  /\ rset \in [Obj -> 0..2] /\ rbits \subseteq Obj
  /\ phase \in Phase
  /\ todo \subseteq Obj /\ toScan \subseteq Obj /\ tenured \subseteq Obj
  /\ ephemeron_list_ \subseteq Obj /\ pending \subseteq Obj
  /\ weak_list_ \subseteq Obj
  /\ marked \subseteq Obj /\ before \subseteq Obj /\ reach \subseteq Obj

(* The class table and the ids of behaviors agree; only plain objects are       *)
(* instances of registered classes; and those classes are registered.        *)
Registered ==
  /\ \A c \in Obj : id[c] # 0 => class_table_[id[c]] # Nil /\ class_table_[id[c]].o = c
  /\ \A k \in Cid : class_table_[k] # Nil =>
       IsBehavior(class_table_[k].o) /\ id[class_table_[k].o] = k
Tabled ==
  /\ Registered
  /\ \A x \in Obj : cid[x] # 0 => kind[x] = "plain"
  /\ \A x \in InUse \ Unbarriered : cid[x] # 0 => class_table_[cid[x]] # Nil

(* Every pointer leads to its object, and nothing is in from-space.           *)
Settled ==
  /\ \A x \in Obj : place[x] # "from"
  /\ \A x \in InUse : \A i \in Slots(x) : Valid(field[x][i])
  /\ \A p \in stack : Valid(p)
  /\ \A k \in Cid : Valid(class_table_[k])

(* What was visited and has a new target is remembered.                       *)
NewTarget(x) == \E i \in Slots(x) : IsNewObject(field[x][i])
NewClass(x) ==
  /\ cid[x] # 0 /\ class_table_[cid[x]] # Nil
  /\ place[class_table_[cid[x]].o] # "old"
Noted(x) == NewTarget(x) \/ (x \notin Unbarriered /\ NewClass(x)) => rset[x] > 0

(* Between collections.                                                       *)
Idle ==
  /\ phase = "mutator" /\ Waiting = {} /\ marked = {}
  /\ Settled
  /\ \A x \in Obj : rset[x] < 2
  /\ rbits = Remembered /\ Remembered \subseteq Old
  /\ \A x \in Old : Noted(x)

-----------------------------------------------------------------------------
LEMMA Constants ==
  /\ Nil \notin Ptr
  /\ IsFiniteSet(Obj) /\ Cardinality(Obj) \in Nat
  /\ Cid = 1 .. Cardinality(Cid) /\ Cardinality(Cid) \in Nat
  /\ 0 \notin Cid
BY HeapAssumption, FS_CardinalityType DEF HeapAssumption, Ptr

LEMMA PointerParts ==
  /\ \A p \in Ptr : p.o \in Obj /\ p.at \in Location /\ p # Nil
  /\ \A x \in Obj, at \in Location :
       [o |-> x, at |-> at] \in Ptr /\ [o |-> x, at |-> at] # Nil
BY Constants DEF Ptr, Location

LEMMA SlotsOf == \A x : Slots(x) = {1} \/ Slots(x) = {1, 2}
BY DEF Slots

(* A field of every object, each with the slots of its kind.                  *)
LEMMA FieldTyped ==
  ASSUME NEW f, f = [x \in Obj |-> f[x]],
         \A x \in Obj : f[x] \in [Slots(x) -> Ptr \cup {Nil}]
  PROVE  f \in [Obj -> Contents]
<1>1. \A x \in Obj : f[x] \in Contents
  BY SlotsOf DEF Contents
<1> QED
  BY <1>1

-----------------------------------------------------------------------------
(* The program.                                                              *)

(* A behavior gets its id, or has it.                                        *)
LEMMA Registering ==
  ASSUME Types, Registered, NEW c \in Obj, NEW k \in Cid,
         IsBehavior(c), To(c) \in stack, kind' = kind, Registers(c, k)
  PROVE  /\ id' \in [Obj -> Cid \cup {0}] /\ class_table_' \in [Cid -> Ptr \cup {Nil}]
         /\ Registered'
         /\ \A j \in Cid : \/ class_table_'[j] = class_table_[j]
                           \/ class_table_[j] = Nil /\ class_table_'[j] = To(c)
         /\ class_table_'[k] # Nil /\ class_table_'[k].o = c
<1> USE DEF Types, Registers, To
<1>1. To(c) \in Ptr /\ To(c) # Nil /\ To(c).o = c
  BY PointerParts
<1>2. id' \in [Obj -> Cid \cup {0}] /\ class_table_' \in [Cid -> Ptr \cup {Nil}]
  BY <1>1
<1>3. CASE id[c] # 0
  <2>1. id' = id /\ class_table_' = class_table_ /\ k = id[c]
    BY <1>3
  <2>2. Registered'
    BY <2>1 DEF Registered, IsBehavior
  <2>3. class_table_[k] # Nil /\ class_table_[k].o = c
    BY <1>3, <2>1 DEF Registered
  <2> QED
    BY <1>2, <2>1, <2>2, <2>3
<1>4. CASE id[c] = 0
  <2>1. /\ class_table_[k] = Nil
        /\ id' = [id EXCEPT ![c] = k]
        /\ class_table_' = [class_table_ EXCEPT ![k] = To(c)]
    BY <1>4
  <2>2. \A d \in Obj : id'[d] # 0 => class_table_'[id'[d]] # Nil /\ class_table_'[id'[d]].o = d
    <3> SUFFICES ASSUME NEW d \in Obj, id'[d] # 0
                 PROVE  class_table_'[id'[d]] # Nil /\ class_table_'[id'[d]].o = d
      OBVIOUS
    <3>1. CASE d = c
      BY <1>1, <2>1, <3>1
    <3>2. CASE d # c
      <4>1. id'[d] = id[d] /\ class_table_[id[d]] # Nil /\ class_table_[id[d]].o = d
        BY <2>1, <3>2 DEF Registered
      <4>2. id[d] # k /\ id[d] \in Cid
        BY <2>1, <4>1
      <4> QED
        BY <2>1, <4>1, <4>2
    <3> QED
      BY <3>1, <3>2
  <2>3. \A j \in Cid : class_table_'[j] # Nil =>
          IsBehavior(class_table_'[j].o) /\ id'[class_table_'[j].o] = j
    <3> SUFFICES ASSUME NEW j \in Cid, class_table_'[j] # Nil
                 PROVE  IsBehavior(class_table_'[j].o) /\ id'[class_table_'[j].o] = j
      OBVIOUS
    <3>1. CASE j = k
      BY <1>1, <2>1, <3>1
    <3>2. CASE j # k
      <4>1. /\ class_table_'[j] = class_table_[j] /\ class_table_[j] \in Ptr
            /\ IsBehavior(class_table_[j].o) /\ id[class_table_[j].o] = j
        BY <2>1, <3>2 DEF Registered
      <4>2. class_table_[j].o # c /\ class_table_[j].o \in Obj
        BY <1>4, <4>1, Constants, PointerParts
      <4> QED
        BY <2>1, <4>1, <4>2
    <3> QED
      BY <3>1, <3>2
  <2>4. Registered'
    BY <2>2, <2>3 DEF Registered, IsBehavior
  <2> QED
    BY <1>1, <1>2, <2>1, <2>4
<1> QED
  BY <1>3, <1>4

(* A pointer that leads to its object does so after another is allocated.    *)
LEMMA ValidKept ==
  ASSUME Types, NEW x \in Obj, NEW at, place[x] = "free",
         place' = [place EXCEPT ![x] = at], NEW p \in Ptr \cup {Nil}, Valid(p)
  PROVE  /\ Valid(p)'
         /\ p # Nil => p.o \in Obj /\ p.o # x /\ place'[p.o] = place[p.o]
<1>1. CASE p = Nil
  BY <1>1 DEF Valid
<1>2. CASE p # Nil
  <2>1. p.o \in Obj /\ p.at \in Location /\ place[p.o] = p.at
    BY <1>2, PointerParts DEF Valid
  <2>2. p.o # x
    BY <2>1 DEF Location
  <2>3. place'[p.o] = place[p.o]
    BY <2>1, <2>2 DEF Types
  <2> QED
    BY <2>1, <2>2, <2>3 DEF Valid
<1> QED
  BY <1>1, <1>2

LEMMA AllocateKeeps ==
  ASSUME Types, Tabled, Idle, NEW x \in Obj, NEW at \in {"to", "old"}, NEW k \in Cid \cup {0},
         kind' = kind, Allocate(x, at, k), UNCHANGED <<aged, remembered, gcVars>>,
         id' \in [Obj -> Cid \cup {0}], class_table_' \in [Cid -> Ptr \cup {Nil}],
         Registered',
         \A j \in Cid : \/ class_table_'[j] = class_table_[j]
                        \/ class_table_[j] = Nil /\ Valid(class_table_'[j]),
         k # 0 => /\ kind[x] = "plain" /\ class_table_'[k] # Nil
                  /\ at = "old" => x \in Unbarriered \/ place[class_table_'[k].o] = "old"
  PROVE  Types' /\ Tabled' /\ Idle'
<1> DEFINE p0 == [o |-> x, at |-> at]
           empty == [i \in Slots(x) |-> Nil]
<1>1. /\ place[x] = "free"
      /\ place' = [place EXCEPT ![x] = at]
      /\ field' = [field EXCEPT ![x] = empty]
      /\ cid' = [cid EXCEPT ![x] = k]
      /\ stack' = stack \cup {p0}
  BY DEF Allocate, Push
<1>2. /\ aged' = aged /\ rset' = rset /\ rbits' = rbits /\ phase' = phase
      /\ todo' = todo /\ toScan' = toScan /\ tenured' = tenured
      /\ ephemeron_list_' = ephemeron_list_ /\ weak_list_' = weak_list_
      /\ pending' = pending /\ marked' = marked /\ before' = before /\ reach' = reach
  BY DEF remembered, gcVars, work, lists
<1>3. \A y : Slots(y)' = Slots(y) /\ IsBehavior(y)' = IsBehavior(y)
  BY DEF Slots, IsEphemeron, IsBehavior
<1>4. p0 \in Ptr /\ p0 # Nil /\ p0.o = x /\ p0.at = at
  BY PointerParts DEF Location
<1>5. empty \in [Slots(x) -> Ptr \cup {Nil}]
  OBVIOUS
<1> HIDE DEF empty
<1>6. /\ place' \in [Obj -> Location \cup {"free"}]
      /\ cid' \in [Obj -> Cid \cup {0}] /\ stack' \subseteq Ptr
      /\ field' = [y \in Obj |-> field'[y]]
      /\ \A y \in Obj : field'[y] \in [Slots(y) -> Ptr \cup {Nil}]
  <2>1. place' \in [Obj -> Location \cup {"free"}]
    BY <1>1 DEF Types, Location
  <2>2. cid' \in [Obj -> Cid \cup {0}] /\ stack' \subseteq Ptr
    BY <1>1, <1>4 DEF Types
  <2>3. field' = [y \in Obj |-> field'[y]]
    BY <1>1 DEF Types
  <2>4. \A y \in Obj : field'[y] \in [Slots(y) -> Ptr \cup {Nil}]
    BY <1>1, <1>5 DEF Types
  <2> QED
    BY <2>1, <2>2, <2>3, <2>4
<1>7. field' \in [Obj -> Contents]
  BY <1>6, FieldTyped
<1>8. Types'
  BY <1>2, <1>3, <1>6, <1>7 DEF Types
<1>9. \A p \in Ptr \cup {Nil} : Valid(p) =>
        /\ Valid(p)'
        /\ p # Nil => p.o \in Obj /\ p.o # x /\ place'[p.o] = place[p.o]
  BY <1>1, ValidKept
<1>10. Tabled'
  <2>1. \A y \in Obj : cid'[y] # 0 => kind'[y] = "plain"
    BY <1>1 DEF Types, Tabled
  <2>2. ASSUME NEW y \in Obj, y \notin Unbarriered, place'[y] # "free", cid'[y] # 0
        PROVE  class_table_'[cid'[y]] # Nil
    <3>1. CASE y = x
      BY <1>1, <2>2, <3>1 DEF Types
    <3>2. CASE y # x
      <4>1. cid'[y] = cid[y] /\ place[y] # "free" /\ cid[y] \in Cid
        BY <1>1, <2>2, <3>2 DEF Types
      <4>2. class_table_[cid[y]] # Nil
        BY <2>2, <4>1 DEF Tabled, InUse
      <4> QED
        BY <4>1, <4>2
    <3> QED
      BY <3>1, <3>2
  <2> QED
    BY <2>1, <2>2 DEF Tabled, InUse
<1>11. Settled'
  <2>1. \A y \in Obj : place'[y] # "from"
    BY <1>1 DEF Types, Idle, Settled
  <2>2. ASSUME NEW y \in Obj, place'[y] # "free", NEW i \in Slots(y)
        PROVE  Valid(field[y][i])'
    <3>1. CASE y = x
      BY <1>1, <3>1 DEF Types, empty, Valid
    <3>2. CASE y # x
      <4>1. field'[y][i] = field[y][i] /\ Valid(field[y][i]) /\ field[y][i] \in Ptr \cup {Nil}
        BY <1>1, <2>2, <3>2 DEF Types, Idle, Settled, InUse
      <4> QED
        BY <1>9, <4>1 DEF Valid
    <3> QED
      BY <3>1, <3>2
  <2>3. \A p \in stack' : Valid(p)'
    BY <1>1, <1>4, <1>9 DEF Types, Idle, Settled, Valid
  <2>4. ASSUME NEW j \in Cid PROVE Valid(class_table_[j])'
    <3>1. class_table_'[j] \in Ptr \cup {Nil} /\ Valid(class_table_'[j])
      BY DEF Idle, Settled
    <3> QED
      BY <1>9, <3>1 DEF Valid
  <2> QED
    BY <1>3, <2>1, <2>2, <2>3, <2>4 DEF Settled, InUse
<1>12. ASSUME NEW y \in Obj, place'[y] = "old" PROVE Noted(y)'
  <2>1. CASE y = x
    <3>1. ~NewTarget(y)'
      BY <1>1, <1>3, <2>1 DEF Types, empty, NewTarget, IsNewObject
    <3>2. ASSUME y \notin Unbarriered PROVE ~NewClass(y)'
      <4>1. at = "old" /\ cid'[y] = k
        BY <1>1, <1>12, <2>1 DEF Types
      <4>2. CASE k = 0
        BY <4>1, <4>2 DEF NewClass
      <4>3. CASE k # 0
        <5>1. class_table_'[k] # Nil /\ place[class_table_'[k].o] = "old"
          BY <2>1, <3>2, <4>1, <4>3
        <5>2. class_table_'[k].o \in Obj /\ class_table_'[k].o # x
          BY <1>1, <4>3, <5>1, PointerParts
        <5>3. place'[class_table_'[k].o] = "old"
          BY <1>1, <5>1, <5>2 DEF Types
        <5> QED
          BY <4>1, <5>3 DEF NewClass
      <4> QED
        BY <4>2, <4>3
    <3> QED
      BY <3>1, <3>2 DEF Noted
  <2>2. CASE y # x
    <3>1. place[y] = "old" /\ field'[y] = field[y] /\ cid'[y] = cid[y]
      BY <1>1, <1>12, <2>2 DEF Types
    <3>2. Noted(y) /\ y \in InUse
      BY <3>1 DEF Idle, Old, InUse
    <3>3. NewTarget(y)' => NewTarget(y)
      BY <1>3, <3>1 DEF NewTarget
    <3>4. ASSUME y \notin Unbarriered, NewClass(y)' PROVE NewClass(y)
      <4>1. cid[y] \in Cid /\ class_table_[cid[y]] # Nil
        BY <3>1, <3>2, <3>4 DEF NewClass, Tabled, Types
      <4>2. class_table_'[cid[y]] = class_table_[cid[y]]
        BY <4>1
      <4>3. place'[class_table_[cid[y]].o] = place[class_table_[cid[y]].o]
        BY <1>9, <4>1 DEF Idle, Settled, Types
      <4> QED
        BY <3>1, <3>4, <4>1, <4>2, <4>3 DEF NewClass
    <3> QED
      BY <1>2, <3>2, <3>3, <3>4 DEF Noted
  <2> QED
    BY <2>1, <2>2
<1>13. Old \subseteq Old'
  BY <1>1 DEF Types, Old
<1>14. Idle'
  <2>1. Waiting' = Waiting /\ Remembered' = Remembered
    BY <1>2 DEF Waiting, Works, Lists, Remembered
  <2> QED
    BY <1>2, <1>11, <1>12, <1>13, <2>1 DEF Idle, Old
<1> QED
  BY <1>8, <1>10, <1>14

LEMMA NewKeeps ==
  ASSUME Types, Tabled, Idle, NEW x \in Obj, NEW at \in {"to", "old"}, kind' = kind, New(x, at)
  PROVE  Types' /\ Tabled' /\ Idle'
<1>1. place[x] = "free" /\ Allocate(x, at, 0)
  BY DEF New, Allocate
<1>2. id[x] = 0
  <2> SUFFICES ASSUME id[x] # 0 PROVE FALSE
    OBVIOUS
  <2>1. id[x] \in Cid /\ class_table_[id[x]] # Nil /\ class_table_[id[x]].o = x
    BY DEF Types, Tabled, Registered
  <2>2. class_table_[id[x]] \in Ptr /\ Valid(class_table_[id[x]])
    BY <2>1 DEF Types, Idle, Settled
  <2> QED
    BY <1>1, <2>1, <2>2, PointerParts DEF Valid, Location
<1>3. id' = id /\ class_table_' = class_table_
  BY <1>2 DEF New, Types
<1>4. Registered'
  BY <1>3 DEF Tabled, Registered, IsBehavior
<1>5. UNCHANGED <<aged, remembered, gcVars>>
  BY DEF New
<1>6. id' \in [Obj -> Cid \cup {0}] /\ class_table_' \in [Cid -> Ptr \cup {Nil}]
  BY <1>3 DEF Types
<1> QED
  BY <1>1, <1>3, <1>4, <1>5, <1>6, AllocateKeeps

LEMMA NewInstanceKeeps ==
  ASSUME Types, Tabled, Idle, NEW x \in Obj, NEW c \in Obj, NEW k \in Cid,
         NEW at \in {"to", "old"}, kind' = kind, NewInstance(x, c, k, at)
  PROVE  Types' /\ Tabled' /\ Idle'
<1>1. /\ IsBehavior(c) /\ kind[x] = "plain" /\ To(c) \in stack
      /\ at = "old" => x \in Unbarriered \/ place[c] = "old"
      /\ Registers(c, k) /\ Allocate(x, at, k)
      /\ UNCHANGED <<aged, remembered, gcVars>>
  BY DEF NewInstance
<1>2. /\ id' \in [Obj -> Cid \cup {0}] /\ class_table_' \in [Cid -> Ptr \cup {Nil}]
      /\ Registered'
      /\ \A j \in Cid : \/ class_table_'[j] = class_table_[j]
                        \/ class_table_[j] = Nil /\ class_table_'[j] = To(c)
      /\ class_table_'[k] # Nil /\ class_table_'[k].o = c
  BY <1>1, Registering DEF Tabled
<1>3. Valid(To(c))
  BY DEF Valid, To
<1>4. k \in Cid \cup {0} /\ k # 0
  BY Constants
<1> QED
  BY <1>1, <1>2, <1>3, <1>4, AllocateKeeps

LEMMA AdoptKeeps ==
  ASSUME Types, Tabled, Idle, NEW x \in Obj, NEW c \in Obj, NEW k \in Cid,
         kind' = kind, Behavior_adoptInstance(x, c, k)
  PROVE  Types' /\ Tabled' /\ Idle'
<1>1. /\ IsBehavior(c) /\ To(c) \in stack /\ Registers(c, k) /\ cid[x] # 0
      /\ place[x] = "old" => x \in Unbarriered \/ place[c] = "old"
      /\ cid' = [cid EXCEPT ![x] = k]
  BY DEF Behavior_adoptInstance
<1>2. /\ place' = place /\ aged' = aged /\ field' = field /\ stack' = stack
      /\ rset' = rset /\ rbits' = rbits /\ phase' = phase
      /\ todo' = todo /\ toScan' = toScan /\ tenured' = tenured
      /\ ephemeron_list_' = ephemeron_list_ /\ weak_list_' = weak_list_
      /\ pending' = pending /\ marked' = marked /\ before' = before /\ reach' = reach
  BY DEF Behavior_adoptInstance, remembered, gcVars, work, lists
<1>3. /\ id' \in [Obj -> Cid \cup {0}] /\ class_table_' \in [Cid -> Ptr \cup {Nil}]
      /\ Registered'
      /\ \A j \in Cid : \/ class_table_'[j] = class_table_[j]
                        \/ class_table_[j] = Nil /\ class_table_'[j] = To(c)
      /\ class_table_'[k] # Nil /\ class_table_'[k].o = c
  BY <1>1, Registering DEF Tabled
<1>4. \A y : Slots(y)' = Slots(y)
  BY DEF Slots, IsEphemeron
<1>5. Types'
  <2>1. cid' \in [Obj -> Cid \cup {0}]
    BY <1>1 DEF Types
  <2> QED
    BY <1>2, <1>3, <1>4, <2>1 DEF Types
<1>6. Tabled'
  <2>1. \A y \in Obj : cid'[y] # 0 => kind'[y] = "plain"
    BY <1>1 DEF Types, Tabled
  <2>2. ASSUME NEW y \in Obj, y \notin Unbarriered, place[y] # "free", cid'[y] # 0
        PROVE  class_table_'[cid'[y]] # Nil
    <3>1. CASE y = x
      BY <1>1, <1>3, <3>1 DEF Types
    <3>2. CASE y # x
      <4>1. cid'[y] = cid[y] /\ cid[y] \in Cid /\ class_table_[cid[y]] # Nil
        BY <1>1, <2>2, <3>2 DEF Types, Tabled, InUse
      <4> QED
        BY <1>3, <4>1
    <3> QED
      BY <3>1, <3>2
  <2> QED
    BY <1>2, <1>3, <2>1, <2>2 DEF Tabled, InUse
<1>7. Settled'
  <2>1. ASSUME NEW j \in Cid PROVE Valid(class_table_[j])'
    BY <1>2, <1>3 DEF Idle, Settled, Valid, To
  <2>2. \A y \in InUse : \A i \in Slots(y) : Valid(field[y][i])'
    BY <1>2 DEF Idle, Settled, Valid
  <2>3. \A p \in stack' : Valid(p)'
    BY <1>2 DEF Idle, Settled, Valid
  <2> QED
    BY <1>2, <1>4, <2>1, <2>2, <2>3 DEF Idle, Settled, InUse
<1>8. ASSUME NEW y \in Old PROVE Noted(y)'
  <2>1. Noted(y) /\ y \in Obj /\ y \in InUse /\ place[y] = "old"
    BY DEF Idle, Old, InUse
  <2>2. NewTarget(y)' => NewTarget(y)
    BY <1>2, <1>4 DEF NewTarget
  <2>3. ASSUME y \notin Unbarriered, NewClass(y)' PROVE NewClass(y)
    <3>1. CASE y = x
      BY <1>1, <1>2, <1>3, <2>1, <2>3, <3>1 DEF Types, NewClass
    <3>2. CASE y # x
      <4>1. cid'[y] = cid[y] /\ cid[y] # 0
        BY <1>1, <2>1, <2>3, <3>2 DEF Types, NewClass
      <4>2. cid[y] \in Cid /\ class_table_[cid[y]] # Nil
        BY <2>1, <2>3, <4>1 DEF Tabled, Types
      <4>3. class_table_'[cid[y]] = class_table_[cid[y]]
        BY <1>3, <4>2
      <4> QED
        BY <1>2, <2>3, <4>1, <4>2, <4>3 DEF NewClass
    <3> QED
      BY <3>1, <3>2
  <2> QED
    BY <1>2, <2>1, <2>2, <2>3 DEF Noted
<1>9. Idle'
  <2>1. Waiting' = Waiting /\ Remembered' = Remembered /\ Old' = Old
    BY <1>2 DEF Waiting, Works, Lists, Remembered, Old
  <2> QED
    BY <1>2, <1>7, <1>8, <2>1 DEF Idle
<1> QED
  BY <1>5, <1>6, <1>9

LEMMA StoreKeeps ==
  ASSUME Types, Tabled, Idle, NEW x \in Obj, NEW i \in Slots(x), NEW p \in stack \cup {Nil},
         kind' = kind, Store(x, i, p)
  PROVE  Types' /\ Tabled' /\ Idle'
<1>1. To(x) \in stack /\ field' = [field EXCEPT ![x][i] = p] /\ Barrier(x, p)
  BY DEF Store
<1>2. /\ place' = place /\ aged' = aged /\ cid' = cid /\ id' = id
      /\ class_table_' = class_table_ /\ stack' = stack /\ phase' = phase
      /\ todo' = todo /\ toScan' = toScan /\ tenured' = tenured
      /\ ephemeron_list_' = ephemeron_list_ /\ weak_list_' = weak_list_
      /\ pending' = pending /\ marked' = marked /\ before' = before /\ reach' = reach
  BY DEF Store, gcVars, work, lists
<1>3. \A y : Slots(y)' = Slots(y) /\ IsBehavior(y)' = IsBehavior(y)
  BY DEF Slots, IsEphemeron, IsBehavior
<1>4. p \in Ptr \cup {Nil} /\ Valid(p)
  BY DEF Types, Idle, Settled, Valid
<1>5. /\ field' = [y \in Obj |-> field'[y]]
      /\ field'[x] = [field[x] EXCEPT ![i] = p]
      /\ \A y \in Obj : y # x => field'[y] = field[y]
  BY <1>1 DEF Types
<1>6. /\ \A y \in Obj : field'[y] \in [Slots(y) -> Ptr \cup {Nil}]
      /\ field'[x][i] = p
      /\ \A j \in Slots(x) : j # i => field'[x][j] = field[x][j]
  <2>1. field[x] \in [Slots(x) -> Ptr \cup {Nil}]
    BY DEF Types
  <2>2. field'[x] \in [Slots(x) -> Ptr \cup {Nil}]
    BY <1>4, <1>5, <2>1
  <2>3. field'[x][i] = p /\ \A j \in Slots(x) : j # i => field'[x][j] = field[x][j]
    BY <1>5, <2>1
  <2>4. \A y \in Obj : y # x => field'[y] \in [Slots(y) -> Ptr \cup {Nil}]
    BY <1>5 DEF Types
  <2> QED
    BY <2>2, <2>3, <2>4
<1>7. \A y \in Obj : rset'[y] \in 0..2 /\ rset'[y] < 2 /\ (rset'[y] > 0 <=> y \in rbits')
  <2>1. \A y \in Obj : rset[y] \in 0..2 /\ rset[y] < 2 /\ (rset[y] > 0 <=> y \in rbits)
    BY DEF Types, Idle, Remembered
  <2>2. CASE UNCHANGED remembered
    BY <2>1, <2>2 DEF remembered
  <2>3. CASE x \notin rbits /\ rset' = AddToRememberedSet(x, rset) /\ rbits' = rbits \cup {x}
    <3>1. rset[x] = 0
      BY <2>1, <2>3
    <3>2. rset'[x] = 1 /\ \A y \in Obj : y # x => rset'[y] = rset[y]
      BY <2>3, <3>1 DEF AddToRememberedSet, Types
    <3> QED
      BY <2>1, <2>3, <3>2
  <2> QED
    BY <1>1, <2>2, <2>3 DEF Barrier
<1>8. /\ rset' \in [Obj -> 0..2] /\ rbits' \subseteq Obj
      /\ rbits \subseteq rbits' /\ rbits' \subseteq rbits \cup {x}
      /\ x \in rbits' \/ ~(place[x] = "old" /\ IsNewObject(p))
      /\ x \in rbits' \ rbits => place[x] = "old"
  <2>1. rset' = [y \in Obj |-> rset'[y]]
    BY <1>1 DEF Barrier, remembered, AddToRememberedSet, Types
  <2>2. rset' \in [Obj -> 0..2]
    BY <1>7, <2>1
  <2> QED
    BY <1>1, <2>2 DEF Barrier, remembered, Types
<1>9. Types'
  <2>1. field' \in [Obj -> Contents]
    BY <1>5, <1>6, FieldTyped
  <2> QED
    BY <1>2, <1>3, <1>6, <1>8, <2>1 DEF Types
<1>10. Tabled'
  BY <1>2, <1>3 DEF Tabled, Registered, InUse
<1>11. Settled'
  <2>1. \A y \in InUse : \A j \in Slots(y) : Valid(field[y][j])'
    BY <1>2, <1>4, <1>5, <1>6 DEF Idle, Settled, Valid, InUse
  <2>2. (\A q \in stack : Valid(q)') /\ (\A k \in Cid : Valid(class_table_[k])')
    BY <1>2 DEF Idle, Settled, Valid
  <2> QED
    BY <1>2, <1>3, <2>1, <2>2 DEF Idle, Settled, InUse
<1>12. ASSUME NEW y \in Old PROVE Noted(y)'
  <2>1. Noted(y) /\ y \in Obj /\ place[y] = "old"
    BY DEF Idle, Old
  <2>2. NewClass(y)' <=> NewClass(y)
    BY <1>2 DEF NewClass
  <2>3. rset[y] > 0 => rset'[y] > 0
    BY <1>7, <1>8, <2>1 DEF Idle, Remembered
  <2>4. NewTarget(y)' => NewTarget(y) \/ rset'[y] > 0
    <3>1. CASE y = x
      BY <1>3, <1>6, <1>7, <1>8, <2>1, <3>1 DEF NewTarget
    <3>2. CASE y # x
      BY <1>3, <1>5, <2>1, <3>2 DEF NewTarget
    <3> QED
      BY <3>1, <3>2
  <2> QED
    BY <2>1, <2>2, <2>3, <2>4 DEF Noted
<1>13. Idle'
  <2>1. Waiting' = Waiting /\ Old' = Old
    BY <1>2 DEF Waiting, Works, Lists, Old
  <2>2. Remembered' = rbits'
    BY <1>7, <1>8 DEF Remembered
  <2>3. rbits' \subseteq Old
    BY <1>8 DEF Idle, Old
  <2> QED
    BY <1>2, <1>7, <1>11, <1>12, <2>1, <2>2, <2>3 DEF Idle
<1> QED
  BY <1>9, <1>10, <1>13

(* Only the stack changes.                                                   *)
LEMMA StackKeeps ==
  ASSUME Types, Tabled, Idle, kind' = kind, stack' \subseteq Ptr, \A p \in stack' : Valid(p),
         UNCHANGED <<place, aged, field, cid, id, class_table_, remembered, gcVars>>
  PROVE  Types' /\ Tabled' /\ Idle'
<1>1. /\ place' = place /\ aged' = aged /\ cid' = cid /\ id' = id /\ field' = field
      /\ class_table_' = class_table_ /\ phase' = phase /\ rset' = rset /\ rbits' = rbits
      /\ todo' = todo /\ toScan' = toScan /\ tenured' = tenured
      /\ ephemeron_list_' = ephemeron_list_ /\ weak_list_' = weak_list_
      /\ pending' = pending /\ marked' = marked /\ before' = before /\ reach' = reach
  BY DEF remembered, gcVars, work, lists
<1>2. Types' /\ Tabled'
  BY <1>1 DEF Types, Tabled, Registered, InUse, IsBehavior, Slots, IsEphemeron
<1>3. Settled'
  <2>1. \A p \in stack' : Valid(p)'
    BY <1>1 DEF Valid
  <2> QED
    BY <1>1, <2>1 DEF Idle, Settled, InUse, Valid, Slots, IsEphemeron
<1>4. \A y \in Old : Noted(y)'
  BY <1>1 DEF Idle, Noted, NewTarget, NewClass, Slots, IsEphemeron
<1> QED
  BY <1>1, <1>2, <1>3, <1>4 DEF Idle, Waiting, Works, Lists, Remembered, Old

LEMMA LoadKeeps ==
  ASSUME Types, Tabled, Idle, NEW x \in Obj, NEW i \in Slots(x), kind' = kind, Load(x, i)
  PROVE  Types' /\ Tabled' /\ Idle'
<1>1. /\ To(x) \in stack /\ field[x][i] # Nil /\ stack' = stack \cup {field[x][i]}
      /\ UNCHANGED <<place, aged, field, cid, id, class_table_, remembered, gcVars>>
  BY DEF Load, Push
<1>2. x \in InUse
  <2>1. To(x) \in Ptr /\ To(x).at = place[x]
    BY <1>1 DEF Types, To
  <2> QED
    BY <2>1, PointerParts DEF InUse, Location
<1>3. field[x][i] \in Ptr /\ Valid(field[x][i])
  BY <1>1, <1>2 DEF Types, Idle, Settled
<1>4. stack' \subseteq Ptr /\ \A p \in stack' : Valid(p)
  BY <1>1, <1>3 DEF Types, Idle, Settled
<1> QED
  BY <1>1, <1>4, StackKeeps

LEMMA DropKeeps ==
  ASSUME Types, Tabled, Idle, NEW p \in stack, kind' = kind, Drop(p)
  PROVE  Types' /\ Tabled' /\ Idle'
<1>1. /\ stack' = stack \ {p}
      /\ UNCHANGED <<place, aged, field, cid, id, class_table_, remembered, gcVars>>
  BY DEF Drop
<1>2. stack' \subseteq Ptr /\ \A q \in stack' : Valid(q)
  BY <1>1 DEF Types, Idle, Settled
<1> QED
  BY <1>1, <1>2, StackKeeps

-----------------------------------------------------------------------------
(* What is alive is a set of objects.                                        *)

LEMMA SmallestNat ==
  ASSUME NEW S \in SUBSET Nat, S # {}
  PROVE  \E m \in S : \A n \in S : m <= n
<1> DEFINE R == OpToRel(<, Nat)
<1>1. IsWellFoundedOn(R, Nat)
  BY NatLessThanWellFounded
<1>2. \E m \in S : \A n \in S : ~(<<n, m>> \in R)
  <2> HIDE DEF R
  <2> QED
    BY <1>1, WFMin
<1>3. \A m, n \in Nat : n < m => <<n, m>> \in R
  BY DEF OpToRel
<1> HIDE DEF R
<1>4. PICK m \in S : \A n \in S : ~(<<n, m>> \in R)
  BY <1>2
<1>5. \A n \in S : m \in Nat /\ n \in Nat /\ ~(n < m)
  BY <1>3, <1>4
<1>6. \A n \in S : m <= n
  BY <1>5
<1> QED
  BY <1>6

LEMMA HeldTyped ==
  ASSUME Types, NEW x \in Obj, NEW R
  PROVE  \A p \in Held(x, R) : p \in Ptr
<1>1. \A p \in Slot(x) : p \in Ptr \cup {Nil}
  BY DEF Types, Slot
<1>2. \A p \in ClassOf(x) : p \in Ptr \cup {Nil}
  BY DEF Types, ClassOf
<1>3. \A p \in Held(x, R) : p \in Slot(x) \cup ClassOf(x) /\ p # Nil
  <2>1. CASE IsWeakArray(x)
    BY <2>1 DEF Held, IsWeakArray, IsEphemeron
  <2>2. CASE IsEphemeron(x)
    <3> HIDE DEF Slot
    <3> QED
      BY <2>2 DEF Held, IsWeakArray, IsEphemeron, Pointers
  <2>3. CASE ~IsWeakArray(x) /\ ~IsEphemeron(x)
    BY <2>3 DEF Held, Pointers
  <2> QED
    BY <2>1, <2>2, <2>3
<1> QED
  BY <1>1, <1>2, <1>3

LEMMA AliveInSteps ==
  ASSUME NEW S
  PROVE  \E grow : /\ Alive(S) = grow[Cardinality(Obj)]
                   /\ grow[0] = S
                   /\ \A n \in 1..Cardinality(Obj) :
                        grow[n] = grow[n - 1] \cup
                                  {p.o : p \in UNION {Held(x, grow[n - 1]) : x \in grow[n - 1]}}
<1> DEFINE N == Cardinality(Obj)
           Step(f, n) == IF n = 0 THEN S
                         ELSE LET R == f[n - 1]
                              IN  R \cup {p.o : p \in UNION {Held(x, R) : x \in R}}
           Grows(f, k) == f = [n \in 0..k |-> Step(f, n)]
           missing == {k \in 0..N : ~\E f : Grows(f, k)}
<1>0. N \in Nat
  BY Constants
<1> HIDE DEF N
<1>1. missing = {}
  <2> SUFFICES ASSUME missing # {} PROVE FALSE
    OBVIOUS
  <2>1. missing \in SUBSET Nat
    BY <1>0
  <2>2. PICK k \in missing : \A j \in missing : k <= j
    <3> HIDE DEF missing
    <3> QED
      BY <2>1, SmallestNat
  <2>3. k \in 0..N /\ ~\E f : Grows(f, k)
    BY <2>2
  <2>4. k # 0
    <3> SUFFICES ASSUME k = 0 PROVE FALSE
      OBVIOUS
    <3> DEFINE first == [n \in 0..0 |-> S]
    <3>1. Grows(first, 0)
      OBVIOUS
    <3> HIDE DEF Grows, first
    <3> QED
      BY <2>3, <3>1
  <2>5. k - 1 \in 0..N /\ k - 1 \notin missing
    <3>1. k \in Nat /\ k - 1 \in 0..N /\ ~(k <= k - 1)
      BY <1>0, <2>3, <2>4
    <3> HIDE DEF missing
    <3> QED
      BY <2>2, <3>1
  <2>6. PICK f : Grows(f, k - 1)
    <3> HIDE DEF Grows
    <3> QED
      BY <2>5
  <2> DEFINE g == [n \in 0..k |-> IF n = k THEN Step(f, k) ELSE f[n]]
  <2>7. \A n \in 0..k : Step(g, n) = Step(f, n)
    <3>1. \A n \in 0..k : n # 0 => n - 1 \in 0..k /\ n - 1 # k
      BY <1>0, <2>3
    <3>2. \A n \in 0..k : n # 0 => g[n - 1] = f[n - 1]
      BY <3>1
    <3> HIDE DEF g
    <3> QED
      BY <3>2
  <2>8. \A n \in 0..k : g[n] = Step(f, n)
    <3>1. \A n \in 0..(k - 1) : f[n] = Step(f, n)
      BY <2>6
    <3>2. \A n \in 0..k : n # k => n \in 0..(k - 1)
      BY <1>0, <2>3
    <3> HIDE DEF Step
    <3> QED
      BY <3>1, <3>2
  <2>9. Grows(g, k)
    <3>1. \A n \in 0..k : g[n] = Step(g, n)
      <4> HIDE DEF Step, g
      <4> QED
        BY <2>7, <2>8
    <3>2. g = [n \in 0..k |-> g[n]]
      OBVIOUS
    <3> HIDE DEF Step, g
    <3> QED
      BY <3>1, <3>2
  <2> HIDE DEF g, Grows
  <2> QED
    BY <2>3, <2>9
<1> DEFINE grow == CHOOSE f : Grows(f, N)
<1>2. Grows(grow, N)
  <2>1. N \in 0..N
    BY <1>0
  <2>2. PICK f : Grows(f, N)
    <3> HIDE DEF Grows
    <3> QED
      BY <1>1, <2>1
  <2> HIDE DEF Grows
  <2> QED
    BY <2>2
<1>3. Alive(S) = grow[N]
  BY DEF Alive, N
<1> HIDE DEF grow
<1>4. /\ grow[0] = S
      /\ \A n \in 1..N : grow[n] = grow[n - 1] \cup {p.o : p \in UNION {Held(x, grow[n - 1]) : x \in grow[n - 1]}}
  <2>1. \A n \in 0..N : grow[n] = Step(grow, n)
    BY <1>2
  <2>2. 0 \in 0..N /\ \A n \in 1..N : n \in 0..N /\ n # 0
    BY <1>0
  <2> QED
    BY <2>1, <2>2
<1> QED
  BY <1>3, <1>4 DEF N

LEMMA AliveTyped ==
  ASSUME Types, NEW S \in SUBSET Obj
  PROVE  Alive(S) \subseteq Obj
<1> DEFINE N == Cardinality(Obj)
<1>0. N \in Nat
  BY Constants
<1>1. PICK grow : /\ Alive(S) = grow[N] /\ grow[0] = S
                  /\ \A n \in 1..N : grow[n] = grow[n - 1] \cup
                       {p.o : p \in UNION {Held(x, grow[n - 1]) : x \in grow[n - 1]}}
  BY AliveInSteps
<1> HIDE DEF N
<1> DEFINE bad == {n \in 0..N : ~(grow[n] \subseteq Obj)}
<1>2. bad = {}
  <2> SUFFICES ASSUME bad # {} PROVE FALSE
    OBVIOUS
  <2>1. bad \in SUBSET Nat
    BY <1>0
  <2>2. PICK n \in bad : \A j \in bad : n <= j
    <3> HIDE DEF bad
    <3> QED
      BY <2>1, SmallestNat
  <2>3. n \in 0..N /\ ~(grow[n] \subseteq Obj)
    BY <2>2
  <2>4. n # 0
    BY <1>1, <2>3
  <2>5. n - 1 \in 0..N /\ n - 1 \notin bad /\ n \in 1..N
    BY <1>0, <2>1, <2>2, <2>3, <2>4
  <2>6. grow[n - 1] \subseteq Obj
    BY <2>5
  <2>7. grow[n] = grow[n - 1] \cup {p.o : p \in UNION {Held(x, grow[n - 1]) : x \in grow[n - 1]}}
    BY <1>1, <2>5
  <2>8. \A x \in grow[n - 1] : \A p \in Held(x, grow[n - 1]) : p.o \in Obj
    BY <2>6, HeldTyped, PointerParts
  <2> QED
    BY <2>3, <2>6, <2>7, <2>8
<1>3. N \in 0..N
  BY <1>0
<1> QED
  BY <1>1, <1>2, <1>3

LEMMA RootedTyped == Types => Rooted \subseteq Obj /\ Old \subseteq Obj
BY PointerParts DEF Types, Rooted, Old

-----------------------------------------------------------------------------
(* Copying.                                                                  *)

(* A pointer not yet updated leads to where its object was.                   *)
Leads(p) == p = Nil \/ Valid(p) \/ (p.at = "from" /\ place[p.o] # "free")
Leading ==
  /\ \A x \in InUse : \A i \in Slots(x) : Leads(field[x][i])
  /\ \A p \in stack : Leads(p)
  /\ \A k \in Cid : Leads(class_table_[k])

(* What a visit leaves behind: no pointer that was not updated, no class that   *)
(* was not copied.                                                           *)
Traced(x) ==
  /\ \A i \in Slots(x) : field[x][i] = Nil \/ field[x][i].at # "from"
  /\ x \notin Unbarriered /\ cid[x] # 0 /\ class_table_[cid[x]] # Nil =>
       place[class_table_[cid[x]].o] # "from"

(* An object waits for one visit at a time.                                   *)
Apart ==
  /\ Works \cap Lists = {}
  /\ todo \cap tenured = {} /\ ephemeron_list_ \cap pending = {}
  /\ \A x \in weak_list_ : IsWeakArray(x)
  /\ \A x \in ephemeron_list_ \cup pending : IsEphemeron(x)

CopyingWork ==
  /\ phase \in {"remembered", "loop", "scan", "tenure", "ephemerons", "mourn"}
  /\ marked = {} /\ Apart
  /\ phase # "ephemerons" => pending = {}
  /\ phase # "remembered" => todo = {}
  /\ phase = "mourn" => toScan = {} /\ tenured = {}
  /\ phase # "remembered" => \A p \in stack : p.at # "from"
  /\ \A x \in todo \cup tenured : place[x] = "old"
  /\ \A x \in toScan : place[x] = "to"
  /\ \A x \in Lists : place[x] \in {"to", "old"}

CopyingDone ==
  /\ Leading
  /\ \A x \in InUse \ Waiting : place[x] # "from" => Traced(x)
  /\ \A x \in Obj : rset[x] < 2
  /\ rbits = todo \cup Remembered /\ Remembered \subseteq Old \ Waiting
  /\ \A x \in Old \ Waiting : Noted(x)

Copying == CopyingWork /\ CopyingDone

LEMMA FlippedPointers ==
  ASSUME NEW p \in Ptr \cup {Nil}
  PROVE  /\ Flipped(p) \in Ptr \cup {Nil} /\ (Flipped(p) = Nil <=> p = Nil)
         /\ p # Nil =>
              /\ Flipped(p).o = p.o
              /\ Flipped(p).at = IF p.at = "to" THEN "from"
                                 ELSE IF p.at = "from" THEN "to" ELSE "old"
<1>1. CASE p = Nil
  BY <1>1 DEF Flipped
<1>2. CASE p # Nil
  <2>1. p \in Ptr /\ p.at \in {"to", "from", "old"}
    BY <1>2, PointerParts DEF Location
  <2>2. CASE p.at = "to"
    <3>1. Flipped(p) = [p EXCEPT !.at = "from"]
      BY <1>2, <2>2 DEF Flipped
    <3>2. Flipped(p) \in Ptr /\ Flipped(p).o = p.o /\ Flipped(p).at = "from"
      BY <2>1, <3>1 DEF Ptr
    <3> QED
      BY <1>2, <2>2, <3>2, Constants
  <2>3. CASE p.at = "from"
    <3>1. Flipped(p) = [p EXCEPT !.at = "to"]
      BY <1>2, <2>3 DEF Flipped
    <3>2. Flipped(p) \in Ptr /\ Flipped(p).o = p.o /\ Flipped(p).at = "to"
      BY <2>1, <3>1 DEF Ptr
    <3> QED
      BY <1>2, <2>3, <3>2, Constants
  <2>4. CASE p.at = "old"
    <3>1. Flipped(p) = p
      BY <1>2, <2>4 DEF Flipped
    <3> QED
      BY <1>2, <2>1, <2>4, <3>1
  <2> QED
    BY <2>1, <2>2, <2>3, <2>4
<1> QED
  BY <1>1, <1>2

LEMMA StartScavengeKeeps ==
  ASSUME Types, Tabled, Idle, NEW all \in BOOLEAN, kind' = kind, StartScavenge(all)
  PROVE  Types' /\ Tabled' /\ Copying'
<1> DEFINE flippedField == [y \in Obj |-> [i \in Slots(y) |-> Flipped(field[y][i])]]
           flippedTable == [k \in Cid |-> Flipped(class_table_[k])]
           flippedStack == {Flipped(p) : p \in stack}
           flippedPlace == [y \in Obj |-> IF place[y] = "to" THEN "from" ELSE place[y]]
<1>1. /\ aged' = (IF all THEN {y \in Obj : place[y] = "to"} ELSE aged)
      /\ place' = flippedPlace /\ field' = flippedField
      /\ class_table_' = flippedTable /\ stack' = flippedStack
      /\ phase' = "remembered"
      /\ todo' = {y \in Obj : rset[y] > 0} /\ rset' = [y \in Obj |-> 0]
      /\ before' = Alive(Rooted) /\ reach' = Alive(Rooted \cup Old)
      /\ cid' = cid /\ id' = id /\ rbits' = rbits /\ toScan' = toScan
      /\ tenured' = tenured /\ marked' = marked
      /\ ephemeron_list_' = ephemeron_list_ /\ weak_list_' = weak_list_
      /\ pending' = pending
  BY DEF StartScavenge, FlipSpaces, lists
<1>2. \A y : Slots(y)' = Slots(y) /\ IsBehavior(y)' = IsBehavior(y)
  BY DEF Slots, IsEphemeron, IsBehavior
<1>3. /\ todo' = Remembered /\ todo' \subseteq Old /\ Remembered' = {}
      /\ toScan' = {} /\ tenured' = {} /\ ephemeron_list_' = {} /\ weak_list_' = {}
      /\ pending' = {} /\ marked' = {}
  BY <1>1 DEF Idle, Waiting, Works, Lists, Remembered
<1>4. \A y \in Obj : place'[y] = IF place[y] = "to" THEN "from" ELSE place[y]
  BY <1>1
<1>5. /\ \A y \in Obj : \A i \in Slots(y) : field'[y][i] = Flipped(field[y][i])
      /\ \A k \in Cid : class_table_'[k] = Flipped(class_table_[k])
  BY <1>1
<1>6. /\ place' \in [Obj -> Location \cup {"free"}] /\ aged' \subseteq Obj
      /\ field' = [y \in Obj |-> field'[y]]
      /\ \A y \in Obj : field'[y] = [i \in Slots(y) |-> Flipped(field[y][i])]
      /\ class_table_' = [k \in Cid |-> class_table_'[k]]
      /\ todo' \subseteq Obj /\ rset' \in [Obj -> 0..2]
  <2>1. place' \in [Obj -> Location \cup {"free"}] /\ aged' \subseteq Obj
    BY <1>1 DEF Types, Location
  <2> QED
    BY <1>1, <2>1
<1>7. /\ \A y \in Obj : \A i \in Slots(y) : field[y][i] \in Ptr \cup {Nil}
      /\ \A k \in Cid : class_table_[k] \in Ptr \cup {Nil}
  BY DEF Types
<1> HIDE DEF flippedField, flippedTable, flippedPlace
<1>8. \A p \in Ptr \cup {Nil} : Valid(p) =>
        /\ p # Nil => /\ Flipped(p).o = p.o /\ p.o \in Obj
                      /\ Flipped(p).at = IF p.at = "old" THEN "old" ELSE "from"
                      /\ place'[p.o] = Flipped(p).at
        /\ Flipped(p) = Nil <=> p = Nil
  <2> SUFFICES ASSUME NEW p \in Ptr \cup {Nil}, Valid(p)
               PROVE  /\ p # Nil => /\ Flipped(p).o = p.o /\ p.o \in Obj
                                    /\ Flipped(p).at = IF p.at = "old" THEN "old" ELSE "from"
                                    /\ place'[p.o] = Flipped(p).at
                      /\ Flipped(p) = Nil <=> p = Nil
    OBVIOUS
  <2>1. p # Nil => p.o \in Obj /\ p.at \in {"to", "old"} /\ place[p.o] = p.at
    BY PointerParts DEF Valid, Idle, Settled, Location
  <2> QED
    BY <1>4, <2>1, FlippedPointers
<1>9. Types'
  <2>1. \A y \in Obj : field'[y] \in [Slots(y) -> Ptr \cup {Nil}]
    BY <1>6, <1>7, FlippedPointers
  <2>2. field' \in [Obj -> Contents]
    BY <1>6, <2>1, FieldTyped
  <2>3. class_table_' \in [Cid -> Ptr \cup {Nil}]
    BY <1>5, <1>6, <1>7, FlippedPointers
  <2>4. stack' \subseteq Ptr
    BY <1>1, FlippedPointers, Constants DEF Types
  <2>5. before' \subseteq Obj /\ reach' \subseteq Obj
    BY <1>1, RootedTyped, AliveTyped
  <2> HIDE DEF flippedStack
  <2> QED
    BY <1>1, <1>2, <1>6, <2>1, <2>2, <2>3, <2>4, <2>5 DEF Types, Phase
<1>10. \A k \in Cid : /\ class_table_'[k] = Nil <=> class_table_[k] = Nil
                      /\ class_table_[k] # Nil =>
                           /\ class_table_'[k].o = class_table_[k].o
                           /\ class_table_[k].o \in Obj
                           /\ place'[class_table_[k].o] =
                                IF place[class_table_[k].o] = "old" THEN "old" ELSE "from"
                           /\ class_table_'[k].at = place'[class_table_[k].o]
  BY <1>5, <1>7, <1>8 DEF Idle, Settled, Valid
<1>11. Tabled'
  <2>1. InUse' = InUse
    BY <1>4 DEF InUse, Types
  <2>2. \A c \in Obj : id[c] # 0 => id[c] \in Cid
    BY DEF Types
  <2>3. \A x \in Obj : cid[x] # 0 => cid[x] \in Cid
    BY DEF Types
  <2>4. Registered'
    BY <1>1, <1>2, <1>10, <2>2 DEF Tabled, Registered
  <2>5. \A x \in InUse \ Unbarriered : cid[x] # 0 => class_table_'[cid[x]] # Nil
    BY <1>10, <2>3 DEF Tabled, InUse
  <2> QED
    BY <1>1, <2>1, <2>4, <2>5 DEF Tabled
<1>12. InUse' = InUse /\ Old' = Old
  BY <1>4 DEF InUse, Old, Types
<1>13. Waiting' = Remembered
  BY <1>3 DEF Waiting, Works, Lists
<1>14. CopyingWork'
  <2>1. \A y \in todo' \cup tenured' : place'[y] = "old"
    BY <1>3, <1>4 DEF Old
  <2> QED
    BY <1>1, <1>3, <2>1 DEF CopyingWork, Apart, Works, Lists
<1>15. Leading'
  <2>1. ASSUME NEW y \in InUse, NEW i \in Slots(y) PROVE Leads(field[y][i])'
    <3>1. Valid(field[y][i]) /\ field[y][i] \in Ptr \cup {Nil} /\ field'[y][i] = Flipped(field[y][i])
      BY <1>5, <1>7 DEF Idle, Settled, InUse
    <3> QED
      BY <1>8, <3>1 DEF Leads, Valid
  <2>2. ASSUME NEW p \in stack' PROVE Leads(p)'
    <3>1. PICK q \in stack : p = Flipped(q)
      BY <1>1
    <3>2. Valid(q) /\ q \in Ptr
      BY DEF Idle, Settled, Types
    <3> QED
      BY <1>8, <3>1, <3>2 DEF Leads, Valid
  <2>3. ASSUME NEW k \in Cid PROVE Leads(class_table_[k])'
    BY <1>10 DEF Leads, Valid
  <2> HIDE DEF flippedStack
  <2> QED
    BY <1>2, <1>12, <2>1, <2>2, <2>3 DEF Leading, InUse
<1>16. ASSUME NEW y \in Old \ Remembered PROVE Traced(y)' /\ Noted(y)'
  <2>1. Noted(y) /\ y \in Obj /\ y \in InUse /\ ~(rset[y] > 0)
    BY DEF Idle, Old, InUse, Remembered
  <2>2. ~NewTarget(y) /\ (y \in Unbarriered \/ ~NewClass(y))
    BY <2>1 DEF Noted
  <2>3. ASSUME NEW i \in Slots(y) PROVE field'[y][i] = Nil \/ field'[y][i].at = "old"
    <3>1. /\ Valid(field[y][i]) /\ field[y][i] \in Ptr \cup {Nil}
          /\ field'[y][i] = Flipped(field[y][i]) /\ ~IsNewObject(field[y][i])
      BY <1>5, <1>7, <2>1, <2>2 DEF Idle, Settled, NewTarget
    <3> QED
      BY <1>8, <3>1 DEF IsNewObject
  <2>4. ASSUME y \notin Unbarriered, cid'[y] # 0, class_table_'[cid'[y]] # Nil
        PROVE  place'[class_table_'[cid'[y]].o] = "old"
    <3>1. cid[y] \in Cid /\ cid'[y] = cid[y] /\ class_table_[cid[y]] # Nil
      BY <1>1, <1>10, <2>1, <2>4 DEF Types
    <3>2. place[class_table_[cid[y]].o] = "old"
      BY <2>2, <2>4, <3>1 DEF NewClass
    <3> QED
      BY <1>10, <3>1, <3>2
  <2>5. Traced(y)'
    BY <1>2, <2>3, <2>4 DEF Traced
  <2>6. ~NewTarget(y)' /\ (y \in Unbarriered \/ ~NewClass(y)')
    BY <1>2, <2>3, <2>4 DEF NewTarget, NewClass, IsNewObject
  <2> QED
    BY <2>5, <2>6 DEF Noted
<1>17. CopyingDone'
  <2>1. \A y \in InUse \ Remembered : place'[y] # "from" => Traced(y)'
    <3>1. ASSUME NEW y \in InUse \ Remembered, place'[y] # "from" PROVE y \in Old
      BY <1>4, <3>1 DEF Types, Location, InUse, Old, Idle, Settled
    <3> QED
      BY <1>16, <3>1
  <2>2. \A y \in Obj : rset'[y] < 2
    BY <1>1
  <2>3. rbits' = todo' \cup Remembered'
    BY <1>1, <1>3 DEF Idle
  <2> HIDE DEF flippedStack
  <2> QED
    BY <1>3, <1>12, <1>13, <1>15, <1>16, <2>1, <2>2, <2>3 DEF CopyingDone
<1> QED
  BY <1>9, <1>11, <1>14, <1>17 DEF Copying

(* Objects only leave from-space, and whoever points to one still finds it.    *)
LEMMA Moving ==
  ASSUME Types, NEW M \in SUBSET Obj, \A y \in M : place[y] = "from", place' = Moved(M)
  PROVE  /\ place' \in [Obj -> Location \cup {"free"}]
         /\ \A y \in Obj : /\ place'[y] = "free" <=> place[y] = "free"
                           /\ y \notin M => place'[y] = place[y]
                           /\ y \in M => place'[y] = IF y \in aged THEN "old" ELSE "to"
         /\ InUse' = InUse /\ Old \subseteq Old' /\ Old' \subseteq Old \cup M
         /\ \A p \in Ptr \cup {Nil} : Leads(p) => Leads(p)'
<1>1. /\ place' = [y \in Obj |-> place'[y]]
      /\ \A y \in Obj : place'[y] = IF y \notin M THEN place[y]
                                    ELSE IF y \in aged THEN "old" ELSE "to"
  BY DEF Moved
<1>2. \A y \in Obj : place'[y] \in Location \cup {"free"}
  BY <1>1 DEF Types, Location
<1>3. \A y \in Obj : /\ place'[y] = "free" <=> place[y] = "free"
                     /\ y \notin M => place'[y] = place[y]
                     /\ y \in M => place'[y] = IF y \in aged THEN "old" ELSE "to"
  BY <1>1
<1>4. ASSUME NEW p \in Ptr \cup {Nil}, Leads(p) PROVE Leads(p)'
  <2>1. CASE p = Nil
    BY <2>1 DEF Leads
  <2>2. CASE p # Nil
    <3>1. p.o \in Obj /\ p.at \in Location
      BY <2>2, PointerParts
    <3>2. CASE place[p.o] = p.at
      <4>1. CASE p.o \in M
        BY <1>3, <2>2, <3>1, <3>2, <4>1 DEF Leads
      <4>2. CASE p.o \notin M
        BY <1>3, <3>1, <3>2, <4>2 DEF Leads, Valid
      <4> QED
        BY <4>1, <4>2
    <3>3. CASE p.at = "from" /\ place[p.o] # "free"
      BY <1>3, <3>1, <3>3 DEF Leads
    <3> QED
      BY <1>4, <2>2, <3>2, <3>3 DEF Leads, Valid
  <2> QED
    BY <2>1, <2>2
<1>5. place' \in [Obj -> Location \cup {"free"}]
  BY <1>1, <1>2
<1>6. InUse' = InUse /\ Old \subseteq Old' /\ Old' \subseteq Old \cup M
  BY <1>3 DEF InUse, Old
<1> QED
  BY <1>3, <1>4, <1>5, <1>6

(* A pointer that was visited leads to its object, out of from-space.          *)
LEMMA Forwarding ==
  ASSUME Types, NEW M \in SUBSET Obj, \A y \in M : place[y] = "from", place' = Moved(M),
         NEW p \in Ptr \cup {Nil}, Leads(p),
         p # Nil /\ p.at = "from" /\ place[p.o] = "from" => p.o \in M
  PROVE  /\ Forward(p, Moved(M)) \in Ptr \cup {Nil}
         /\ Forward(p, Moved(M)) = Nil <=> p = Nil
         /\ p # Nil => /\ p.o \in Obj
                       /\ Forward(p, Moved(M)).o = p.o
                       /\ Forward(p, Moved(M)).at = place'[p.o]
                       /\ place'[p.o] \in {"to", "old"}
<1>1. CASE p = Nil
  BY <1>1 DEF Forward
<1>2. CASE p # Nil
  <2>1. p \in Ptr /\ p.o \in Obj /\ p.at \in Location
    BY <1>2, PointerParts
  <2>2. \A y \in Obj : /\ y \notin M => place'[y] = place[y]
                       /\ y \in M => place'[y] = IF y \in aged THEN "old" ELSE "to"
    BY Moving
  <2>3. CASE p.at = "from"
    <3>1. place[p.o] # "free"
      BY <1>2, <2>1, <2>3 DEF Leads, Valid
    <3>2. place'[p.o] \in {"to", "old"}
      BY <1>2, <2>1, <2>2, <2>3, <3>1 DEF Types, Location
    <3>3. Forward(p, Moved(M)) = [o |-> p.o, at |-> place'[p.o]]
      BY <1>2, <2>3 DEF Forward
    <3>4. [o |-> p.o, at |-> place'[p.o]] \in Ptr
      BY <2>1, <3>2 DEF Ptr
    <3> QED
      BY <1>2, <2>1, <3>2, <3>3, <3>4, Constants
  <2>4. CASE p.at # "from"
    <3>1. place[p.o] = p.at /\ p.o \notin M
      BY <1>2, <2>1, <2>4 DEF Leads, Valid
    <3>2. Forward(p, Moved(M)) = p /\ place'[p.o] = p.at
      BY <1>2, <2>1, <2>2, <2>4, <3>1 DEF Forward
    <3> QED
      BY <1>2, <2>1, <2>4, <3>2 DEF Location
  <2> QED
    BY <2>3, <2>4
<1> QED
  BY <1>1, <1>2

LEMMA UnforwardedTyped ==
  ASSUME Types, NEW ptrs, ptrs \subseteq Ptr \cup {Nil}
  PROVE  /\ Unforwarded(ptrs) \in SUBSET Obj
         /\ \A y \in Unforwarded(ptrs) : place[y] = "from"
         /\ \A p \in ptrs : p # Nil /\ p.at = "from" /\ place[p.o] = "from"
                              => p.o \in Unforwarded(ptrs)
BY PointerParts DEF Unforwarded, Pointers, IsForwarded

(* A step of a scavenge that moves M and visits X, and nothing else.          *)
Progress(M, X) ==
  /\ M \in SUBSET Obj /\ X \in SUBSET Obj
  /\ kind' = kind /\ cid' = cid /\ class_table_' = class_table_
  /\ \A y \in M : place[y] = "from"
  /\ place' = Moved(M)
  /\ \A y \in Obj \ X : field'[y] = field[y]
  /\ \A y \in X : \A i \in Slots(y) : Leads(field[y][i])'
  /\ \A y \in X \ Waiting' : Traced(y)' /\ (y \in Old' => Noted(y)')
  /\ \A p \in stack' : Leads(p)'
  /\ M \subseteq Waiting' /\ Waiting' \subseteq Waiting \cup M
  /\ Waiting \subseteq Waiting' \cup X
  /\ \A y \in Obj : rset'[y] \in 0..1 /\ (rset[y] > 0 => rset'[y] > 0)
  /\ Remembered' \subseteq Remembered \cup ((X \cap Old) \ Waiting')
  /\ rbits' = todo' \cup Remembered'

LEMMA MovedOn ==
  ASSUME Types, CopyingDone, NEW M, NEW X, Progress(M, X)
  PROVE  CopyingDone'
<1> USE DEF Progress
<1>1. /\ \A y \in Obj : y \notin M => place'[y] = place[y]
      /\ InUse' = InUse /\ Old \subseteq Old' /\ Old' \subseteq Old \cup M
      /\ \A p \in Ptr \cup {Nil} : Leads(p) => Leads(p)'
  BY Moving
<1>2. \A y : Slots(y)' = Slots(y)
  BY DEF Slots, IsEphemeron
<1>3. Leading'
  <2>1. ASSUME NEW y \in InUse, NEW i \in Slots(y) PROVE Leads(field[y][i])'
    <3>1. CASE y \in X
      BY <3>1
    <3>2. CASE y \notin X
      <4>1. field'[y] = field[y] /\ Leads(field[y][i]) /\ field[y][i] \in Ptr \cup {Nil}
        BY <3>2 DEF CopyingDone, Leading, InUse, Types
      <4> QED
        BY <1>1, <4>1 DEF Leads, Valid
    <3> QED
      BY <3>1, <3>2
  <2>2. ASSUME NEW k \in Cid PROVE Leads(class_table_[k])'
    <3>1. Leads(class_table_[k]) /\ class_table_[k] \in Ptr \cup {Nil}
      BY DEF CopyingDone, Leading, Types
    <3> QED
      BY <1>1, <3>1 DEF Leads, Valid
  <2> QED
    BY <1>1, <1>2, <2>1, <2>2 DEF Leading
<1>4. ASSUME NEW y \in InUse, y \notin Waiting, y \notin X, y \notin M, place[y] # "from"
      PROVE  /\ Traced(y)'
             /\ place[y] = "old" => Noted(y)'
  <2>1. y \in Obj /\ Traced(y) /\ field'[y] = field[y] /\ cid'[y] = cid[y]
    BY <1>4 DEF CopyingDone, InUse
  <2>2. ASSUME y \notin Unbarriered, cid[y] # 0, class_table_[cid[y]] # Nil
        PROVE  /\ place'[class_table_[cid[y]].o] = place[class_table_[cid[y]].o]
               /\ place[class_table_[cid[y]].o] # "from"
    <3>1. class_table_[cid[y]].o \in Obj
      BY <2>1, <2>2, PointerParts DEF Types
    <3>2. place[class_table_[cid[y]].o] # "from"
      BY <2>1, <2>2 DEF Traced
    <3> QED
      BY <1>1, <3>1, <3>2
  <2>3. Traced(y)'
    BY <1>2, <2>1, <2>2 DEF Traced
  <2>4. ASSUME place[y] = "old" PROVE Noted(y)'
    <3>1. Noted(y)
      BY <1>4, <2>1, <2>4 DEF CopyingDone, Old
    <3>2. NewTarget(y)' => NewTarget(y)
      BY <1>2, <2>1 DEF NewTarget
    <3>3. y \notin Unbarriered /\ NewClass(y)' => NewClass(y)
      BY <2>1, <2>2 DEF NewClass
    <3> QED
      BY <2>1, <3>1, <3>2, <3>3 DEF Noted
  <2> QED
    BY <2>3, <2>4
<1>5. \A y \in InUse' \ Waiting' : place'[y] # "from" => Traced(y)'
  <2> SUFFICES ASSUME NEW y \in InUse \ Waiting', place'[y] # "from" PROVE Traced(y)'
    BY <1>1
  <2>1. CASE y \in X
    BY <2>1
  <2>2. CASE y \notin X
    BY <1>1, <1>4, <2>2 DEF InUse
  <2> QED
    BY <2>1, <2>2
<1>6. \A y \in Old' \ Waiting' : Noted(y)'
  <2> SUFFICES ASSUME NEW y \in Old' \ Waiting' PROVE Noted(y)'
    OBVIOUS
  <2>1. CASE y \in X
    BY <2>1
  <2>2. CASE y \notin X
    <3>1. y \in Old /\ y \in InUse /\ place[y] = "old" /\ y \notin Waiting /\ y \notin M
      BY <1>1, <2>2 DEF Old, InUse
    <3> QED
      BY <1>4, <2>2, <3>1
  <2> QED
    BY <2>1, <2>2
<1>7. Remembered' \subseteq Old' \ Waiting'
  <2>1. Remembered \subseteq Old \ Waiting /\ Old \cap M = {}
    BY DEF CopyingDone, Old
  <2> QED
    BY <1>1, <2>1
<1>8. \A y \in Obj : rset'[y] < 2
  OBVIOUS
<1> QED
  BY <1>3, <1>5, <1>6, <1>7, <1>8 DEF CopyingDone

(* What a visit changes besides objects' places.                              *)
LEMMA RememberKeeps ==
  ASSUME Types, CopyingDone, NEW x \in Waiting, x \in Obj, NEW needed \in BOOLEAN,
         Remember(x, needed, rbits \ {x})
  PROVE  /\ rset' \in [Obj -> 0..2] /\ rbits' \subseteq Obj
         /\ \A y \in Obj : rset'[y] \in 0..1 /\ (rset[y] > 0 => rset'[y] > 0)
         /\ needed /\ place[x] = "old" => rset'[x] > 0
         /\ Remembered' = Remembered \cup {y \in {x} : needed /\ y \in Old}
         /\ rbits' = (todo \ {x}) \cup Remembered'
<1>1. x \notin Remembered /\ rbits = todo \cup Remembered
  BY DEF CopyingDone
<1>2. \A y \in Obj : rset[y] \in 0..1
  BY DEF CopyingDone, Types
<1>3. rset[x] = 0
  BY <1>1, <1>2 DEF Remembered
<1>4. CASE needed /\ place[x] = "old"
  <2>1. rset' = AddToRememberedSet(x, rset) /\ rbits' = (rbits \ {x}) \cup {x}
    BY <1>4 DEF Remember
  <2>2. rset' = [rset EXCEPT ![x] = 1]
    BY <1>3, <2>1 DEF AddToRememberedSet, Types
  <2>3. rset' \in [Obj -> 0..2] /\ rset'[x] = 1 /\ \A y \in Obj : y # x => rset'[y] = rset[y]
    BY <2>2 DEF Types
  <2>4. Remembered' = Remembered \cup {x}
    BY <2>3 DEF Remembered
  <2> QED
    BY <1>1, <1>2, <1>4, <2>1, <2>3, <2>4 DEF Types, Old
<1>5. CASE ~(needed /\ place[x] = "old")
  <2>1. rset' = rset /\ rbits' = rbits \ {x}
    BY <1>5 DEF Remember
  <2>2. Remembered' = Remembered
    BY <2>1 DEF Remembered
  <2> QED
    BY <1>1, <1>2, <1>5, <2>1, <2>2 DEF Types, Old
<1> QED
  BY <1>4, <1>5

(* The pointers of x are updated and what they reached moves.                  *)
LEMMA Tracing ==
  ASSUME Types, Tabled, CopyingDone, kind' = kind, NEW x \in Waiting, x \in Obj,
         place[x] \in {"to", "old"},
         NEW M, M = Unforwarded(Slot(x) \cup ClassOf(x)), place' = Moved(M),
         field' = [field EXCEPT ![x] = ForwardSlots(x, Moved(M))],
         cid' = cid, class_table_' = class_table_, stack' = stack,
         Remember(x, HasNewTarget(x, M), rbits \ {x}),
         Waiting' = (Waiting \ {x}) \cup M, todo' = todo \ {x}
  PROVE  /\ CopyingDone'
         /\ M \in SUBSET Obj /\ \A y \in M : place[y] = "from"
         /\ field' = [y \in Obj |-> field'[y]]
         /\ \A y \in Obj : field'[y] \in [Slots(y) -> Ptr \cup {Nil}]
         /\ rset' \in [Obj -> 0..2] /\ rbits' \subseteq Obj
<1>1. Slot(x) \cup ClassOf(x) \subseteq Ptr \cup {Nil}
  BY DEF Types, Slot, ClassOf
<1>2. /\ M \in SUBSET Obj /\ \A y \in M : place[y] = "from"
      /\ \A p \in Slot(x) \cup ClassOf(x) :
           p # Nil /\ p.at = "from" /\ place[p.o] = "from" => p.o \in M
  BY <1>1, UnforwardedTyped
<1>3. x \in InUse /\ x \notin M
  BY <1>2 DEF InUse
<1>4. \A p \in Slot(x) \cup ClassOf(x) : Leads(p)
  <2>1. \A p \in Slot(x) : Leads(p)
    BY <1>3 DEF CopyingDone, Leading, Slot
  <2>2. \A p \in ClassOf(x) : Leads(p)
    BY DEF CopyingDone, Leading, ClassOf, Types
  <2> QED
    BY <2>1, <2>2
<1>5. \A p \in Slot(x) \cup ClassOf(x) :
         /\ Forward(p, Moved(M)) \in Ptr \cup {Nil}
         /\ Forward(p, Moved(M)) = Nil <=> p = Nil
         /\ p # Nil => /\ p.o \in Obj
                       /\ Forward(p, Moved(M)).o = p.o
                       /\ Forward(p, Moved(M)).at = place'[p.o]
                       /\ place'[p.o] \in {"to", "old"}
  BY <1>1, <1>2, <1>4, Forwarding
<1>6. \A y : Slots(y)' = Slots(y)
  BY DEF Slots, IsEphemeron
<1>7. /\ field' = [y \in Obj |-> field'[y]]
      /\ field'[x] = [i \in Slots(x) |-> Forward(field[x][i], Moved(M))]
      /\ \A y \in Obj \ {x} : field'[y] = field[y]
  BY DEF Types, ForwardSlots
<1>8. \A i \in Slots(x) : /\ field[x][i] \in Slot(x)
                          /\ field'[x][i] = Forward(field[x][i], Moved(M))
  BY <1>7 DEF Slot
<1>9. \A i \in Slots(x) :
         /\ field'[x][i] \in Ptr \cup {Nil}
         /\ field'[x][i] # Nil => /\ field'[x][i].o \in Obj
                                  /\ field'[x][i].at = place'[field'[x][i].o]
                                  /\ field'[x][i].at \in {"to", "old"}
  <2> SUFFICES ASSUME NEW i \in Slots(x)
               PROVE  /\ field'[x][i] \in Ptr \cup {Nil}
                      /\ field'[x][i] # Nil =>
                           /\ field'[x][i].o \in Obj
                           /\ field'[x][i].at = place'[field'[x][i].o]
                           /\ field'[x][i].at \in {"to", "old"}
    OBVIOUS
  <2> DEFINE p == field[x][i]
             q == Forward(p, Moved(M))
  <2>1. field'[x][i] = q /\ p \in Slot(x) \cup ClassOf(x)
    BY <1>8
  <2>2. /\ q \in Ptr \cup {Nil} /\ (q = Nil <=> p = Nil)
        /\ p # Nil => p.o \in Obj /\ q.o = p.o /\ q.at = place'[p.o] /\ place'[p.o] \in {"to", "old"}
    BY <1>5, <2>1
  <2> HIDE DEF p, q
  <2> QED
    BY <2>1, <2>2
<1>10. \A y \in Obj : field'[y] \in [Slots(y) -> Ptr \cup {Nil}]
  <2>1. field'[x] \in [Slots(x) -> Ptr \cup {Nil}]
    BY <1>7, <1>9
  <2>2. \A y \in Obj \ {x} : field'[y] \in [Slots(y) -> Ptr \cup {Nil}]
    BY <1>7 DEF Types
  <2> QED
    BY <2>1, <2>2
<1>11. HasNewTarget(x, M) \in BOOLEAN
  BY DEF HasNewTarget
<1>12. /\ rset' \in [Obj -> 0..2] /\ rbits' \subseteq Obj
       /\ \A y \in Obj : rset'[y] \in 0..1 /\ (rset[y] > 0 => rset'[y] > 0)
       /\ HasNewTarget(x, M) /\ place[x] = "old" => rset'[x] > 0
       /\ Remembered' = Remembered \cup {y \in {x} : HasNewTarget(x, M) /\ y \in Old}
       /\ rbits' = (todo \ {x}) \cup Remembered'
  BY <1>11, RememberKeeps, ZenonT(30)
<1>13. cid[x] # 0 /\ class_table_[cid[x]] # Nil =>
          class_table_[cid[x]] \in ClassOf(x)
  BY DEF ClassOf
<1>14. Traced(x)'
  <2>1. \A i \in Slots(x) : field'[x][i] = Nil \/ field'[x][i].at # "from"
    BY <1>9
  <2>2. cid[x] # 0 /\ class_table_[cid[x]] # Nil => place'[class_table_[cid[x]].o] # "from"
    BY <1>5, <1>13
  <2> QED
    BY <1>6, <2>1, <2>2 DEF Traced
<1>15. NewTarget(x)' \/ NewClass(x)' => HasNewTarget(x, M)
  <2>1. NewTarget(x)' => HasNewTarget(x, M)
    BY <1>6, <1>8 DEF NewTarget, HasNewTarget, IsNewObject
  <2>2. ASSUME NewClass(x)' PROVE HasNewTarget(x, M)
    <3> DEFINE p == class_table_[cid[x]]
    <3>1. p \in ClassOf(x) /\ p # Nil /\ place'[p.o] # "old"
      BY <1>13, <2>2 DEF NewClass
    <3>2. IsNewObject(Forward(p, Moved(M))) /\ p \in Pointers(ClassOf(x))
      BY <1>5, <3>1 DEF IsNewObject, Pointers
    <3> QED
      BY <3>2 DEF HasNewTarget
  <2> QED
    BY <2>1, <2>2
<1>16. x \in Old' => x \in Old
  <2>1. Old' \subseteq Old \cup M
    BY <1>2, Moving, ZenonT(30)
  <2> QED
    BY <1>3, <2>1
<1>17. x \in Old' => Noted(x)'
  BY <1>12, <1>15, <1>16 DEF Noted, Old
<1>18. \A i \in Slots(x) : Leads(field[x][i])'
  BY <1>9 DEF Leads, Valid
<1>19. \A p \in stack' : Leads(p)'
  <2>1. \A p \in stack : Leads(p) /\ p \in Ptr \cup {Nil}
    BY DEF CopyingDone, Leading, Types
  <2> QED
    BY <1>2, <2>1, Moving
<1>20. Remembered' \subseteq Remembered \cup (({x} \cap Old) \ Waiting')
  BY <1>3, <1>12
<1>21. {x} \in SUBSET Obj /\ rbits' = todo' \cup Remembered'
  BY <1>12
<1>22. /\ M \subseteq Waiting' /\ Waiting' \subseteq Waiting \cup M
       /\ Waiting \subseteq Waiting' \cup {x}
  BY <1>3
<1>23. Progress(M, {x})
  BY <1>2, <1>7, <1>12, <1>14, <1>17, <1>18, <1>19, <1>20, <1>21, <1>22 DEF Progress
<1>24. CopyingDone'
  BY <1>23, MovedOn
<1> QED
  BY <1>2, <1>7, <1>10, <1>12, <1>24

(* The objects a step copies are left to be visited, apart from all others.    *)
LEMMA CopiedWork ==
  ASSUME Types, CopyingWork, NEW M, NEW done, M \in SUBSET Obj,
         \A y \in M : place[y] = "from", Copied(M, done), done \cap M = {}
  PROVE  /\ todo' \subseteq Obj /\ toScan' \subseteq Obj /\ tenured' \subseteq Obj
         /\ Works' = (Works \ done) \cup M /\ M \cap Waiting = {}
         /\ \A y \in todo' \cup tenured' : place'[y] = "old"
         /\ \A y \in toScan' : place'[y] = "to"
         /\ \A y \in Obj \ M : place'[y] = place[y]
         /\ Works' \cap Lists = {} /\ todo' \cap tenured' = {}
         /\ todo' = todo \ done
<1>1. /\ place' = Moved(M) /\ todo' = todo \ done
      /\ toScan' = (toScan \ done) \cup (M \ aged)
      /\ tenured' = (tenured \ done) \cup (M \cap aged)
  BY DEF Copied
<1>2. \A y \in Obj : /\ y \notin M => place'[y] = place[y]
                     /\ y \in M => place'[y] = IF y \in aged THEN "old" ELSE "to"
  BY <1>1, Moving
<1>3. /\ \A y \in todo \cup tenured : place[y] = "old"
      /\ \A y \in toScan : place[y] = "to"
      /\ \A y \in Lists : place[y] # "from"
      /\ Works \cap Lists = {} /\ todo \cap tenured = {}
  BY DEF CopyingWork, Apart
<1>4. M \cap Works = {} /\ M \cap Lists = {}
  BY <1>3 DEF Works
<1>5. todo \subseteq Obj /\ toScan \subseteq Obj /\ tenured \subseteq Obj
  BY DEF Types
<1>6. Works' = (Works \ done) \cup M
  BY <1>1 DEF Works
<1>7. \A y \in todo' \cup tenured' : place'[y] = "old"
  BY <1>1, <1>2, <1>3, <1>4, <1>5 DEF Works
<1>8. \A y \in toScan' : place'[y] = "to"
  BY <1>1, <1>2, <1>3, <1>4, <1>5 DEF Works
<1>9. Works' \cap Lists = {}
  BY <1>3, <1>4, <1>6
<1>10. todo' \cap tenured' = {}
  BY <1>1, <1>3, <1>4 DEF Works
<1> QED
  BY <1>1, <1>2, <1>4, <1>5, <1>6, <1>7, <1>8, <1>9, <1>10 DEF Waiting

(* A step of a scavenge leaves the classes alone.                              *)
LEMMA Unclassed ==
  ASSUME Tabled, kind' = kind, cid' = cid, id' = id, class_table_' = class_table_,
         InUse' = InUse
  PROVE  Tabled'
BY DEF Tabled, Registered, IsBehavior

(* What is put aside is looked at later.                                      *)
LEMMA AsideKeeps ==
  ASSUME Types, CopyingDone, kind' = kind, NEW x \in Waiting, x \in Obj,
         place' = Moved({}), field' = field, cid' = cid, class_table_' = class_table_,
         stack' = stack, Remember(x, FALSE, rbits \ {x}),
         Waiting' = Waiting, todo' = todo \ {x}
  PROVE  CopyingDone' /\ rset' \in [Obj -> 0..2] /\ rbits' \subseteq Obj
<1>1. /\ rset' \in [Obj -> 0..2] /\ rbits' \subseteq Obj
      /\ \A y \in Obj : rset'[y] \in 0..1 /\ (rset[y] > 0 => rset'[y] > 0)
      /\ Remembered' = Remembered
      /\ rbits' = todo' \cup Remembered'
  BY RememberKeeps
<1>2. \A p \in stack' : Leads(p)'
  <2>1. \A p \in stack : Leads(p) /\ p \in Ptr \cup {Nil}
    BY DEF CopyingDone, Leading, Types
  <2> QED
    BY <2>1, Moving
<1>3. Progress({}, {})
  BY <1>1, <1>2 DEF Progress
<1> QED
  BY <1>1, <1>3, MovedOn

LEMMA VisitKeeps ==
  ASSUME Types, Tabled, Copying, kind' = kind, NEW x \in Works,
         Visit(x, rbits \ {x}), phase' = phase,
         phase # "ephemerons", phase # "mourn"
  PROVE  Types' /\ Tabled' /\ Copying'
<1> DEFINE M == IF PutAside(x) THEN {} ELSE Unforwarded(VisitedPointers(x))
<1>1. /\ Copied(M, {x})
      /\ weak_list_' = weak_list_ \cup {y \in {x} : IsWeakArray(y)}
      /\ ephemeron_list_' = ephemeron_list_ \cup {y \in {x} : IsEphemeron(y)}
      /\ aged' = aged /\ cid' = cid /\ id' = id /\ class_table_' = class_table_
      /\ stack' = stack /\ pending' = pending /\ marked' = marked
      /\ before' = before /\ reach' = reach
  BY DEF Visit, ghosts
<1>2. /\ x \in Obj /\ x \in Waiting /\ place[x] \in {"to", "old"} /\ x \notin Lists
      /\ pending = {}
  BY DEF Copying, CopyingWork, Apart, Works, Waiting, Types
<1>3. M \in SUBSET Obj /\ (\A y \in M : place[y] = "from") /\ {x} \cap M = {}
  <2>1. VisitedPointers(x) \subseteq Ptr \cup {Nil}
    BY <1>2 DEF Types, VisitedPointers, Slot, ClassOf
  <2>2. /\ Unforwarded(VisitedPointers(x)) \in SUBSET Obj
        /\ \A y \in Unforwarded(VisitedPointers(x)) : place[y] = "from"
    BY <2>1, UnforwardedTyped
  <2> QED
    BY <1>2, <2>2
<1> HIDE DEF M
<1>4. /\ todo' \subseteq Obj /\ toScan' \subseteq Obj /\ tenured' \subseteq Obj
      /\ Works' = (Works \ {x}) \cup M /\ M \cap Waiting = {}
      /\ \A y \in todo' \cup tenured' : place'[y] = "old"
      /\ \A y \in toScan' : place'[y] = "to"
      /\ \A y \in Obj \ M : place'[y] = place[y]
      /\ Works' \cap Lists = {} /\ todo' \cap tenured' = {}
      /\ todo' = todo \ {x} /\ place' = Moved(M)
  <2>1. CopyingWork /\ Copied(M, {x})
    BY <1>1 DEF Copying
  <2>2. place' = Moved(M)
    BY <2>1 DEF Copied
  <2> QED
    BY <1>3, <2>1, <2>2, CopiedWork
<1>5. place' \in [Obj -> Location \cup {"free"}] /\ InUse' = InUse
  BY <1>3, <1>4, Moving
<1>6. Tabled'
  BY <1>1, <1>5, Unclassed
<1>7. Lists' = Lists \cup {y \in {x} : PutAside(y)}
  BY <1>1 DEF Lists, PutAside
<1>8. /\ CopyingDone'
      /\ field' = [y \in Obj |-> field'[y]]
      /\ \A y \in Obj : field'[y] \in [Slots(y) -> Ptr \cup {Nil}]
      /\ rset' \in [Obj -> 0..2] /\ rbits' \subseteq Obj
  <2>1. CASE PutAside(x)
    <3>1. field' = field /\ Remember(x, FALSE, rbits \ {x}) /\ M = {}
      BY <2>1 DEF Visit, M
    <3>2. Waiting' = Waiting
      BY <1>2, <1>4, <1>7, <2>1, <3>1 DEF Waiting
    <3>3. CopyingDone' /\ rset' \in [Obj -> 0..2] /\ rbits' \subseteq Obj
      BY <1>1, <1>2, <1>4, <3>1, <3>2, AsideKeeps DEF Copying
    <3> QED
      BY <3>1, <3>3 DEF Types
  <2>2. CASE ~PutAside(x)
    <3>1. /\ M = Unforwarded(Slot(x) \cup ClassOf(x))
          /\ field' = [field EXCEPT ![x] = ForwardSlots(x, Moved(M))]
          /\ Remember(x, HasNewTarget(x, M), rbits \ {x})
      BY <2>2 DEF Visit, M, VisitedPointers
    <3>2. Waiting' = (Waiting \ {x}) \cup M
      BY <1>2, <1>4, <1>7, <2>2 DEF Waiting
    <3> QED
      BY <1>1, <1>2, <1>4, <3>1, <3>2, Tracing DEF Copying
  <2> QED
    BY <2>1, <2>2
<1>9. Types'
  <2>1. \A y : Slots(y)' = Slots(y)
    BY DEF Slots, IsEphemeron
  <2>2. field' \in [Obj -> Contents]
    BY <1>8, FieldTyped
  <2>3. weak_list_' \subseteq Obj /\ ephemeron_list_' \subseteq Obj
    BY <1>1, <1>2 DEF Types
  <2> QED
    BY <1>1, <1>4, <1>5, <1>8, <2>1, <2>2, <2>3 DEF Types
<1>10. Apart'
  <2>1. Works' \cap Lists' = {}
    BY <1>3, <1>4, <1>7
  <2>2. /\ \A y \in weak_list_' : IsWeakArray(y)'
        /\ \A y \in ephemeron_list_' \cup pending' : IsEphemeron(y)'
    BY <1>1 DEF Copying, CopyingWork, Apart, IsWeakArray, IsEphemeron
  <2> QED
    BY <1>1, <1>2, <1>4, <2>1, <2>2 DEF Apart
<1>11. \A y \in Lists' : place'[y] \in {"to", "old"}
  <2>1. Lists \subseteq Obj /\ \A y \in Lists : place[y] \in {"to", "old"}
    BY DEF Types, Lists, Copying, CopyingWork
  <2>2. Lists' \subseteq Obj /\ Lists' \subseteq Lists \cup {x} /\ Lists' \cap M = {}
    BY <1>2, <1>3, <1>4, <1>7, <2>1 DEF Waiting
  <2> QED
    BY <1>2, <1>4, <2>1, <2>2
<1>12. CopyingWork'
  BY <1>1, <1>2, <1>4, <1>10, <1>11 DEF Copying, CopyingWork
<1> QED
  BY <1>6, <1>8, <1>9, <1>12 DEF Copying

LEMMA ScavengeRememberedKeeps ==
  ASSUME Types, Tabled, Copying, kind' = kind, NEW x \in Obj, ScavengeRemembered(x)
  PROVE  Types' /\ Tabled' /\ Copying'
<1>1. x \in Works /\ phase = "remembered" /\ phase' = phase /\ Visit(x, rbits \ {x})
  BY DEF ScavengeRemembered, Works
<1> QED
  BY <1>1, VisitKeeps

(* Of what waits, only what ScavengeRoots found has its bit.                   *)
LEMMA WaitingUnremembered ==
  ASSUME Copying, phase # "remembered", NEW x \in Waiting
  PROVE  rbits = rbits \ {x}
BY DEF Copying, CopyingWork, CopyingDone

(* A step that only turns to the next of the lists.                            *)
LEMMA Turning ==
  ASSUME Types, Tabled, CopyingDone, kind' = kind, Waiting' = Waiting, phase' \in Phase,
         UNCHANGED <<place, aged, graph, remembered, work, weak_list_, marked, ghosts>>,
         ephemeron_list_' \subseteq Lists, pending' \subseteq Lists
  PROVE  Types' /\ Tabled' /\ CopyingDone'
<1>1. /\ place' = place /\ aged' = aged /\ field' = field /\ cid' = cid /\ id' = id
      /\ class_table_' = class_table_ /\ stack' = stack /\ rset' = rset /\ rbits' = rbits
      /\ todo' = todo /\ toScan' = toScan /\ tenured' = tenured
      /\ weak_list_' = weak_list_ /\ marked' = marked /\ before' = before /\ reach' = reach
  BY DEF graph, remembered, work, ghosts
<1>2. \A y : Slots(y)' = Slots(y)
  BY DEF Slots, IsEphemeron
<1>3. InUse' = InUse /\ Old' = Old /\ Remembered' = Remembered
  BY <1>1 DEF InUse, Old, Remembered
<1>4. Tabled'
  BY <1>1, <1>3, Unclassed
<1>5. Types'
  BY <1>1, <1>2 DEF Types, Lists
<1>6. \A p : Leads(p)' <=> Leads(p)
  BY <1>1 DEF Leads, Valid
<1>7. Leading'
  BY <1>1, <1>2, <1>3 DEF CopyingDone, Leading, Leads, Valid
<1>8. \A y : (Traced(y)' <=> Traced(y)) /\ (Noted(y)' <=> Noted(y))
  BY <1>1, <1>2 DEF Traced, Noted, NewTarget, NewClass
<1> QED
  BY <1>1, <1>3, <1>4, <1>5, <1>7, <1>8 DEF CopyingDone

LEMMA TestScavengeLoopKeeps ==
  ASSUME Types, Tabled, Copying, kind' = kind, TestScavengeLoop
  PROVE  Types' /\ Tabled' /\ Copying'
<1>1. /\ phase = "loop" /\ phase' \in {"mourn", "scan"}
      /\ phase' = "mourn" => toScan = {} /\ tenured = {}
      /\ UNCHANGED <<place, aged, graph, remembered, work, lists, marked, ghosts>>
  BY DEF TestScavengeLoop, NothingToScan
<1>2. /\ UNCHANGED <<place, aged, graph, remembered, work, weak_list_, marked, ghosts>>
      /\ ephemeron_list_' = ephemeron_list_ /\ pending' = pending /\ weak_list_' = weak_list_
      /\ todo' = todo /\ toScan' = toScan /\ tenured' = tenured /\ stack' = stack
      /\ place' = place /\ marked' = marked
  BY <1>1 DEF lists, work, graph
<1>3. Types' /\ Tabled' /\ CopyingDone'
  BY <1>1, <1>2, Turning DEF Copying, Waiting, Works, Lists, Phase
<1>4. Apart'
  BY <1>2 DEF Copying, CopyingWork, Apart, Works, Lists, IsWeakArray, IsEphemeron
<1>5. CopyingWork'
  BY <1>1, <1>2, <1>4 DEF Copying, CopyingWork, Lists
<1> QED
  BY <1>3, <1>5 DEF Copying

LEMMA ScavengeToSpaceKeeps ==
  ASSUME Types, Tabled, Copying, kind' = kind, ScavengeToSpace
  PROVE  Types' /\ Tabled' /\ Copying'
<1>1. ASSUME NEW x \in toScan, phase = "scan", Visit(x, rbits), phase' = phase
      PROVE  Types' /\ Tabled' /\ Copying'
  <2>1. x \in Works /\ x \in Waiting
    BY DEF Works, Waiting
  <2>2. Visit(x, rbits \ {x})
    BY <1>1, <2>1, WaitingUnremembered
  <2> QED
    BY <1>1, <2>1, <2>2, VisitKeeps
<1>2. ASSUME phase = "scan", toScan = {}, phase' = "tenure",
             UNCHANGED <<place, aged, graph, remembered, work, lists, marked, ghosts>>
      PROVE  Types' /\ Tabled' /\ Copying'
  <2>1. /\ UNCHANGED <<place, aged, graph, remembered, work, weak_list_, marked, ghosts>>
        /\ ephemeron_list_' = ephemeron_list_ /\ pending' = pending /\ weak_list_' = weak_list_
        /\ todo' = todo /\ toScan' = toScan /\ tenured' = tenured /\ stack' = stack
        /\ place' = place /\ marked' = marked
    BY <1>2 DEF lists, work, graph
  <2>2. Types' /\ Tabled' /\ CopyingDone'
    BY <1>2, <2>1, Turning DEF Copying, Waiting, Works, Lists, Phase
  <2>3. Apart'
    BY <2>1 DEF Copying, CopyingWork, Apart, Works, Lists, IsWeakArray, IsEphemeron
  <2>4. CopyingWork'
    BY <1>2, <2>1, <2>3 DEF Copying, CopyingWork, Lists
  <2> QED
    BY <2>2, <2>4 DEF Copying
<1> QED
  BY <1>1, <1>2 DEF ScavengeToSpace

LEMMA ProcessTenureStackKeeps ==
  ASSUME Types, Tabled, Copying, kind' = kind, ProcessTenureStack
  PROVE  Types' /\ Tabled' /\ Copying'
<1>1. ASSUME NEW x \in tenured, phase = "tenure", Visit(x, rbits), phase' = phase
      PROVE  Types' /\ Tabled' /\ Copying'
  <2>1. x \in Works /\ x \in Waiting
    BY DEF Works, Waiting
  <2>2. Visit(x, rbits \ {x})
    BY <1>1, <2>1, WaitingUnremembered
  <2> QED
    BY <1>1, <2>1, <2>2, VisitKeeps
<1>2. ASSUME phase = "tenure", tenured = {}, phase' = "ephemerons",
             pending' = ephemeron_list_, ephemeron_list_' = {},
             UNCHANGED <<place, aged, graph, remembered, work, weak_list_, marked, ghosts>>
      PROVE  Types' /\ Tabled' /\ Copying'
  <2>1. /\ weak_list_' = weak_list_ /\ pending = {}
        /\ todo' = todo /\ toScan' = toScan /\ tenured' = tenured /\ stack' = stack
        /\ place' = place /\ marked' = marked
    BY <1>2 DEF work, graph, Copying, CopyingWork
  <2>2. Types' /\ Tabled' /\ CopyingDone'
    BY <1>2, <2>1, Turning DEF Copying, Waiting, Works, Lists, Phase
  <2>3. Apart'
    BY <1>2, <2>1 DEF Copying, CopyingWork, Apart, Works, Lists, IsWeakArray, IsEphemeron
  <2>4. CopyingWork'
    BY <1>2, <2>1, <2>3 DEF Copying, CopyingWork, Lists
  <2> QED
    BY <2>2, <2>4 DEF Copying
<1> QED
  BY <1>1, <1>2 DEF ProcessTenureStack

LEMMA ScavengeRootsKeeps ==
  ASSUME Types, Tabled, Copying, kind' = kind, ScavengeRoots
  PROVE  Types' /\ Tabled' /\ Copying'
<1> DEFINE M == Unforwarded(stack)
<1>1. /\ phase = "remembered" /\ todo = {} /\ Copied(M, {})
      /\ stack' = {Forward(p, Moved(M)) : p \in stack}
      /\ phase' = "loop"
      /\ aged' = aged /\ field' = field /\ cid' = cid /\ id' = id
      /\ class_table_' = class_table_ /\ rset' = rset /\ rbits' = rbits
      /\ ephemeron_list_' = ephemeron_list_ /\ weak_list_' = weak_list_
      /\ pending' = pending /\ marked' = marked /\ before' = before /\ reach' = reach
  BY DEF ScavengeRoots, remembered, lists, ghosts
<1>2. stack \subseteq Ptr \cup {Nil} /\ Nil \notin stack /\ (\A p \in stack : Leads(p))
  BY Constants DEF Types, Copying, CopyingDone, Leading
<1>3. /\ M \in SUBSET Obj /\ \A y \in M : place[y] = "from"
      /\ \A p \in stack : p # Nil /\ p.at = "from" /\ place[p.o] = "from" => p.o \in M
  BY <1>2, UnforwardedTyped
<1> HIDE DEF M
<1>4. place' = Moved(M)
  BY <1>1 DEF Copied
<1>5. /\ todo' \subseteq Obj /\ toScan' \subseteq Obj /\ tenured' \subseteq Obj
      /\ Works' = Works \cup M /\ M \cap Waiting = {}
      /\ \A y \in todo' \cup tenured' : place'[y] = "old"
      /\ \A y \in toScan' : place'[y] = "to"
      /\ \A y \in Obj \ M : place'[y] = place[y]
      /\ Works' \cap Lists = {} /\ todo' \cap tenured' = {}
      /\ todo' = {}
  <2>1. CopyingWork /\ Copied(M, {})
    BY <1>1 DEF Copying
  <2> QED
    BY <1>1, <1>3, <2>1, CopiedWork
<1>6. place' \in [Obj -> Location \cup {"free"}] /\ InUse' = InUse
  BY <1>3, <1>4, Moving
<1>7. \A p \in stack' : p \in Ptr /\ p.at # "from" /\ Leads(p)'
  <2> SUFFICES ASSUME NEW p \in stack' PROVE p \in Ptr /\ p.at # "from" /\ Leads(p)'
    OBVIOUS
  <2>1. PICK q \in stack : p = Forward(q, Moved(M))
    BY <1>1
  <2>2. q # Nil /\ q \in Ptr \cup {Nil} /\ Leads(q)
    BY <1>2
  <2>3. /\ Forward(q, Moved(M)) \in Ptr \cup {Nil} /\ Forward(q, Moved(M)) # Nil
        /\ Forward(q, Moved(M)).o = q.o
        /\ Forward(q, Moved(M)).at = place'[q.o] /\ place'[q.o] \in {"to", "old"}
    BY <1>3, <1>4, <2>2, Forwarding
  <2>4. p \in Ptr /\ p.at # "from" /\ place'[p.o] = p.at
    BY <2>1, <2>3
  <2> QED
    BY <2>4 DEF Leads, Valid
<1>8. Lists' = Lists /\ Waiting' = Waiting \cup M
  BY <1>1, <1>5 DEF Lists, Waiting
<1>9. /\ Remembered' = Remembered /\ rbits' = todo' \cup Remembered'
      /\ \A y \in Obj : rset'[y] \in 0..1 /\ (rset[y] > 0 => rset'[y] > 0)
  BY <1>1, <1>5 DEF Copying, CopyingDone, Remembered, Types
<1>10. Progress(M, {})
  BY <1>1, <1>3, <1>4, <1>7, <1>8, <1>9 DEF Progress
<1>11. CopyingDone'
  BY <1>10, MovedOn DEF Copying
<1>12. Tabled'
  BY <1>1, <1>6, Unclassed
<1>13. Types'
  <2>1. \A y : Slots(y)' = Slots(y)
    BY DEF Slots, IsEphemeron
  <2>2. stack' \subseteq Ptr
    BY <1>7
  <2> HIDE DEF Copied
  <2> QED
    BY <1>1, <1>5, <1>6, <2>1, <2>2 DEF Types, Phase
<1>14. Apart'
  BY <1>1, <1>5, <1>8 DEF Copying, CopyingWork, Apart, IsWeakArray, IsEphemeron
<1>15. \A y \in Lists' : place'[y] \in {"to", "old"}
  <2>1. Lists \subseteq Obj /\ \A y \in Lists : place[y] \in {"to", "old"}
    BY DEF Types, Lists, Copying, CopyingWork
  <2> QED
    BY <1>5, <1>8, <2>1 DEF Waiting
<1>16. CopyingWork'
  BY <1>1, <1>5, <1>7, <1>14, <1>15 DEF Copying, CopyingWork
<1> QED
  BY <1>11, <1>12, <1>13, <1>16 DEF Copying

LEMMA ScavengeEphemeronListKeeps ==
  ASSUME Types, Tabled, Copying, kind' = kind, ScavengeEphemeronList
  PROVE  Types' /\ Tabled' /\ Copying'
<1>1. /\ phase = "ephemerons" /\ todo = {} /\ marked' = marked /\ weak_list_' = weak_list_
      /\ aged' = aged /\ cid' = cid /\ id' = id /\ class_table_' = class_table_
      /\ stack' = stack /\ before' = before /\ reach' = reach
  BY DEF ScavengeEphemeronList, Copying, CopyingWork, ghosts
<1>2. ASSUME NEW x \in pending, pending' = pending \ {x}, phase' = phase,
             NEW M, M = Unforwarded(Slot(x)), Copied(M, {}),
             field' = [field EXCEPT ![x] = ForwardSlots(x, Moved(M))],
             Remember(x, HasNewTarget(x, M), rbits), ephemeron_list_' = ephemeron_list_
      PROVE  Types' /\ Tabled' /\ Copying'
  <2>1. /\ x \in Obj /\ x \in Waiting /\ x \in Lists /\ IsEphemeron(x)
        /\ place[x] \in {"to", "old"} /\ x \notin Works /\ x \notin weak_list_
    BY DEF Copying, CopyingWork, Apart, Lists, Waiting, Types, IsWeakArray, IsEphemeron
  <2>2. ClassOf(x) = {}
    BY <2>1 DEF ClassOf, Tabled, IsEphemeron
  <2>3. M = Unforwarded(Slot(x) \cup ClassOf(x))
    BY <1>2, <2>2
  <2>4. M \in SUBSET Obj /\ (\A y \in M : place[y] = "from") /\ place' = Moved(M)
    <3>1. Slot(x) \subseteq Ptr \cup {Nil}
      BY <2>1 DEF Types, Slot
    <3>2. place' = Moved(M)
      BY <1>2 DEF Copied
    <3> QED
      BY <1>2, <3>1, <3>2, UnforwardedTyped
  <2>5. /\ todo' \subseteq Obj /\ toScan' \subseteq Obj /\ tenured' \subseteq Obj
        /\ Works' = Works \cup M /\ M \cap Waiting = {}
        /\ \A y \in todo' \cup tenured' : place'[y] = "old"
        /\ \A y \in toScan' : place'[y] = "to"
        /\ \A y \in Obj \ M : place'[y] = place[y]
        /\ Works' \cap Lists = {} /\ todo' \cap tenured' = {}
        /\ todo' = {}
    <3>1. CopyingWork /\ Copied(M, {})
      BY <1>2 DEF Copying
    <3> QED
      BY <1>1, <2>4, <3>1, CopiedWork
  <2>6. place' \in [Obj -> Location \cup {"free"}] /\ InUse' = InUse
    BY <2>4, Moving
  <2>7. Tabled'
    BY <1>1, <2>6, Unclassed
  <2>8. Lists' = Lists \ {x} /\ Waiting' = (Waiting \ {x}) \cup M
    <3>1. x \notin ephemeron_list_
      BY DEF Copying, CopyingWork, Apart
    <3> QED
      BY <1>1, <1>2, <2>1, <2>5, <3>1 DEF Lists, Waiting
  <2>9. Remember(x, HasNewTarget(x, M), rbits \ {x}) /\ todo' = todo \ {x}
    BY <1>1, <1>2, <2>1, <2>5, WaitingUnremembered
  <2>10. /\ CopyingDone'
         /\ field' = [y \in Obj |-> field'[y]]
         /\ \A y \in Obj : field'[y] \in [Slots(y) -> Ptr \cup {Nil}]
         /\ rset' \in [Obj -> 0..2] /\ rbits' \subseteq Obj
    BY <1>1, <1>2, <2>1, <2>3, <2>4, <2>8, <2>9, Tracing DEF Copying
  <2>11. Types'
    <3>1. \A y : Slots(y)' = Slots(y)
      BY DEF Slots, IsEphemeron
    <3>2. field' \in [Obj -> Contents]
      BY <2>10, FieldTyped
    <3> HIDE DEF Copied, Remember
    <3> QED
      BY <1>1, <1>2, <2>5, <2>6, <2>10, <3>1, <3>2 DEF Types
  <2>12. Apart'
    <3>1. Works' \cap Lists' = {}
      BY <2>5, <2>8
    <3>2. /\ \A y \in weak_list_' : IsWeakArray(y)'
          /\ \A y \in ephemeron_list_' \cup pending' : IsEphemeron(y)'
          /\ ephemeron_list_' \cap pending' = {}
      BY <1>1, <1>2 DEF Copying, CopyingWork, Apart, IsWeakArray, IsEphemeron
    <3> QED
      BY <2>5, <3>1, <3>2 DEF Apart
  <2>13. \A y \in Lists' : place'[y] \in {"to", "old"}
    <3>1. Lists \subseteq Obj /\ \A y \in Lists : place[y] \in {"to", "old"}
      BY DEF Types, Lists, Copying, CopyingWork
    <3>2. Lists' \subseteq Lists /\ Lists \cap M = {}
      BY <2>5, <2>8 DEF Waiting
    <3> QED
      BY <2>5, <3>1, <3>2
  <2>14. CopyingWork'
    BY <1>1, <1>2, <2>5, <2>12, <2>13 DEF Copying, CopyingWork
  <2> QED
    BY <2>7, <2>10, <2>11, <2>14 DEF Copying
<1>3. ASSUME place' = place, field' = field, UNCHANGED <<remembered, work>>,
             ephemeron_list_' \cup pending' = ephemeron_list_ \cup pending,
             ephemeron_list_' \cap pending' = {},
             phase' = phase \/ (pending' = {} /\ phase' = "loop")
      PROVE  Types' /\ Tabled' /\ Copying'
  <2>1. /\ UNCHANGED <<place, aged, graph, remembered, work, weak_list_, marked, ghosts>>
        /\ todo' = todo /\ toScan' = toScan /\ tenured' = tenured
        /\ Lists' = Lists /\ Works' = Works /\ Waiting' = Waiting
        /\ ephemeron_list_' \subseteq Lists /\ pending' \subseteq Lists
    BY <1>1, <1>3 DEF work, graph, ghosts, Lists, Works, Waiting
  <2>2. phase' \in Phase
    BY <1>1, <1>3 DEF Phase
  <2>3. Types' /\ Tabled' /\ CopyingDone'
    BY <2>1, <2>2, Turning DEF Copying
  <2>4. Apart'
    BY <1>1, <1>3, <2>1 DEF Copying, CopyingWork, Apart, IsWeakArray, IsEphemeron
  <2>5. CopyingWork'
    BY <1>1, <1>3, <2>1, <2>4 DEF Copying, CopyingWork
  <2> QED
    BY <2>3, <2>5 DEF Copying
<1>4. CASE \E x \in pending :
             /\ pending' = pending \ {x} /\ phase' = phase
             /\ LET M == Unforwarded(Slot(x)) IN
                  /\ Copied(M, {})
                  /\ field' = [field EXCEPT ![x] = ForwardSlots(x, Moved(M))]
                  /\ Remember(x, HasNewTarget(x, M), rbits)
             /\ ephemeron_list_' = ephemeron_list_
  BY <1>2, <1>4
<1>5. CASE \E x \in pending :
             /\ pending' = pending \ {x} /\ phase' = phase
             /\ ephemeron_list_' = ephemeron_list_ \cup {x}
             /\ UNCHANGED <<place, field, remembered, work>>
  <2>1. PICK x \in pending : /\ pending' = pending \ {x} /\ phase' = phase
                             /\ ephemeron_list_' = ephemeron_list_ \cup {x}
                             /\ UNCHANGED <<place, field, remembered, work>>
    BY <1>5
  <2>2. /\ ephemeron_list_' \cup pending' = ephemeron_list_ \cup pending
        /\ ephemeron_list_' \cap pending' = {}
    BY <2>1 DEF Copying, CopyingWork, Apart
  <2> QED
    BY <1>3, <2>1, <2>2
<1>6. CASE /\ pending = {} /\ phase' = "loop"
           /\ UNCHANGED <<place, field, remembered, work, ephemeron_list_, pending>>
  BY <1>3, <1>6
<1> QED
  BY <1>4, <1>5, <1>6 DEF ScavengeEphemeronList

(* A weak pointer is cleared when its object did not move, and follows it when  *)
(* it did.                                                                   *)
LEMMA MournedPointers ==
  ASSUME Types, NEW p \in Ptr \cup {Nil}, Leads(p)
  PROVE  /\ Mourned(p) \in Ptr \cup {Nil}
         /\ Mourned(p) # Nil =>
              /\ p # Nil /\ p.o \in Obj /\ Mourned(p).o = p.o
              /\ Mourned(p).at = place[p.o] /\ place[p.o] \in {"to", "old"}
         /\ p # Nil => /\ p.o \in Obj
                       /\ place[p.o] # "from" => Mourned(p) # Nil
<1>1. CASE p = Nil
  BY <1>1 DEF Mourned
<1>2. CASE p # Nil
  <2>1. p \in Ptr /\ p.o \in Obj /\ p.at \in Location
    BY <1>2, PointerParts
  <2>2. CASE p.at = "from" /\ place[p.o] = "from"
    BY <1>2, <2>1, <2>2 DEF Mourned, IsForwarded
  <2>3. CASE p.at = "from" /\ place[p.o] # "from"
    <3>1. place[p.o] \in {"to", "old"}
      BY <1>2, <2>1, <2>3 DEF Leads, Valid, Types, Location
    <3>2. Mourned(p) = [o |-> p.o, at |-> place[p.o]]
      BY <1>2, <2>3 DEF Mourned, IsForwarded, Forward
    <3>3. [o |-> p.o, at |-> place[p.o]] \in Ptr
      BY <2>1, <3>1 DEF Ptr
    <3> QED
      BY <1>2, <2>1, <3>1, <3>2, <3>3, Constants
  <2>4. CASE p.at # "from"
    <3>1. place[p.o] = p.at /\ p.at \in {"to", "old"}
      BY <1>2, <2>1, <2>4 DEF Leads, Valid, Location
    <3>2. Mourned(p) = p
      BY <1>2, <2>4 DEF Mourned, Forward
    <3> QED
      BY <1>2, <2>1, <3>1, <3>2
  <2> QED
    BY <2>2, <2>3, <2>4
<1> QED
  BY <1>1, <1>2

LEMMA MournScavengeKeeps ==
  ASSUME Types, Tabled, Copying, kind' = kind, MournScavenge
  PROVE  Types' /\ Tabled' /\ Idle'
<1> DEFINE dead == {y \in Obj : place[y] = "from"}
           kept == [y \in Obj |-> [i \in Slots(y) |-> Mourned(field[y][i])]]
           slots == SlotsAfter(kept)
           X == {y \in weak_list_ : KeepsNewTarget(y)}
<1>1. /\ phase = "mourn" /\ Freed(dead, slots) /\ RememberAll(X)
      /\ class_table_' = [k \in Cid |-> MournedClass(class_table_[k])]
      /\ aged' = {y \in Obj : place[y] = "to"}
      /\ ephemeron_list_' = {} /\ weak_list_' = {} /\ before' = {} /\ reach' = {}
      /\ phase' = "mutator"
      /\ stack' = stack /\ todo' = todo /\ toScan' = toScan /\ tenured' = tenured
      /\ pending' = pending /\ marked' = marked
  BY DEF MournScavenge, work
<1>2. /\ todo = {} /\ toScan = {} /\ tenured = {} /\ pending = {} /\ marked = {}
      /\ Waiting = ephemeron_list_ \cup weak_list_
      /\ \A y \in weak_list_ : IsWeakArray(y)
      /\ \A y \in ephemeron_list_ : IsEphemeron(y)
      /\ \A p \in stack : p.at # "from"
      /\ \A y \in Waiting : place[y] \in {"to", "old"}
  BY <1>1 DEF Copying, CopyingWork, Apart, Waiting, Works, Lists
<1>3. /\ place' = [y \in Obj |-> IF y \in dead THEN "free" ELSE place[y]]
      /\ field' = [y \in Obj |-> IF y \in dead THEN [i \in Slots(y) |-> Nil] ELSE slots[y]]
      /\ cid' = [y \in Obj |-> IF y \in dead THEN 0 ELSE cid[y]]
      /\ id' = [y \in Obj |-> IF y \in dead THEN 0 ELSE id[y]]
  BY <1>1 DEF Freed
<1>4. \A y \in Obj : /\ place[y] = "from" => place'[y] = "free" /\ cid'[y] = 0 /\ id'[y] = 0
                     /\ place[y] # "from" => /\ place'[y] = place[y]
                                             /\ cid'[y] = cid[y] /\ id'[y] = id[y]
  BY <1>3
<1>5. \A k \in Cid : class_table_'[k] = Mourned(class_table_[k])
  BY <1>1 DEF MournedClass
<1>6. /\ field' = [y \in Obj |-> field'[y]]
      /\ \A y \in Obj :
           /\ place[y] = "from" \/ y \in ephemeron_list_ =>
                field'[y] = [i \in Slots(y) |-> Nil]
           /\ y \in weak_list_ => field'[y] = [i \in Slots(y) |-> Mourned(field[y][i])]
           /\ place[y] # "from" /\ y \notin Waiting => field'[y] = field[y]
  <2>1. \A y \in Obj :
          field'[y] = IF y \in dead THEN [i \in Slots(y) |-> Nil] ELSE slots[y]
    BY <1>3
  <2>2. \A y \in Obj :
          slots[y] = IF y \in ephemeron_list_ THEN [i \in Slots(y) |-> Nil]
                     ELSE IF y \in weak_list_ THEN kept[y] ELSE field[y]
    BY DEF SlotsAfter
  <2>3. \A y \in Obj : kept[y] = [i \in Slots(y) |-> Mourned(field[y][i])]
    OBVIOUS
  <2>4. \A y \in weak_list_ : y \notin ephemeron_list_
    BY <1>2 DEF IsWeakArray, IsEphemeron
  <2>5. field' = [y \in Obj |-> field'[y]]
    BY <1>3
  <2>6. \A y \in Obj : y \in dead <=> place[y] = "from"
    OBVIOUS
  <2>7. \A y \in Waiting : y \notin dead
    BY <1>2, <2>6 DEF Waiting, Works, Lists, Types
  <2> HIDE DEF kept, slots, dead
  <2> QED
    BY <1>2, <2>1, <2>2, <2>3, <2>4, <2>5, <2>6, <2>7
<1> HIDE DEF dead, kept, slots
<1>7. /\ \A y \in InUse : \A i \in Slots(y) : Leads(field[y][i]) /\ field[y][i] \in Ptr \cup {Nil}
      /\ \A y \in weak_list_ : y \in InUse
      /\ \A p \in stack : Leads(p) /\ p \in Ptr
      /\ \A k \in Cid : Leads(class_table_[k]) /\ class_table_[k] \in Ptr \cup {Nil}
  BY <1>2 DEF Copying, CopyingDone, Leading, Types, InUse
<1>8. \A y \in Obj : field'[y] \in [Slots(y) -> Ptr \cup {Nil}]
  <2> SUFFICES ASSUME NEW y \in Obj PROVE field'[y] \in [Slots(y) -> Ptr \cup {Nil}]
    OBVIOUS
  <2>1. CASE place[y] = "from" \/ y \in ephemeron_list_
    BY <1>6, <2>1
  <2>2. CASE y \in weak_list_
    <3>1. \A i \in Slots(y) : Mourned(field[y][i]) \in Ptr \cup {Nil}
      BY <1>7, <2>2, MournedPointers
    <3>2. field'[y] = [i \in Slots(y) |-> Mourned(field[y][i])]
      BY <1>6, <2>2
    <3> QED
      BY <3>1, <3>2
  <2>3. CASE place[y] # "from" /\ y \notin Waiting
    BY <1>6, <2>3 DEF Types
  <2> QED
    BY <1>2, <2>1, <2>2, <2>3
<1>9. \A y : Slots(y)' = Slots(y)
  BY DEF Slots, IsEphemeron
<1>10. ASSUME NEW y \in Obj, place[y] \in {"to", "old"}, NEW i \in Slots(y)
       PROVE  /\ field'[y][i] # Nil => /\ field[y][i] # Nil /\ field'[y][i].o \in Obj
                                       /\ field'[y][i].at = place'[field'[y][i].o]
              /\ y \notin Waiting => field'[y][i] = field[y][i]
              /\ y \in ephemeron_list_ => field'[y][i] = Nil
              /\ y \in weak_list_ => field'[y][i] = Mourned(field[y][i])
  <2>1. y \in InUse /\ Leads(field[y][i]) /\ field[y][i] \in Ptr \cup {Nil}
    BY <1>7, <1>10 DEF InUse
  <2>2. CASE y \in ephemeron_list_
    <3>1. y \notin weak_list_ /\ field'[y][i] = Nil /\ y \in Waiting
      BY <1>2, <1>6, <2>2 DEF IsWeakArray, IsEphemeron
    <3> QED
      BY <3>1
  <2>3. CASE y \in weak_list_
    <3>1. y \notin ephemeron_list_ /\ field'[y][i] = Mourned(field[y][i]) /\ y \in Waiting
      BY <1>2, <1>6, <2>3 DEF IsWeakArray, IsEphemeron
    <3> DEFINE p == field[y][i]
    <3>2. Mourned(p) # Nil => /\ p # Nil /\ p.o \in Obj /\ Mourned(p).o = p.o
                              /\ Mourned(p).at = place[p.o] /\ place[p.o] \in {"to", "old"}
      BY <2>1, MournedPointers
    <3> HIDE DEF p
    <3>3. Mourned(p) # Nil => /\ p # Nil /\ Mourned(p).o \in Obj
                              /\ Mourned(p).at = place'[Mourned(p).o]
      BY <1>4, <3>2
    <3> QED
      BY <3>1, <3>3 DEF p
  <2>4. CASE y \notin Waiting
    <3>1. field'[y][i] = field[y][i] /\ Traced(y)
      BY <1>6, <1>10, <2>1, <2>4 DEF Copying, CopyingDone
    <3>2. field[y][i] # Nil => /\ field[y][i].at # "from" /\ field[y][i].o \in Obj
                               /\ place[field[y][i].o] = field[y][i].at
      BY <2>1, <3>1, PointerParts DEF Traced, Leads, Valid
    <3> QED
      BY <1>2, <1>4, <2>4, <3>1, <3>2
  <2> QED
    BY <1>2, <2>2, <2>3, <2>4
<1>11. ASSUME NEW k \in Cid
       PROVE  /\ class_table_'[k] \in Ptr \cup {Nil}
              /\ class_table_'[k] # Nil =>
                   /\ class_table_[k] # Nil /\ class_table_[k].o \in Obj
                   /\ class_table_'[k].o = class_table_[k].o
                   /\ class_table_'[k].at = place'[class_table_[k].o]
                   /\ place[class_table_[k].o] # "from"
              /\ class_table_[k] # Nil => /\ class_table_[k].o \in Obj
                                          /\ place[class_table_[k].o] # "from" => class_table_'[k] # Nil
  BY <1>4, <1>5, <1>7, MournedPointers
<1>12. /\ InUse' = {y \in Obj : place[y] \in {"to", "old"}}
       /\ Old' = Old
  BY <1>4 DEF InUse, Old, Types, Location
<1>13. Tabled'
  <2>1. ASSUME NEW c \in Obj, id'[c] # 0
        PROVE  class_table_'[id'[c]] # Nil /\ class_table_'[id'[c]].o = c
    <3>1. /\ id'[c] = id[c] /\ id[c] \in Cid /\ place[c] # "from"
          /\ class_table_[id[c]] # Nil /\ class_table_[id[c]].o = c
      BY <1>4, <2>1 DEF Tabled, Registered, Types
    <3> QED
      BY <1>11, <3>1
  <2>2. ASSUME NEW k \in Cid, class_table_'[k] # Nil
        PROVE  kind'[class_table_'[k].o] = "class" /\ id'[class_table_'[k].o] = k
    <3>1. /\ IsBehavior(class_table_[k].o) /\ id[class_table_[k].o] = k
          /\ class_table_[k].o \in Obj /\ place[class_table_[k].o] # "from"
          /\ class_table_'[k].o = class_table_[k].o
      BY <1>11, <2>2 DEF Tabled, Registered
    <3> QED
      BY <1>4, <3>1 DEF IsBehavior
  <2>3. \A y \in Obj : cid'[y] # 0 => cid'[y] = cid[y] /\ kind'[y] = "plain"
    BY <1>4 DEF Tabled
  <2>4. ASSUME NEW y \in InUse', y \notin Unbarriered, cid'[y] # 0
        PROVE  class_table_'[cid'[y]] # Nil
    <3>1. /\ y \in Obj /\ y \in InUse /\ place[y] # "from" /\ cid[y] # 0 /\ cid'[y] = cid[y]
          /\ kind[y] = "plain" /\ cid[y] \in Cid
      BY <1>4, <1>12, <2>4 DEF Tabled, InUse, Types
    <3>2. y \notin Waiting
      BY <1>2, <3>1 DEF IsWeakArray, IsEphemeron
    <3>3. Traced(y) /\ class_table_[cid[y]] # Nil
      BY <2>4, <3>1, <3>2 DEF Copying, CopyingDone, Tabled
    <3> QED
      BY <1>11, <2>4, <3>1, <3>3 DEF Traced
  <2> QED
    <3>1. Registered'
      BY <2>1, <2>2 DEF Registered, IsBehavior
    <3> QED
      BY <2>3, <2>4, <3>1 DEF Tabled
<1>14. Settled'
  <2>1. \A y \in Obj : place'[y] # "from"
    BY <1>4
  <2>2. \A y \in InUse' : \A i \in Slots(y)' : Valid(field[y][i])'
    BY <1>9, <1>10, <1>12 DEF Valid
  <2>3. ASSUME NEW p \in stack' PROVE Valid(p)'
    <3>1. p \in Ptr /\ p # Nil /\ p.o \in Obj /\ place[p.o] = p.at /\ p.at # "from"
      BY <1>1, <1>2, <1>7, PointerParts DEF Leads, Valid
    <3> QED
      BY <1>4, <3>1 DEF Valid
  <2>4. \A k \in Cid : Valid(class_table_[k])'
    BY <1>11 DEF Valid
  <2> QED
    BY <2>1, <2>2, <2>3, <2>4 DEF Settled
<1> DEFINE adds == {y \in X : place[y] = "old"}
<1>15. /\ rset' = [y \in Obj |-> IF y \in adds THEN AddToRememberedSet(y, rset)[y] ELSE rset[y]]
       /\ rbits' = rbits \cup adds
  BY <1>1 DEF RememberAll
<1>16. /\ adds \subseteq weak_list_ /\ adds \subseteq Old /\ weak_list_ \subseteq Obj
       /\ \A y \in weak_list_ : y \in adds <=> KeepsNewTarget(y) /\ place[y] = "old"
  BY DEF Old, Types
<1> HIDE DEF adds, X
<1>17. /\ rset' \in [Obj -> 0..2] /\ rbits' \subseteq Obj
       /\ \A y \in Obj : rset'[y] < 2
       /\ Remembered' = Remembered \cup adds /\ rbits' = Remembered'
       /\ Remembered' \subseteq Old'
  <2>1. /\ rbits = Remembered /\ Remembered \subseteq Old \ Waiting
        /\ \A y \in Obj : rset[y] \in 0..1
    BY <1>2 DEF Copying, CopyingDone, Types
  <2>2. \A y \in adds : y \in Obj /\ rset[y] = 0
    BY <1>2, <1>16, <2>1 DEF Remembered
  <2>3. \A y \in adds : AddToRememberedSet(y, rset)[y] = 1
    BY <2>2 DEF AddToRememberedSet, Types
  <2>4. /\ rset' = [y \in Obj |-> rset'[y]]
        /\ \A y \in Obj : rset'[y] = IF y \in adds THEN 1 ELSE rset[y]
    BY <1>15, <2>3
  <2>5. Remembered' = Remembered \cup adds
    BY <2>2, <2>4 DEF Remembered
  <2> QED
    BY <1>12, <1>15, <1>16, <2>1, <2>4, <2>5 DEF Old
<1>18. ASSUME NEW y \in Old' PROVE Noted(y)'
  <2>1. y \in Obj /\ place[y] = "old" /\ y \in InUse
    BY <1>12 DEF Old, InUse
  <2>2. CASE y \in ephemeron_list_
    <3>1. \A i \in Slots(y) : field'[y][i] = Nil
      BY <1>10, <2>1, <2>2
    <3>2. cid'[y] = 0
      BY <1>2, <1>4, <2>1, <2>2 DEF Tabled, IsEphemeron
    <3> QED
      BY <1>9, <3>1, <3>2 DEF Noted, NewTarget, NewClass, IsNewObject
  <2>3. CASE y \in weak_list_
    <3>1. cid'[y] = 0
      BY <1>2, <1>4, <2>1, <2>3 DEF Tabled, IsWeakArray
    <3>2. NewTarget(y)' => y \in adds
      <4>1. NewTarget(y)' => \E i \in Slots(y) : IsNewObject(Mourned(field[y][i]))
        BY <1>9, <1>10, <2>1, <2>3 DEF NewTarget, IsNewObject
      <4> QED
        BY <1>16, <2>1, <2>3, <4>1 DEF KeepsNewTarget, Slot
    <3>3. y \in adds => rset'[y] > 0
      BY <1>17, <2>1 DEF Remembered
    <3> QED
      BY <3>1, <3>2, <3>3 DEF Noted, NewClass
  <2>4. CASE y \notin Waiting
    <3>1. Noted(y) /\ (\A i \in Slots(y) : field'[y][i] = field[y][i]) /\ cid'[y] = cid[y]
      BY <1>4, <1>10, <2>1, <2>4 DEF Copying, CopyingDone, Old
    <3>2. NewTarget(y)' => NewTarget(y)
      BY <1>9, <3>1 DEF NewTarget, IsNewObject
    <3>3. NewClass(y)' => NewClass(y)
      <4>1. ASSUME cid[y] # 0, class_table_'[cid[y]] # Nil
            PROVE  /\ class_table_[cid[y]] # Nil
                   /\ place'[class_table_'[cid[y]].o] = place[class_table_[cid[y]].o]
        <5>1. cid[y] \in Cid
          BY <2>1, <4>1 DEF Types
        <5> QED
          BY <1>4, <1>11, <4>1, <5>1
      <4> QED
        BY <3>1, <4>1 DEF NewClass
    <3>4. rset[y] > 0 => rset'[y] > 0
      BY <1>17, <2>1 DEF Remembered
    <3> QED
      BY <3>1, <3>2, <3>3, <3>4 DEF Noted
  <2> QED
    BY <1>2, <2>2, <2>3, <2>4
<1>19. Idle'
  <2>1. Waiting' = {} /\ marked' = {}
    BY <1>1, <1>2 DEF Waiting, Works, Lists
  <2> QED
    BY <1>1, <1>14, <1>17, <1>18, <2>1 DEF Idle
<1>20. Types'
  <2>1. field' \in [Obj -> Contents]
    BY <1>6, <1>8, FieldTyped
  <2>2. class_table_' \in [Cid -> Ptr \cup {Nil}]
    <3>1. class_table_' = [k \in Cid |-> class_table_'[k]]
      BY <1>1
    <3> QED
      BY <1>11, <3>1
  <2>3. /\ place' \in [Obj -> Location \cup {"free"}]
        /\ cid' \in [Obj -> Cid \cup {0}] /\ id' \in [Obj -> Cid \cup {0}]
    BY <1>3 DEF Types
  <2> QED
    BY <1>1, <1>8, <1>9, <1>17, <2>1, <2>2, <2>3 DEF Types, Phase
<1> QED
  BY <1>13, <1>19, <1>20

-----------------------------------------------------------------------------
(* Marking.                                                                  *)

(* What a visit leaves behind: no target that is not marked.                  *)
Reached(x) == \A p \in Slot(x) \cup ClassOf(x) : IsMarkSweepSurvivor(p)

MarkingWork ==
  /\ phase \in {"mark", "markEphemerons", "sweep"}
  /\ Apart /\ todo = {} /\ tenured = {}
  /\ phase # "markEphemerons" => pending = {}
  /\ phase = "sweep" => toScan = {}

MarkingDone ==
  /\ Waiting \subseteq marked /\ marked \subseteq InUse
  /\ Settled
  /\ \A x \in marked \ Waiting : Reached(x)
  /\ \A p \in stack : p.o \in marked
  /\ \A x \in Obj : rset[x] < 2
  /\ rbits \cap marked = Remembered /\ Remembered \subseteq Old \ Waiting
  /\ \A x \in (Old \cap marked) \ Waiting : Noted(x)

Marking == MarkingWork /\ MarkingDone

LEMMA StartMarkSweepKeeps ==
  ASSUME Types, Tabled, Idle, kind' = kind, StartMarkSweep
  PROVE  Types' /\ Tabled' /\ Marking'
<1> DEFINE new == NotMarked(stack)
<1>1. /\ rset' = [x \in Obj |-> 0] /\ marked' = marked \cup new /\ toScan' = new
      /\ rbits' = rbits \ new /\ phase' = "mark"
      /\ before' = Alive(Rooted) /\ reach' = Alive(Rooted)
      /\ place' = place /\ aged' = aged /\ field' = field /\ cid' = cid /\ id' = id
      /\ class_table_' = class_table_ /\ stack' = stack
      /\ todo' = todo /\ tenured' = tenured
      /\ ephemeron_list_' = ephemeron_list_ /\ weak_list_' = weak_list_
      /\ pending' = pending
  BY DEF StartMarkSweep, MarkObjects, BitsAfterMarking, graph, lists
<1>2. /\ marked = {} /\ todo = {} /\ tenured = {} /\ ephemeron_list_ = {}
      /\ weak_list_ = {} /\ pending = {}
  BY DEF Idle, Waiting, Works, Lists
<1>3. \A p \in stack : p # Nil /\ p.o \in InUse /\ p.o \in new
  <2> SUFFICES ASSUME NEW p \in stack PROVE p # Nil /\ p.o \in InUse /\ p.o \in new
    OBVIOUS
  <2>1. p \in Ptr /\ p # Nil /\ p.o \in Obj /\ p.at \in Location /\ place[p.o] = p.at
    BY PointerParts DEF Idle, Settled, Valid, Types
  <2> QED
    BY <1>2, <2>1 DEF InUse, Location, NotMarked, Pointers
<1>4. new \subseteq InUse /\ new \subseteq Obj
  BY <1>3 DEF NotMarked, Pointers, InUse
<1> HIDE DEF new
<1>5. InUse' = InUse
  BY <1>1 DEF InUse
<1>6. Works' = new /\ Lists' = {} /\ Waiting' = new /\ Remembered' = {}
  BY <1>1, <1>2 DEF Works, Lists, Waiting, Remembered
<1>7. Types'
  <2>1. \A y : Slots(y)' = Slots(y)
    BY DEF Slots, IsEphemeron
  <2>2. before' \subseteq Obj /\ reach' \subseteq Obj
    BY <1>1, RootedTyped, AliveTyped
  <2> QED
    BY <1>1, <1>2, <1>4, <2>1, <2>2 DEF Types, Phase
<1>8. Tabled'
  BY <1>1, <1>5, Unclassed
<1>9. MarkingWork'
  BY <1>1, <1>2, <1>6 DEF MarkingWork, Apart
<1>10. Settled'
  BY <1>1, <1>5 DEF Idle, Settled, Valid, Slots, IsEphemeron
<1>11. MarkingDone'
  <2>1. \A p \in stack' : p.o \in marked'
    BY <1>1, <1>3
  <2>2. \A x \in Obj : rset'[x] < 2
    BY <1>1
  <2>3. rbits' \cap marked' = {}
    BY <1>1, <1>2
  <2>4. marked' = new
    BY <1>1, <1>2
  <2> QED
    BY <1>4, <1>5, <1>6, <1>10, <2>1, <2>2, <2>3, <2>4 DEF MarkingDone
<1> QED
  BY <1>7, <1>8, <1>9, <1>11 DEF Marking

(* A step that visits x, whose pointers are ptrs, or puts it aside.           *)
LEMMA MarkingOn ==
  ASSUME Types, MarkingDone, kind' = kind, NEW x \in Waiting, x \in Obj,
         place' = place, graph' = graph,
         NEW ptrs, NEW new, new = NotMarked(ptrs),
         marked' = marked \cup new,
         Remember(x, \E p \in ptrs : IsNewObject(p), rbits \ new),
         \/ ptrs = Slot(x) \cup ClassOf(x) /\ Waiting' = (Waiting \ {x}) \cup new
         \/ ptrs = {} /\ Waiting' = Waiting
  PROVE  /\ MarkingDone' /\ new \subseteq Obj /\ new \cap marked = {}
         /\ rset' \in [Obj -> 0..2] /\ rbits' \subseteq Obj
<1>1. field' = field /\ cid' = cid /\ id' = id /\ class_table_' = class_table_ /\ stack' = stack
  BY DEF graph
<1>2. x \in marked /\ x \in InUse /\ x \notin Remembered /\ rbits \cap marked = Remembered
  BY DEF MarkingDone
<1>3. \A p \in ptrs : p \in Ptr \cup {Nil} /\ Valid(p)
  <2>1. \A p \in Slot(x) : p \in Ptr \cup {Nil} /\ Valid(p)
    BY <1>2 DEF Slot, Types, MarkingDone, Settled
  <2>2. \A p \in ClassOf(x) : p \in Ptr \cup {Nil} /\ Valid(p)
    BY DEF ClassOf, Types, MarkingDone, Settled
  <2> QED
    BY <2>1, <2>2
<1>4. \A p \in ptrs : p # Nil => /\ p.o \in InUse /\ p.o \in marked \cup new
                                 /\ p.o \in Obj /\ place[p.o] = p.at
  <2> SUFFICES ASSUME NEW p \in ptrs, p # Nil
               PROVE  /\ p.o \in InUse /\ p.o \in marked \cup new
                      /\ p.o \in Obj /\ place[p.o] = p.at
    OBVIOUS
  <2>1. p.o \in Obj /\ p.at \in Location /\ place[p.o] = p.at
    BY <1>3, PointerParts DEF Valid
  <2> QED
    BY <2>1 DEF InUse, Location, NotMarked, Pointers
<1>5. new \subseteq InUse /\ new \subseteq Obj /\ new \cap marked = {}
  BY <1>4 DEF NotMarked, Pointers
<1>6. \A y : Slots(y)' = Slots(y) /\ Slot(y)' = Slot(y) /\ ClassOf(y)' = ClassOf(y)
  BY <1>1 DEF Slots, IsEphemeron, Slot, ClassOf
<1>7. InUse' = InUse /\ Old' = Old
  BY DEF InUse, Old
<1> DEFINE needed == \E p \in ptrs : IsNewObject(p)
<1>8. /\ rset' \in [Obj -> 0..2] /\ rbits' \subseteq Obj
      /\ \A y \in Obj : rset'[y] < 2 /\ (rset[y] > 0 => rset'[y] > 0)
      /\ needed /\ place[x] = "old" => rset'[x] > 0
      /\ Remembered' = Remembered \cup {y \in {x} : needed /\ y \in Old}
      /\ rbits' = (rbits \ new) \cup {y \in {x} : needed /\ y \in Old}
  <2>1. rset[x] = 0 /\ \A y \in Obj : rset[y] \in 0..1
    BY <1>2 DEF MarkingDone, Types, Remembered
  <2>2. CASE needed /\ place[x] = "old"
    <3>1. rset' = AddToRememberedSet(x, rset) /\ rbits' = (rbits \ new) \cup {x}
      BY <2>2 DEF Remember
    <3>2. rset' = [rset EXCEPT ![x] = 1]
      BY <2>1, <3>1 DEF AddToRememberedSet, Types
    <3> HIDE DEF needed
    <3>3. rset' \in [Obj -> 0..2] /\ rset'[x] = 1 /\ \A y \in Obj : y # x => rset'[y] = rset[y]
      BY <3>2 DEF Types
    <3>4. Remembered' = Remembered \cup {x}
      BY <3>3 DEF Remembered
    <3>5. {y \in {x} : needed /\ y \in Old} = {x}
      BY <2>2 DEF Old
    <3>6. \A y \in Obj : rset'[y] < 2 /\ (rset[y] > 0 => rset'[y] > 0)
      BY <2>1, <3>3
    <3> QED
      BY <2>2, <3>1, <3>3, <3>4, <3>5, <3>6 DEF Types
  <2>3. CASE ~(needed /\ place[x] = "old")
    <3>1. rset' = rset /\ rbits' = rbits \ new
      BY <2>3 DEF Remember
    <3> HIDE DEF needed
    <3>2. Remembered' = Remembered
      BY <3>1 DEF Remembered
    <3> QED
      BY <2>1, <2>3, <3>1, <3>2 DEF Types, Old
  <2> QED
    BY <2>2, <2>3
<1> HIDE DEF needed
<1>9. /\ Waiting' \subseteq Waiting \cup new /\ Waiting \subseteq Waiting' \cup {x}
      /\ new \subseteq Waiting'
      /\ x \notin Waiting' => ptrs = Slot(x) \cup ClassOf(x)
      /\ needed => x \notin Waiting'
  <2>1. ptrs = {} => new = {} /\ ~needed
    BY DEF NotMarked, Pointers, needed
  <2> QED
    BY <1>2, <1>5, <2>1
<1>10. rbits' \cap marked' = Remembered' /\ Remembered' \subseteq Old' \ Waiting'
  <2>1. Remembered \subseteq Old \ Waiting /\ Remembered \cap new = {}
    BY <1>2, <1>5 DEF MarkingDone
  <2>2. (rbits \ new) \cap (marked \cup new) = Remembered
    BY <1>2, <1>5
  <2>3. Remembered' \subseteq Old' \ Waiting'
    BY <1>7, <1>8, <1>9, <2>1
  <2> QED
    BY <1>2, <1>8, <2>2, <2>3
<1>11. Waiting' \subseteq marked' /\ marked' \subseteq InUse'
  BY <1>5, <1>7, <1>9 DEF MarkingDone
<1>12. Settled'
  BY <1>1, <1>6, <1>7 DEF MarkingDone, Settled, Valid
<1>13. \A y \in marked' \ Waiting' : Reached(y)'
  <2> SUFFICES ASSUME NEW y \in marked' \ Waiting' PROVE Reached(y)'
    OBVIOUS
  <2>1. CASE y = x
    BY <1>4, <1>6, <1>9, <2>1 DEF Reached, IsMarkSweepSurvivor
  <2>2. CASE y # x
    <3>1. Reached(y)
      BY <1>9, <2>2 DEF MarkingDone
    <3> QED
      BY <1>6, <3>1 DEF Reached, IsMarkSweepSurvivor
  <2> QED
    BY <2>1, <2>2
<1>14. \A p \in stack' : p.o \in marked'
  BY <1>1 DEF MarkingDone
<1>15. \A y \in (Old' \cap marked') \ Waiting' : Noted(y)'
  <2> SUFFICES ASSUME NEW y \in (Old' \cap marked') \ Waiting' PROVE Noted(y)'
    OBVIOUS
  <2>1. CASE y = x
    <3>1. NewTarget(x) \/ NewClass(x) => needed
      <4>1. NewTarget(x) => needed
        BY <1>9, <2>1 DEF NewTarget, needed, Slot
      <4>2. ASSUME NewClass(x) PROVE needed
        <5>1. class_table_[cid[x]] \in ClassOf(x)
          BY <4>2 DEF NewClass, ClassOf
        <5> QED
          BY <1>4, <1>9, <2>1, <4>2, <5>1 DEF NewClass, needed, IsNewObject
      <4> QED
        BY <4>1, <4>2
    <3>2. place[x] = "old"
      BY <1>7, <2>1 DEF Old
    <3>3. (NewTarget(x)' <=> NewTarget(x)) /\ (NewClass(x)' <=> NewClass(x))
      BY <1>1, <1>6 DEF NewTarget, NewClass
    <3> QED
      BY <1>8, <2>1, <3>1, <3>2, <3>3 DEF Noted
  <2>2. CASE y # x
    <3>1. y \in Old \cap marked /\ y \notin Waiting /\ Noted(y) /\ y \in Obj
      BY <1>7, <1>9, <2>2 DEF MarkingDone, Old
    <3>2. (NewTarget(y)' <=> NewTarget(y)) /\ (NewClass(y)' <=> NewClass(y))
      BY <1>1, <1>6 DEF NewTarget, NewClass
    <3> QED
      BY <1>8, <3>1, <3>2 DEF Noted
  <2> QED
    BY <2>1, <2>2
<1>16. MarkingDone'
  BY <1>8, <1>10, <1>11, <1>12, <1>13, <1>14, <1>15 DEF MarkingDone
<1> QED
  BY <1>5, <1>8, <1>16

(* A step that only turns to the next of the lists.                            *)
LEMMA MarkTurning ==
  ASSUME Types, Tabled, MarkingDone, kind' = kind, Waiting' = Waiting, phase' \in Phase,
         UNCHANGED <<place, aged, graph, remembered, work, weak_list_, marked, ghosts>>,
         ephemeron_list_' \subseteq Lists, pending' \subseteq Lists
  PROVE  Types' /\ Tabled' /\ MarkingDone'
<1>1. /\ place' = place /\ aged' = aged /\ field' = field /\ cid' = cid /\ id' = id
      /\ class_table_' = class_table_ /\ stack' = stack /\ rset' = rset /\ rbits' = rbits
      /\ todo' = todo /\ toScan' = toScan /\ tenured' = tenured
      /\ weak_list_' = weak_list_ /\ marked' = marked /\ before' = before /\ reach' = reach
  BY DEF graph, remembered, work, ghosts
<1>2. \A y : Slots(y)' = Slots(y) /\ Slot(y)' = Slot(y) /\ ClassOf(y)' = ClassOf(y)
  BY <1>1 DEF Slots, IsEphemeron, Slot, ClassOf
<1>3. InUse' = InUse /\ Old' = Old /\ Remembered' = Remembered
  BY <1>1 DEF InUse, Old, Remembered
<1>4. Tabled'
  BY <1>1, <1>3, Unclassed
<1>5. Types'
  BY <1>1, <1>2 DEF Types, Lists
<1>6. Settled'
  BY <1>1, <1>2, <1>3 DEF MarkingDone, Settled, Valid
<1>7. \A y : (Reached(y)' <=> Reached(y)) /\ (Noted(y)' <=> Noted(y))
  BY <1>1, <1>2 DEF Reached, Noted, NewTarget, NewClass, IsMarkSweepSurvivor
<1> QED
  BY <1>1, <1>3, <1>4, <1>5, <1>6, <1>7 DEF MarkingDone

LEMMA ProcessMarkStackKeeps ==
  ASSUME Types, Tabled, Marking, kind' = kind, ProcessMarkStack
  PROVE  Types' /\ Tabled' /\ Marking'
<1>1. /\ phase = "mark" /\ pending = {} /\ todo' = todo /\ tenured' = tenured
      /\ place' = place /\ aged' = aged /\ graph' = graph /\ todo = {} /\ tenured = {}
      /\ before' = before /\ reach' = reach
  BY DEF ProcessMarkStack, Marking, MarkingWork, ghosts
<1>2. ASSUME NEW x \in toScan,
             weak_list_' = weak_list_ \cup {y \in {x} : IsWeakArray(y)},
             ephemeron_list_' = ephemeron_list_ \cup {y \in {x} : IsEphemeron(y)},
             MarkPointers(x, IF PutAside(x) THEN {} ELSE VisitedPointers(x), {x}),
             phase' = phase, pending' = pending
      PROVE  Types' /\ Tabled' /\ Marking'
  <2> DEFINE ptrs == IF PutAside(x) THEN {} ELSE VisitedPointers(x)
             new == NotMarked(ptrs)
  <2>1. /\ marked' = marked \cup new /\ toScan' = (toScan \ {x}) \cup new
        /\ Remember(x, \E p \in ptrs : IsNewObject(p), rbits \ new)
    BY <1>2 DEF MarkPointers, MarkObjects, BitsAfterMarking
  <2>2. ptrs = IF PutAside(x) THEN {} ELSE Slot(x) \cup ClassOf(x)
    BY DEF VisitedPointers
  <2>3. new = NotMarked(ptrs) /\ (ptrs = {} => new = {})
    BY DEF NotMarked, Pointers
  <2> HIDE DEF ptrs, new
  <2>4. /\ x \in Obj /\ x \in Works /\ x \in Waiting /\ x \notin Lists /\ x \in marked
        /\ Waiting \subseteq marked
    BY DEF Marking, MarkingWork, MarkingDone, Apart, Works, Waiting, Types
  <2>5. Works' = (Works \ {x}) \cup new
    BY <1>1, <2>1 DEF Works
  <2>6. Lists' = Lists \cup {y \in {x} : PutAside(y)}
    BY <1>2 DEF Lists, PutAside
  <2>7. \/ ptrs = Slot(x) \cup ClassOf(x) /\ Waiting' = (Waiting \ {x}) \cup new
        \/ ptrs = {} /\ Waiting' = Waiting
    BY <2>2, <2>3, <2>4, <2>5, <2>6 DEF Waiting
  <2>8. /\ MarkingDone' /\ new \subseteq Obj /\ new \cap marked = {}
        /\ rset' \in [Obj -> 0..2] /\ rbits' \subseteq Obj
    BY <1>1, <2>1, <2>3, <2>4, <2>7, MarkingOn DEF Marking
  <2>9. /\ field' = field /\ cid' = cid /\ id' = id /\ class_table_' = class_table_
        /\ stack' = stack
    BY <1>1 DEF graph
  <2>10. Types'
    <3>1. \A y : Slots(y)' = Slots(y)
      BY DEF Slots, IsEphemeron
    <3>2. /\ weak_list_' \subseteq Obj /\ ephemeron_list_' \subseteq Obj
          /\ marked' \subseteq Obj /\ toScan' \subseteq Obj
      BY <1>2, <2>1, <2>4, <2>8 DEF Types
    <3> HIDE DEF MarkPointers
    <3> QED
      BY <1>1, <1>2, <2>8, <2>9, <3>1, <3>2 DEF Types
  <2>11. Tabled'
    <3>1. InUse' = InUse
      BY <1>1 DEF InUse
    <3> QED
      BY <2>9, <3>1, Unclassed
  <2>12. Apart'
    <3>1. Works' \cap Lists' = {}
      <4>1. new \cap Lists = {} /\ x \notin new /\ Works \cap Lists = {}
        BY <2>4, <2>8 DEF Waiting, Marking, MarkingWork, Apart
      <4> QED
        BY <2>5, <2>6, <4>1
    <3>2. /\ \A y \in weak_list_' : IsWeakArray(y)'
          /\ \A y \in ephemeron_list_' \cup pending' : IsEphemeron(y)'
      BY <1>2 DEF Marking, MarkingWork, Apart, IsWeakArray, IsEphemeron
    <3> QED
      BY <1>1, <1>2, <3>1, <3>2 DEF Apart
  <2>13. MarkingWork'
    BY <1>1, <1>2, <2>12 DEF Marking, MarkingWork
  <2> QED
    BY <2>8, <2>10, <2>11, <2>13 DEF Marking
<1>3. ASSUME toScan = {}, phase' = "markEphemerons", pending' = ephemeron_list_,
             ephemeron_list_' = {}, UNCHANGED <<remembered, toScan, marked, weak_list_>>
      PROVE  Types' /\ Tabled' /\ Marking'
  <2>1. /\ UNCHANGED <<place, aged, graph, remembered, work, weak_list_, marked, ghosts>>
        /\ toScan' = toScan /\ weak_list_' = weak_list_
        /\ Lists' = Lists /\ Works' = Works /\ Waiting' = Waiting
        /\ ephemeron_list_' \subseteq Lists /\ pending' \subseteq Lists
    BY <1>1, <1>3 DEF work, ghosts, Lists, Works, Waiting
  <2>2. phase' \in Phase
    BY <1>3 DEF Phase
  <2>3. Types' /\ Tabled' /\ MarkingDone'
    BY <2>1, <2>2, MarkTurning DEF Marking
  <2>4. Apart'
    BY <1>1, <1>3, <2>1 DEF Marking, MarkingWork, Apart, IsWeakArray, IsEphemeron
  <2>5. MarkingWork'
    BY <1>1, <1>3, <2>1, <2>4 DEF Marking, MarkingWork
  <2> QED
    BY <2>3, <2>5 DEF Marking
<1> QED
  BY <1>2, <1>3 DEF ProcessMarkStack

LEMMA MarkEphemeronListKeeps ==
  ASSUME Types, Tabled, Marking, kind' = kind, MarkEphemeronList
  PROVE  Types' /\ Tabled' /\ Marking'
<1>1. /\ phase = "markEphemerons" /\ todo' = todo /\ tenured' = tenured
      /\ place' = place /\ aged' = aged /\ graph' = graph /\ todo = {} /\ tenured = {}
      /\ weak_list_' = weak_list_ /\ before' = before /\ reach' = reach
  BY DEF MarkEphemeronList, Marking, MarkingWork, ghosts
<1>2. ASSUME NEW x \in pending, pending' = pending \ {x}, phase' = phase,
             MarkPointers(x, Slot(x), {}), ephemeron_list_' = ephemeron_list_
      PROVE  Types' /\ Tabled' /\ Marking'
  <2> DEFINE new == NotMarked(Slot(x))
  <2>1. /\ marked' = marked \cup new /\ toScan' = toScan \cup new
        /\ Remember(x, \E p \in Slot(x) : IsNewObject(p), rbits \ new)
    BY <1>2 DEF MarkPointers, MarkObjects, BitsAfterMarking
  <2>2. new = NotMarked(Slot(x))
    OBVIOUS
  <2> HIDE DEF new
  <2>3. /\ x \in Obj /\ x \in Waiting /\ x \in Lists /\ x \notin Works /\ x \in marked
        /\ x \notin weak_list_ /\ x \notin ephemeron_list_
        /\ Waiting \subseteq marked /\ IsEphemeron(x)
    BY DEF Marking, MarkingWork, MarkingDone, Apart, Lists, Waiting, Types, IsWeakArray,
           IsEphemeron
  <2>4. Slot(x) = Slot(x) \cup ClassOf(x)
    BY <2>3 DEF ClassOf, Tabled, IsEphemeron
  <2>5. Works' = Works \cup new /\ Lists' = Lists \ {x}
    BY <1>1, <1>2, <2>1, <2>3 DEF Works, Lists
  <2>6. Waiting' = (Waiting \ {x}) \cup new
    BY <2>3, <2>5 DEF Waiting
  <2>7. /\ MarkingDone' /\ new \subseteq Obj /\ new \cap marked = {}
        /\ rset' \in [Obj -> 0..2] /\ rbits' \subseteq Obj
    BY <1>1, <2>1, <2>2, <2>3, <2>4, <2>6, MarkingOn DEF Marking
  <2>8. /\ field' = field /\ cid' = cid /\ id' = id /\ class_table_' = class_table_
        /\ stack' = stack
    BY <1>1 DEF graph
  <2>9. Types'
    <3>1. \A y : Slots(y)' = Slots(y)
      BY DEF Slots, IsEphemeron
    <3>2. marked' \subseteq Obj /\ toScan' \subseteq Obj /\ pending' \subseteq Obj
      BY <1>2, <2>1, <2>7 DEF Types
    <3> HIDE DEF MarkPointers
    <3> QED
      BY <1>1, <1>2, <2>7, <2>8, <3>1, <3>2 DEF Types
  <2>10. Tabled'
    <3>1. InUse' = InUse
      BY <1>1 DEF InUse
    <3> QED
      BY <2>8, <3>1, Unclassed
  <2>11. Apart'
    <3>1. Works' \cap Lists' = {}
      <4>1. new \cap Lists = {} /\ Works \cap Lists = {}
        BY <2>3, <2>7 DEF Waiting, Marking, MarkingWork, Apart
      <4> QED
        BY <2>5, <4>1
    <3>2. /\ \A y \in weak_list_' : IsWeakArray(y)'
          /\ \A y \in ephemeron_list_' \cup pending' : IsEphemeron(y)'
          /\ ephemeron_list_' \cap pending' = {}
      BY <1>1, <1>2 DEF Marking, MarkingWork, Apart, IsWeakArray, IsEphemeron
    <3> QED
      BY <1>1, <1>2, <3>1, <3>2 DEF Apart
  <2>12. MarkingWork'
    BY <1>1, <1>2, <2>11 DEF Marking, MarkingWork
  <2> QED
    BY <2>7, <2>9, <2>10, <2>12 DEF Marking
<1>3. ASSUME UNCHANGED <<remembered, toScan, marked>>,
             ephemeron_list_' \cup pending' = ephemeron_list_ \cup pending,
             ephemeron_list_' \cap pending' = {},
             \/ phase' = phase
             \/ pending' = {} /\ phase' = IF toScan = {} THEN "sweep" ELSE "mark"
      PROVE  Types' /\ Tabled' /\ Marking'
  <2>1. /\ UNCHANGED <<place, aged, graph, remembered, work, weak_list_, marked, ghosts>>
        /\ toScan' = toScan /\ weak_list_' = weak_list_
        /\ Lists' = Lists /\ Works' = Works /\ Waiting' = Waiting
        /\ ephemeron_list_' \subseteq Lists /\ pending' \subseteq Lists
    BY <1>1, <1>3 DEF work, ghosts, Lists, Works, Waiting
  <2>2. phase' \in Phase
    BY <1>1, <1>3 DEF Phase
  <2>3. Types' /\ Tabled' /\ MarkingDone'
    BY <2>1, <2>2, MarkTurning DEF Marking
  <2>4. Apart'
    BY <1>1, <1>3, <2>1 DEF Marking, MarkingWork, Apart, IsWeakArray, IsEphemeron
  <2>5. MarkingWork'
    BY <1>1, <1>3, <2>1, <2>4 DEF Marking, MarkingWork
  <2> QED
    BY <2>3, <2>5 DEF Marking
<1>4. CASE \E x \in pending :
             /\ pending' = pending \ {x} /\ phase' = phase
             /\ MarkPointers(x, Slot(x), {}) /\ ephemeron_list_' = ephemeron_list_
  BY <1>2, <1>4
<1>5. CASE \E x \in pending :
             /\ pending' = pending \ {x} /\ phase' = phase
             /\ ephemeron_list_' = ephemeron_list_ \cup {x}
             /\ UNCHANGED <<remembered, toScan, marked>>
  <2>1. PICK x \in pending : /\ pending' = pending \ {x} /\ phase' = phase
                             /\ ephemeron_list_' = ephemeron_list_ \cup {x}
                             /\ UNCHANGED <<remembered, toScan, marked>>
    BY <1>5
  <2>2. /\ ephemeron_list_' \cup pending' = ephemeron_list_ \cup pending
        /\ ephemeron_list_' \cap pending' = {}
    BY <2>1 DEF Marking, MarkingWork, Apart
  <2> QED
    BY <1>3, <2>1, <2>2
<1>6. CASE /\ pending = {} /\ phase' = IF toScan = {} THEN "sweep" ELSE "mark"
           /\ UNCHANGED <<remembered, toScan, marked, ephemeron_list_, pending>>
  BY <1>3, <1>6
<1> QED
  BY <1>4, <1>5, <1>6 DEF MarkEphemeronList

LEMMA MournAndSweepKeeps ==
  ASSUME Types, Tabled, Marking, kind' = kind, MournAndSweep
  PROVE  Types' /\ Tabled' /\ Idle'
<1> DEFINE dead == Obj \ marked
           kept == [y \in Obj |-> [i \in Slots(y) |-> MarkedOrNil(field[y][i])]]
           slots == SlotsAfter(kept)
           adds == {y \in weak_list_ : /\ place[y] = "old"
                                       /\ \E p \in Slot(y) : IsNewObject(MarkedOrNil(p))}
<1>1. /\ phase = "sweep" /\ Freed(dead, slots)
      /\ rset' = [y \in Obj |->
           IF y \in weak_list_ /\ place[y] = "old"
              /\ \E p \in Slot(y) : IsNewObject(MarkedOrNil(p))
           THEN AddToRememberedSet(y, rset)[y] ELSE rset[y]]
      /\ rbits' = {y \in marked : y \in rbits \/ rset'[y] > 0}
      /\ class_table_' = [k \in Cid |-> MarkedOrNil(class_table_[k])]
      /\ aged' = aged \cap marked
      /\ marked' = {} /\ ephemeron_list_' = {} /\ weak_list_' = {} /\ before' = {} /\ reach' = {}
      /\ phase' = "mutator"
      /\ stack' = stack /\ todo' = todo /\ toScan' = toScan /\ tenured' = tenured
      /\ pending' = pending
  BY DEF MournAndSweep, work
<1>2. /\ todo = {} /\ toScan = {} /\ tenured = {} /\ pending = {}
      /\ Waiting = ephemeron_list_ \cup weak_list_
      /\ \A y \in weak_list_ : IsWeakArray(y)
      /\ \A y \in ephemeron_list_ : IsEphemeron(y)
      /\ Waiting \subseteq marked /\ marked \subseteq Obj /\ marked \subseteq InUse
  BY <1>1 DEF Marking, MarkingWork, MarkingDone, Apart, Waiting, Works, Lists, Types
<1>3. /\ place' = [y \in Obj |-> IF y \in dead THEN "free" ELSE place[y]]
      /\ field' = [y \in Obj |-> IF y \in dead THEN [i \in Slots(y) |-> Nil] ELSE slots[y]]
      /\ cid' = [y \in Obj |-> IF y \in dead THEN 0 ELSE cid[y]]
      /\ id' = [y \in Obj |-> IF y \in dead THEN 0 ELSE id[y]]
  BY <1>1 DEF Freed
<1>4. \A y \in Obj : /\ y \notin marked => place'[y] = "free" /\ cid'[y] = 0 /\ id'[y] = 0
                     /\ y \in marked => /\ place'[y] = place[y]
                                        /\ cid'[y] = cid[y] /\ id'[y] = id[y]
  BY <1>3
<1>5. \A k \in Cid : class_table_'[k] = MarkedOrNil(class_table_[k])
  BY <1>1
<1>6. /\ field' = [y \in Obj |-> field'[y]]
      /\ \A y \in Obj :
           /\ y \notin marked \/ y \in ephemeron_list_ =>
                field'[y] = [i \in Slots(y) |-> Nil]
           /\ y \in weak_list_ => field'[y] = [i \in Slots(y) |-> MarkedOrNil(field[y][i])]
           /\ y \in marked /\ y \notin Waiting => field'[y] = field[y]
  <2>1. \A y \in Obj :
          field'[y] = IF y \in dead THEN [i \in Slots(y) |-> Nil] ELSE slots[y]
    BY <1>3
  <2>2. \A y \in Obj :
          slots[y] = IF y \in ephemeron_list_ THEN [i \in Slots(y) |-> Nil]
                     ELSE IF y \in weak_list_ THEN kept[y] ELSE field[y]
    BY DEF SlotsAfter
  <2>3. \A y \in Obj : kept[y] = [i \in Slots(y) |-> MarkedOrNil(field[y][i])]
    OBVIOUS
  <2>4. \A y \in weak_list_ : y \notin ephemeron_list_
    BY <1>2 DEF IsWeakArray, IsEphemeron
  <2>5. field' = [y \in Obj |-> field'[y]]
    BY <1>3
  <2>6. \A y \in Obj : y \in dead <=> y \notin marked
    OBVIOUS
  <2> HIDE DEF kept, slots, dead
  <2> QED
    BY <1>2, <2>1, <2>2, <2>3, <2>4, <2>5, <2>6
<1> HIDE DEF dead, kept, slots
<1>7. /\ \A y \in InUse : \A i \in Slots(y) : Valid(field[y][i])
      /\ \A p \in stack : Valid(p) /\ p.o \in marked /\ p \in Ptr
      /\ \A k \in Cid : Valid(class_table_[k]) /\ class_table_[k] \in Ptr \cup {Nil}
  BY DEF Marking, MarkingDone, Settled, Types
<1>8. \A y \in Obj : field'[y] \in [Slots(y) -> Ptr \cup {Nil}]
  <2> SUFFICES ASSUME NEW y \in Obj PROVE field'[y] \in [Slots(y) -> Ptr \cup {Nil}]
    OBVIOUS
  <2>1. CASE y \notin marked \/ y \in ephemeron_list_
    BY <1>6, <2>1
  <2>2. CASE y \in weak_list_
    <3>1. \A i \in Slots(y) : MarkedOrNil(field[y][i]) \in Ptr \cup {Nil}
      BY DEF MarkedOrNil, Types
    <3>2. field'[y] = [i \in Slots(y) |-> MarkedOrNil(field[y][i])]
      BY <1>6, <2>2
    <3> QED
      BY <3>1, <3>2
  <2>3. CASE y \in marked /\ y \notin Waiting
    BY <1>6, <2>3 DEF Types
  <2> QED
    BY <1>2, <2>1, <2>2, <2>3
<1>9. \A y : Slots(y)' = Slots(y)
  BY DEF Slots, IsEphemeron
<1>10. ASSUME NEW y \in marked, NEW i \in Slots(y)
       PROVE  /\ field'[y][i] # Nil => /\ field'[y][i] = field[y][i]
                                       /\ field[y][i].o \in marked
              /\ y \in ephemeron_list_ => field'[y][i] = Nil
              /\ y \in weak_list_ => field'[y][i] = MarkedOrNil(field[y][i])
              /\ y \notin Waiting => field'[y][i] = field[y][i]
  <2>1. y \in Obj /\ y \in InUse /\ field[y][i] \in Slot(y)
    BY <1>2 DEF Slot
  <2>2. CASE y \in ephemeron_list_
    <3>1. y \notin weak_list_ /\ field'[y][i] = Nil /\ y \in Waiting
      BY <1>2, <1>6, <2>1, <2>2 DEF IsWeakArray, IsEphemeron
    <3> QED
      BY <3>1
  <2>3. CASE y \in weak_list_
    <3>1. y \notin ephemeron_list_ /\ field'[y][i] = MarkedOrNil(field[y][i]) /\ y \in Waiting
      BY <1>2, <1>6, <2>1, <2>3 DEF IsWeakArray, IsEphemeron
    <3> QED
      BY <3>1 DEF MarkedOrNil, IsMarkSweepSurvivor
  <2>4. CASE y \notin Waiting
    <3>1. field'[y][i] = field[y][i] /\ Reached(y)
      BY <1>6, <2>1, <2>4 DEF Marking, MarkingDone
    <3> QED
      BY <1>2, <2>1, <2>4, <3>1 DEF Reached, IsMarkSweepSurvivor
  <2> QED
    BY <1>2, <2>2, <2>3, <2>4
<1>11. \A k \in Cid :
         /\ class_table_'[k] # Nil =>
              class_table_'[k] = class_table_[k] /\ class_table_[k].o \in marked
         /\ class_table_[k] # Nil /\ class_table_[k].o \in marked =>
              class_table_'[k] = class_table_[k]
  BY <1>5 DEF MarkedOrNil, IsMarkSweepSurvivor
<1>12. /\ InUse' = marked
       /\ Old' = Old \cap marked
  BY <1>2, <1>4 DEF InUse, Old
<1>13. Tabled'
  <2>1. ASSUME NEW c \in Obj, id'[c] # 0
        PROVE  class_table_'[id'[c]] # Nil /\ class_table_'[id'[c]].o = c
    <3>1. /\ id'[c] = id[c] /\ id[c] \in Cid /\ c \in marked
          /\ class_table_[id[c]] # Nil /\ class_table_[id[c]].o = c
      BY <1>4, <2>1 DEF Tabled, Registered, Types
    <3> QED
      BY <1>11, <3>1
  <2>2. ASSUME NEW k \in Cid, class_table_'[k] # Nil
        PROVE  kind'[class_table_'[k].o] = "class" /\ id'[class_table_'[k].o] = k
    <3>1. /\ IsBehavior(class_table_[k].o) /\ id[class_table_[k].o] = k
          /\ class_table_[k].o \in marked
          /\ class_table_'[k] = class_table_[k]
      BY <1>11, <2>2 DEF Tabled, Registered
    <3> QED
      BY <1>2, <1>4, <3>1 DEF IsBehavior
  <2>3. \A y \in Obj : cid'[y] # 0 => cid'[y] = cid[y] /\ kind'[y] = "plain"
    BY <1>4 DEF Tabled
  <2>4. ASSUME NEW y \in InUse', y \notin Unbarriered, cid'[y] # 0
        PROVE  class_table_'[cid'[y]] # Nil
    <3>1. /\ y \in Obj /\ y \in marked /\ cid[y] # 0 /\ cid'[y] = cid[y]
          /\ kind[y] = "plain" /\ cid[y] \in Cid
      BY <1>2, <1>4, <1>12, <2>4 DEF Tabled, Types
    <3>2. y \notin Waiting
      BY <1>2, <3>1 DEF IsWeakArray, IsEphemeron
    <3>3. Reached(y) /\ class_table_[cid[y]] # Nil /\ class_table_[cid[y]] \in ClassOf(y)
      BY <1>2, <2>4, <3>1, <3>2 DEF Marking, MarkingDone, Tabled, ClassOf
    <3> QED
      BY <1>11, <3>1, <3>3 DEF Reached, IsMarkSweepSurvivor
  <2> QED
    <3>1. Registered'
      BY <2>1, <2>2 DEF Registered, IsBehavior
    <3> QED
      BY <2>3, <2>4, <3>1 DEF Tabled
<1>14. Settled'
  <2>1. \A y \in Obj : place'[y] # "from"
    BY <1>4 DEF Marking, MarkingDone, Settled
  <2>2. ASSUME NEW y \in InUse', NEW i \in Slots(y) PROVE Valid(field[y][i])'
    <3>1. /\ Valid(field[y][i])
          /\ field'[y][i] # Nil => field'[y][i] = field[y][i] /\ field[y][i].o \in marked
      BY <1>2, <1>7, <1>10, <1>12
    <3> QED
      BY <1>2, <1>4, <3>1 DEF Valid
  <2>3. ASSUME NEW p \in stack' PROVE Valid(p)'
    <3>1. Valid(p) /\ p.o \in marked
      BY <1>1, <1>7
    <3> QED
      BY <1>2, <1>4, <3>1 DEF Valid
  <2>4. ASSUME NEW k \in Cid PROVE Valid(class_table_[k])'
    BY <1>2, <1>4, <1>7, <1>11 DEF Valid
  <2> QED
    BY <1>9, <2>1, <2>2, <2>3, <2>4 DEF Settled
<1>15. rset' = [y \in Obj |-> IF y \in adds THEN AddToRememberedSet(y, rset)[y] ELSE rset[y]]
  BY <1>1
<1>16. /\ adds \subseteq weak_list_ /\ adds \subseteq Old /\ weak_list_ \subseteq Obj
       /\ \A y \in weak_list_ :
            y \in adds <=> /\ place[y] = "old"
                           /\ \E p \in Slot(y) : IsNewObject(MarkedOrNil(p))
  BY DEF Old, Types
<1> HIDE DEF adds
<1>17. /\ rset' \in [Obj -> 0..2] /\ rbits' \subseteq Obj
       /\ \A y \in Obj : rset'[y] < 2
       /\ Remembered' = Remembered \cup adds /\ rbits' = Remembered'
       /\ Remembered' \subseteq Old'
  <2>1. /\ rbits \cap marked = Remembered /\ Remembered \subseteq Old \ Waiting
        /\ \A y \in Obj : rset[y] \in 0..1
    BY DEF Marking, MarkingDone, Types
  <2>2. \A y \in adds : y \in Obj /\ rset[y] = 0 /\ y \in marked
    BY <1>2, <1>16, <2>1 DEF Remembered
  <2>3. \A y \in adds : AddToRememberedSet(y, rset)[y] = 1
    BY <2>2 DEF AddToRememberedSet, Types
  <2>4. /\ rset' = [y \in Obj |-> rset'[y]]
        /\ \A y \in Obj : rset'[y] = IF y \in adds THEN 1 ELSE rset[y]
    BY <1>15, <2>3
  <2>5. Remembered' = Remembered \cup adds
    BY <2>2, <2>4 DEF Remembered
  <2>6. Remembered \cup adds \subseteq marked
    BY <2>1, <2>2
  <2>7. rbits' = {y \in marked : y \in rbits \/ y \in Remembered'}
    BY <1>1, <1>2 DEF Remembered
  <2>8. rbits' = Remembered'
    BY <2>1, <2>5, <2>6, <2>7
  <2>9. rset' \in [Obj -> 0..2] /\ \A y \in Obj : rset'[y] < 2
    BY <2>1, <2>4
  <2> QED
    BY <1>2, <1>12, <1>16, <2>1, <2>5, <2>6, <2>8, <2>9
<1>18. ASSUME NEW y \in Old' PROVE Noted(y)'
  <2>1. y \in Obj /\ place[y] = "old" /\ y \in marked
    BY <1>12 DEF Old
  <2>2. CASE y \in ephemeron_list_
    <3>1. \A i \in Slots(y) : field'[y][i] = Nil
      BY <1>10, <2>1, <2>2
    <3>2. cid'[y] = 0
      BY <1>2, <1>4, <2>1, <2>2 DEF Tabled, IsEphemeron
    <3> QED
      BY <1>9, <3>1, <3>2 DEF Noted, NewTarget, NewClass, IsNewObject
  <2>3. CASE y \in weak_list_
    <3>1. cid'[y] = 0
      BY <1>2, <1>4, <2>1, <2>3 DEF Tabled, IsWeakArray
    <3>2. NewTarget(y)' => y \in adds
      <4>1. NewTarget(y)' => \E i \in Slots(y) : IsNewObject(MarkedOrNil(field[y][i]))
        BY <1>9, <1>10, <2>1, <2>3 DEF NewTarget, IsNewObject
      <4> QED
        BY <1>16, <2>1, <2>3, <4>1 DEF Slot
    <3>3. y \in adds => rset'[y] > 0
      BY <1>17, <2>1 DEF Remembered
    <3> QED
      BY <3>1, <3>2, <3>3 DEF Noted, NewClass
  <2>4. CASE y \notin Waiting
    <3>1. /\ Noted(y) /\ (\A i \in Slots(y) : field'[y][i] = field[y][i])
          /\ cid'[y] = cid[y]
      <4>1. y \in (Old \cap marked) \ Waiting
        BY <2>1, <2>4 DEF Old
      <4> QED
        BY <1>4, <1>10, <2>1, <2>4, <4>1 DEF Marking, MarkingDone
    <3>2. NewTarget(y)' => NewTarget(y)
      BY <1>9, <3>1 DEF NewTarget, IsNewObject
    <3>3. NewClass(y)' => NewClass(y)
      <4>1. ASSUME cid[y] # 0, class_table_'[cid[y]] # Nil
            PROVE  /\ class_table_[cid[y]] # Nil
                   /\ place'[class_table_'[cid[y]].o] = place[class_table_[cid[y]].o]
        <5>1. cid[y] \in Cid
          BY <2>1, <4>1 DEF Types
        <5> QED
          BY <1>2, <1>4, <1>11, <4>1, <5>1
      <4> QED
        BY <3>1, <4>1 DEF NewClass
    <3>4. rset[y] > 0 => rset'[y] > 0
      BY <1>17, <2>1 DEF Remembered
    <3> QED
      BY <3>1, <3>2, <3>3, <3>4 DEF Noted
  <2> QED
    BY <1>2, <2>2, <2>3, <2>4
<1>19. Idle'
  <2>1. Waiting' = {} /\ marked' = {}
    BY <1>1, <1>2 DEF Waiting, Works, Lists
  <2> QED
    BY <1>1, <1>14, <1>17, <1>18, <2>1 DEF Idle
<1>20. Types'
  <2>1. field' \in [Obj -> Contents]
    BY <1>6, <1>8, FieldTyped
  <2>2. class_table_' \in [Cid -> Ptr \cup {Nil}]
    <3>1. class_table_' = [k \in Cid |-> class_table_'[k]]
      BY <1>1
    <3> QED
      BY <1>7, <1>11, <3>1
  <2>3. /\ place' \in [Obj -> Location \cup {"free"}]
        /\ cid' \in [Obj -> Cid \cup {0}] /\ id' \in [Obj -> Cid \cup {0}]
    BY <1>3 DEF Types
  <2>4. aged' \subseteq Obj
    BY <1>1 DEF Types
  <2> QED
    BY <1>1, <1>8, <1>9, <1>17, <2>1, <2>2, <2>3, <2>4 DEF Types, Phase
<1> QED
  BY <1>13, <1>19, <1>20

-----------------------------------------------------------------------------
(* Become.                                                                   *)
First == [table |-> class_table_, ids |-> id, done |-> {}]
Entry(t, c, to) == IF Corpse(t.table[c], to) /\ t.table[c].o \notin t.done
                   THEN TakesOver(t, c, to) ELSE t

LEMMA ForwardedInSteps ==
  ASSUME NEW to
  PROVE  \E upTo : /\ ForwardClassIds(to) = upTo[Cardinality(Cid)]
                   /\ upTo[0] = First
                   /\ \A c \in 1..Cardinality(Cid) : upTo[c] = Entry(upTo[c - 1], c, to)
<1> DEFINE N == Cardinality(Cid)
           Step(f, c) == IF c = 0 THEN [table |-> class_table_, ids |-> id, done |-> {}]
                         ELSE LET t == f[c - 1]
                              IN  IF Corpse(t.table[c], to) /\ t.table[c].o \notin t.done
                                  THEN TakesOver(t, c, to) ELSE t
           Takes(f, k) == f = [c \in 0..k |-> Step(f, c)]
           missing == {k \in 0..N : ~\E f : Takes(f, k)}
<1>1. N \in Nat
  BY Constants
<1> HIDE DEF N
<1>2. missing = {}
  <2> SUFFICES ASSUME missing # {} PROVE FALSE
    OBVIOUS
  <2>1. missing \in SUBSET Nat
    BY <1>1
  <2>2. PICK k \in missing : \A j \in missing : k <= j
    <3> HIDE DEF missing
    <3> QED
      BY <2>1, SmallestNat
  <2>3. k \in 0..N /\ ~\E f : Takes(f, k)
    BY <2>2
  <2>4. k # 0
    <3> SUFFICES ASSUME k = 0 PROVE FALSE
      OBVIOUS
    <3> DEFINE first == [c \in 0..0 |-> Step(<<>>, 0)]
    <3>1. Takes(first, 0)
      OBVIOUS
    <3> HIDE DEF Takes, first
    <3> QED
      BY <2>3, <3>1
  <2>5. k - 1 \in 0..N /\ k - 1 \notin missing
    <3>1. k \in Nat /\ k - 1 \in 0..N /\ ~(k <= k - 1)
      BY <1>1, <2>3, <2>4
    <3> HIDE DEF missing
    <3> QED
      BY <2>2, <3>1
  <2>6. PICK f : Takes(f, k - 1)
    <3> HIDE DEF Takes
    <3> QED
      BY <2>5
  <2> DEFINE g == [c \in 0..k |-> IF c = k THEN Step(f, k) ELSE f[c]]
  <2>7. \A c \in 0..k : Step(g, c) = Step(f, c)
    <3>1. \A c \in 0..k : c # 0 => c - 1 \in 0..k /\ c - 1 # k
      BY <1>1, <2>3
    <3>2. \A c \in 0..k : c # 0 => g[c - 1] = f[c - 1]
      BY <3>1
    <3> HIDE DEF g
    <3> QED
      BY <3>2
  <2>8. \A c \in 0..k : g[c] = Step(f, c)
    <3>1. \A c \in 0..(k - 1) : f[c] = Step(f, c)
      BY <2>6
    <3>2. \A c \in 0..k : c # k => c \in 0..(k - 1)
      BY <1>1, <2>3
    <3> HIDE DEF Step
    <3> QED
      BY <3>1, <3>2
  <2>9. Takes(g, k)
    <3>1. \A c \in 0..k : g[c] = Step(g, c)
      <4> HIDE DEF Step, g
      <4> QED
        BY <2>7, <2>8
    <3>2. g = [c \in 0..k |-> g[c]]
      OBVIOUS
    <3> HIDE DEF Step, g
    <3> QED
      BY <3>1, <3>2
  <2> HIDE DEF g, Takes
  <2> QED
    BY <2>3, <2>9
<1> DEFINE upTo == CHOOSE f : Takes(f, N)
<1>3. Takes(upTo, N)
  <2>1. N \in 0..N
    BY <1>1
  <2>2. PICK f : Takes(f, N)
    <3> HIDE DEF Takes
    <3> QED
      BY <1>2, <2>1
  <2> HIDE DEF Takes
  <2> QED
    BY <2>2
<1>4. ForwardClassIds(to) = upTo[N]
  BY DEF ForwardClassIds, N
<1> HIDE DEF upTo
<1>5. \A c \in 0..N : upTo[c] = Step(upTo, c)
  BY <1>3
<1>6. 0 \in 0..N /\ \A c \in 1..N : c \in 0..N /\ c # 0
  BY <1>1
<1>7. upTo[0] = First
  BY <1>5, <1>6 DEF First
<1>8. \A c \in 1..N : upTo[c] = Entry(upTo[c - 1], c, to)
  BY <1>5, <1>6 DEF Entry
<1> QED
  BY <1>4, <1>7, <1>8 DEF N

(* Who is exchanged for whom.                                                *)
Becoming(to) ==
  /\ DOMAIN to \subseteq Obj
  /\ \A x \in DOMAIN to : to[x] \in Obj \ DOMAIN to /\ place[to[x]] \in Location
  /\ \A x \in DOMAIN to : IsBehavior(x) => IsBehavior(to[x])

(* The table and the ids, with the entries up to c looked at: a behavior that   *)
(* stays has the entry its id says; an entry is never lost; it leads, through   *)
(* a corpse if need be, where it led before or where that one is forwarded to;  *)
(* and every corpse that was met has handed on its id.                        *)
Tables(t, c, to) ==
  /\ t.table \in [Cid -> Ptr \cup {Nil}] /\ t.ids \in [Obj -> Cid \cup {0}]
  /\ \A k \in Cid : t.table[k] # Nil => Valid(t.table[k]) /\ IsBehavior(t.table[k].o)
  /\ \A k \in Cid : t.table[k] # Nil /\ t.table[k].o \notin DOMAIN to =>
                      t.ids[t.table[k].o] = k
  /\ \A d \in Obj \ DOMAIN to : t.ids[d] # 0 =>
                      t.table[t.ids[d]] # Nil /\ t.table[t.ids[d]].o = d
  /\ \A k \in Cid : Followed(t.table[k], to) = Followed(class_table_[k], to)
  /\ \A k \in 1..c : Corpse(t.table[k], to) => t.table[k].o \in t.done
  /\ \A f \in t.done : f \in DOMAIN to /\ t.ids[to[f]] # 0

LEMMA FirstTables ==
  ASSUME Types, Tabled, Idle, NEW to
  PROVE  Tables(First, 0, to)
<1>1. First.table = class_table_ /\ First.ids = id /\ First.done = {}
  BY DEF First
<1>2. \A k \in Cid : Valid(class_table_[k])
  BY DEF Idle, Settled
<1>3. \A k \in 1..0 : FALSE
  OBVIOUS
<1> QED
  BY <1>1, <1>2, <1>3 DEF Types, Tabled, Registered, Tables

LEMMA PointerIs ==
  ASSUME NEW p \in Ptr, Valid(p)
  PROVE  p = To(p.o)
BY Constants DEF Ptr, Valid, To

LEMMA EntryKeeps ==
  ASSUME Types, NEW to, Becoming(to), NEW t, NEW c \in Cid, Tables(t, c - 1, to)
  PROVE  Tables(Entry(t, c, to), c, to)
<1>0. Cid = 1..Cardinality(Cid) /\ Cardinality(Cid) \in Nat /\ 0 \notin Cid /\ c \in Nat
      /\ \A k \in 1..c : k = c \/ k \in 1..(c - 1)
  BY Constants
<1>1. CASE ~(Corpse(t.table[c], to) /\ t.table[c].o \notin t.done)
  <2>1. Entry(t, c, to) = t
    BY <1>1 DEF Entry
  <2>2. \A k \in 1..c : Corpse(t.table[k], to) => t.table[k].o \in t.done
    BY <1>0, <1>1 DEF Tables
  <2> QED
    BY <2>1, <2>2 DEF Tables
<1>2. CASE Corpse(t.table[c], to) /\ t.table[c].o \notin t.done
  <2> DEFINE f == t.table[c].o
             d == to[f]
             u == Entry(t, c, to)
             without == IF t.ids[d] = 0 THEN t.table
                        ELSE [t.table EXCEPT ![t.ids[d]] = t.table[c]]
  <2>1. /\ u.table = [without EXCEPT ![c] = To(d)] /\ u.ids = [t.ids EXCEPT ![d] = c]
        /\ u.done = t.done \cup {f}
    BY <1>2 DEF Entry, TakesOver
  <2>2. /\ t.table[c] # Nil /\ t.table[c] \in Ptr /\ f \in DOMAIN to /\ f \in Obj
        /\ d \in Obj /\ d \notin DOMAIN to /\ IsBehavior(d)
    BY <1>2 DEF Corpse, Tables, Becoming
  <2>3. To(d) \in Ptr /\ To(d) # Nil /\ To(d).o = d /\ Valid(To(d))
    BY <2>2, PointerParts DEF To, Becoming, Valid
  <2>4. t.table \in [Cid -> Ptr \cup {Nil}] /\ t.ids \in [Obj -> Cid \cup {0}]
    BY DEF Tables
  <2>5. t.ids[d] # 0 => /\ t.ids[d] \in Cid /\ t.table[t.ids[d]] # Nil
                        /\ t.table[t.ids[d]].o = d /\ t.ids[d] # c
    BY <2>2, <2>4 DEF Tables
  <2> HIDE DEF u, d, f
  <2>6. /\ u.table \in [Cid -> Ptr \cup {Nil}] /\ u.ids \in [Obj -> Cid \cup {0}]
        /\ u.table[c] = To(d) /\ u.ids[d] = c
        /\ \A e \in Obj : e # d => u.ids[e] = t.ids[e]
    BY <2>1, <2>2, <2>3, <2>4
  <2>7. \A k \in Cid : k # c => u.table[k] = IF k = t.ids[d] THEN t.table[c] ELSE t.table[k]
    <3> SUFFICES ASSUME NEW k \in Cid, k # c
                 PROVE  u.table[k] = IF k = t.ids[d] THEN t.table[c] ELSE t.table[k]
      OBVIOUS
    <3>1. u.table[k] = without[k]
      BY <2>1, <2>4
    <3>2. CASE t.ids[d] = 0
      BY <1>0, <3>1, <3>2
    <3>3. CASE t.ids[d] # 0
      BY <2>4, <2>5, <3>1, <3>3
    <3> QED
      BY <3>2, <3>3
  <2> HIDE DEF without
  <2>8. \A k \in Cid : u.table[k] # Nil => Valid(u.table[k]) /\ IsBehavior(u.table[k].o)
    BY <2>2, <2>3, <2>6, <2>7 DEF Tables
  <2>9. \A k \in Cid : u.table[k] # Nil /\ u.table[k].o \notin DOMAIN to =>
                         u.ids[u.table[k].o] = k
    <3> SUFFICES ASSUME NEW k \in Cid, u.table[k] # Nil, u.table[k].o \notin DOMAIN to
                 PROVE  u.ids[u.table[k].o] = k
      OBVIOUS
    <3>1. CASE k = c
      BY <2>3, <2>6, <3>1
    <3>2. CASE k # c
      <4>1. k # t.ids[d] /\ u.table[k] = t.table[k]
        BY <2>2, <2>7, <3>2 DEF f
      <4>2. t.ids[t.table[k].o] = k /\ t.table[k].o \in Obj
        BY <2>4, <4>1, PointerParts DEF Tables
      <4>3. t.table[k].o # d
        BY <4>1, <4>2
      <4> QED
        BY <2>6, <4>1, <4>2, <4>3
    <3> QED
      BY <3>1, <3>2
  <2>10. \A e \in Obj \ DOMAIN to : u.ids[e] # 0 =>
                         u.table[u.ids[e]] # Nil /\ u.table[u.ids[e]].o = e
    <3> SUFFICES ASSUME NEW e \in Obj \ DOMAIN to, u.ids[e] # 0
                 PROVE  u.table[u.ids[e]] # Nil /\ u.table[u.ids[e]].o = e
      OBVIOUS
    <3>1. CASE e = d
      BY <2>3, <2>6, <3>1
    <3>2. CASE e # d
      <4>1. /\ u.ids[e] = t.ids[e] /\ t.ids[e] \in Cid
            /\ t.table[t.ids[e]] # Nil /\ t.table[t.ids[e]].o = e
        BY <2>4, <2>6, <3>2 DEF Tables
      <4>2. t.ids[e] # c /\ t.ids[e] # t.ids[d]
        BY <2>2, <2>5, <3>2, <4>1 DEF f
      <4> QED
        BY <2>7, <4>1, <4>2
    <3> QED
      BY <3>1, <3>2
  <2>11. \A k \in Cid : Followed(u.table[k], to) = Followed(class_table_[k], to)
    <3>1. Followed(t.table[c], to) = To(d) /\ Followed(To(d), to) = To(d)
      BY <1>2, <2>2, <2>3 DEF Followed, Corpse, d, f
    <3>2. t.ids[d] # 0 => Followed(t.table[t.ids[d]], to) = To(d)
      <4> SUFFICES ASSUME t.ids[d] # 0 PROVE Followed(t.table[t.ids[d]], to) = To(d)
        OBVIOUS
      <4>1. t.table[t.ids[d]] = To(d)
        <5>1. t.table[t.ids[d]] \in Ptr /\ Valid(t.table[t.ids[d]])
          BY <2>4, <2>5 DEF Tables
        <5> QED
          BY <2>5, <5>1, PointerIs
      <4> QED
        BY <3>1, <4>1
    <3> SUFFICES ASSUME NEW k \in Cid
                 PROVE  Followed(u.table[k], to) = Followed(t.table[k], to)
      BY DEF Tables
    <3>3. CASE k = c
      BY <2>6, <3>1, <3>3
    <3>4. CASE k # c /\ k = t.ids[d]
      BY <1>0, <2>7, <3>1, <3>2, <3>4
    <3>5. CASE k # c /\ k # t.ids[d]
      BY <2>7, <3>5
    <3> QED
      BY <3>3, <3>4, <3>5
  <2>12. \A k \in 1..c : Corpse(u.table[k], to) => u.table[k].o \in u.done
    <3> SUFFICES ASSUME NEW k \in 1..c, Corpse(u.table[k], to)
                 PROVE  u.table[k].o \in u.done
      OBVIOUS
    <3>1. k \in Cid
      BY <1>0
    <3>2. k # c
      BY <2>2, <2>3, <2>6 DEF Corpse
    <3>3. CASE k = t.ids[d]
      BY <2>1, <2>7, <3>1, <3>2, <3>3 DEF f
    <3>4. CASE k # t.ids[d]
      <4>1. u.table[k] = t.table[k] /\ k \in 1..(c - 1)
        BY <1>0, <2>7, <3>1, <3>2, <3>4
      <4> QED
        BY <2>1, <4>1 DEF Tables
    <3> QED
      BY <3>3, <3>4
  <2>13. \A g \in u.done : g \in DOMAIN to /\ u.ids[to[g]] # 0
    <3> SUFFICES ASSUME NEW g \in u.done PROVE g \in DOMAIN to /\ u.ids[to[g]] # 0
      OBVIOUS
    <3>1. CASE g = f
      BY <1>0, <2>2, <2>6, <3>1 DEF d
    <3>2. CASE g # f
      <4>1. g \in DOMAIN to /\ t.ids[to[g]] # 0 /\ to[g] \in Obj
        BY <2>1, <3>2 DEF Tables, Becoming
      <4> QED
        BY <1>0, <2>6, <4>1
    <3> QED
      BY <3>1, <3>2
  <2>14. Tables(u, c, to)
    BY <2>6, <2>8, <2>9, <2>10, <2>11, <2>12, <2>13 DEF Tables
  <2> QED
    BY <2>14 DEF u
<1> QED
  BY <1>1, <1>2

LEMMA ForwardedTables ==
  ASSUME Types, Tabled, Idle, NEW to, Becoming(to)
  PROVE  Tables(ForwardClassIds(to), Cardinality(Cid), to)
<1> DEFINE N == Cardinality(Cid)
<1>0. N \in Nat /\ Cid = 1..N
  BY Constants
<1>1. PICK upTo : /\ ForwardClassIds(to) = upTo[N]
                  /\ upTo[0] = First
                  /\ \A c \in 1..N : upTo[c] = Entry(upTo[c - 1], c, to)
  BY ForwardedInSteps
<1> HIDE DEF N
<1> DEFINE bad == {c \in 0..N : ~Tables(upTo[c], c, to)}
<1>2. bad = {}
  <2> SUFFICES ASSUME bad # {} PROVE FALSE
    OBVIOUS
  <2>1. bad \in SUBSET Nat
    BY <1>0
  <2>2. PICK c \in bad : \A j \in bad : c <= j
    <3> HIDE DEF bad
    <3> QED
      BY <2>1, SmallestNat
  <2>3. c \in 0..N /\ ~Tables(upTo[c], c, to)
    BY <2>2
  <2>4. c # 0
    BY <1>1, <2>3, FirstTables
  <2>5. c - 1 \in 0..N /\ c - 1 \notin bad /\ c \in 1..N /\ c \in Cid
    BY <1>0, <2>1, <2>2, <2>3, <2>4
  <2>6. Tables(upTo[c - 1], c - 1, to)
    BY <2>5
  <2>7. Tables(Entry(upTo[c - 1], c, to), c, to)
    BY <2>5, <2>6, EntryKeeps
  <2> QED
    BY <1>1, <2>3, <2>5, <2>7
<1>3. N \in 0..N
  BY <1>0
<1> QED
  BY <1>1, <1>2, <1>3 DEF N

LEMMA BecomingOf ==
  ASSUME Types, Idle, NEW to, BecomeForward(to)
  PROVE  Becoming(to)
<1>1. \A x \in Rooted : x \in Obj /\ place[x] \in Location
  <2> SUFFICES ASSUME NEW p \in stack PROVE p.o \in Obj /\ place[p.o] \in Location
    BY DEF Rooted
  <2>1. p \in Ptr /\ Valid(p)
    BY DEF Types, Idle, Settled
  <2> QED
    BY <2>1, PointerParts DEF Valid
<1>2. /\ DOMAIN to \subseteq Rooted
      /\ \A x \in DOMAIN to : to[x] \in Rooted \ DOMAIN to
      /\ \A x \in DOMAIN to : IsBehavior(x) => IsBehavior(to[x])
  BY DEF BecomeForward
<1> QED
  BY <1>1, <1>2 DEF Becoming

LEMMA FollowedPointers ==
  ASSUME Types, NEW to, Becoming(to), NEW p \in Ptr \cup {Nil}, Valid(p)
  PROVE  /\ Followed(p, to) \in Ptr \cup {Nil} /\ Valid(Followed(p, to))
         /\ Followed(p, to) = Nil <=> p = Nil
         /\ p # Nil => Followed(p, to).o \in Obj \ DOMAIN to
         /\ ~Corpse(p, to) => Followed(p, to) = p
<1>1. CASE Corpse(p, to)
  <2>1. p.o \in DOMAIN to /\ p # Nil /\ Followed(p, to) = To(to[p.o])
    BY <1>1 DEF Followed, Corpse
  <2>2. to[p.o] \in Obj \ DOMAIN to /\ place[to[p.o]] \in Location
    BY <2>1 DEF Becoming
  <2>3. To(to[p.o]) \in Ptr /\ To(to[p.o]) # Nil /\ To(to[p.o]).o = to[p.o] /\ Valid(To(to[p.o]))
    BY <2>2, PointerParts DEF To, Valid
  <2> QED
    BY <1>1, <2>1, <2>2, <2>3
<1>2. CASE ~Corpse(p, to)
  BY <1>2, PointerParts DEF Followed, Corpse
<1> QED
  BY <1>1, <1>2

(* The class of an instance is the one it had, or the one that is forwarded to. *)
LEMMA InstancesFollow ==
  ASSUME Types, NEW to, Becoming(to), NEW t, Tables(t, Cardinality(Cid), to),
         NEW k \in Cid,
         NEW j, j = IF Corpse(t.table[k], to) THEN t.ids[to[t.table[k].o]] ELSE k
  PROVE  /\ j \in Cid /\ ~Corpse(t.table[j], to)
         /\ t.table[j] = Followed(class_table_[k], to)
<1>1. t.table[k] \in Ptr \cup {Nil} /\ Valid(t.table[k])
      /\ Followed(t.table[k], to) = Followed(class_table_[k], to)
  BY DEF Tables, Valid
<1>2. CASE Corpse(t.table[k], to)
  <2> DEFINE d == to[t.table[k].o]
  <2>1. k \in 1..Cardinality(Cid)
    BY Constants
  <2>2. t.table[k].o \in t.done /\ t.table[k].o \in DOMAIN to /\ t.ids[d] # 0
    BY <1>2, <2>1 DEF Tables
  <2>3. d \in Obj \ DOMAIN to
    BY <2>2 DEF Becoming
  <2> HIDE DEF d
  <2>4. /\ t.ids[d] \in Cid /\ t.table[t.ids[d]] # Nil /\ t.table[t.ids[d]].o = d
        /\ t.table[t.ids[d]] \in Ptr /\ Valid(t.table[t.ids[d]])
    BY <2>2, <2>3 DEF Tables
  <2>5. t.table[t.ids[d]] = To(d)
    BY <2>4, PointerIs
  <2>6. Followed(t.table[k], to) = To(d) /\ j = t.ids[d]
    BY <1>2 DEF Followed, d
  <2> QED
    BY <1>1, <2>3, <2>4, <2>5, <2>6 DEF Corpse
<1>3. CASE ~Corpse(t.table[k], to)
  BY <1>1, <1>3, FollowedPointers
<1> QED
  BY <1>2, <1>3

LEMMA BecomeKeeps ==
  ASSUME Types, Tabled, Idle, NEW to, kind' = kind, BecomeForward(to)
  PROVE  /\ Types' /\ Tabled' /\ Idle'
         /\ \A x \in InUse \ DOMAIN to : cid[x] # 0 =>
              /\ cid'[x] # 0
              /\ class_table_'[cid'[x]] = Followed(class_table_[cid[x]], to)
<1> DEFINE gone == DOMAIN to
           t    == ForwardClassIds(to)
           slots == [x \in Obj |-> IF x \in gone THEN [i \in Slots(x) |-> Nil]
                                   ELSE [i \in Slots(x) |-> Followed(field[x][i], to)]]
           cids == [x \in Obj |->
                      IF x \in gone \/ cid[x] = 0 THEN 0
                      ELSE IF Corpse(t.table[cid[x]], to)
                           THEN t.ids[to[t.table[cid[x]].o]] ELSE cid[x]]
           classNew(x) == cids[x] # 0 /\ IsNewObject(Followed(t.table[cid[x]], to))
           adds == {x \in Old \ gone :
                      classNew(x) \/ \E i \in Slots(x) : IsNewObject(slots[x][i])}
<1>1. /\ place' = [x \in Obj |-> IF x \in gone THEN "free" ELSE place[x]]
      /\ aged' = aged \ gone
      /\ field' = slots /\ cid' = cids
      /\ id' = [x \in Obj |-> IF x \in gone THEN 0 ELSE t.ids[x]]
      /\ class_table_' = [k \in Cid |-> IF Corpse(t.table[k], to) THEN Nil ELSE t.table[k]]
      /\ stack' = {Followed(p, to) : p \in stack}
      /\ rset' = [x \in Obj |-> IF x \in adds THEN 1 ELSE 0] /\ rbits' = adds
      /\ gcVars' = gcVars
  <2>1. /\ place' = [x \in Obj |-> IF x \in gone THEN "free" ELSE place[x]]
        /\ aged' = aged \ gone
        /\ stack' = {Followed(p, to) : p \in stack} /\ gcVars' = gcVars
    BY DEF BecomeForward
  <2>2. field' = slots
    BY DEF BecomeForward
  <2>3. cid' = cids
    BY DEF BecomeForward
  <2>4. /\ id' = [x \in Obj |-> IF x \in gone THEN 0 ELSE t.ids[x]]
        /\ class_table_' = [k \in Cid |-> IF Corpse(t.table[k], to) THEN Nil ELSE t.table[k]]
    BY DEF BecomeForward
  <2>5. rbits' = adds
    BY DEF BecomeForward
  <2>6. rset' = [x \in Obj |-> IF x \in adds THEN 1 ELSE 0]
    BY DEF BecomeForward
  <2> QED
    BY <2>1, <2>2, <2>3, <2>4, <2>5, <2>6
<1>2. Becoming(to)
  BY BecomingOf
<1>3. Tables(t, Cardinality(Cid), to)
  BY <1>2, ForwardedTables
<1>4. /\ phase' = phase /\ todo' = todo /\ toScan' = toScan /\ tenured' = tenured
      /\ ephemeron_list_' = ephemeron_list_ /\ weak_list_' = weak_list_
      /\ pending' = pending /\ marked' = marked /\ before' = before /\ reach' = reach
  BY <1>1 DEF gcVars, work, lists
<1> HIDE DEF t
<1>5. gone \subseteq Obj
  BY <1>2 DEF Becoming
<1>6. /\ t.table \in [Cid -> Ptr \cup {Nil}] /\ t.ids \in [Obj -> Cid \cup {0}]
      /\ \A k \in Cid : t.table[k] # Nil => Valid(t.table[k]) /\ IsBehavior(t.table[k].o)
      /\ \A k \in Cid : t.table[k] # Nil /\ t.table[k].o \notin gone =>
                          t.ids[t.table[k].o] = k
      /\ \A d \in Obj \ gone : t.ids[d] # 0 =>
                          t.table[t.ids[d]] # Nil /\ t.table[t.ids[d]].o = d
  BY <1>3 DEF Tables
<1>7. \A x \in Obj :
        /\ x \in gone => /\ place'[x] = "free" /\ cid'[x] = 0 /\ id'[x] = 0
                         /\ field'[x] = [i \in Slots(x) |-> Nil]
        /\ x \notin gone => /\ place'[x] = place[x] /\ id'[x] = t.ids[x]
                            /\ field'[x] = [i \in Slots(x) |-> Followed(field[x][i], to)]
  BY <1>1
<1>8. /\ field' = [x \in Obj |-> field'[x]] /\ cid' = [x \in Obj |-> cid'[x]]
      /\ \A k \in Cid : class_table_'[k] = IF Corpse(t.table[k], to) THEN Nil ELSE t.table[k]
  BY <1>1
<1>9. ASSUME NEW x \in Obj \ gone, cid[x] # 0
      PROVE  /\ cid'[x] \in Cid /\ ~Corpse(t.table[cid'[x]], to)
             /\ t.table[cid'[x]] = Followed(class_table_[cid[x]], to)
             /\ class_table_'[cid'[x]] = t.table[cid'[x]]
  <2>1. cid'[x] = IF Corpse(t.table[cid[x]], to)
                  THEN t.ids[to[t.table[cid[x]].o]] ELSE cid[x]
    BY <1>1, <1>9
  <2>2. cid[x] \in Cid
    BY <1>9 DEF Types
  <2> DEFINE j == cid'[x]
             k == cid[x]
  <2> HIDE DEF j, k
  <2>3. k \in Cid /\ j = IF Corpse(t.table[k], to) THEN t.ids[to[t.table[k].o]] ELSE k
    BY <2>1, <2>2 DEF j, k
  <2>4. /\ j \in Cid /\ ~Corpse(t.table[j], to)
        /\ t.table[j] = Followed(class_table_[k], to)
    BY <1>2, <1>3, <2>3, InstancesFollow
  <2> QED
    BY <1>8, <2>4 DEF j, k
<1>10. \A x \in Obj : /\ cid'[x] # 0 => cid[x] # 0 /\ x \notin gone
                      /\ x \notin gone /\ cid[x] = 0 => cid'[x] = 0
  BY <1>1
<1> DEFINE newClass(x) == cid'[x] # 0 /\ IsNewObject(Followed(t.table[cid[x]], to))
<1>11. \A x \in Obj : /\ x \in adds => x \in Old \ gone
                      /\ x \in Old \ gone /\ newClass(x) => x \in adds
                      /\ x \in Old \ gone /\ (\E i \in Slots(x) : IsNewObject(field'[x][i])) => x \in adds
  BY <1>1
<1>12. adds \subseteq Obj
  BY DEF Old
<1> HIDE DEF slots, cids, adds
<1>13. /\ InUse' = InUse \ gone /\ Old' = Old \ gone
  BY <1>7 DEF InUse, Old
<1>14. \A y : Slots(y)' = Slots(y)
  BY DEF Slots, IsEphemeron
<1>15. \A p \in Ptr \cup {Nil} : Valid(p) =>
         /\ Followed(p, to) \in Ptr \cup {Nil}
         /\ Followed(p, to) = Nil <=> p = Nil
         /\ p # Nil => /\ Followed(p, to).o \in Obj \ gone
                       /\ place'[Followed(p, to).o] = Followed(p, to).at
  <2> SUFFICES ASSUME NEW p \in Ptr \cup {Nil}, Valid(p)
               PROVE  /\ Followed(p, to) \in Ptr \cup {Nil}
                      /\ Followed(p, to) = Nil <=> p = Nil
                      /\ p # Nil => /\ Followed(p, to).o \in Obj \ gone
                                    /\ place'[Followed(p, to).o] = Followed(p, to).at
    OBVIOUS
  <2>1. /\ Followed(p, to) \in Ptr \cup {Nil} /\ Valid(Followed(p, to))
        /\ Followed(p, to) = Nil <=> p = Nil
        /\ p # Nil => Followed(p, to).o \in Obj \ gone
    BY <1>2, FollowedPointers
  <2> QED
    BY <1>7, <2>1 DEF Valid
<1>16. /\ \A x \in InUse : \A i \in Slots(x) : Valid(field[x][i]) /\ field[x][i] \in Ptr \cup {Nil}
       /\ \A p \in stack : Valid(p) /\ p \in Ptr
       /\ \A x \in Obj : \A i \in Slots(x) : field[x][i] \in Ptr \cup {Nil}
  BY DEF Idle, Settled, Types, InUse
<1>17. \A k \in Cid :
         /\ class_table_'[k] \in Ptr \cup {Nil}
         /\ class_table_'[k] # Nil =>
              /\ class_table_'[k] = t.table[k] /\ t.table[k].o \in Obj \ gone
              /\ place'[t.table[k].o] = t.table[k].at
  <2> SUFFICES ASSUME NEW k \in Cid
               PROVE  /\ class_table_'[k] \in Ptr \cup {Nil}
                      /\ class_table_'[k] # Nil =>
                           /\ class_table_'[k] = t.table[k] /\ t.table[k].o \in Obj \ gone
                           /\ place'[t.table[k].o] = t.table[k].at
    OBVIOUS
  <2>1. class_table_'[k] # Nil =>
          /\ class_table_'[k] = t.table[k] /\ t.table[k].o \notin gone
          /\ t.table[k].o \in Obj /\ place[t.table[k].o] = t.table[k].at
    BY <1>6, <1>8, PointerParts DEF Corpse, Valid
  <2> QED
    BY <1>6, <1>7, <1>8, <2>1
<1>18. Settled'
  <2>1. \A y \in Obj : place'[y] # "from"
    BY <1>7 DEF Idle, Settled
  <2>2. ASSUME NEW y \in InUse', NEW i \in Slots(y) PROVE Valid(field[y][i])'
    <3>1. y \in Obj \ gone /\ y \in InUse
      BY <1>13 DEF InUse
    <3>2. field'[y][i] = Followed(field[y][i], to)
      BY <1>7, <3>1, ZenonT(30)
    <3>3. Valid(field[y][i]) /\ field[y][i] \in Ptr \cup {Nil}
      BY <1>16, <3>1
    <3> QED
      BY <1>15, <3>2, <3>3 DEF Valid
  <2>3. ASSUME NEW p \in stack' PROVE Valid(p)'
    <3>1. PICK q \in stack : p = Followed(q, to)
      BY <1>1
    <3> QED
      BY <1>15, <1>16, <3>1 DEF Valid
  <2>4. ASSUME NEW k \in Cid PROVE Valid(class_table_[k])'
    BY <1>17 DEF Valid
  <2> QED
    BY <1>14, <2>1, <2>2, <2>3, <2>4 DEF Settled
<1>19. Tabled'
  <2>1. ASSUME NEW c \in Obj, id'[c] # 0
        PROVE  class_table_'[id'[c]] # Nil /\ class_table_'[id'[c]].o = c
    <3>1. /\ c \notin gone /\ id'[c] = t.ids[c] /\ t.ids[c] \in Cid
          /\ t.table[t.ids[c]] # Nil /\ t.table[t.ids[c]].o = c
      BY <1>6, <1>7, <2>1
    <3> QED
      BY <1>8, <3>1 DEF Corpse
  <2>2. ASSUME NEW k \in Cid, class_table_'[k] # Nil
        PROVE  kind'[class_table_'[k].o] = "class" /\ id'[class_table_'[k].o] = k
    <3>1. /\ class_table_'[k] = t.table[k] /\ t.table[k].o \in Obj \ gone
          /\ t.table[k] # Nil
      BY <1>17, <2>2
    <3>2. IsBehavior(t.table[k].o) /\ t.ids[t.table[k].o] = k
      BY <1>6, <3>1
    <3> QED
      BY <1>7, <3>1, <3>2 DEF IsBehavior
  <2>3. \A y \in Obj : cid'[y] # 0 => kind'[y] = "plain"
    BY <1>10 DEF Tabled
  <2>4. ASSUME NEW y \in InUse', y \notin Unbarriered, cid'[y] # 0
        PROVE  class_table_'[cid'[y]] # Nil
    <3>1. y \in Obj \ gone /\ y \in InUse /\ cid[y] # 0 /\ cid[y] \in Cid
      BY <1>10, <1>13, <2>4 DEF InUse, Types
    <3>2. class_table_[cid[y]] # Nil /\ class_table_[cid[y]] \in Ptr /\ Valid(class_table_[cid[y]])
      BY <2>4, <3>1 DEF Tabled, Idle, Settled, Types
    <3> QED
      BY <1>9, <1>15, <3>1, <3>2
  <2> QED
    <3>1. Registered'
      BY <2>1, <2>2 DEF Registered, IsBehavior
    <3> QED
      BY <2>3, <2>4, <3>1 DEF Tabled
<1>20. \A y \in Old' : Noted(y)'
  <2> SUFFICES ASSUME NEW y \in Old' PROVE Noted(y)'
    OBVIOUS
  <2>1. y \in Old \ gone /\ y \in Obj
    BY <1>13 DEF Old
  <2>2. y \in adds => rset'[y] > 0
    BY <1>1, <2>1
  <2>3. NewTarget(y)' => y \in adds
    BY <1>11, <1>14, <2>1 DEF NewTarget, IsNewObject
  <2>4. ASSUME NewClass(y)' PROVE y \in adds
    <3>1. /\ cid'[y] # 0 /\ class_table_'[cid'[y]] # Nil
          /\ place'[class_table_'[cid'[y]].o] # "old"
      BY <2>4 DEF NewClass
    <3>2. cid[y] # 0 /\ y \in Obj \ gone
      BY <1>10, <2>1, <3>1
    <3>3. /\ cid'[y] \in Cid /\ ~Corpse(t.table[cid'[y]], to)
          /\ class_table_'[cid'[y]] = t.table[cid'[y]]
      BY <1>9, <3>2
    <3>4. Followed(t.table[cid[y]], to) = t.table[cid'[y]]
      <4>1. cid[y] \in Cid
        BY <2>1, <3>2 DEF Types
      <4> QED
        BY <1>3, <1>9, <3>2, <4>1 DEF Tables
    <3>5. IsNewObject(t.table[cid'[y]])
      BY <1>17, <3>1, <3>3 DEF IsNewObject
    <3> QED
      BY <1>11, <2>1, <3>1, <3>4, <3>5
  <2> QED
    BY <2>2, <2>3, <2>4 DEF Noted
<1>21. /\ rset' \in [Obj -> 0..2] /\ (\A y \in Obj : rset'[y] < 2)
       /\ Remembered' = adds /\ Remembered' \subseteq Old'
  <2>1. adds \subseteq Old'
    BY <1>11, <1>12, <1>13
  <2>2. \A y \in Obj : rset'[y] = IF y \in adds THEN 1 ELSE 0
    BY <1>1
  <2>3. Remembered' = adds
    BY <1>12, <2>2 DEF Remembered
  <2>4. rset' \in [Obj -> 0..2]
    BY <1>1
  <2> QED
    BY <2>1, <2>2, <2>3, <2>4
<1>22. Idle'
  <2>1. Waiting' = {} /\ marked' = {} /\ phase' = "mutator"
    BY <1>4 DEF Idle, Waiting, Works, Lists
  <2> QED
    BY <1>1, <1>18, <1>20, <1>21, <2>1 DEF Idle
<1>23. Types'
  <2>1. \A y \in Obj : field'[y] \in [Slots(y) -> Ptr \cup {Nil}]
    <3> SUFFICES ASSUME NEW y \in Obj PROVE field'[y] \in [Slots(y) -> Ptr \cup {Nil}]
      OBVIOUS
    <3>1. CASE y \in gone
      BY <1>7, <3>1
    <3>2. CASE y \notin gone
      <4>1. \A i \in Slots(y) : Followed(field[y][i], to) \in Ptr \cup {Nil}
        <5>1. \A p \in Ptr \cup {Nil} : Followed(p, to) \in Ptr \cup {Nil}
          BY <1>2, PointerParts DEF Followed, Corpse, Becoming, To
        <5> QED
          BY <1>16, <5>1
      <4> QED
        BY <1>7, <3>2, <4>1
    <3> QED
      BY <3>1, <3>2
  <2>2. field' \in [Obj -> Contents]
    BY <1>8, <2>1, FieldTyped
  <2>3. class_table_' \in [Cid -> Ptr \cup {Nil}]
    <3>1. class_table_' = [k \in Cid |-> class_table_'[k]]
      BY <1>1
    <3> QED
      BY <1>17, <3>1
  <2>4. stack' \subseteq Ptr
    BY <1>1, <1>15, <1>16, Constants
  <2>5. cid' \in [Obj -> Cid \cup {0}]
    <3>1. \A x \in Obj : cid'[x] \in Cid \cup {0}
      <4>1. \A x \in Obj : cid'[x] # 0 => cid'[x] \in Cid
        BY <1>9, <1>10
      <4> QED
        BY <4>1
    <3> QED
      BY <1>8, <3>1
  <2>6. /\ place' \in [Obj -> Location \cup {"free"}] /\ id' \in [Obj -> Cid \cup {0}]
        /\ aged' \subseteq Obj
    BY <1>1, <1>6 DEF Types
  <2>7. rbits' \subseteq Obj
    BY <1>1, <1>12
  <2> QED
    BY <1>4, <1>14, <1>21, <2>1, <2>2, <2>3, <2>4, <2>5, <2>6, <2>7 DEF Types
<1>24. \A x \in InUse \ gone : cid[x] # 0 =>
              /\ cid'[x] # 0
              /\ class_table_'[cid'[x]] = Followed(class_table_[cid[x]], to)
  BY <1>9, Constants DEF InUse
<1> QED
  BY <1>19, <1>22, <1>23, <1>24

-----------------------------------------------------------------------------
(* The inductive invariant: the program runs, or one of the two collections.   *)
IInv == Types /\ Tabled /\ (Idle \/ Copying \/ Marking)

LEMMA InitIdle == Init => IInv
<1> SUFFICES ASSUME Init PROVE IInv
  OBVIOUS
<1>1. /\ kind \in Mixes /\ place = [x \in Obj |-> "free"] /\ aged = {}
      /\ field = [x \in Obj |-> [i \in Slots(x) |-> Nil]]
      /\ cid = [x \in Obj |-> 0] /\ id = [x \in Obj |-> 0]
      /\ class_table_ = [c \in Cid |-> Nil] /\ stack = {}
      /\ rset = [x \in Obj |-> 0] /\ rbits = {}
      /\ phase = "mutator" /\ todo = {} /\ toScan = {} /\ tenured = {}
      /\ ephemeron_list_ = {} /\ weak_list_ = {} /\ pending = {}
      /\ marked = {} /\ before = {} /\ reach = {}
  BY DEF Init
<1>2. Types
  <2>1. \A x \in Obj : field[x] \in [Slots(x) -> Ptr \cup {Nil}]
    BY <1>1
  <2>2. field \in [Obj -> Contents]
    BY <1>1, <2>1, FieldTyped
  <2>3. kind \in [Obj -> Kind]
    BY <1>1, HeapAssumption DEF HeapAssumption
  <2> QED
    BY <1>1, <2>1, <2>2, <2>3 DEF Types, Phase
<1>3. Tabled
  BY <1>1 DEF Tabled, Registered, InUse
<1>4. InUse = {} /\ Old = {} /\ Remembered = {}
  BY <1>1 DEF InUse, Old, Remembered
<1>5. Settled
  BY <1>1, <1>4 DEF Settled, Valid
<1>6. Idle
  BY <1>1, <1>4, <1>5 DEF Idle, Waiting, Works, Lists
<1> QED
  BY <1>2, <1>3, <1>6 DEF IInv

LEMMA RunningIsIdle == IInv => (Running <=> Idle)
BY DEF IInv, Running, Idle, Copying, CopyingWork, Marking, MarkingWork

LEMMA ProgramKeeps ==
  ASSUME Types, Tabled, Idle, kind' = kind, Allocating \/ Mutating \/ Starting
  PROVE  Types' /\ Tabled' /\ (Idle' \/ Copying' \/ Marking')
<1>1. ASSUME NEW x \in Obj, NEW at \in {"to", "old"}, New(x, at) PROVE Types' /\ Tabled' /\ Idle'
  BY <1>1, NewKeeps
<1>2. ASSUME NEW x \in Obj, NEW c \in Obj, NEW k \in Cid, NEW at \in {"to", "old"},
             NewInstance(x, c, k, at)
      PROVE  Types' /\ Tabled' /\ Idle'
  BY <1>2, NewInstanceKeeps
<1>3. ASSUME NEW x \in Obj, NEW c \in Obj, NEW k \in Cid, Behavior_adoptInstance(x, c, k)
      PROVE  Types' /\ Tabled' /\ Idle'
  BY <1>3, AdoptKeeps
<1>4. ASSUME NEW x \in Obj, NEW i \in Slots(x), Load(x, i) PROVE Types' /\ Tabled' /\ Idle'
  BY <1>4, LoadKeeps
<1>5. ASSUME NEW x \in Obj, NEW i \in Slots(x), NEW p \in stack \cup {Nil}, Store(x, i, p)
      PROVE  Types' /\ Tabled' /\ Idle'
  BY <1>5, StoreKeeps
<1>6. ASSUME NEW p \in stack, Drop(p) PROVE Types' /\ Tabled' /\ Idle'
  BY <1>6, DropKeeps
<1>7. ASSUME NEW to, BecomeForward(to) PROVE Types' /\ Tabled' /\ Idle'
  BY <1>7, BecomeKeeps
<1>8. ASSUME NEW all \in BOOLEAN, StartScavenge(all) PROVE Types' /\ Tabled' /\ Copying'
  BY <1>8, StartScavengeKeeps
<1>9. ASSUME StartMarkSweep PROVE Types' /\ Tabled' /\ Marking'
  BY <1>9, StartMarkSweepKeeps
<1> HIDE DEF Types, Tabled, Idle, Copying, Marking
<1>10. CASE Allocating
  BY <1>1, <1>2, <1>10 DEF Allocating
<1>11. CASE Mutating
  BY <1>3, <1>4, <1>5, <1>6, <1>7, <1>11 DEF Mutating
<1>12. CASE Starting
  BY <1>8, <1>9, <1>12 DEF Starting
<1> QED
  BY <1>10, <1>11, <1>12

LEMMA CollectionKeeps ==
  ASSUME Types, Tabled, Idle \/ Copying \/ Marking, kind' = kind, Collecting
  PROVE  Types' /\ Tabled' /\ (Idle' \/ Copying' \/ Marking')
<1> DEFINE Scavenging == phase \in {"remembered", "loop", "scan", "tenure", "ephemerons", "mourn"}
           Sweeping   == phase \in {"mark", "markEphemerons", "sweep"}
<1>1. (Scavenging => Copying) /\ (Sweeping => Marking)
  BY DEF Idle, Copying, CopyingWork, Marking, MarkingWork
<1>2. ASSUME NEW x \in Obj, ScavengeRemembered(x) PROVE Types' /\ Tabled' /\ Copying'
  <2>1. Copying
    BY <1>1, <1>2 DEF ScavengeRemembered
  <2> QED
    BY <1>2, <2>1, ScavengeRememberedKeeps
<1>3. CASE ScavengeRoots
  <2>1. Copying
    BY <1>1, <1>3 DEF ScavengeRoots
  <2> QED
    BY <1>3, <2>1, ScavengeRootsKeeps
<1>4. CASE TestScavengeLoop
  <2>1. Copying
    BY <1>1, <1>4 DEF TestScavengeLoop
  <2> QED
    BY <1>4, <2>1, TestScavengeLoopKeeps
<1>5. CASE ScavengeToSpace
  <2>1. Copying
    BY <1>1, <1>5 DEF ScavengeToSpace
  <2> QED
    BY <1>5, <2>1, ScavengeToSpaceKeeps
<1>6. CASE ProcessTenureStack
  <2>1. Copying
    BY <1>1, <1>6 DEF ProcessTenureStack
  <2> QED
    BY <1>6, <2>1, ProcessTenureStackKeeps
<1>7. CASE ScavengeEphemeronList
  <2>1. Copying
    BY <1>1, <1>7 DEF ScavengeEphemeronList
  <2> QED
    BY <1>7, <2>1, ScavengeEphemeronListKeeps
<1>8. CASE MournScavenge
  <2>1. Copying
    BY <1>1, <1>8 DEF MournScavenge
  <2> QED
    BY <1>8, <2>1, MournScavengeKeeps
<1>9. CASE ProcessMarkStack
  <2>1. Marking
    BY <1>1, <1>9 DEF ProcessMarkStack
  <2> QED
    BY <1>9, <2>1, ProcessMarkStackKeeps
<1>10. CASE MarkEphemeronList
  <2>1. Marking
    BY <1>1, <1>10 DEF MarkEphemeronList
  <2> QED
    BY <1>10, <2>1, MarkEphemeronListKeeps
<1>11. CASE MournAndSweep
  <2>1. Marking
    BY <1>1, <1>11 DEF MournAndSweep
  <2> QED
    BY <1>11, <2>1, MournAndSweepKeeps
<1> QED
  BY <1>2, <1>3, <1>4, <1>5, <1>6, <1>7, <1>8, <1>9, <1>10, <1>11 DEF Collecting

LEMMA StutterKeeps == IInv /\ UNCHANGED vars => IInv'
<1> SUFFICES ASSUME IInv, UNCHANGED vars PROVE IInv'
  OBVIOUS
<1> USE DEF vars, graph, remembered, gcVars, work, lists, ghosts
<1>1. \A y : Slots(y)' = Slots(y) /\ Slot(y)' = Slot(y) /\ ClassOf(y)' = ClassOf(y)
  BY DEF Slots, IsEphemeron, Slot, ClassOf
<1>2. /\ InUse' = InUse /\ Old' = Old /\ Remembered' = Remembered
      /\ Works' = Works /\ Lists' = Lists /\ Waiting' = Waiting
  BY DEF InUse, Old, Remembered, Works, Lists, Waiting
<1>3. Types'
  BY <1>1 DEF IInv, Types
<1>4. Tabled'
  BY <1>2 DEF IInv, Tabled, Registered, IsBehavior
<1>5. \A y : /\ (Noted(y)' <=> Noted(y)) /\ (Traced(y)' <=> Traced(y))
             /\ (Reached(y)' <=> Reached(y))
  BY <1>1 DEF Noted, NewTarget, NewClass, Traced, Reached, IsMarkSweepSurvivor
<1>6. Settled' <=> Settled
  BY <1>1, <1>2 DEF Settled, Valid
<1>7. Leading' <=> Leading
  BY <1>1, <1>2 DEF Leading, Leads, Valid
<1>8. Apart' <=> Apart
  BY <1>2 DEF Apart, IsWeakArray, IsEphemeron
<1>9. CASE Idle
  <2>1. Idle'
    BY <1>2, <1>5, <1>6, <1>9 DEF Idle
  <2> QED
    BY <1>3, <1>4, <2>1 DEF IInv
<1>10. CASE Copying
  <2>1. Copying'
    BY <1>2, <1>5, <1>7, <1>8, <1>10 DEF Copying, CopyingWork, CopyingDone
  <2> QED
    BY <1>3, <1>4, <2>1 DEF IInv
<1>11. CASE Marking
  <2>1. Marking'
    BY <1>2, <1>5, <1>6, <1>8, <1>11 DEF Marking, MarkingWork, MarkingDone
  <2> QED
    BY <1>3, <1>4, <2>1 DEF IInv
<1> QED
  BY <1>9, <1>10, <1>11 DEF IInv

LEMMA StepKeeps == IInv /\ [Next]_vars => IInv'
<1> SUFFICES ASSUME IInv, [Next]_vars PROVE IInv'
  OBVIOUS
<1>1. Types /\ Tabled /\ (Idle \/ Copying \/ Marking)
  BY DEF IInv
<1>2. CASE Running /\ (Allocating \/ Mutating \/ Starting) /\ kind' = kind
  <2>1. Idle
    BY <1>2, RunningIsIdle
  <2>2. Types' /\ Tabled' /\ (Idle' \/ Copying' \/ Marking')
    BY <1>1, <1>2, <2>1, ProgramKeeps
  <2> QED
    BY <2>2 DEF IInv
<1>3. CASE Collecting /\ kind' = kind
  <2>1. Types' /\ Tabled' /\ (Idle' \/ Copying' \/ Marking')
    BY <1>1, <1>3, CollectionKeeps
  <2> QED
    BY <2>1 DEF IInv
<1>4. CASE UNCHANGED vars
  BY <1>4, StutterKeeps
<1> QED
  BY <1>2, <1>3, <1>4 DEF Next

LEMMA Invariant == Spec => []IInv
<1> QED
  BY InitIdle, StepKeeps, PTL DEF Spec

-----------------------------------------------------------------------------
(* Whenever the program runs, every pointer in an object, alive or garbage, on  *)
(* the stack and in the class table leads to an object that is there: no step   *)
(* of either collector, nor become, leaves one behind (heap.cc:535-1057).       *)
THEOREM HeapIsSound == Spec => []HeapSound
<1>1. IInv => HeapSound
  <2> SUFFICES ASSUME IInv PROVE HeapSound
    OBVIOUS
  <2>1. TypeOK
    <3>1. Types
      BY DEF IInv
    <3>2. place \in [Obj -> {"free", "from", "to", "old"}]
      BY <3>1 DEF Types, Location
    <3>3. field \in [Obj -> UNION {[S -> Ptr \cup {Nil}] : S \in {{1}, {1, 2}}}]
      BY <3>1 DEF Types, Contents
    <3>4. \A x \in Obj : DOMAIN field[x] = Slots(x)
      BY <3>1 DEF Types
    <3> QED
      BY <3>1, <3>2, <3>3, <3>4 DEF Types, TypeOK, Phase
  <2>2. Running => Settled
    BY RunningIsIdle DEF Idle
  <2> QED
    BY <2>1, <2>2 DEF HeapSound, Settled, Slot
<1> QED
  BY <1>1, Invariant, PTL

(* An old object that points to a new one, or whose class is new, is in the     *)
(* remembered set, once, and between collections the header bit says who is     *)
(* there.  Only objects that were themselves given a new class while they were  *)
(* old can have a class the set does not know of (heap.h:150-151,               *)
(* object.h:267-271).                                                         *)
THEOREM RememberedIsExact == Spec => []RememberedExact
<1>1. IInv => RememberedExact
  <2> SUFFICES ASSUME IInv PROVE RememberedExact
    OBVIOUS
  <2>1. \A x \in Obj : rset[x] < 2
    BY DEF IInv, Idle, Copying, CopyingDone, Marking, MarkingDone
  <2>2. ASSUME Running, NEW x \in Old,
               NEW p \in Slot(x) \cup (IF x \in Unbarriered THEN {} ELSE ClassOf(x)),
               IsNewObject(p)
        PROVE  rset[x] > 0
    <3>1. Idle /\ Noted(x) /\ x \in Obj
      BY <2>2, RunningIsIdle DEF Idle, Old
    <3>2. CASE p \in Slot(x)
      BY <2>2, <3>1, <3>2 DEF Noted, NewTarget, Slot
    <3>3. CASE p \in ClassOf(x) /\ x \notin Unbarriered
      <4>1. cid[x] # 0 /\ cid[x] \in Cid /\ p = class_table_[cid[x]]
        BY <3>1, <3>3 DEF ClassOf, IInv, Types
      <4>2. Valid(p) /\ p # Nil /\ p.at # "old"
        BY <2>2, <3>1, <4>1 DEF Idle, Settled, IsNewObject
      <4> QED
        BY <3>1, <3>3, <4>1, <4>2 DEF Noted, NewClass, Valid
    <3> QED
      BY <3>2, <3>3
  <2>3. Running => rbits = {x \in Obj : rset[x] > 0} /\ rbits \subseteq Old
    BY RunningIsIdle DEF Idle, Remembered
  <2> QED
    BY <2>1, <2>2, <2>3 DEF RememberedExact
<1> QED
  BY <1>1, Invariant, PTL

(* Every object has the class its class id says, and the class carries that id,  *)
(* through both collectors, which hold the class table weakly, and through       *)
(* become (heap.cc:591-1153).  Only an object that was itself given a new class   *)
(* while it was old can lose it: the classes of others are safe from its loss.    *)
THEOREM ClassesAreSound == Spec => []ClassesSound
<1>1. IInv => ClassesSound
  <2> SUFFICES ASSUME IInv, Running, NEW x \in InUse \ Unbarriered, cid[x] # 0
               PROVE  LET p == class_table_[cid[x]]
                      IN  p # Nil /\ IsBehavior(p.o) /\ id[p.o] = cid[x]
    BY DEF ClassesSound, ClassSound
  <2>1. cid[x] \in Cid /\ class_table_[cid[x]] # Nil
    BY DEF IInv, Types, Tabled, InUse
  <2> QED
    BY <2>1 DEF IInv, Tabled, Registered
<1> QED
  BY <1>1, Invariant, PTL

(* After a become every instance has the class it had, or the one its class was *)
(* forwarded to, whichever class ids that moved around (heap.cc:1237-1277).     *)
THEOREM BecomeKeepsEveryClass == Spec => BecomeKeepsClasses
<1> DEFINE Kept == Running /\ (\E x \in InUse : place'[x] = "free") =>
      \A to \in Forwardings : BecomeForward(to) =>
       \A x \in InUse \ DOMAIN to : cid[x] # 0 =>
          /\ cid'[x] # 0
          /\ class_table_'[cid'[x]] = Followed(class_table_[cid[x]], to)
<1>1. IInv /\ [Next]_vars => [Kept]_vars
  <2> SUFFICES ASSUME IInv, Next, Running, NEW to, BecomeForward(to)
               PROVE  \A x \in InUse \ DOMAIN to : cid[x] # 0 =>
                        /\ cid'[x] # 0
                        /\ class_table_'[cid'[x]] = Followed(class_table_[cid[x]], to)
    OBVIOUS
  <2>1. Types /\ Tabled /\ Idle /\ kind' = kind
    BY RunningIsIdle DEF IInv, Next
  <2> QED
    BY <2>1, BecomeKeeps
<1> QED
  BY <1>1, Invariant, PTL DEF Spec, BecomeKeepsClasses
=================================================================================
