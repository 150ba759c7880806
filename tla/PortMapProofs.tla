------------------------------ MODULE PortMapProofs ------------------------------
(***************************************************************************)
(* Proofs about PortMap, for any ports, loops and sequences of operations: a  *)
(* probe always ends, and what FindPort finds is what was put there.          *)
(***************************************************************************)
EXTENDS PortMap, FiniteSetTheorems, WellFoundedInduction, TLAPS

(* A place in a probe for p in a table of n slots.                            *)
At(p, n, k) == ((p % n) + k) % n

Entry == [port : Port, loop : Loop]
Typed(m, n) == m \in [0..(n - 1) -> Entry \cup {Free, Tombstone}]

Live(m)  == {i \in DOMAIN m : m[i].port # IllegalPort}
Tombs(m) == {i \in DOMAIN m : m[i] = Tombstone}

(* A probe for p comes to slot At(p, n, d), which has it, and not to another     *)
(* one with p nor to one that was never used.                                *)
Reaches(m, n, p, d) ==
  /\ m[At(p, n, d)].port = p
  /\ \A k \in 0..(d - 1) : m[At(p, n, k)].loop # None /\ m[At(p, n, k)].port # p
Probed(m, n) ==
  \A i \in Live(m) : \E d \in 0..(n - 1) : At(m[i].port, n, d) = i /\ Reaches(m, n, m[i].port, d)

-----------------------------------------------------------------------------
(* Arithmetic of the probe.                                                  *)

LEMMA Remainders ==
  ASSUME NEW n \in Nat \ {0}
  PROVE  /\ \A a \in Int : a % n \in 0..(n - 1)
         /\ \A a \in 0..(n - 1) : a % n = a
         /\ \A a \in 0..(n - 1), k \in 0..(n - 1) :
              (a + k) % n = IF a + k < n THEN a + k ELSE a + k - n
OBVIOUS

LEMMA Places ==
  ASSUME NEW n \in Nat \ {0}, NEW p \in Int
  PROVE  /\ \A k \in 0..(n - 1) : At(p, n, k) \in 0..(n - 1)
         /\ \A k, j \in 0..(n - 1) : At(p, n, k) = At(p, n, j) => k = j
         /\ \A i \in 0..(n - 1) : \E k \in 0..(n - 1) : At(p, n, k) = i
<1> DEFINE a == p % n
<1>1. a \in 0..(n - 1)
  BY Remainders
<1>2. \A k \in 0..(n - 1) : At(p, n, k) = IF a + k < n THEN a + k ELSE a + k - n
  BY <1>1, Remainders DEF At
<1> HIDE DEF a
<1>3. ASSUME NEW i \in 0..(n - 1) PROVE \E k \in 0..(n - 1) : At(p, n, k) = i
  <2>1. CASE i >= a
    <3>1. i - a \in 0..(n - 1) /\ At(p, n, i - a) = i
      BY <1>1, <1>2, <2>1
    <3> QED
      BY <3>1
  <2>2. CASE i < a
    <3>1. i + n - a \in 0..(n - 1) /\ At(p, n, i + n - a) = i
      BY <1>1, <1>2, <2>2
    <3> QED
      BY <3>1
  <2> QED
    BY <1>1, <2>1, <2>2
<1> QED
  BY <1>1, <1>2, <1>3

(* The least of a set of numbers.                                            *)
LEMMA SmallestNat ==
  ASSUME NEW S \in SUBSET Nat, S # {}
  PROVE  Min(S) \in S /\ \A n \in S : Min(S) <= n
<1> DEFINE R == OpToRel(<, Nat)
<1>1. IsWellFoundedOn(R, Nat)
  BY NatLessThanWellFounded
<1>2. \E m \in S : \A n \in S : ~(<<n, m>> \in R)
  <2> HIDE DEF R
  <2> QED
    BY <1>1, WFMin
<1>3. \A m, n \in Nat : n < m => <<n, m>> \in R
  BY DEF OpToRel
<1> HIDE DEF R
<1>4. PICK m \in S : \A n \in S : ~(<<n, m>> \in R)
  BY <1>2
<1>5. \A n \in S : m \in Nat /\ n \in Nat /\ ~(n < m)
  BY <1>3, <1>4
<1>6. \E x \in S : \A n \in S : x <= n
  BY <1>5
<1> QED
  BY <1>6 DEF Min

LEMMA Constants ==
  /\ \A p \in Port : p \in Int /\ p # IllegalPort
  /\ IllegalPort = 0 /\ Free.port = 0 /\ Free.loop = None /\ Tombstone.port = 0
  /\ Tombstone.loop = DeletedEntry /\ Free # Tombstone
  /\ None \notin Loop /\ DeletedEntry \notin Loop /\ None # DeletedEntry
  /\ \A e \in Entry : e.port \in Port /\ e.loop \in Loop /\ e # Free /\ e # Tombstone
BY PortAssumption DEF PortAssumption, IllegalPort, Free, Tombstone, Entry

(* The slots of a table.                                                     *)
LEMMA Slots ==
  ASSUME NEW m, NEW n \in Nat \ {0}, Typed(m, n)
  PROVE  /\ DOMAIN m = 0..(n - 1)
         /\ Live(m) \subseteq 0..(n - 1) /\ Tombs(m) \subseteq 0..(n - 1)
         /\ \A i \in 0..(n - 1) :
              /\ i \in Live(m) => m[i] \in Entry /\ m[i].port \in Port /\ m[i].loop \in Loop
              /\ i \notin Live(m) => m[i] \in {Free, Tombstone} /\ m[i].port = IllegalPort
              /\ m[i].loop = None => m[i] = Free
              /\ i \in Tombs(m) => i \notin Live(m)
BY Constants DEF Typed, Live, Tombs

(* A port is in the table at most once.                                      *)
LEMMA Once ==
  ASSUME NEW m, NEW n \in Nat \ {0}, Typed(m, n), Probed(m, n),
         NEW i \in Live(m), NEW j \in Live(m), m[i].port = m[j].port
  PROVE  i = j
<1>1. PICK d \in 0..(n - 1) : At(m[i].port, n, d) = i /\ Reaches(m, n, m[i].port, d)
  BY DEF Probed
<1>2. PICK e \in 0..(n - 1) : At(m[i].port, n, e) = j /\ Reaches(m, n, m[i].port, e)
  BY DEF Probed
<1>3. CASE d < e
  BY <1>1, <1>2, <1>3 DEF Reaches
<1>4. CASE e < d
  BY <1>1, <1>2, <1>4 DEF Reaches
<1>5. CASE d = e
  BY <1>1, <1>2, <1>5
<1> QED
  BY <1>3, <1>4, <1>5

-----------------------------------------------------------------------------
(* FindPort finds a port where it is, and only there.                         *)
Table == capacity \in Nat \ {0} /\ Typed(map, capacity) /\ Probed(map, capacity)

LEMMA FindPortFinds ==
  ASSUME Table, NEW p \in Port
  PROVE  /\ \A i \in Live(map) : map[i].port = p =>
              /\ FindPort(p) = i /\ i \in Indices /\ RouteOf(p) = map[i].loop
         /\ (\A i \in Live(map) : map[i].port # p) => FindPort(p) = -1 /\ RouteOf(p) = None
<1> DEFINE stops == {k \in Indices : map[At(p, capacity, k)].loop = None \/ map[At(p, capacity, k)].port = p}
           last == At(p, capacity, Min(stops))
<1>1. FindPort(p) = IF stops # {} /\ map[last].port = p THEN last ELSE -1
  BY DEF FindPort, Home, At
<1>2. stops \in SUBSET Nat /\ stops \subseteq 0..(capacity - 1)
  BY DEF Indices, Table
<1>3. p \in Int /\ p # IllegalPort
  BY Constants
<1>4. \A k \in 0..(capacity - 1) : At(p, capacity, k) \in 0..(capacity - 1)
  BY <1>3, Places DEF Table
<1>5. ASSUME NEW i \in Live(map), map[i].port = p
      PROVE  FindPort(p) = i /\ i \in Indices /\ RouteOf(p) = map[i].loop
  <2>1. PICK d \in 0..(capacity - 1) : At(p, capacity, d) = i /\ Reaches(map, capacity, p, d)
    BY <1>5 DEF Table, Probed
  <2>2. d \in stops
    BY <1>5, <2>1 DEF Indices
  <2>3. \A k \in stops : ~(k \in 0..(d - 1))
    BY <2>1 DEF Reaches
  <2>4. Min(stops) \in stops /\ \A k \in stops : Min(stops) <= k
    <3> HIDE DEF stops
    <3> QED
      BY <1>2, <2>2, SmallestNat
  <2>5. Min(stops) = d
    <3> HIDE DEF stops
    <3>1. Min(stops) \in Nat /\ d \in Nat /\ Min(stops) <= d /\ ~(Min(stops) \in 0..(d - 1))
      BY <1>2, <2>2, <2>3, <2>4
    <3> QED
      BY <3>1
  <2>6. last = i /\ stops # {}
    BY <2>1, <2>2, <2>5
  <2>7. i \in Indices /\ i # -1
    BY <1>4, <2>1 DEF Indices, Table
  <2> HIDE DEF stops, last
  <2> QED
    BY <1>1, <1>5, <2>6, <2>7 DEF RouteOf
<1>6. ASSUME \A i \in Live(map) : map[i].port # p
      PROVE  FindPort(p) = -1 /\ RouteOf(p) = None
  <2>1. \A i \in 0..(capacity - 1) : map[i].port # p
    BY <1>3, <1>6, Slots DEF Table
  <2>2. stops # {} => last \in 0..(capacity - 1)
    <3>1. stops # {} => Min(stops) \in stops
      <4> HIDE DEF stops
      <4> QED
        BY <1>2, SmallestNat
    <3> QED
      BY <1>2, <1>4, <3>1
  <2> HIDE DEF stops, last
  <2> QED
    BY <1>1, <2>1, <2>2 DEF RouteOf
<1> QED
  BY <1>5, <1>6

(* What may change without hiding an entry: slots that hold no entry become     *)
(* others that are not free, or entries tombstones.                           *)
LEMMA Hides ==
  ASSUME NEW m, NEW n \in Nat \ {0}, NEW p \in Int, NEW d \in 0..(n - 1), Reaches(m, n, p, d),
         NEW w, w[At(p, n, d)].port = p,
         \A i \in 0..(n - 1) : m[i].loop # None /\ m[i].port # p => w[i].loop # None /\ w[i].port # p
  PROVE  Reaches(w, n, p, d)
<1>1. \A k \in 0..(d - 1) : k \in 0..(n - 1)
  OBVIOUS
<1>2. \A k \in 0..(d - 1) : At(p, n, k) \in 0..(n - 1)
  BY <1>1, Places
<1> QED
  BY <1>2 DEF Reaches

(* A new entry goes to the first slot of its probe without one.               *)
Inserts(m, n, e, j, w) ==
  /\ Typed(m, n) /\ Probed(m, n) /\ e \in Entry
  /\ \A i \in Live(m) : m[i].port # e.port
  /\ \E i \in 0..(n - 1) : i \notin Live(m)
  /\ j = FirstUnused(m, n, e.port % n) /\ w = [m EXCEPT ![j] = e]

Inserted(m, n, e, j, w) ==
  /\ j \in 0..(n - 1) /\ j \notin Live(m)
  /\ Typed(w, n) /\ Probed(w, n)
  /\ Live(w) = Live(m) \cup {j} /\ Tombs(w) = Tombs(m) \ {j}
  /\ w[j] = e /\ \A i \in 0..(n - 1) : i # j => w[i] = m[i]

LEMMA Inserting ==
  ASSUME NEW m, NEW n \in Nat \ {0}, NEW e, NEW j, NEW w, Inserts(m, n, e, j, w)
  PROVE  Inserted(m, n, e, j, w)
<1> USE DEF Inserts
<1> DEFINE p == e.port
           unused == {k \in 0..(n - 1) : m[At(p, n, k)].port = IllegalPort}
           d == Min(unused)
<1>1. e.port \in Port /\ e.port \in Int /\ e.port # IllegalPort /\ e.loop \in Loop /\ e.loop # None
  BY Constants
<1>2. /\ \A k \in 0..(n - 1) : At(p, n, k) \in 0..(n - 1)
      /\ \A k, l \in 0..(n - 1) : At(p, n, k) = At(p, n, l) => k = l
      /\ \A i \in 0..(n - 1) : \E k \in 0..(n - 1) : At(p, n, k) = i
  BY <1>1, Places
<1>3. unused # {}
  <2>1. PICK i \in 0..(n - 1) : i \notin Live(m)
    OBVIOUS
  <2>2. PICK k \in 0..(n - 1) : At(p, n, k) = i
    BY <1>2
  <2>3. k \in unused
    BY <2>1, <2>2, Slots
  <2> QED
    BY <2>3
<1>4. d \in unused /\ \A k \in unused : d <= k
  <2>1. unused \in SUBSET Nat
    OBVIOUS
  <2> HIDE DEF unused
  <2> QED
    BY <1>3, <2>1, SmallestNat
<1>5. j = At(p, n, d)
  BY DEF FirstUnused, At
<1>6. d \in 0..(n - 1) /\ m[At(p, n, d)].port = IllegalPort
      /\ \A k \in 0..(d - 1) : k \in 0..(n - 1) /\ m[At(p, n, k)].port # IllegalPort
  <2>1. d \in 0..(n - 1) /\ m[At(p, n, d)].port = IllegalPort
    BY <1>4
  <2>2. ASSUME NEW k \in 0..(d - 1) PROVE k \in 0..(n - 1) /\ k \notin unused
    <3>1. k \in 0..(n - 1) /\ ~(d <= k)
      BY <2>1
    <3> HIDE DEF unused, d
    <3> QED
      BY <1>4, <3>1
  <2> QED
    BY <2>1, <2>2
<1> HIDE DEF unused, d
<1>7. j \in 0..(n - 1) /\ m[j].port = IllegalPort /\ j \notin Live(m)
  BY <1>2, <1>5, <1>6 DEF Live
<1>8. /\ Typed(w, n) /\ w[j] = e /\ \A i \in 0..(n - 1) : i # j => w[i] = m[i]
      /\ DOMAIN m = 0..(n - 1) /\ DOMAIN w = 0..(n - 1)
  BY <1>7 DEF Typed
<1>9. Live(w) = Live(m) \cup {j} /\ Tombs(w) = Tombs(m) \ {j}
  BY <1>1, <1>7, <1>8, Constants DEF Live, Tombs
<1>10. Reaches(w, n, p, d)
  <2>1. w[At(p, n, d)].port = p
    BY <1>5, <1>8
  <2>2. ASSUME NEW k \in 0..(d - 1) PROVE w[At(p, n, k)].loop # None /\ w[At(p, n, k)].port # p
    <3>1. k \in 0..(n - 1) /\ k # d /\ m[At(p, n, k)].port # IllegalPort
      BY <1>6
    <3>2. At(p, n, k) \in 0..(n - 1) /\ At(p, n, k) # j /\ w[At(p, n, k)] = m[At(p, n, k)]
      BY <1>2, <1>5, <1>6, <1>8, <3>1
    <3>3. At(p, n, k) \in Live(m)
      BY <1>8, <3>1, <3>2 DEF Live
    <3> QED
      BY <3>2, <3>3, Slots, Constants
  <2> QED
    BY <2>1, <2>2 DEF Reaches
<1>11. ASSUME NEW i \in Live(m)
       PROVE  \E k \in 0..(n - 1) : At(w[i].port, n, k) = i /\ Reaches(w, n, w[i].port, k)
  <2>1. i \in 0..(n - 1) /\ i # j /\ w[i] = m[i] /\ m[i].port \in Port /\ m[i].port \in Int
    BY <1>7, <1>8, Slots, Constants
  <2>2. PICK k \in 0..(n - 1) : At(m[i].port, n, k) = i /\ Reaches(m, n, m[i].port, k)
    BY DEF Probed
  <2>3. \A h \in 0..(n - 1) : m[h].loop # None /\ m[h].port # m[i].port
                                => w[h].loop # None /\ w[h].port # m[i].port
    BY <1>1, <1>8
  <2>4. Reaches(w, n, m[i].port, k)
    BY <2>1, <2>2, <2>3, Hides
  <2> QED
    BY <2>1, <2>2, <2>4
<1>12. Probed(w, n)
  BY <1>5, <1>6, <1>8, <1>9, <1>10, <1>11 DEF Probed
<1> QED
  BY <1>7, <1>8, <1>9, <1>12 DEF Inserted

(* Entries that are closed become tombstones.                                 *)
Buries(m, n, S, w) ==
  /\ Typed(m, n) /\ Probed(m, n) /\ S \subseteq Live(m)
  /\ w = [i \in 0..(n - 1) |-> IF i \in S THEN Tombstone ELSE m[i]]

Buried(m, n, S, w) ==
  /\ Typed(w, n) /\ Probed(w, n)
  /\ Live(w) = Live(m) \ S /\ Tombs(w) = Tombs(m) \cup S
  /\ \A i \in Live(w) : w[i] = m[i]

LEMMA Burying ==
  ASSUME NEW m, NEW n \in Nat \ {0}, NEW S, NEW w, Buries(m, n, S, w)
  PROVE  Buried(m, n, S, w)
<1> USE DEF Buries
<1>1. /\ Typed(w, n) /\ DOMAIN m = 0..(n - 1) /\ DOMAIN w = 0..(n - 1)
      /\ \A i \in 0..(n - 1) : w[i] = IF i \in S THEN Tombstone ELSE m[i]
  BY DEF Typed
<1>2. Live(w) = Live(m) \ S /\ Tombs(w) = Tombs(m) \cup S
  BY <1>1, Constants DEF Live, Tombs
<1>3. ASSUME NEW i \in Live(w)
      PROVE  \E k \in 0..(n - 1) : At(w[i].port, n, k) = i /\ Reaches(w, n, w[i].port, k)
  <2>1. i \in Live(m) /\ i \in 0..(n - 1) /\ w[i] = m[i] /\ m[i].port \in Port
        /\ m[i].port \in Int /\ m[i].port # IllegalPort
    BY <1>1, <1>2, <1>3, Slots, Constants
  <2>2. PICK k \in 0..(n - 1) : At(m[i].port, n, k) = i /\ Reaches(m, n, m[i].port, k)
    BY <2>1 DEF Probed
  <2>3. \A h \in 0..(n - 1) : m[h].loop # None /\ m[h].port # m[i].port
                                => w[h].loop # None /\ w[h].port # m[i].port
    BY <1>1, <2>1, Constants
  <2>4. Reaches(w, n, m[i].port, k)
    BY <2>1, <2>2, <2>3, Hides
  <2> QED
    BY <2>1, <2>2, <2>4
<1>4. Probed(w, n)
  BY <1>3 DEF Probed
<1>5. \A i \in Live(w) : w[i] = m[i]
  BY <1>1, <1>2, Slots
<1> QED
  BY <1>1, <1>2, <1>4, <1>5 DEF Buried

-----------------------------------------------------------------------------
(* Rehash.                                                                   *)

(* The loop of Rehash, one entry at a time.                                   *)
LEMMA RehashInSteps ==
  ASSUME NEW m, NEW n, capacity \in Nat
  PROVE  \E upTo : /\ Rehash(m, n) = upTo[capacity]
                   /\ upTo[0] = EmptyMap(n)
                   /\ \A k \in 1..capacity : upTo[k] = Entered(upTo[k - 1], n, m[k - 1])
<1> DEFINE Step(f, k) == IF k = 0 THEN EmptyMap(n) ELSE Entered(f[k - 1], n, m[k - 1])
           Moves(f, k) == f = [i \in 0..k |-> Step(f, i)]
           missing == {k \in 0..capacity : ~\E f : Moves(f, k)}
<1>1. missing = {}
  <2> SUFFICES ASSUME missing # {} PROVE FALSE
    OBVIOUS
  <2>1. missing \in SUBSET Nat
    OBVIOUS
  <2>2. PICK k \in missing : \A j \in missing : k <= j
    <3> HIDE DEF missing
    <3> QED
      BY <2>1, SmallestNat
  <2>3. k \in 0..capacity /\ ~\E f : Moves(f, k)
    BY <2>2
  <2>4. k # 0
    <3> SUFFICES ASSUME k = 0 PROVE FALSE
      OBVIOUS
    <3> DEFINE first == [i \in 0..0 |-> EmptyMap(n)]
    <3>1. Moves(first, 0)
      OBVIOUS
    <3> HIDE DEF Moves, first
    <3> QED
      BY <2>3, <3>1
  <2>5. k - 1 \in 0..capacity /\ k - 1 \notin missing
    <3>1. k \in Nat /\ k - 1 \in 0..capacity /\ ~(k <= k - 1)
      BY <2>3, <2>4
    <3> HIDE DEF missing
    <3> QED
      BY <2>2, <3>1
  <2>6. PICK f : Moves(f, k - 1)
    <3> HIDE DEF Moves
    <3> QED
      BY <2>5
  <2> DEFINE g == [i \in 0..k |-> IF i = k THEN Step(f, k) ELSE f[i]]
  <2>7. \A i \in 0..k : Step(g, i) = Step(f, i)
    <3>1. \A i \in 0..k : i # 0 => i - 1 \in 0..k /\ i - 1 # k
      BY <2>3
    <3>2. \A i \in 0..k : i # 0 => g[i - 1] = f[i - 1]
      BY <3>1
    <3> HIDE DEF g
    <3> QED
      BY <3>2
  <2>8. \A i \in 0..k : g[i] = Step(f, i)
    <3>1. \A i \in 0..(k - 1) : f[i] = Step(f, i)
      BY <2>6
    <3>2. \A i \in 0..k : i # k => i \in 0..(k - 1)
      BY <2>3
    <3> HIDE DEF Step
    <3> QED
      BY <3>1, <3>2
  <2>9. Moves(g, k)
    <3>1. \A i \in 0..k : g[i] = Step(g, i)
      <4> HIDE DEF Step, g
      <4> QED
        BY <2>7, <2>8
    <3>2. g = [i \in 0..k |-> g[i]]
      OBVIOUS
    <3> HIDE DEF Step, g
    <3> QED
      BY <3>1, <3>2
  <2> HIDE DEF g, Moves
  <2> QED
    BY <2>3, <2>9
<1> DEFINE upTo == CHOOSE f : Moves(f, capacity)
<1>2. Moves(upTo, capacity)
  <2>1. capacity \in 0..capacity
    OBVIOUS
  <2>2. PICK f : Moves(f, capacity)
    <3> HIDE DEF Moves
    <3> QED
      BY <1>1, <2>1
  <2> HIDE DEF Moves
  <2> QED
    BY <2>2
<1>3. Rehash(m, n) = upTo[capacity]
  BY DEF Rehash
<1> HIDE DEF upTo
<1>4. upTo[0] = EmptyMap(n) /\ \A k \in 1..capacity : upTo[k] = Entered(upTo[k - 1], n, m[k - 1])
  <2>1. \A k \in 0..capacity : upTo[k] = Step(upTo, k)
    BY <1>2
  <2>2. 0 \in 0..capacity /\ \A k \in 1..capacity : k \in 0..capacity /\ k # 0
    OBVIOUS
  <2> QED
    BY <2>1, <2>2
<1> QED
  BY <1>3, <1>4

(* The entries that stay in the table when it is moved to n slots: those whose  *)
(* index is not negative.                                                    *)
Stays(m, n) == {i \in Live(m) : SignedRemainder(m[i].port, n) >= 0}

(* What Rehash has done when it comes to slot k.                              *)
Moved(new, m, n, k) ==
  /\ Typed(new, n) /\ Probed(new, n) /\ Tombs(new) = {}
  /\ \A i \in Live(new) : \E j \in Stays(m, n) : j < k /\ new[i] = m[j]
  /\ \A j \in Stays(m, n) : j < k => \E i \in Live(new) : new[i] = m[j]
  /\ Cardinality(Live(new)) <= k
  /\ Cardinality(Live(new)) = Cardinality({j \in Stays(m, n) : j < k})

LEMMA Signed ==
  ASSUME NEW p \in Int, NEW n \in Nat \ {0}
  PROVE  /\ SignedRemainder(p, n) >= 0 => SignedRemainder(p, n) = p % n
         /\ p >= 0 => SignedRemainder(p, n) >= 0
         /\ SignedRemainder(p, n) \in Int
<1>1. p % n \in 0..(n - 1)
  BY Remainders
<1> QED
  BY <1>1 DEF SignedRemainder

LEMMA Emptied ==
  ASSUME NEW n \in Nat \ {0}
  PROVE  /\ Typed(EmptyMap(n), n) /\ Probed(EmptyMap(n), n) /\ Tombs(EmptyMap(n)) = {}
         /\ Live(EmptyMap(n)) = {}
<1>1. /\ DOMAIN EmptyMap(n) = 0..(n - 1) /\ \A i \in 0..(n - 1) : EmptyMap(n)[i] = Free
      /\ Typed(EmptyMap(n), n)
  BY DEF EmptyMap, Typed
<1>2. Live(EmptyMap(n)) = {} /\ Tombs(EmptyMap(n)) = {}
  BY <1>1, Constants DEF Live, Tombs
<1> QED
  BY <1>1, <1>2 DEF Probed

(* One step of the loop.                                                     *)
LEMMA Entering ==
  ASSUME capacity \in Nat \ {0}, NEW m, Typed(m, capacity), Probed(m, capacity),
         NEW n \in Nat \ {0}, n >= capacity, NEW k \in 1..capacity,
         NEW new, Moved(new, m, n, k - 1)
  PROVE  Moved(Entered(new, n, m[k - 1]), m, n, k)
<1> DEFINE e == m[k - 1]
           w == Entered(new, n, e)
           before == {j \in Stays(m, n) : j < k - 1}
           upto == {j \in Stays(m, n) : j < k}
<1>1. k - 1 \in 0..(capacity - 1) /\ k - 1 \in Nat /\ k \in Nat /\ k - 1 < k
  OBVIOUS
<1>2. /\ Live(m) \subseteq 0..(capacity - 1) /\ Live(new) \subseteq 0..(n - 1)
      /\ (k - 1 \in Live(m) => e \in Entry /\ e.port \in Port /\ e.port \in Int)
      /\ (k - 1 \notin Live(m) => e.port = IllegalPort)
      /\ (k - 1 \in Live(m) => e.port # IllegalPort)
  BY <1>1, Slots, Constants DEF Moved
<1>3. /\ IsFiniteSet(before) /\ IsFiniteSet(upto) /\ IsFiniteSet(Live(new))
      /\ (k - 1 \in Stays(m, n) => upto = before \cup {k - 1} /\ k - 1 \notin before)
      /\ (k - 1 \notin Stays(m, n) => upto = before)
  <2>1. IsFiniteSet(0..(capacity - 1)) /\ IsFiniteSet(0..(n - 1))
    <3>1. 0 \in Int /\ capacity - 1 \in Int /\ n - 1 \in Int
      OBVIOUS
    <3> QED
      BY <3>1, FS_Interval
  <2>2. before \subseteq 0..(capacity - 1) /\ upto \subseteq 0..(capacity - 1)
    BY <1>2 DEF Stays
  <2>3. \A j \in Stays(m, n) : j \in Int /\ (j < k <=> (j < k - 1 \/ j = k - 1))
    BY <1>2 DEF Stays
  <2>4. /\ (k - 1 \in Stays(m, n) => upto = before \cup {k - 1} /\ k - 1 \notin before)
        /\ (k - 1 \notin Stays(m, n) => upto = before)
    BY <1>1, <2>3
  <2> HIDE DEF before, upto
  <2> QED
    BY <1>2, <2>1, <2>2, <2>4, FS_Subset
<1>4. \A j \in Stays(m, n) : j \in Live(m) /\ j \in Int /\ (j < k <=> (j < k - 1 \/ j = k - 1))
  BY <1>2 DEF Stays
<1>5. CASE k - 1 \notin Stays(m, n)
  <2>1. w = new
    <3>1. k - 1 \in Live(m) => SignedRemainder(e.port, n) < 0
      <4> SUFFICES ASSUME k - 1 \in Live(m) PROVE SignedRemainder(e.port, n) < 0
        OBVIOUS
      <4>1. SignedRemainder(e.port, n) \in Int
        BY <1>2, Signed
      <4>2. ~(SignedRemainder(e.port, n) >= 0)
        BY <1>5 DEF Stays
      <4> QED
        BY <4>1, <4>2
    <3> QED
      BY <1>2, <3>1 DEF Entered
  <2>2. \A j \in Stays(m, n) : j < k <=> j < k - 1
    BY <1>4, <1>5
  <2>3. upto = before
    BY <1>3, <1>5
  <2>4. Cardinality(Live(new)) <= k
    <3>1. Cardinality(Live(new)) \in Nat /\ Cardinality(Live(new)) <= k - 1
      BY <1>3, FS_CardinalityType DEF Moved
    <3> QED
      BY <1>1, <3>1
  <2>5. Cardinality(Live(new)) = Cardinality(upto)
    BY <2>3 DEF Moved
  <2>6. /\ \A i \in Live(new) : \E j \in Stays(m, n) : j < k /\ new[i] = m[j]
        /\ \A j \in Stays(m, n) : j < k => \E i \in Live(new) : new[i] = m[j]
    BY <2>2 DEF Moved
  <2>7. Typed(new, n) /\ Probed(new, n) /\ Tombs(new) = {}
    BY DEF Moved
  <2>8. Moved(new, m, n, k)
    BY <2>4, <2>5, <2>6, <2>7 DEF Moved
  <2> HIDE DEF w
  <2> QED
    BY <2>1, <2>8 DEF w
<1>6. CASE k - 1 \in Stays(m, n)
  <2> DEFINE j0 == FirstUnused(new, n, e.port % n)
  <2>1. k - 1 \in Live(m) /\ e \in Entry /\ e.port \in Port /\ e.port \in Int /\ e.port # IllegalPort
    BY <1>2, <1>6 DEF Stays
  <2>2. w = [new EXCEPT ![j0] = e]
    <3>1. SignedRemainder(e.port, n) = e.port % n /\ SignedRemainder(e.port, n) >= 0 /\ SignedRemainder(e.port, n) \in Int
      BY <1>6, <2>1, Signed DEF Stays
    <3> QED
      BY <2>1, <3>1 DEF Entered
  <2>3. ASSUME NEW i \in Live(new) PROVE new[i].port # e.port
    <3>1. PICK j \in Stays(m, n) : j < k - 1 /\ new[i] = m[j]
      BY DEF Moved
    <3>2. j \in Live(m) /\ j # k - 1
      BY <1>4, <3>1
    <3> QED
      BY <2>1, <3>1, <3>2, Once
  <2>4. \E i \in 0..(n - 1) : i \notin Live(new)
    <3> SUFFICES ASSUME 0..(n - 1) \subseteq Live(new) PROVE FALSE
      OBVIOUS
    <3>1. Live(new) = 0..(n - 1)
      BY <1>2
    <3>2. Cardinality(0..(n - 1)) = n
      <4>1. 0 \in Int /\ n - 1 \in Int /\ ~(0 > n - 1) /\ (n - 1) - 0 + 1 = n
        OBVIOUS
      <4>2. Cardinality(0..(n - 1)) = IF 0 > n - 1 THEN 0 ELSE (n - 1) - 0 + 1
        BY <4>1, FS_Interval
      <4> QED
        BY <4>1, <4>2
    <3>3. Cardinality(Live(new)) <= k - 1
      BY DEF Moved
    <3> QED
      BY <3>1, <3>2, <3>3
  <2> HIDE DEF e, w, j0
  <2>5. /\ j0 \in 0..(n - 1) /\ j0 \notin Live(new) /\ Typed(w, n) /\ Probed(w, n)
        /\ Live(w) = Live(new) \cup {j0} /\ Tombs(w) = Tombs(new) \ {j0}
        /\ w[j0] = e /\ \A i \in 0..(n - 1) : i # j0 => w[i] = new[i]
    <3>1. Typed(new, n) /\ Probed(new, n)
      BY DEF Moved
    <3>2. j0 = FirstUnused(new, n, e.port % n)
      BY DEF j0
    <3>3. \A i \in Live(new) : new[i].port # e.port
      BY <2>3
    <3>4. Inserts(new, n, e, j0, w)
      BY <2>1, <2>2, <2>4, <3>1, <3>2, <3>3 DEF Inserts
    <3>5. Inserted(new, n, e, j0, w)
      BY <3>4, Inserting
    <3> QED
      BY <3>5 DEF Inserted
  <2>6. Tombs(w) = {}
    BY <2>5 DEF Moved
  <2>7. \A i \in Live(w) : \E j \in Stays(m, n) : j < k /\ w[i] = m[j]
    <3>1. w[j0] = m[k - 1]
      BY <2>5 DEF e
    <3>2. ASSUME NEW i \in Live(new) PROVE \E j \in Stays(m, n) : j < k /\ w[i] = m[j]
      <4>1. PICK j \in Stays(m, n) : j < k - 1 /\ new[i] = m[j]
        BY DEF Moved
      <4>2. w[i] = new[i] /\ j < k
        BY <1>2, <1>4, <2>5, <4>1
      <4> QED
        BY <4>1, <4>2
    <3> QED
      BY <1>1, <1>6, <2>5, <3>1, <3>2
  <2>8. \A j \in Stays(m, n) : j < k => \E i \in Live(w) : w[i] = m[j]
    <3> SUFFICES ASSUME NEW j \in Stays(m, n), j < k PROVE \E i \in Live(w) : w[i] = m[j]
      OBVIOUS
    <3>1. CASE j = k - 1
      BY <2>5, <3>1 DEF e
    <3>2. CASE j < k - 1
      <4>1. PICK i \in Live(new) : new[i] = m[j]
        BY <3>2 DEF Moved
      <4>2. i \in Live(w) /\ w[i] = new[i]
        BY <1>2, <2>5
      <4> QED
        BY <4>1, <4>2
    <3> QED
      BY <1>4, <3>1, <3>2
  <2>9. Cardinality(Live(w)) = Cardinality(Live(new)) + 1
    BY <1>3, <2>5, FS_AddElement
  <2>10. Cardinality(Live(w)) <= k
    <3>1. Cardinality(Live(new)) \in Nat /\ Cardinality(Live(new)) <= k - 1
      BY <1>3, FS_CardinalityType DEF Moved
    <3> QED
      BY <1>1, <2>9, <3>1
  <2>11. Cardinality(Live(w)) = Cardinality(upto)
    <3>1. Cardinality(upto) = Cardinality(before) + 1
      <4> HIDE DEF upto, before
      <4> QED
        BY <1>3, <1>6, FS_AddElement
    <3> QED
      BY <2>9, <3>1 DEF Moved
  <2> QED
    BY <2>5, <2>6, <2>7, <2>8, <2>10, <2>11 DEF Moved, w, e
<1> QED
  BY <1>5, <1>6

LEMMA Rehashed ==
  ASSUME capacity \in Nat \ {0}, NEW m, Typed(m, capacity), Probed(m, capacity),
         NEW n \in Nat \ {0}, n >= capacity
  PROVE  Moved(Rehash(m, n), m, n, capacity)
<1>1. PICK upTo : /\ Rehash(m, n) = upTo[capacity]
                  /\ upTo[0] = EmptyMap(n)
                  /\ \A k \in 1..capacity : upTo[k] = Entered(upTo[k - 1], n, m[k - 1])
  BY RehashInSteps
<1> DEFINE behind == {k \in 0..capacity : ~Moved(upTo[k], m, n, k)}
<1>2. Moved(upTo[0], m, n, 0)
  <2>1. Live(m) \subseteq 0..(capacity - 1)
    BY Slots
  <2>2. \A j \in Stays(m, n) : ~(j < 0)
    BY <2>1 DEF Stays
  <2>3. Live(EmptyMap(n)) = {} /\ {j \in Stays(m, n) : j < 0} = {} /\ Cardinality({}) = 0
    BY <2>2, Emptied, FS_EmptySet
  <2> QED
    BY <1>1, <2>2, <2>3, Emptied DEF Moved
<1>3. behind = {}
  <2> SUFFICES ASSUME behind # {} PROVE FALSE
    OBVIOUS
  <2>1. behind \in SUBSET Nat
    OBVIOUS
  <2>2. PICK k \in behind : \A j \in behind : k <= j
    <3> HIDE DEF behind
    <3> QED
      BY <2>1, SmallestNat
  <2>3. k \in 1..capacity
    BY <1>2, <2>2
  <2>4. k - 1 \in 0..capacity /\ k - 1 \notin behind
    <3>1. k - 1 \in 0..capacity /\ ~(k <= k - 1)
      BY <2>3
    <3> HIDE DEF behind
    <3> QED
      BY <2>2, <3>1
  <2>5. Moved(upTo[k - 1], m, n, k - 1)
    BY <2>4
  <2>6. Moved(Entered(upTo[k - 1], n, m[k - 1]), m, n, k)
    BY <2>3, <2>5, Entering
  <2>7. Moved(upTo[k], m, n, k)
    BY <1>1, <2>3, <2>6
  <2> QED
    BY <2>2, <2>7
<1> QED
  BY <1>1, <1>3

(* The table after a rehash has the entries that stay, and as many of them.     *)
LEMMA AfterRehash ==
  ASSUME capacity \in Nat \ {0}, NEW m, Typed(m, capacity), Probed(m, capacity),
         NEW n \in Nat \ {0}, n >= capacity, NEW w, w = Rehash(m, n)
  PROVE  /\ Typed(w, n) /\ Probed(w, n) /\ Tombs(w) = {}
         /\ \A i \in Live(w) : \E j \in Live(m) : w[i] = m[j]
         /\ ~RehashEscapes(m, n) => \A j \in Live(m) : \E i \in Live(w) : w[i] = m[j]
         /\ Cardinality(Live(w)) \in Nat /\ Cardinality(Live(w)) <= Cardinality(Live(m))
         /\ ~RehashEscapes(m, n) => Cardinality(Live(w)) = Cardinality(Live(m))
<1>1. Moved(w, m, n, capacity)
  BY Rehashed
<1>2. /\ Live(m) \subseteq 0..(capacity - 1) /\ Stays(m, n) \subseteq Live(m)
      /\ \A j \in Stays(m, n) : j < capacity
  BY Slots DEF Stays
<1>3. {j \in Stays(m, n) : j < capacity} = Stays(m, n)
  BY <1>2
<1>4. ~RehashEscapes(m, n) => Stays(m, n) = Live(m)
  <2> SUFFICES ASSUME ~RehashEscapes(m, n), NEW i \in Live(m) PROVE i \in Stays(m, n)
    BY <1>2
  <2>1. i \in Indices /\ m[i].port # IllegalPort /\ m[i].port \in Int
    BY <1>2, Slots, Constants DEF Indices
  <2>2. ~(SignedRemainder(m[i].port, n) < 0) /\ SignedRemainder(m[i].port, n) \in Int
    BY <2>1, Signed DEF RehashEscapes
  <2> QED
    BY <2>2 DEF Stays
<1>5. Cardinality(Stays(m, n)) \in Nat /\ Cardinality(Stays(m, n)) <= Cardinality(Live(m))
  <2>1. 0 \in Int /\ capacity - 1 \in Int
    OBVIOUS
  <2>2. IsFiniteSet(0..(capacity - 1))
    BY <2>1, FS_Interval
  <2>3. IsFiniteSet(Live(m))
    BY <1>2, <2>2, FS_Subset
  <2>4. IsFiniteSet(Stays(m, n)) /\ Cardinality(Stays(m, n)) <= Cardinality(Live(m))
    BY <1>2, <2>3, FS_Subset
  <2> QED
    BY <2>4, FS_CardinalityType
<1> QED
  BY <1>1, <1>2, <1>3, <1>4, <1>5 DEF Moved

-----------------------------------------------------------------------------
(* The invariant.                                                            *)

(* The counters are as MaintainInvariants leaves them: used_ counts at least     *)
(* the entries, and exactly them while Rehash has lost none; at most three      *)
(* quarters are used, and at most half of the rest are tombstones.              *)
Counted(m, u, d, exact) ==
  /\ u \in Nat /\ d \in Nat
  /\ Cardinality(Live(m)) <= u /\ (exact => Cardinality(Live(m)) = u)
  /\ Cardinality(Tombs(m)) = d

IInv ==
  /\ capacity \in Nat /\ capacity >= 4
  /\ Typed(map, capacity) /\ Probed(map, capacity)
  /\ Counted(map, used, deleted, ~outOfBounds)
  /\ used <= (capacity \div 4) * 3
  /\ deleted <= capacity - used - deleted
  /\ routed \in Loop \cup {None} /\ outOfBounds \in BOOLEAN

LEMMA Quarters ==
  ASSUME NEW c \in Nat, c >= 4
  PROVE  /\ c \div 4 \in Nat /\ c \div 4 >= 1 /\ (c \div 4) * 4 <= c
         /\ (c * 2) \div 4 >= (c \div 4) * 2 /\ (c * 2) \div 4 \in Nat
OBVIOUS

LEMMA Finite ==
  ASSUME NEW m, NEW n \in Nat \ {0}, Typed(m, n)
  PROVE  /\ IsFiniteSet(Live(m)) /\ IsFiniteSet(Tombs(m))
         /\ Cardinality(Live(m)) \in Nat /\ Cardinality(Tombs(m)) \in Nat
         /\ Cardinality(0..(n - 1)) = n /\ IsFiniteSet(0..(n - 1))
<1>1. 0 \in Int /\ n - 1 \in Int /\ ~(0 > n - 1) /\ (n - 1) - 0 + 1 = n
  OBVIOUS
<1>2. Cardinality(0..(n - 1)) = IF 0 > n - 1 THEN 0 ELSE (n - 1) - 0 + 1
  BY <1>1, FS_Interval
<1>3. IsFiniteSet(0..(n - 1))
  BY <1>1, FS_Interval
<1>4. Live(m) \subseteq 0..(n - 1) /\ Tombs(m) \subseteq 0..(n - 1)
  BY Slots
<1>5. IsFiniteSet(Live(m)) /\ IsFiniteSet(Tombs(m))
  BY <1>3, <1>4, FS_Subset
<1> QED
  BY <1>1, <1>2, <1>3, <1>5, FS_CardinalityType

(* There is room: a slot that is never used, hence one without an entry.        *)
LEMMA Room ==
  ASSUME IInv
  PROVE  \E i \in 0..(capacity - 1) : map[i] = Free /\ i \notin Live(map)
<1>1. capacity \in Nat \ {0} /\ Typed(map, capacity)
  BY DEF IInv
<1>2. ASSUME \A i \in 0..(capacity - 1) : map[i] # Free PROVE FALSE
  <2>1. Live(map) \cup Tombs(map) = 0..(capacity - 1) /\ Live(map) \cap Tombs(map) = {}
    <3>1. \A i \in 0..(capacity - 1) : i \in Live(map) \/ i \in Tombs(map)
      <4> SUFFICES ASSUME NEW i \in 0..(capacity - 1), i \notin Live(map) PROVE i \in Tombs(map)
        OBVIOUS
      <4>1. map[i] = Tombstone /\ i \in DOMAIN map
        BY <1>1, <1>2, Slots
      <4> QED
        BY <4>1 DEF Tombs
    <3> QED
      BY <1>1, <3>1, Slots
  <2>2. capacity = Cardinality(Live(map)) + Cardinality(Tombs(map))
    <3>1. IsFiniteSet(Live(map)) /\ IsFiniteSet(Tombs(map)) /\ Cardinality(0..(capacity - 1)) = capacity
      BY <1>1, Finite
    <3>2. Cardinality(Live(map) \cup Tombs(map)) =
            Cardinality(Live(map)) + Cardinality(Tombs(map)) - Cardinality(Live(map) \cap Tombs(map))
      BY <3>1, FS_Union
    <3>3. Cardinality({}) = 0 /\ Cardinality(Live(map)) \in Nat /\ Cardinality(Tombs(map)) \in Nat
      BY <1>1, Finite, FS_EmptySet
    <3>4. Cardinality(Live(map) \cup Tombs(map)) = capacity
      BY <2>1, <3>1
    <3>5. Cardinality(Live(map) \cap Tombs(map)) = 0
      BY <2>1, <3>3
    <3> QED
      BY <3>2, <3>3, <3>4, <3>5
  <2>3. Cardinality(Live(map)) \in Nat /\ Cardinality(Live(map)) <= used /\ Cardinality(Tombs(map)) = deleted
        /\ used \in Nat /\ deleted \in Nat /\ used <= (capacity \div 4) * 3 /\ deleted <= capacity - used - deleted
    BY <1>1, Finite DEF IInv, Counted
  <2>4. used < capacity
    <3>1. capacity \div 4 \in Nat /\ capacity \div 4 >= 1 /\ (capacity \div 4) * 4 <= capacity
      BY Quarters DEF IInv
    <3> QED
      BY <1>1, <2>3, <3>1
  <2> QED
    BY <1>1, <2>2, <2>3, <2>4
<1>3. PICK i \in 0..(capacity - 1) : map[i] = Free
  BY <1>2
<1>4. i \notin Live(map)
  BY <1>3, Constants DEF Live
<1> QED
  BY <1>3, <1>4

(* MaintainInvariants, from the table and the counters its caller leaves.       *)
Leaves(m, u, d) ==
  /\ capacity \in Nat /\ capacity >= 4
  /\ Typed(m, capacity) /\ Probed(m, capacity)
  /\ Counted(m, u, d, ~outOfBounds)
  /\ u <= (capacity \div 4) * 3 + 1
  /\ routed \in Loop \cup {None} /\ outOfBounds \in BOOLEAN

LEMMA Maintaining ==
  ASSUME NEW m, NEW u, NEW d, Leaves(m, u, d), MaintainInvariants(m, u, d)
  PROVE  /\ IInv'
         /\ \A i \in Live(map') : \E j \in Live(m) : map'[i] = m[j]
         /\ ~outOfBounds' => /\ ~outOfBounds
                             /\ \A j \in Live(m) : \E i \in Live(map') : map'[i] = m[j]
<1> DEFINE q == capacity \div 4
<1>1. /\ capacity \in Nat \ {0} /\ capacity \in Nat /\ capacity >= 4
      /\ u \in Nat /\ d \in Nat /\ u <= q * 3 + 1
      /\ Typed(m, capacity) /\ Probed(m, capacity)
      /\ Cardinality(Live(m)) <= u /\ (~outOfBounds => Cardinality(Live(m)) = u)
      /\ Cardinality(Live(m)) \in Nat
      /\ Cardinality(Tombs(m)) = d /\ outOfBounds \in BOOLEAN
      /\ routed' = routed /\ routed' \in Loop \cup {None} /\ used' = u
  <2>1. capacity \in Nat \ {0} /\ Typed(m, capacity)
    BY DEF Leaves
  <2> QED
    BY <2>1, Finite DEF Leaves, Counted, MaintainInvariants
<1>2. /\ q \in Nat /\ q >= 1 /\ q * 4 <= capacity
      /\ (capacity * 2) \div 4 >= q * 2 /\ (capacity * 2) \div 4 \in Nat
  BY <1>1, Quarters
<1>3. MustGrow(u) <=> u > q * 3
  BY DEF MustGrow
<1> HIDE DEF q
<1>4. CASE MustGrow(u) \/ MustFlush(u, d)
  <2> DEFINE size == IF MustGrow(u) THEN capacity * 2 ELSE capacity
  <2>1. size \in Nat \ {0} /\ size >= capacity
    BY <1>1
  <2>2. map' = Rehash(m, size) /\ capacity' = size /\ deleted' = 0
        /\ outOfBounds' = (outOfBounds \/ RehashEscapes(m, size))
    BY <1>4 DEF MaintainInvariants
  <2>3. u <= (size \div 4) * 3 /\ 0 <= size - u - 0 /\ size >= 4
    <3>1. CASE MustGrow(u)
      BY <1>1, <1>2, <1>3, <3>1
    <3>2. CASE ~MustGrow(u)
      <4>1. size \div 4 = q /\ u <= q * 3
        BY <1>1, <1>2, <1>3, <3>2 DEF q
      <4> QED
        BY <1>1, <1>2, <3>2, <4>1
    <3> QED
      BY <3>1, <3>2
  <2> HIDE DEF size
  <2>4. /\ Typed(map', size) /\ Probed(map', size) /\ Tombs(map') = {}
        /\ \A i \in Live(map') : \E j \in Live(m) : map'[i] = m[j]
        /\ ~RehashEscapes(m, size) => \A j \in Live(m) : \E i \in Live(map') : map'[i] = m[j]
        /\ Cardinality(Live(map')) \in Nat /\ Cardinality(Live(map')) <= Cardinality(Live(m))
        /\ ~RehashEscapes(m, size) => Cardinality(Live(map')) = Cardinality(Live(m))
    <3>1. PICK w : w = map'
      OBVIOUS
    <3>2. w = Rehash(m, size)
      BY <2>2, <3>1
    <3>3. /\ Typed(w, size) /\ Probed(w, size) /\ Tombs(w) = {}
          /\ \A i \in Live(w) : \E j \in Live(m) : w[i] = m[j]
          /\ ~RehashEscapes(m, size) => \A j \in Live(m) : \E i \in Live(w) : w[i] = m[j]
          /\ Cardinality(Live(w)) \in Nat /\ Cardinality(Live(w)) <= Cardinality(Live(m))
          /\ ~RehashEscapes(m, size) => Cardinality(Live(w)) = Cardinality(Live(m))
      BY <1>1, <2>1, <3>2, AfterRehash
    <3> QED
      BY <3>1, <3>3
  <2>5. outOfBounds' \in BOOLEAN /\ (~outOfBounds' => ~outOfBounds /\ ~RehashEscapes(m, size))
    BY <1>1, <2>2 DEF RehashEscapes
  <2>6. Counted(map', u, 0, ~outOfBounds')
    <3>1. Cardinality(Tombs(map')) = 0
      BY <2>4, FS_EmptySet
    <3> QED
      BY <1>1, <2>4, <2>5, <3>1 DEF Counted
  <2>7. IInv'
    BY <1>1, <2>1, <2>2, <2>3, <2>4, <2>5, <2>6 DEF IInv
  <2> QED
    BY <2>4, <2>5, <2>7
<1>5. CASE ~(MustGrow(u) \/ MustFlush(u, d))
  <2>1. map' = m /\ deleted' = d /\ capacity' = capacity /\ outOfBounds' = outOfBounds
    BY <1>5 DEF MaintainInvariants
  <2>2. u <= q * 3 /\ d <= capacity - u - d
    BY <1>1, <1>2, <1>3, <1>5 DEF MustFlush
  <2>3. Counted(map', u, d, ~outOfBounds')
    BY <1>1, <2>1 DEF Counted
  <2>4. IInv'
    BY <1>1, <2>1, <2>2, <2>3 DEF IInv, q
  <2> QED
    BY <2>1, <2>4
<1> QED
  BY <1>4, <1>5

-----------------------------------------------------------------------------
(* Every operation keeps the invariant.  What it leaves to MaintainInvariants   *)
(* is stated once, for the routes need it too.                                *)
Creates(p, l, m, u, d) ==
  LET i == FirstUnused(map, capacity, Home(p)) IN
  /\ FindPort(p) = -1
  /\ m = [map EXCEPT ![i] = [port |-> p, loop |-> l]] /\ u = used + 1
  /\ d = IF map[i] = Tombstone THEN deleted - 1 ELSE deleted

Closes(S, m, u, d) ==
  /\ S \subseteq Live(map)
  /\ m = [i \in 0..(capacity - 1) |-> IF i \in S THEN Tombstone ELSE map[i]]
  /\ u = used - Cardinality(S) /\ d = deleted + Cardinality(S)

LEMMA Creating ==
  ASSUME IInv, NEW p \in Port, NEW l \in Loop, NEW m, NEW u, NEW d, Creates(p, l, m, u, d)
  PROVE  /\ Leaves(m, u, d)
         /\ \A i \in Live(map) : map[i].port # p
         /\ \E j \in Live(m) : /\ m[j] = [port |-> p, loop |-> l]
                               /\ Live(m) = Live(map) \cup {j}
                               /\ \A i \in Live(map) : m[i] = map[i]
<1> DEFINE e == [port |-> p, loop |-> l]
           j == FirstUnused(map, capacity, p % capacity)
<1>1. /\ capacity \in Nat \ {0} /\ Typed(map, capacity) /\ Probed(map, capacity)
      /\ used \in Nat /\ deleted \in Nat /\ Table
      /\ Cardinality(Live(map)) <= used /\ (~outOfBounds => Cardinality(Live(map)) = used)
      /\ Cardinality(Tombs(map)) = deleted
  BY DEF IInv, Counted, Table
<1>2. \A i \in Live(map) : map[i].port # p
  <2> SUFFICES ASSUME NEW i \in Live(map), map[i].port = p PROVE FALSE
    OBVIOUS
  <2>1. FindPort(p) = i /\ i \in Indices
    BY <1>1, FindPortFinds
  <2> QED
    BY <2>1 DEF Creates, Indices
<1>3. e \in Entry /\ e.port = p
  BY DEF Entry
<1>4. m = [map EXCEPT ![j] = e] /\ u = used + 1 /\ d = IF map[j] = Tombstone THEN deleted - 1 ELSE deleted
  BY DEF Creates, Home
<1> HIDE DEF e, j
<1>5. Inserts(map, capacity, e, j, m)
  <2>1. \E i \in 0..(capacity - 1) : i \notin Live(map)
    BY Room
  <2> QED
    BY <1>1, <1>2, <1>3, <1>4, <2>1 DEF Inserts, j
<1>6. Inserted(map, capacity, e, j, m)
  BY <1>1, <1>5, Inserting
<1>7. IsFiniteSet(Live(map)) /\ IsFiniteSet(Tombs(map)) /\ Cardinality(Live(map)) \in Nat
  BY <1>1, Finite
<1>8. Cardinality(Live(m)) = Cardinality(Live(map)) + 1
  <2>1. Live(m) = Live(map) \cup {j} /\ j \notin Live(map)
    BY <1>6 DEF Inserted
  <2> QED
    BY <1>7, <2>1, FS_AddElement
<1>9. Cardinality(Tombs(m)) = d /\ d \in Nat
  <2>1. Tombs(m) = Tombs(map) \ {j} /\ j \in 0..(capacity - 1)
    BY <1>6 DEF Inserted
  <2>2. CASE map[j] = Tombstone
    <3>1. j \in Tombs(map)
      BY <1>1, <2>1, <2>2, Slots DEF Tombs
    <3>2. Cardinality(Tombs(m)) = Cardinality(Tombs(map)) - 1
      BY <1>7, <2>1, <3>1, FS_RemoveElement
    <3>3. deleted >= 1
      <4>1. Cardinality(Tombs(map)) # 0
        BY <1>7, <3>1, FS_EmptySet
      <4> QED
        BY <1>1, <4>1
    <3> QED
      BY <1>1, <1>4, <2>2, <3>2, <3>3
  <2>3. CASE map[j] # Tombstone
    <3>1. Tombs(m) = Tombs(map)
      BY <2>1, <2>3 DEF Tombs
    <3> QED
      BY <1>1, <1>4, <2>3, <3>1
  <2> QED
    BY <2>2, <2>3
<1>10. Leaves(m, u, d)
  <2>1. Counted(m, u, d, ~outOfBounds)
    BY <1>1, <1>4, <1>7, <1>8, <1>9 DEF Counted
  <2>2. u <= (capacity \div 4) * 3 + 1
    <3>1. capacity \div 4 \in Nat /\ used <= (capacity \div 4) * 3
      BY Quarters DEF IInv
    <3> QED
      BY <1>1, <1>4, <3>1
  <2>3. Typed(m, capacity) /\ Probed(m, capacity)
    BY <1>6 DEF Inserted
  <2> QED
    BY <2>1, <2>2, <2>3 DEF IInv, Leaves
<1>11. j \in Live(m) /\ m[j] = e /\ Live(m) = Live(map) \cup {j} /\ \A i \in Live(map) : m[i] = map[i]
  BY <1>1, <1>6, Slots DEF Inserted
<1> QED
  BY <1>2, <1>10, <1>11 DEF e

LEMMA Closing ==
  ASSUME IInv, NEW S, NEW m, NEW u, NEW d, Closes(S, m, u, d)
  PROVE  /\ Leaves(m, u, d)
         /\ Live(m) = Live(map) \ S /\ \A i \in Live(m) : m[i] = map[i]
<1>1. /\ capacity \in Nat \ {0} /\ Typed(map, capacity) /\ Probed(map, capacity)
      /\ used \in Nat /\ deleted \in Nat
      /\ Cardinality(Live(map)) <= used /\ (~outOfBounds => Cardinality(Live(map)) = used)
      /\ Cardinality(Tombs(map)) = deleted
  BY DEF IInv, Counted
<1>2. /\ S \in SUBSET Live(map)
      /\ m = [i \in 0..(capacity - 1) |-> IF i \in S THEN Tombstone ELSE map[i]]
      /\ u = used - Cardinality(S) /\ d = deleted + Cardinality(S)
  BY DEF Closes
<1>3. /\ Typed(m, capacity) /\ Probed(m, capacity)
      /\ Live(m) = Live(map) \ S /\ Tombs(m) = Tombs(map) \cup S
      /\ \A i \in Live(m) : m[i] = map[i]
  <2>1. Buries(map, capacity, S, m)
    BY <1>1, <1>2 DEF Buries
  <2>2. Buried(map, capacity, S, m)
    BY <1>1, <2>1, Burying
  <2> QED
    BY <2>2 DEF Buried
<1>4. IsFiniteSet(Live(map)) /\ IsFiniteSet(Tombs(map)) /\ Cardinality(Live(map)) \in Nat
      /\ Cardinality(Tombs(map)) \in Nat /\ Cardinality(Live(m)) \in Nat
  BY <1>1, <1>3, Finite
<1>5. IsFiniteSet(S) /\ Cardinality(S) \in Nat /\ Cardinality(S) <= Cardinality(Live(map))
  <2>1. IsFiniteSet(S) /\ Cardinality(S) <= Cardinality(Live(map))
    BY <1>2, <1>4, FS_Subset
  <2> QED
    BY <2>1, FS_CardinalityType
<1>6. Cardinality(Live(m)) = Cardinality(Live(map)) - Cardinality(S)
  <2>1. Cardinality(Live(map) \ S) = Cardinality(Live(map)) - Cardinality(Live(map) \cap S)
    BY <1>4, FS_Difference
  <2>2. Live(map) \cap S = S
    BY <1>2
  <2> QED
    BY <1>3, <2>1, <2>2
<1>7. Cardinality(Tombs(m)) = Cardinality(Tombs(map)) + Cardinality(S)
  <2>1. Cardinality(Tombs(map) \cup S) =
          Cardinality(Tombs(map)) + Cardinality(S) - Cardinality(Tombs(map) \cap S)
    BY <1>4, <1>5, FS_Union
  <2>2. Tombs(map) \cap S = {}
    BY <1>1, <1>2, Slots
  <2>3. Cardinality(Tombs(map) \cap S) = 0
    BY <2>2, FS_EmptySet
  <2> QED
    BY <1>3, <1>4, <1>5, <2>1, <2>3
<1>8. Counted(m, u, d, ~outOfBounds)
  BY <1>1, <1>2, <1>4, <1>5, <1>6, <1>7 DEF Counted
<1>9. u <= (capacity \div 4) * 3 + 1
  <2>1. capacity \div 4 \in Nat /\ used <= (capacity \div 4) * 3
    BY Quarters DEF IInv
  <2> QED
    BY <1>1, <1>2, <1>5, <2>1
<1> QED
  BY <1>3, <1>8, <1>9 DEF IInv, Leaves

(* What each operation leaves to MaintainInvariants.                          *)
LEMMA Created ==
  ASSUME IInv, NEW p \in Port, NEW l \in Loop, CreatePort(p, l)
  PROVE  \E m, u, d : Creates(p, l, m, u, d) /\ MaintainInvariants(m, u, d)
BY DEF CreatePort, Creates

LEMMA Closed ==
  ASSUME IInv, NEW p \in Port, ClosePort(p)
  PROVE  \E m, u, d : /\ Closes({i \in Live(map) : map[i].port = p}, m, u, d)
                      /\ MaintainInvariants(m, u, d)
<1>1. Table /\ used \in Nat /\ deleted \in Nat
  BY DEF IInv, Table, Counted
<1>2. PICK i \in Live(map) : map[i].port = p
  BY <1>1, FindPortFinds DEF ClosePort
<1>3. FindPort(p) = i
  BY <1>1, <1>2, FindPortFinds
<1>4. {k \in Live(map) : map[k].port = p} = {i}
  BY <1>1, <1>2, Once DEF Table
<1>5. Cardinality({i}) = 1
  BY FS_Singleton
<1>6. [map EXCEPT ![i] = Tombstone] = [k \in 0..(capacity - 1) |-> IF k \in {i} THEN Tombstone ELSE map[k]]
  BY <1>1 DEF Table, Typed
<1>7. Closes({i}, [map EXCEPT ![i] = Tombstone], used - 1, deleted + 1)
  BY <1>2, <1>5, <1>6 DEF Closes
<1> QED
  BY <1>3, <1>4, <1>7 DEF ClosePort

LEMMA ClosedAll ==
  ASSUME IInv, NEW l \in Loop, CloseAllPorts(l)
  PROVE  \E m, u, d : /\ Closes({i \in Live(map) : map[i].loop = l}, m, u, d)
                      /\ MaintainInvariants(m, u, d)
<1> DEFINE mine == {i \in Indices : map[i].loop = l}
<1>1. mine = {i \in Live(map) : map[i].loop = l}
  <2>1. capacity \in Nat \ {0} /\ Typed(map, capacity)
    BY DEF IInv
  <2>2. \A i \in 0..(capacity - 1) : map[i].loop = l => i \in Live(map)
    BY <2>1, Slots, Constants
  <2>3. Live(map) \subseteq 0..(capacity - 1)
    BY <2>1, Slots
  <2> QED
    BY <2>2, <2>3 DEF Indices
<1>2. MaintainInvariants([i \in Indices |-> IF i \in mine THEN Tombstone ELSE map[i]],
                         used - Cardinality(mine), deleted + Cardinality(mine))
  BY DEF CloseAllPorts
<1> HIDE DEF mine
<1>3. Closes(mine, [i \in Indices |-> IF i \in mine THEN Tombstone ELSE map[i]],
             used - Cardinality(mine), deleted + Cardinality(mine))
  BY <1>1 DEF Closes, Indices
<1> QED
  BY <1>1, <1>2, <1>3

-----------------------------------------------------------------------------
LEMMA Starts == Init => IInv
<1> SUFFICES ASSUME Init PROVE IInv
  OBVIOUS
<1>1. /\ InitialCapacity \in Nat \ {0} /\ InitialCapacity >= 4 /\ capacity = InitialCapacity
      /\ map = EmptyMap(InitialCapacity)
      /\ used = 0 /\ deleted = 0 /\ routed = None /\ outOfBounds = FALSE
  BY PortAssumption DEF Init, PortAssumption
<1>2. Typed(map, capacity) /\ Probed(map, capacity) /\ Tombs(map) = {} /\ Live(map) = {}
  BY <1>1, Emptied
<1>3. Counted(map, used, deleted, ~outOfBounds)
  BY <1>1, <1>2, FS_EmptySet DEF Counted
<1>4. capacity \div 4 \in Nat /\ capacity \div 4 >= 1
  BY <1>1, Quarters
<1>5. used <= (capacity \div 4) * 3 /\ deleted <= capacity - used - deleted
  BY <1>1, <1>4
<1> QED
  BY <1>1, <1>2, <1>3, <1>5 DEF IInv

LEMMA Stutters == IInv /\ UNCHANGED vars => IInv'
<1> SUFFICES ASSUME IInv, UNCHANGED vars PROVE IInv'
  OBVIOUS
<1>1. map' = map /\ capacity' = capacity /\ used' = used /\ deleted' = deleted
      /\ routed' = routed /\ outOfBounds' = outOfBounds
  BY DEF vars
<1> QED
  BY <1>1 DEF IInv

LEMMA Posts ==
  ASSUME IInv, NEW p \in Port, PostMessage(p)
  PROVE  IInv'
<1>1. map' = map /\ capacity' = capacity /\ used' = used /\ deleted' = deleted
      /\ outOfBounds' = outOfBounds /\ routed' = RouteOf(p)
  BY DEF PostMessage
<1>2. RouteOf(p) \in Loop \cup {None}
  <2>1. Table
    BY DEF IInv, Table
  <2>2. \A i \in Live(map) : map[i].loop \in Loop
    BY <2>1, Slots DEF Table
  <2> QED
    BY <2>1, <2>2, FindPortFinds
<1> QED
  BY <1>1, <1>2 DEF IInv

LEMMA Inductive == IInv /\ [Next]_vars => IInv'
<1> SUFFICES ASSUME IInv, [Next]_vars PROVE IInv'
  OBVIOUS
<1>1. ASSUME NEW p \in Port, NEW l \in Loop, CreatePort(p, l) PROVE IInv'
  <2>1. PICK m, u, d : Creates(p, l, m, u, d) /\ MaintainInvariants(m, u, d)
    BY <1>1, Created
  <2>2. Leaves(m, u, d)
    BY <2>1, Creating
  <2> QED
    BY <2>1, <2>2, Maintaining
<1>2. ASSUME NEW p \in Port, PostMessage(p) PROVE IInv'
  BY <1>2, Posts
<1>3. ASSUME NEW p \in Port, ClosePort(p) PROVE IInv'
  <2>1. PICK m, u, d : Closes({i \in Live(map) : map[i].port = p}, m, u, d) /\ MaintainInvariants(m, u, d)
    BY <1>3, Closed
  <2>2. Leaves(m, u, d)
    BY <2>1, Closing
  <2> QED
    BY <2>1, <2>2, Maintaining
<1>4. ASSUME NEW l \in Loop, CloseAllPorts(l) PROVE IInv'
  <2>1. PICK m, u, d : Closes({i \in Live(map) : map[i].loop = l}, m, u, d) /\ MaintainInvariants(m, u, d)
    BY <1>4, ClosedAll
  <2>2. Leaves(m, u, d)
    BY <2>1, Closing
  <2> QED
    BY <2>1, <2>2, Maintaining
<1>5. CASE UNCHANGED vars
  BY <1>5, Stutters
<1> QED
  BY <1>1, <1>2, <1>3, <1>4, <1>5 DEF Next

THEOREM Invariant == Spec => []IInv
  BY Starts, Inductive, PTL DEF Spec

(* FindPort has no bound of its own: the slot that ends its probe is there       *)
(* because MaintainInvariants rehashes by its counters, whatever the ports are, *)
(* and even where Rehash has lost entries.  While it has lost none, the         *)
(* counters are exact.                                                       *)
THEOREM ProbesAlwaysEnd == Spec => []ProbesStop
<1>1. IInv => ProbesStop
  <2> SUFFICES ASSUME IInv PROVE ProbesStop
    OBVIOUS
  <2>1. /\ capacity \in Nat \ {0} /\ Typed(map, capacity)
        /\ used \in Nat /\ deleted \in Nat /\ routed \in Loop \cup {None}
        /\ Cardinality(Tombs(map)) = deleted
        /\ ~outOfBounds => Cardinality(Live(map)) = used
    BY DEF IInv, Counted
  <2>2. DOMAIN map = Indices /\ Indices = 0..(capacity - 1)
    BY <2>1 DEF Typed, Indices
  <2>3. TypeOK
    <3>1. \A i \in DOMAIN map : map[i] \in {Free, Tombstone} \/ (map[i].port \in Port /\ map[i].loop \in Loop)
      BY <2>1, <2>2 DEF Typed, Entry
    <3> QED
      BY <2>1, <2>2, <3>1 DEF TypeOK
  <2>4. ProbesEnd
    BY <2>2, Room DEF ProbesEnd
  <2>5. StaysInBounds => CountersTrue
    BY <2>1 DEF StaysInBounds, CountersTrue, Live, Tombs
  <2> QED
    BY <2>3, <2>4, <2>5 DEF ProbesStop
<1> QED
  BY <1>1, Invariant, PTL

-----------------------------------------------------------------------------
(* What FindPort finds is what is live, so the routes are the table's entries.   *)
Routed ==
  \A p \in Port :
    /\ \A i \in Live(map) : map[i].port = p => RouteOf(p) = map[i].loop
    /\ (\A i \in Live(map) : map[i].port # p) => RouteOf(p) = None

LEMMA Routing == Table => Routed
BY FindPortFinds DEF Routed

LEMMA RoutingThen == Table' => Routed'
BY Routing, PTL

(* The routes after MaintainInvariants are those of the table it was given.     *)
LEMMA RoutesKept ==
  ASSUME NEW m, NEW u, NEW d, Leaves(m, u, d), MaintainInvariants(m, u, d), ~outOfBounds',
         NEW p \in Port
  PROVE  /\ \A j \in Live(m) : m[j].port = p => RouteOf(p)' = m[j].loop
         /\ (\A j \in Live(m) : m[j].port # p) => RouteOf(p)' = None
<1>1. /\ IInv'
      /\ \A i \in Live(map') : \E j \in Live(m) : map'[i] = m[j]
      /\ \A j \in Live(m) : \E i \in Live(map') : map'[i] = m[j]
  BY Maintaining
<1>2. Table'
  BY <1>1 DEF IInv, Table
<1>3. /\ \A i \in Live(map') : map'[i].port = p => RouteOf(p)' = map'[i].loop
      /\ (\A i \in Live(map') : map'[i].port # p) => RouteOf(p)' = None
  BY <1>2, RoutingThen DEF Routed
<1> QED
  BY <1>1, <1>3

LEMMA CreateRoutes ==
  ASSUME IInv, ~outOfBounds', NEW p \in Port, NEW l \in Loop, CreatePort(p, l)
  PROVE  Routes!CreatePort(p, l)
<1>1. PICK m, u, d : Creates(p, l, m, u, d) /\ MaintainInvariants(m, u, d)
  BY Created
<1>2. /\ Leaves(m, u, d)
      /\ \A i \in Live(map) : map[i].port # p
  BY <1>1, Creating
<1>3. PICK j \in Live(m) : /\ m[j] = [port |-> p, loop |-> l]
                           /\ Live(m) = Live(map) \cup {j}
                           /\ \A i \in Live(map) : m[i] = map[i]
  BY <1>1, Creating
<1>4. Table
  BY DEF IInv, Table
<1>5. RouteOf(p) = None /\ RouteOf(p)' = l
  <2>1. RouteOf(p) = None
    BY <1>2, <1>4, Routing DEF Routed
  <2>2. m[j].port = p /\ m[j].loop = l
    BY <1>3
  <2> QED
    BY <1>1, <1>2, <2>1, <2>2, RoutesKept
<1>6. ASSUME NEW q \in Port, q # p PROVE RouteOf(q)' = RouteOf(q)
  <2>1. CASE \E i \in Live(map) : map[i].port = q
    <3>1. PICK i \in Live(map) : map[i].port = q
      BY <2>1
    <3>2. i \in Live(m) /\ m[i] = map[i]
      BY <1>3
    <3>3. RouteOf(q)' = m[i].loop
      BY <1>1, <1>2, <3>1, <3>2, RoutesKept
    <3> QED
      BY <1>4, <3>1, <3>2, <3>3, Routing DEF Routed
  <2>2. CASE \A i \in Live(map) : map[i].port # q
    <3>1. \A i \in Live(m) : m[i].port # q
      BY <1>3, <1>6, <2>2
    <3>2. RouteOf(q)' = None
      BY <1>1, <1>2, <3>1, RoutesKept
    <3> QED
      BY <1>4, <2>2, <3>2, Routing DEF Routed
  <2> QED
    BY <2>1, <2>2
<1>7. routed' = routed
  BY <1>1 DEF MaintainInvariants
<1>8. [q \in Port |-> RouteOf(q)]' = [[q \in Port |-> RouteOf(q)] EXCEPT ![p] = l]
  BY <1>5, <1>6
<1> QED
  BY <1>5, <1>7, <1>8 DEF Routes!CreatePort

(* Closing the ports of the slots in S.                                       *)
LEMMA CloseRoutes ==
  ASSUME IInv, ~outOfBounds', NEW S, NEW m, NEW u, NEW d, Closes(S, m, u, d), MaintainInvariants(m, u, d),
         NEW q \in Port
  PROVE  /\ (\E i \in S : map[i].port = q) => RouteOf(q)' = None
         /\ (\A i \in S : map[i].port # q) => RouteOf(q)' = RouteOf(q)
<1>1. Table /\ S \subseteq Live(map)
  BY DEF IInv, Table, Closes
<1>2. Leaves(m, u, d) /\ Live(m) = Live(map) \ S /\ \A i \in Live(m) : m[i] = map[i]
  BY Closing
<1>3. ASSUME NEW i \in S, map[i].port = q PROVE RouteOf(q)' = None
  <2>1. \A j \in Live(m) : m[j].port # q
    <3> SUFFICES ASSUME NEW j \in Live(m), m[j].port = q PROVE FALSE
      OBVIOUS
    <3>1. j \in Live(map) /\ i \in Live(map) /\ map[i].port = map[j].port /\ i # j
      BY <1>1, <1>2, <1>3
    <3> QED
      BY <1>1, <3>1, Once DEF Table
  <2> QED
    BY <1>2, <2>1, RoutesKept
<1>4. ASSUME \A i \in S : map[i].port # q PROVE RouteOf(q)' = RouteOf(q)
  <2>1. CASE \E i \in Live(map) : map[i].port = q
    <3>1. PICK i \in Live(map) : map[i].port = q
      BY <2>1
    <3>2. i \in Live(m) /\ m[i] = map[i]
      BY <1>2, <1>4, <3>1
    <3>3. RouteOf(q)' = m[i].loop
      BY <1>2, <3>1, <3>2, RoutesKept
    <3> QED
      BY <1>1, <3>1, <3>2, <3>3, Routing DEF Routed
  <2>2. CASE \A i \in Live(map) : map[i].port # q
    <3>1. \A i \in Live(m) : m[i].port # q
      BY <1>2, <2>2
    <3>2. RouteOf(q)' = None
      BY <1>2, <3>1, RoutesKept
    <3> QED
      BY <1>1, <2>2, <3>2, Routing DEF Routed
  <2> QED
    BY <2>1, <2>2
<1> QED
  BY <1>3, <1>4

LEMMA CloseOneRoute ==
  ASSUME IInv, ~outOfBounds', NEW p \in Port, ClosePort(p)
  PROVE  Routes!ClosePort(p)
<1>1. PICK m, u, d : Closes({i \in Live(map) : map[i].port = p}, m, u, d) /\ MaintainInvariants(m, u, d)
  BY Closed
<1>2. PICK i \in Live(map) : map[i].port = p
  <2>1. Table
    BY DEF IInv, Table
  <2> QED
    BY <2>1, FindPortFinds DEF ClosePort
<1>3. PICK S : S = {k \in Live(map) : map[k].port = p}
  OBVIOUS
<1>4. Closes(S, m, u, d) /\ (\E k \in S : map[k].port = p) /\ \A k \in S : map[k].port = p
  BY <1>1, <1>2, <1>3
<1>5. RouteOf(p)' = None /\ \A q \in Port : q # p => RouteOf(q)' = RouteOf(q)
  BY <1>1, <1>4, CloseRoutes
<1>6. routed' = routed
  BY <1>1 DEF MaintainInvariants
<1>7. [q \in Port |-> RouteOf(q)]' = [[q \in Port |-> RouteOf(q)] EXCEPT ![p] = None]
  BY <1>5
<1> QED
  BY <1>6, <1>7 DEF Routes!ClosePort

LEMMA CloseAllRoutes ==
  ASSUME IInv, ~outOfBounds', NEW l \in Loop, CloseAllPorts(l)
  PROVE  Routes!CloseAllPorts(l)
<1>1. PICK m, u, d : Closes({i \in Live(map) : map[i].loop = l}, m, u, d) /\ MaintainInvariants(m, u, d)
  BY ClosedAll
<1>2. PICK S : S = {k \in Live(map) : map[k].loop = l}
  OBVIOUS
<1>3. Closes(S, m, u, d)
  BY <1>1, <1>2
<1>4. Table /\ l # None
  BY Constants DEF IInv, Table
<1>5. ASSUME NEW q \in Port
      PROVE  RouteOf(q)' = IF RouteOf(q) = l THEN None ELSE RouteOf(q)
  <2>1. CASE \E i \in Live(map) : map[i].port = q
    <3>1. PICK i \in Live(map) : map[i].port = q
      BY <2>1
    <3>2. RouteOf(q) = map[i].loop
      BY <1>4, <3>1, Routing DEF Routed
    <3>3. \A k \in S : map[k].port = q => k = i
      BY <1>2, <1>4, <3>1, Once DEF Table
    <3>4. CASE map[i].loop = l
      <4>1. i \in S
        BY <1>2, <3>4
      <4> QED
        BY <1>1, <1>3, <3>1, <3>2, <3>4, <4>1, CloseRoutes
    <3>5. CASE map[i].loop # l
      <4>1. \A k \in S : map[k].port # q
        BY <1>2, <3>3, <3>5
      <4> QED
        BY <1>1, <1>3, <3>2, <3>5, <4>1, CloseRoutes
    <3> QED
      BY <3>4, <3>5
  <2>2. CASE \A i \in Live(map) : map[i].port # q
    <3>1. RouteOf(q) = None /\ \A k \in S : map[k].port # q
      BY <1>2, <1>4, <2>2, Routing DEF Routed
    <3> QED
      BY <1>1, <1>3, <1>4, <3>1, CloseRoutes
  <2> QED
    BY <2>1, <2>2
<1>6. routed' = routed
  BY <1>1 DEF MaintainInvariants
<1>7. [q \in Port |-> RouteOf(q)]' =
        [q \in Port |-> IF [p \in Port |-> RouteOf(p)][q] = l THEN None ELSE [p \in Port |-> RouteOf(p)][q]]
  BY <1>5
<1> QED
  BY <1>6, <1>7 DEF Routes!CloseAllPorts

LEMMA RoutesStay ==
  ASSUME map' = map, capacity' = capacity
  PROVE  [q \in Port |-> RouteOf(q)]' = [q \in Port |-> RouteOf(q)]
<1>1. Indices' = Indices
  BY DEF Indices
<1>2. ASSUME NEW q \in Port PROVE FindPort(q)' = FindPort(q)
  BY <1>1 DEF FindPort, Home
<1>3. ASSUME NEW q \in Port PROVE RouteOf(q)' = RouteOf(q)
  BY <1>2 DEF RouteOf
<1> QED
  BY <1>3

LEMMA StepRoutes ==
  ASSUME IInv, ~outOfBounds', [Next]_vars
  PROVE  [Routes!Next]_Routes!vars
<1>1. ASSUME NEW p \in Port, NEW l \in Loop, CreatePort(p, l) PROVE Routes!Next
  BY <1>1, CreateRoutes DEF Routes!Next
<1>2. ASSUME NEW p \in Port, PostMessage(p) PROVE Routes!Next
  <2>1. map' = map /\ capacity' = capacity /\ routed' = RouteOf(p)
    BY <1>2 DEF PostMessage
  <2>2. [q \in Port |-> RouteOf(q)]' = [q \in Port |-> RouteOf(q)]
    BY <2>1, RoutesStay
  <2>3. Routes!PostMessage(p)
    BY <2>1, <2>2 DEF Routes!PostMessage
  <2> QED
    BY <2>3 DEF Routes!Next
<1>3. ASSUME NEW p \in Port, ClosePort(p) PROVE Routes!Next
  BY <1>3, CloseOneRoute DEF Routes!Next
<1>4. ASSUME NEW l \in Loop, CloseAllPorts(l) PROVE Routes!Next
  BY <1>4, CloseAllRoutes DEF Routes!Next
<1>5. CASE UNCHANGED vars
  <2>1. map' = map /\ capacity' = capacity /\ routed' = routed
    BY <1>5 DEF vars
  <2>2. [q \in Port |-> RouteOf(q)]' = [q \in Port |-> RouteOf(q)]
    BY <2>1, RoutesStay
  <2> QED
    BY <2>1, <2>2 DEF Routes!vars
<1> QED
  BY <1>1, <1>2, <1>3, <1>4, <1>5 DEF Next

(* While Rehash has stored nothing outside of the table, it answers as port.h   *)
(* promises: a port reaches the loop that opened it, from when it is opened     *)
(* until it is closed, and no other.                                         *)
THEOREM RoutesInBounds == Spec /\ []StaysInBounds => PortMapBehaves
<1>1. Init => Routes!Init
  <2> SUFFICES ASSUME Init PROVE Routes!Init
    OBVIOUS
  <2>1. Table /\ routed = None /\ InitialCapacity \in Nat \ {0} /\ map = EmptyMap(InitialCapacity)
    BY Starts, PortAssumption DEF Init, IInv, Table, PortAssumption
  <2>2. Live(map) = {}
    BY <2>1, Emptied
  <2>3. \A p \in Port : RouteOf(p) = None
    BY <2>1, <2>2, Routing DEF Routed
  <2> QED
    BY <2>1, <2>3 DEF Routes!Init
<1>2. IInv /\ StaysInBounds' /\ [Next]_vars => [Routes!Next]_Routes!vars
  BY StepRoutes DEF StaysInBounds
<1> QED
  BY <1>1, <1>2, Invariant, PTL DEF Spec, PortMapBehaves, Routes!Spec
=================================================================================
