------------------------------ MODULE SymbolsProofs ------------------------------
(***************************************************************************)
(* Proofs about Symbols, for any strings, hashes and collections: there is one *)
(* symbol for a sequence of bytes, and every search for it ends.              *)
(***************************************************************************)
EXTENDS Symbols, FiniteSetTheorems, WellFoundedInduction, TLAPS

(* A place in the search for s in a table of n entries.                       *)
At(s, n, k) == (((HashValue(Contents(s)) % n) + k) % n) + 1

Sized(t, n)   == n \in Nat \ {0} /\ t \in [1..n -> Strings \cup {nil, Unused}]
Present(t) == {i \in DOMAIN t : t[i] \in Strings}
Full(t)    == {i \in DOMAIN t : t[i] # Unused}

(* A search for s comes to entry At(s, n, d), over entries that are not unused.  *)
Open(t, n, s, d) == \A k \in 0..(d - 1) : t[At(s, n, k)] # Unused
Found(t, n) == \A i \in Present(t) : \E d \in 0..(n - 1) : At(t[i], n, d) = i /\ Open(t, n, t[i], d)
Distinct(t) == \A i, j \in Present(t) : Contents(t[i]) = Contents(t[j]) => i = j

Good(t, n) == Sized(t, n) /\ Found(t, n) /\ Distinct(t)

(* Where a search is: what it has passed is not what it looks for, and the entry  *)
(* it would reuse is a cleared one among them.                                *)
Sought(t, n, s, index, reuse) ==
  \E d \in 0..(n - 1) :
    /\ index = At(s, n, d) /\ Open(t, n, s, d)
    /\ \A k \in 0..(d - 1) : t[At(s, n, k)] \in Strings => Contents(t[At(s, n, k)]) # Contents(s)
    /\ reuse # nil => \E k \in 0..(d - 1) : reuse = At(s, n, k) /\ t[reuse] = nil

(* How far a rehash is: the entries before `old` are those of the new table, and   *)
(* there is room in it for the others.                                        *)
Moving(t, n, w, m, old, used) ==
  /\ Good(w, m) /\ old \in 1..(n + 1)
  /\ used = Cardinality(Full(w))
  /\ used + Cardinality({i \in Present(t) : i >= old}) < m
  /\ \A j \in Present(w) : \E i \in Present(t) : i < old /\ w[j] = t[i]
  /\ \A i \in Present(t) : i < old => \E j \in Present(w) : w[j] = t[i]

-----------------------------------------------------------------------------
(* The invariant.                                                            *)
Searches(r) == r \in [pc : {"probe", "count"}, string : Strings, index : Nat, reuseIndex : Nat \cup {nil}]
Moves(r) ==
  \E m \in Nat \ {0} :
    r \in [pc : {"move"}, string : Strings, oldIndex : Nat, newUsed : Nat,
           newTable : [1..m -> Strings \cup {nil, Unused}]]

(* The table: its entries are the symbols, and those that are held are among them. *)
TableSound(t, n, used, symbols, refs, all) ==
  /\ Good(t, n)
  /\ \A i \in Present(t) : t[i] \in symbols
  /\ symbols \subseteq all /\ refs \subseteq all /\ all \subseteq Strings
  /\ \A s \in symbols \cap refs : \E i \in Present(t) : t[i] = s
  /\ used = nil => Full(t) = DOMAIN t
  /\ used # nil => used \in Nat /\ used = Cardinality(Full(t))

(* intern:, which searches the table only while it has an unused entry.          *)
InternSound(t, n, used, symbols, all, r) ==
  /\ r = Idle \/ Searches(r) \/ Moves(r)
  /\ r # Idle => /\ used # nil /\ r.string \in all
                 /\ r.string \in symbols => \E i \in Present(t) : t[i] = r.string
  /\ r.pc \in {"idle", "probe"} /\ used # nil => used < n
  /\ r.pc = "probe" => r.string \notin symbols /\ Sought(t, n, r.string, r.index, r.reuseIndex)
  /\ r.pc = "move" => Moving(t, n, r.newTable, Capacity(r.newTable), r.oldIndex, r.newUsed)

IInv ==
  LET n == Capacity(symbolTable) IN
  /\ TableSound(symbolTable, n, symbolTableUsed, canonical, held, made)
  /\ InternSound(symbolTable, n, symbolTableUsed, canonical, made, interning)

-----------------------------------------------------------------------------
LEMMA Constants ==
  /\ \A s \in Strings : HashValue(Contents(s)) \in Nat /\ s # nil /\ s # Unused
  /\ nil \notin Nat /\ nil # Unused /\ nil \notin Strings /\ Unused \notin Strings
BY SymbolsAssumption DEF SymbolsAssumption

(* The least of a set of numbers.                                            *)
LEMMA SmallestNat ==
  ASSUME NEW S \in SUBSET Nat, S # {}
  PROVE  Min(S) \in S /\ \A n \in S : Min(S) <= n
<1> DEFINE R == OpToRel(<, Nat)
<1>1. IsWellFoundedOn(R, Nat)
  BY NatLessThanWellFounded
<1>2. \E m \in S : \A n \in S : ~(<<n, m>> \in R)
  <2> HIDE DEF R
  <2> QED
    BY <1>1, WFMin
<1>3. \A m, n \in Nat : n < m => <<n, m>> \in R
  BY DEF OpToRel
<1> HIDE DEF R
<1>4. PICK m \in S : \A n \in S : ~(<<n, m>> \in R)
  BY <1>2
<1>5. \A n \in S : m \in Nat /\ n \in Nat /\ ~(n < m)
  BY <1>3, <1>4
<1>6. \E x \in S : \A n \in S : x <= n
  BY <1>5
<1> QED
  BY <1>6 DEF Min

LEMMA Remainders ==
  ASSUME NEW n \in Nat \ {0}
  PROVE  /\ \A a \in Int : a % n \in 0..(n - 1)
         /\ \A a \in 0..(n - 1) : a % n = a
         /\ \A a \in 0..(n - 1), k \in 0..(n - 1) :
              (a + k) % n = IF a + k < n THEN a + k ELSE a + k - n
OBVIOUS

(* The places of a search.                                                   *)
LEMMA Places ==
  ASSUME NEW n \in Nat \ {0}, NEW s \in Strings
  PROVE  /\ \A k \in 0..(n - 1) : At(s, n, k) \in 1..n
         /\ \A k, j \in 0..(n - 1) : At(s, n, k) = At(s, n, j) => k = j
         /\ \A i \in 1..n : \E k \in 0..(n - 1) : At(s, n, k) = i
         /\ At(s, n, 0) = (HashValue(Contents(s)) % n) + 1
         /\ \A k \in 0..(n - 1) : k + 1 < n => (At(s, n, k) % n) + 1 = At(s, n, k + 1)
         /\ \A k \in 0..(n - 1) : ((At(s, n, 0) - 1 + k) % n) + 1 = At(s, n, k)
<1> DEFINE a == HashValue(Contents(s)) % n
<1>1. a \in 0..(n - 1)
  <2>1. HashValue(Contents(s)) \in Int
    BY Constants
  <2> QED
    BY <2>1, Remainders
<1>2. \A k \in Int : At(s, n, k) = ((a + k) % n) + 1
  BY DEF At
<1> HIDE DEF a
<1>3. \A k \in 0..(n - 1) : At(s, n, k) = IF a + k < n THEN a + k + 1 ELSE a + k - n + 1
  <2> SUFFICES ASSUME NEW k \in 0..(n - 1)
               PROVE  At(s, n, k) = IF a + k < n THEN a + k + 1 ELSE a + k - n + 1
    OBVIOUS
  <2>1. (a + k) % n = IF a + k < n THEN a + k ELSE a + k - n
    BY <1>1, Remainders
  <2>2. At(s, n, k) = ((a + k) % n) + 1
    BY <1>2
  <2> QED
    BY <1>1, <2>1, <2>2
<1>4. ASSUME NEW i \in 1..n PROVE \E k \in 0..(n - 1) : At(s, n, k) = i
  <2>1. CASE i > a
    <3>1. i - 1 - a \in 0..(n - 1) /\ At(s, n, i - 1 - a) = i
      BY <1>1, <1>3, <2>1
    <3> QED
      BY <3>1
  <2>2. CASE i <= a
    <3>1. i - 1 + n - a \in 0..(n - 1) /\ At(s, n, i - 1 + n - a) = i
      BY <1>1, <1>3, <2>2
    <3> QED
      BY <3>1
  <2> QED
    BY <1>1, <2>1, <2>2
<1>5. At(s, n, 0) = a + 1
  BY <1>1, <1>3
<1>6. ASSUME NEW k \in 0..(n - 1), k + 1 < n PROVE (At(s, n, k) % n) + 1 = At(s, n, k + 1)
  <2>1. k + 1 \in 0..(n - 1) /\ 0 \in 0..(n - 1) /\ n % n = 0
    BY <1>6
  <2>2. \A x \in 0..(n - 1) : x % n = x
    BY Remainders
  <2>3. At(s, n, k) = (IF a + k < n THEN a + k + 1 ELSE a + k - n + 1)
        /\ At(s, n, k + 1) = (IF a + (k + 1) < n THEN a + (k + 1) + 1 ELSE a + (k + 1) - n + 1)
    BY <1>3, <2>1
  <2>4. CASE a + k + 1 < n
    <3>1. At(s, n, k) = a + k + 1 /\ At(s, n, k) \in 0..(n - 1)
      BY <1>1, <2>3, <2>4
    <3>2. At(s, n, k) % n = At(s, n, k)
      BY <2>2, <3>1
    <3> QED
      BY <1>1, <2>3, <2>4, <3>1, <3>2
  <2>5. CASE a + k + 1 = n
    BY <1>1, <2>1, <2>3, <2>5
  <2>6. CASE a + k + 1 > n
    <3>1. At(s, n, k) = a + k - n + 1 /\ At(s, n, k) \in 0..(n - 1)
      BY <1>1, <2>3, <2>6
    <3>2. At(s, n, k) % n = At(s, n, k)
      BY <2>2, <3>1
    <3> QED
      BY <1>1, <2>3, <2>6, <3>1, <3>2
  <2> QED
    BY <1>1, <2>4, <2>5, <2>6
<1>7. ASSUME NEW k \in 0..(n - 1) PROVE ((At(s, n, 0) - 1 + k) % n) + 1 = At(s, n, k)
  <2>1. At(s, n, 0) - 1 + k = a + k /\ k \in Int
    BY <1>1, <1>5
  <2> QED
    BY <1>2, <2>1
<1>8. At(s, n, 0) = (HashValue(Contents(s)) % n) + 1
  BY <1>5 DEF a
<1>9. \A k \in 0..(n - 1) : At(s, n, k) \in 1..n
  BY <1>1, <1>3
<1>10. \A k, j \in 0..(n - 1) : At(s, n, k) = At(s, n, j) => k = j
  BY <1>1, <1>3
<1> QED
  BY <1>4, <1>6, <1>7, <1>8, <1>9, <1>10

LEMMA SamePlaces ==
  ASSUME NEW s, NEW u, Contents(s) = Contents(u), NEW n, NEW k
  PROVE  At(s, n, k) = At(u, n, k)
BY DEF At

LEMMA Sizes ==
  ASSUME NEW t, NEW n, Sized(t, n)
  PROVE  /\ n \in Nat \ {0} /\ DOMAIN t = 1..n /\ Capacity(t) = n
         /\ \A i \in 1..n : t[i] \in Strings \cup {nil, Unused}
         /\ Present(t) \subseteq 1..n /\ Full(t) \subseteq 1..n /\ Present(t) \subseteq Full(t)
         /\ \A i \in 1..n : (i \in Full(t) <=> t[i] # Unused) /\ (i \in Present(t) <=> t[i] \in Strings)
         /\ IsFiniteSet(1..n) /\ IsFiniteSet(Present(t)) /\ IsFiniteSet(Full(t))
         /\ Cardinality(Full(t)) \in Nat /\ Cardinality(Full(t)) <= n
         /\ Cardinality(Present(t)) \in Nat /\ Cardinality(Present(t)) <= Cardinality(Full(t))
<1>1. n \in Nat \ {0} /\ DOMAIN t = 1..n /\ \A i \in 1..n : t[i] \in Strings \cup {nil, Unused}
  BY DEF Sized
<1>2. Present(t) \subseteq 1..n /\ Full(t) \subseteq 1..n /\ Present(t) \subseteq Full(t)
  BY <1>1, Constants DEF Present, Full
<1>3. IsFiniteSet(1..n) /\ Cardinality(1..n) = n
  <2>1. 1 \in Int /\ n \in Int /\ ~(1 > n) /\ n - 1 + 1 = n
    BY <1>1
  <2>2. IsFiniteSet(1..n) /\ Cardinality(1..n) = IF 1 > n THEN 0 ELSE n - 1 + 1
    BY <2>1, FS_Interval
  <2> QED
    BY <2>1, <2>2
<1>4. IsFiniteSet(Full(t)) /\ Cardinality(Full(t)) <= n
  BY <1>2, <1>3, FS_Subset
<1>5. IsFiniteSet(Present(t)) /\ Cardinality(Present(t)) <= Cardinality(Full(t))
  BY <1>2, <1>4, FS_Subset
<1>6. Cardinality(Full(t)) \in Nat /\ Cardinality(Present(t)) \in Nat
  BY <1>4, <1>5, FS_CardinalityType
<1>7. Capacity(t) = n
  BY <1>1, <1>3 DEF Capacity
<1>8. \A i \in 1..n : (i \in Full(t) <=> t[i] # Unused) /\ (i \in Present(t) <=> t[i] \in Strings)
  BY <1>1 DEF Full, Present
<1> QED
  BY <1>1, <1>2, <1>3, <1>4, <1>5, <1>6, <1>7, <1>8

(* A table that is not full has an unused entry.                              *)
LEMMA UnusedThere ==
  ASSUME NEW t, NEW n, Sized(t, n), Cardinality(Full(t)) < n
  PROVE  \E i \in 1..n : t[i] = Unused
<1> SUFFICES ASSUME \A i \in 1..n : t[i] # Unused PROVE FALSE
  OBVIOUS
<1>1. Full(t) = 1..n
  BY Sizes
<1>2. 1 \in Int /\ n \in Int /\ ~(1 > n) /\ n - 1 + 1 = n
  BY Sizes
<1>3. Cardinality(1..n) = IF 1 > n THEN 0 ELSE n - 1 + 1
  BY <1>2, FS_Interval
<1> QED
  BY <1>1, <1>2, <1>3

(* What intern: and rehashSymbolTable do to an entry.                         *)
Enters(t, n, s, d, w) ==
  /\ Good(t, n) /\ s \in Strings /\ d \in 0..(n - 1)
  /\ Open(t, n, s, d) /\ t[At(s, n, d)] \notin Strings
  /\ \A i \in Present(t) : Contents(t[i]) # Contents(s)
  /\ w = [t EXCEPT ![At(s, n, d)] = s]

Entered(t, n, s, d, w) ==
  LET i == At(s, n, d) IN
  /\ Good(w, n) /\ i \in 1..n /\ w[i] = s
  /\ Present(w) = Present(t) \cup {i} /\ Full(w) = Full(t) \cup {i}
  /\ i \notin Present(t) /\ \A j \in 1..n : j # i => w[j] = t[j]

LEMMA Entering ==
  ASSUME NEW t, NEW n, NEW s, NEW d, NEW w, Enters(t, n, s, d, w)
  PROVE  Entered(t, n, s, d, w)
<1> USE DEF Enters
<1> DEFINE i == At(s, n, d)
<1>1. Sized(t, n) /\ Found(t, n) /\ Distinct(t) /\ n \in Nat \ {0} /\ DOMAIN t = 1..n
  BY Sizes DEF Good
<1>2. i \in 1..n
  BY <1>1, Places
<1>3. /\ Sized(w, n) /\ DOMAIN w = 1..n /\ w[i] = s
      /\ \A j \in 1..n : j # i => w[j] = t[j]
  BY <1>1, <1>2 DEF Sized
<1>4. t[i] \notin Strings /\ s \in Strings /\ s # Unused
  BY Constants
<1>5. Present(w) = Present(t) \cup {i} /\ Full(w) = Full(t) \cup {i} /\ i \notin Present(t)
  BY <1>1, <1>2, <1>3, <1>4 DEF Present, Full
<1>6. \A j \in 1..n : t[j] # Unused => w[j] # Unused
  BY <1>3, <1>4
<1>7. ASSUME NEW u \in Strings, NEW k \in 0..(n - 1), Open(t, n, u, k) PROVE Open(w, n, u, k)
  <2>1. \A h \in 0..(k - 1) : h \in 0..(n - 1)
    BY <1>1
  <2>2. \A h \in 0..(k - 1) : At(u, n, h) \in 1..n
    BY <1>1, <2>1, Places
  <2> QED
    BY <1>6, <1>7, <2>2 DEF Open
<1> HIDE DEF i
<1>8. Found(w, n)
  <2> SUFFICES ASSUME NEW j \in Present(w)
               PROVE  \E k \in 0..(n - 1) : At(w[j], n, k) = j /\ Open(w, n, w[j], k)
    BY DEF Found
  <2>1. CASE j = i
    <3>1. At(w[j], n, d) = j /\ Open(w, n, w[j], d)
      BY <1>3, <1>4, <1>7, <2>1 DEF i
    <3> QED
      BY <3>1
  <2>2. CASE j # i
    <3>1. j \in Present(t) /\ j \in 1..n /\ w[j] = t[j] /\ t[j] \in Strings
      BY <1>1, <1>3, <1>5, <2>2 DEF Present
    <3>2. PICK k \in 0..(n - 1) : At(t[j], n, k) = j /\ Open(t, n, t[j], k)
      BY <1>1, <3>1 DEF Found
    <3>3. Open(w, n, t[j], k)
      BY <1>7, <3>1, <3>2
    <3> QED
      BY <3>1, <3>2, <3>3
  <2> QED
    BY <2>1, <2>2
<1>9. Distinct(w)
  <2>1. \A j \in Present(t) : j \in 1..n /\ j # i /\ w[j] = t[j] /\ Contents(w[j]) # Contents(w[i])
    BY <1>1, <1>3, <1>5 DEF Present
  <2>2. \A j, k \in Present(t) : Contents(t[j]) = Contents(t[k]) => j = k
    BY <1>1 DEF Distinct
  <2>3. ASSUME NEW j \in Present(w), NEW k \in Present(w), Contents(w[j]) = Contents(w[k])
        PROVE  j = k
    BY <1>5, <2>1, <2>2, <2>3
  <2> QED
    BY <2>3 DEF Distinct
<1> QED
  BY <1>2, <1>3, <1>5, <1>8, <1>9 DEF Entered, Good, i

(* What the collector does to a table.                                        *)
Kept(t, n, S, w) ==
  /\ Good(w, n) /\ Full(w) = Full(t)
  /\ Present(w) = {i \in Present(t) : t[i] \notin S}
  /\ \A i \in 1..n : w[i] = IF t[i] \in S THEN nil ELSE t[i]

LEMMA Clearing ==
  ASSUME NEW t, NEW n, NEW S, S \subseteq Strings, NEW w, Good(t, n), w = Cleared(t, S)
  PROVE  Kept(t, n, S, w)
<1>1. Sized(t, n) /\ Found(t, n) /\ Distinct(t) /\ n \in Nat \ {0} /\ DOMAIN t = 1..n
      /\ \A i \in 1..n : t[i] \in Strings \cup {nil, Unused}
  BY Sizes DEF Good
<1>2. w = [i \in 1..n |-> IF t[i] \in S THEN nil ELSE t[i]]
  BY <1>1 DEF Cleared
<1>3. Sized(w, n) /\ DOMAIN w = 1..n /\ \A i \in 1..n : w[i] = IF t[i] \in S THEN nil ELSE t[i]
  BY <1>1, <1>2 DEF Sized
<1>4. Full(w) = Full(t) /\ Present(w) = {i \in Present(t) : t[i] \notin S}
  BY <1>1, <1>3, Constants DEF Full, Present
<1>5. \A i \in 1..n : t[i] # Unused => w[i] # Unused
  BY <1>3, Constants
<1>6. Found(w, n)
  <2> SUFFICES ASSUME NEW j \in Present(w)
               PROVE  \E k \in 0..(n - 1) : At(w[j], n, k) = j /\ Open(w, n, w[j], k)
    BY DEF Found
  <2>1. j \in Present(t) /\ j \in 1..n /\ w[j] = t[j] /\ t[j] \in Strings
    BY <1>1, <1>3, <1>4 DEF Present
  <2>2. PICK k \in 0..(n - 1) : At(t[j], n, k) = j /\ Open(t, n, t[j], k)
    BY <1>1, <2>1 DEF Found
  <2>3. \A h \in 0..(k - 1) : h \in 0..(n - 1)
    BY <1>1
  <2>4. \A h \in 0..(k - 1) : At(t[j], n, h) \in 1..n
    BY <1>1, <2>1, <2>3, Places
  <2>5. Open(w, n, t[j], k)
    BY <1>5, <2>2, <2>4 DEF Open
  <2> QED
    BY <2>1, <2>2, <2>5
<1>7. Distinct(w)
  <2>1. \A j \in Present(w) : j \in Present(t) /\ w[j] = t[j]
    BY <1>1, <1>3, <1>4 DEF Present
  <2> QED
    BY <1>1, <2>1 DEF Distinct
<1> QED
  BY <1>3, <1>4, <1>6, <1>7 DEF Kept, Good

(* A search that comes to an unused entry has passed every symbol with the same   *)
(* hash.                                                                     *)
LEMMA NotThere ==
  ASSUME NEW t, NEW n, Good(t, n), NEW s \in Strings, NEW d \in 0..(n - 1),
         t[At(s, n, d)] = Unused,
         \A k \in 0..(d - 1) : t[At(s, n, k)] \in Strings => Contents(t[At(s, n, k)]) # Contents(s),
         NEW i \in Present(t)
  PROVE  Contents(t[i]) # Contents(s)
<1> SUFFICES ASSUME Contents(t[i]) = Contents(s) PROVE FALSE
  OBVIOUS
<1>1. Sized(t, n) /\ n \in Nat \ {0} /\ t[i] \in Strings
  BY DEF Good, Present, Sized
<1>2. PICK k \in 0..(n - 1) : At(t[i], n, k) = i /\ Open(t, n, t[i], k)
  BY DEF Good, Found
<1>3. \A h : At(t[i], n, h) = At(s, n, h)
  BY SamePlaces
<1>4. ~(d \in 0..(k - 1))
  BY <1>2, <1>3 DEF Open
<1>5. ~(k \in 0..(d - 1))
  BY <1>1, <1>2, <1>3
<1>6. k # d
  BY <1>1, <1>2, <1>3, Constants
<1> QED
  BY <1>1, <1>4, <1>5, <1>6

(* The search of rehashSymbolTable for an unused entry.                        *)
LEMMA FreeFound ==
  ASSUME NEW t, NEW n, Sized(t, n), Cardinality(Full(t)) < n, NEW s \in Strings
  PROVE  \E d \in 0..(n - 1) : /\ FreeFrom(t, Index(s, t)) = At(s, n, d)
                               /\ t[At(s, n, d)] = Unused /\ Open(t, n, s, d)
<1>1. n \in Nat \ {0} /\ Capacity(t) = n
  BY Sizes
<1>2. PICK i \in 1..n : t[i] = Unused
  BY UnusedThere
<1>3. PICK k \in 0..(n - 1) : At(s, n, k) = i
  BY <1>1, Places
<1> DEFINE stops == {h \in 0..(n - 1) : t[At(s, n, h)] = Unused}
           d == Min(stops)
<1>4. d \in stops /\ \A h \in stops : d <= h
  <2>1. stops \in SUBSET Nat /\ stops # {}
    BY <1>2, <1>3
  <2> HIDE DEF stops
  <2> QED
    BY <2>1, SmallestNat
<1>5. FreeFrom(t, Index(s, t)) = At(s, n, d)
  <2>1. Index(s, t) = At(s, n, 0)
    BY <1>1, Places DEF Index
  <2>2. \A h \in 0..(n - 1) : ((Index(s, t) - 1 + h) % n) + 1 = At(s, n, h)
    BY <1>1, <2>1, Places
  <2>3. {h \in 0..(n - 1) : t[((Index(s, t) - 1 + h) % n) + 1] = Unused} = stops
    BY <2>2
  <2>4. FreeFrom(t, Index(s, t)) =
          ((Index(s, t) - 1 + Min({h \in 0..(n - 1) : t[((Index(s, t) - 1 + h) % n) + 1] = Unused})) % n) + 1
    BY <1>1 DEF FreeFrom
  <2>5. d \in 0..(n - 1)
    BY <1>4
  <2> HIDE DEF stops
  <2>6. FreeFrom(t, Index(s, t)) = ((Index(s, t) - 1 + d) % n) + 1
    BY <2>3, <2>4
  <2> HIDE DEF d
  <2> QED
    BY <2>2, <2>5, <2>6
<1>6. d \in 0..(n - 1) /\ t[At(s, n, d)] = Unused
  BY <1>4
<1> HIDE DEF stops, d
<1>7. Open(t, n, s, d)
  <2>1. ASSUME NEW h \in 0..(d - 1) PROVE t[At(s, n, h)] # Unused
    <3>1. h \in 0..(n - 1) /\ ~(d <= h)
      BY <1>1, <1>6
    <3>2. h \notin stops
      BY <1>4, <3>1
    <3> QED
      BY <3>1, <3>2 DEF stops
  <2> QED
    BY <2>1 DEF Open
<1> QED
  BY <1>5, <1>6, <1>7

-----------------------------------------------------------------------------
(* Every step keeps the invariant.                                           *)

LEMMA Facts ==
  ASSUME IInv
  PROVE  LET n == Capacity(symbolTable) IN
         /\ TableSound(symbolTable, n, symbolTableUsed, canonical, held, made)
         /\ InternSound(symbolTable, n, symbolTableUsed, canonical, made, interning)
         /\ Good(symbolTable, n) /\ Sized(symbolTable, n) /\ n \in Nat \ {0}
         /\ interning = Idle <=> interning.pc = "idle"
         /\ interning.pc \in {"probe", "count"} => Searches(interning)
         /\ interning.pc = "move" => Moves(interning)
         /\ interning = Idle => ~Running
<1> DEFINE n == Capacity(symbolTable)
<1>1. /\ TableSound(symbolTable, n, symbolTableUsed, canonical, held, made)
      /\ InternSound(symbolTable, n, symbolTableUsed, canonical, made, interning)
      /\ Good(symbolTable, n) /\ Sized(symbolTable, n) /\ n \in Nat \ {0}
  BY DEF IInv, TableSound, Good, Sized
<1>2. interning = Idle \/ Searches(interning) \/ Moves(interning)
  BY <1>1 DEF InternSound
<1>3. interning = Idle => interning.pc = "idle"
  BY DEF Idle
<1>4. Searches(interning) => interning.pc \in {"probe", "count"}
  BY DEF Searches
<1>5. Moves(interning) => interning.pc = "move"
  BY DEF Moves
<1> QED
  BY <1>1, <1>2, <1>3, <1>4, <1>5 DEF Running

LEMMA MakeKeeps ==
  ASSUME IInv, NEW s \in Strings, Make(s)
  PROVE  IInv'
<1> DEFINE n == Capacity(symbolTable)
<1>1. /\ TableSound(symbolTable, n, symbolTableUsed, canonical, held, made)
      /\ InternSound(symbolTable, n, symbolTableUsed, canonical, made, interning)
      /\ interning = Idle
  BY Facts DEF Make, Running
<1>2. /\ symbolTable' = symbolTable /\ symbolTableUsed' = symbolTableUsed /\ canonical' = canonical
      /\ interning' = interning /\ s \notin made /\ made' = made \cup {s} /\ held' = held \cup {s}
  BY DEF Make
<1>3. TableSound(symbolTable, n, symbolTableUsed, canonical, held', made')
  BY <1>1, <1>2 DEF TableSound
<1>4. InternSound(symbolTable, n, symbolTableUsed, canonical, made', interning)
  BY <1>1 DEF InternSound, Idle
<1> QED
  BY <1>2, <1>3, <1>4 DEF IInv

LEMMA ForgetKeeps ==
  ASSUME IInv, NEW s \in Strings, Forget(s)
  PROVE  IInv'
<1> DEFINE n == Capacity(symbolTable)
<1>1. /\ TableSound(symbolTable, n, symbolTableUsed, canonical, held, made)
      /\ InternSound(symbolTable, n, symbolTableUsed, canonical, made, interning)
  BY Facts
<1>2. /\ symbolTable' = symbolTable /\ symbolTableUsed' = symbolTableUsed /\ canonical' = canonical
      /\ interning' = interning /\ made' = made /\ held' = held \ {s}
  BY DEF Forget
<1>3. TableSound(symbolTable, n, symbolTableUsed, canonical, held', made)
  BY <1>1, <1>2 DEF TableSound
<1> QED
  BY <1>1, <1>2, <1>3 DEF IInv

(* A search that begins.                                                     *)
LEMMA SearchBegins ==
  ASSUME NEW t, NEW n, Sized(t, n), NEW s \in Strings
  PROVE  Sought(t, n, s, Index(s, t), nil) /\ Index(s, t) \in Nat
<1>1. n \in Nat \ {0} /\ Capacity(t) = n
  BY Sizes
<1>2. Index(s, t) = At(s, n, 0) /\ At(s, n, 0) \in 1..n /\ 0 \in 0..(n - 1)
  BY <1>1, Places DEF Index
<1>3. \A k : k \notin 0..(0 - 1)
  OBVIOUS
<1> QED
  BY <1>2, <1>3 DEF Sought, Open

LEMMA AsSymbolKeeps ==
  ASSUME IInv, NEW s \in Strings, AsSymbol(s)
  PROVE  IInv'
<1> DEFINE n == Capacity(symbolTable)
           rest == [pc |-> IF symbolTableUsed = nil THEN "count" ELSE "probe", string |-> s,
                    index |-> Index(s, symbolTable), reuseIndex |-> nil]
<1>1. /\ TableSound(symbolTable, n, symbolTableUsed, canonical, held, made)
      /\ InternSound(symbolTable, n, symbolTableUsed, canonical, made, interning)
      /\ Sized(symbolTable, n) /\ interning = Idle
  BY Facts DEF AsSymbol, Running
<1>2. /\ symbolTable' = symbolTable /\ canonical' = canonical /\ held' = held /\ made' = made
      /\ interning' = rest /\ s \in held /\ s \notin canonical
      /\ symbolTableUsed' = IF symbolTableUsed = nil THEN n ELSE symbolTableUsed
  BY DEF AsSymbol
<1>3. Sought(symbolTable, n, s, Index(s, symbolTable), nil) /\ Index(s, symbolTable) \in Nat
  BY <1>1, SearchBegins
<1>4. s \in made
  BY <1>1, <1>2 DEF TableSound
<1>5. n \in Nat /\ symbolTableUsed' # nil /\ symbolTableUsed' \in Nat
      /\ symbolTableUsed' = Cardinality(Full(symbolTable))
  <2>1. n \in Nat \ {0} /\ n # nil /\ DOMAIN symbolTable = 1..n
    BY <1>1, Sizes, Constants
  <2>2. 1 \in Int /\ n \in Int /\ ~(1 > n) /\ n - 1 + 1 = n
    BY <2>1
  <2>3. Cardinality(1..n) = IF 1 > n THEN 0 ELSE n - 1 + 1
    BY <2>2, FS_Interval
  <2>4. CASE symbolTableUsed = nil
    <3>1. Full(symbolTable) = 1..n
      BY <1>1, <2>1, <2>4 DEF TableSound
    <3> QED
      BY <1>2, <2>1, <2>2, <2>3, <2>4, <3>1
  <2>5. CASE symbolTableUsed # nil
    BY <1>1, <1>2, <2>1, <2>5 DEF TableSound
  <2> QED
    BY <2>4, <2>5
<1>6. TableSound(symbolTable, n, symbolTableUsed', canonical, held, made)
  BY <1>1, <1>5 DEF TableSound
<1>7. /\ rest.pc = (IF symbolTableUsed = nil THEN "count" ELSE "probe") /\ rest.string = s
      /\ rest.index = Index(s, symbolTable) /\ rest.reuseIndex = nil
      /\ Searches(rest)
  BY <1>3 DEF Searches
<1>8. symbolTableUsed # nil => symbolTableUsed' < n
  <2>1. interning.pc = "idle"
    BY <1>1 DEF Idle
  <2> QED
    BY <1>1, <1>2, <2>1 DEF InternSound
<1> HIDE DEF rest
<1>9. InternSound(symbolTable, n, symbolTableUsed', canonical, made, rest)
  BY <1>2, <1>3, <1>4, <1>5, <1>7, <1>8 DEF InternSound
<1> QED
  BY <1>2, <1>6, <1>9 DEF IInv

LEMMA ProbeKeeps ==
  ASSUME IInv, Probe
  PROVE  IInv'
<1> DEFINE n == Capacity(symbolTable)
           t == symbolTable
           s == interning.string
           i == interning.index
           symbol == t[i]
<1>1. /\ TableSound(t, n, symbolTableUsed, canonical, held, made)
      /\ InternSound(t, n, symbolTableUsed, canonical, made, interning)
      /\ Good(t, n) /\ Sized(t, n) /\ n \in Nat \ {0}
      /\ interning.pc = "probe" /\ Searches(interning) /\ symbol # Unused /\ interning # Idle
  BY Facts DEF Probe, EndsSearch
<1>2. /\ symbolTable' = t /\ symbolTableUsed' = symbolTableUsed /\ canonical' = canonical /\ made' = made
  BY DEF Probe
<1>3. /\ s \in Strings /\ s \notin canonical /\ s \in made /\ symbolTableUsed # nil /\ symbolTableUsed < n
      /\ Sought(t, n, s, i, interning.reuseIndex) /\ symbolTableUsed = Cardinality(Full(t))
  BY <1>1 DEF InternSound, TableSound, Searches
<1>4. PICK d \in 0..(n - 1) :
        /\ i = At(s, n, d) /\ Open(t, n, s, d)
        /\ \A k \in 0..(d - 1) : t[At(s, n, k)] \in Strings => Contents(t[At(s, n, k)]) # Contents(s)
        /\ interning.reuseIndex # nil => \E k \in 0..(d - 1) : interning.reuseIndex = At(s, n, k) /\ t[interning.reuseIndex] = nil
  BY <1>3 DEF Sought
<1> HIDE DEF n, t
<1>4a. /\ \A k \in 0..(n - 1) : At(s, n, k) \in 1..n
       /\ \A e \in 1..n : \E k \in 0..(n - 1) : At(s, n, k) = e
       /\ \A k \in 0..(n - 1) : k + 1 < n => (At(s, n, k) % n) + 1 = At(s, n, k + 1)
  <2>1. n \in Nat \ {0} /\ s \in Strings
    BY <1>1, <1>3
  <2> HIDE DEF s
  <2>2. \A k \in 0..(n - 1) : At(s, n, k) \in 1..n
    BY ONLY <2>1, Places
  <2>3. \A e \in 1..n : \E k \in 0..(n - 1) : At(s, n, k) = e
    BY ONLY <2>1, Places
  <2>4. \A k \in 0..(n - 1) : k + 1 < n => (At(s, n, k) % n) + 1 = At(s, n, k + 1)
    BY ONLY <2>1, Places
  <2> QED
    BY <2>2, <2>3, <2>4
<1>5. i \in 1..n /\ t[i] \in Strings \cup {nil}
  <2>1. \A e \in 1..n : t[e] \in Strings \cup {nil, Unused}
    BY <1>1, Sizes
  <2>2. i \in 1..n
    BY <1>4, <1>4a
  <2> QED
    BY <1>1, <2>1, <2>2
<1>6. CASE symbol # nil /\ Answer(symbol)
  <2>1. held' = (held \ {s}) \cup {symbol} /\ interning' = Idle
    BY <1>6 DEF Answer
  <2>2. i \in Present(t) /\ symbol \in canonical /\ symbol \in made
    BY <1>1, <1>5, <1>6, Sizes DEF TableSound
  <2> HIDE DEF symbol
  <2>3. \A x \in canonical \cap held' : \E j \in Present(t) : t[j] = x
    <3>1. t[i] = symbol
      BY DEF symbol
    <3> QED
      BY <1>1, <2>1, <2>2, <3>1 DEF TableSound
  <2>4. TableSound(t, n, symbolTableUsed, canonical, held', made)
    <3>1. held' \subseteq made
      BY <1>1, <2>1, <2>2 DEF TableSound
    <3> QED
      BY <1>1, <2>3, <3>1 DEF TableSound
  <2>5. InternSound(t, n, symbolTableUsed, canonical, made, interning')
    BY <1>3, <2>1 DEF InternSound, Idle
  <2> QED
    BY <1>2, <2>4, <2>5 DEF IInv, n, t
<1>7. CASE /\ symbol # nil => Contents(symbol) # Contents(s)
           /\ interning' = [interning EXCEPT !.index = Following(@, symbolTable),
                                             !.reuseIndex = IF symbol = nil THEN interning.index ELSE @]
           /\ UNCHANGED held
  <2> DEFINE reuse == IF symbol = nil THEN i ELSE interning.reuseIndex
  <2>1. /\ interning'.pc = "probe" /\ interning'.string = s /\ interning'.index = Following(i, t)
        /\ interning'.reuseIndex = reuse
    BY <1>1, <1>7 DEF Searches, t
  <2>2. PICK e \in 1..n : t[e] = Unused
    BY <1>1, <1>3, UnusedThere
  <2>3. PICK k \in 0..(n - 1) : At(s, n, k) = e
    BY <1>4a
  <2>4. d + 1 \in 0..(n - 1) /\ d + 1 < n
    <3>1. k \notin 0..(d - 1) /\ k # d
      BY <1>1, <1>4, <2>2, <2>3 DEF Open
    <3> QED
      BY <1>1, <3>1
  <2>5. Following(i, t) = At(s, n, d + 1) /\ Following(i, t) \in Nat
    <3>1. Capacity(t) = n
      BY <1>1, Sizes
    <3>2. (At(s, n, d) % n) + 1 = At(s, n, d + 1) /\ At(s, n, d + 1) \in 1..n
      BY <1>4a, <2>4
    <3> QED
      BY <1>4, <3>1, <3>2 DEF Following
  <2>6. \A h \in 0..d : h \in 0..(d - 1) \/ h = d
    BY <1>1
  <2>7. Open(t, n, s, d + 1)
    <3>1. \A h \in 0..d : t[At(s, n, h)] # Unused
      BY <1>1, <1>4, <2>6 DEF Open
    <3>2. (d + 1) - 1 = d
      BY <1>1
    <3> QED
      BY <3>1, <3>2 DEF Open
  <2>8. \A h \in 0..((d + 1) - 1) : t[At(s, n, h)] \in Strings => Contents(t[At(s, n, h)]) # Contents(s)
    <3>1. (d + 1) - 1 = d
      BY <1>1
    <3>2. t[At(s, n, d)] \in Strings => Contents(t[At(s, n, d)]) # Contents(s)
      BY <1>4, <1>7, Constants
    <3> QED
      BY <1>4, <2>6, <3>1, <3>2
  <2>9. reuse # nil => \E h \in 0..((d + 1) - 1) : reuse = At(s, n, h) /\ t[reuse] = nil
    <3>1. (d + 1) - 1 = d /\ d \in 0..d /\ \A h \in 0..(d - 1) : h \in 0..d
      BY <1>1
    <3>2. CASE symbol = nil
      BY <1>4, <3>1, <3>2
    <3>3. CASE symbol # nil
      BY <1>4, <3>1, <3>3
    <3> QED
      BY <3>2, <3>3
  <2>10. reuse \in Nat \cup {nil}
    BY <1>1, <1>5 DEF Searches
  <2>11. Searches(interning')
    BY <1>1, <1>7, <2>5, <2>10 DEF Searches, t
  <2> HIDE DEF reuse, s, i, symbol
  <2>12. Sought(t, n, s, interning'.index, interning'.reuseIndex)
    BY <2>1, <2>4, <2>5, <2>7, <2>8, <2>9 DEF Sought
  <2>13. InternSound(t, n, symbolTableUsed, canonical, made, interning')
    BY <1>3, <2>1, <2>11, <2>12 DEF InternSound
  <2> QED
    BY <1>1, <1>2, <1>7, <2>13 DEF IInv, n, t
<1> QED
  BY <1>6, <1>7 DEF Probe, t

LEMMA EnterKeeps ==
  ASSUME IInv, Enter
  PROVE  IInv'
<1> DEFINE n == Capacity(symbolTable)
           t == symbolTable
           s == interning.string
           reused == interning.reuseIndex # nil
           i == IF reused THEN interning.reuseIndex ELSE interning.index
           w == [t EXCEPT ![i] = s]
           symbols == canonical \cup {s}
<1>1. /\ TableSound(t, n, symbolTableUsed, canonical, held, made)
      /\ InternSound(t, n, symbolTableUsed, canonical, made, interning)
      /\ Good(t, n) /\ Sized(t, n) /\ n \in Nat \ {0}
      /\ interning.pc = "probe" /\ Searches(interning) /\ t[interning.index] = Unused /\ interning # Idle
  BY Facts DEF Enter, EndsSearch
<1>2. /\ symbolTable' = w /\ symbolTableUsed' = UsedAfter /\ canonical' = symbols /\ made' = made
      /\ UsedAfter = (IF reused THEN symbolTableUsed ELSE symbolTableUsed + 1)
  BY DEF Enter, UsedAfter
<1>3. /\ s \in Strings /\ s \notin canonical /\ s \in made /\ symbolTableUsed # nil /\ symbolTableUsed < n
      /\ Sought(t, n, s, interning.index, interning.reuseIndex) /\ symbolTableUsed = Cardinality(Full(t))
      /\ symbolTableUsed \in Nat
  BY <1>1 DEF InternSound, TableSound, Searches
<1>4. PICK d \in 0..(n - 1) :
        /\ interning.index = At(s, n, d) /\ Open(t, n, s, d)
        /\ \A k \in 0..(d - 1) : t[At(s, n, k)] \in Strings => Contents(t[At(s, n, k)]) # Contents(s)
        /\ reused => \E k \in 0..(d - 1) : interning.reuseIndex = At(s, n, k) /\ t[interning.reuseIndex] = nil
  BY <1>3 DEF Sought
<1>5. \E k \in 0..(n - 1) : /\ i = At(s, n, k) /\ Open(t, n, s, k)
                            /\ t[i] = IF reused THEN nil ELSE Unused
  <2>1. CASE ~reused
    BY <1>1, <1>4, <2>1
  <2>2. CASE reused
    <3>1. PICK k \in 0..(d - 1) : interning.reuseIndex = At(s, n, k) /\ t[interning.reuseIndex] = nil
      BY <1>4, <2>2
    <3>2. k \in 0..(n - 1) /\ \A h \in 0..(k - 1) : h \in 0..(d - 1)
      BY <1>1
    <3>3. Open(t, n, s, k)
      BY <1>4, <3>2 DEF Open
    <3> QED
      BY <2>2, <3>1, <3>2, <3>3
  <2> QED
    BY <2>1, <2>2
<1>6. \A j \in Present(t) : Contents(t[j]) # Contents(s)
  <2>1. t[At(s, n, d)] = Unused
    BY <1>1, <1>4
  <2> HIDE DEF s, n, t
  <2> QED
    BY <1>1, <1>3, <1>4, <2>1, NotThere
<1> HIDE DEF n, t, s, reused, i
<1>7. PICK k \in 0..(n - 1) : i = At(s, n, k) /\ Open(t, n, s, k) /\ t[i] = IF reused THEN nil ELSE Unused
  BY <1>5
<1>8. Entered(t, n, s, k, w)
  <2>1. Enters(t, n, s, k, w)
    BY <1>1, <1>3, <1>6, <1>7, Constants DEF Enters
  <2> HIDE DEF w
  <2> QED
    BY <2>1, Entering
<1> HIDE DEF w
<1>9. /\ Good(w, n) /\ i \in 1..n /\ w[i] = s
      /\ Present(w) = Present(t) \cup {i} /\ Full(w) = Full(t) \cup {i}
      /\ \A j \in Present(t) : w[j] = t[j]
  <2>1. Present(t) \subseteq 1..n
    BY <1>1, Sizes
  <2> QED
    BY <1>7, <1>8, <2>1 DEF Entered
<1>10. UsedAfter \in Nat /\ UsedAfter = Cardinality(Full(w)) /\ UsedAfter # nil
  <2>1. IsFiniteSet(Full(t)) /\ \A j \in 1..n : j \in Full(t) <=> t[j] # Unused
    BY <1>1, Sizes
  <2>2. CASE reused
    <3>1. Full(w) = Full(t)
      BY <1>7, <1>9, <2>1, <2>2, Constants
    <3> QED
      BY <1>2, <1>3, <2>2, <3>1
  <2>3. CASE ~reused
    <3>1. i \notin Full(t)
      BY <1>7, <1>9, <2>1, <2>3
    <3>2. Cardinality(Full(w)) = Cardinality(Full(t)) + 1
      BY <1>9, <2>1, <3>1, FS_AddElement
    <3> QED
      BY <1>2, <1>3, <2>3, <3>2, Constants
  <2> QED
    BY <2>2, <2>3
<1>11. \E j \in Present(w) : w[j] = s
  BY <1>9
<1>12. \A x \in symbols \cap (held \cup {s}) : \E j \in Present(w) : w[j] = x
  BY <1>1, <1>9, <1>11 DEF TableSound
<1>13. \A j \in Present(w) : w[j] \in symbols
  BY <1>1, <1>9 DEF TableSound
<1>14. ASSUME NEW refs, refs \subseteq held \cup {s}
       PROVE  TableSound(w, n, UsedAfter, symbols, refs, made)
  <2>1. symbols \subseteq made /\ refs \subseteq made /\ made \subseteq Strings
    BY <1>1, <1>3, <1>14 DEF TableSound
  <2>2. \A x \in symbols \cap refs : \E j \in Present(w) : w[j] = x
    BY <1>12, <1>14
  <2> HIDE DEF symbols
  <2> QED
    BY <1>9, <1>10, <1>13, <2>1, <2>2 DEF TableSound
<1>15. Capacity(w) = n
  BY <1>9, Sizes DEF Good
<1>16. CASE ~reused /\ UsedAfter * 4 > Capacity(symbolTable) * 3
  <2>1. interning' = [interning EXCEPT !.pc = "count"] /\ held' = held
    BY <1>16 DEF Enter, reused
  <2>2. Searches(interning') /\ interning'.pc = "count" /\ interning'.string = s
    BY <1>1, <2>1 DEF Searches, s
  <2>3. InternSound(w, n, UsedAfter, symbols, made, interning')
    BY <1>3, <1>10, <1>11, <2>2 DEF InternSound
  <2>4. TableSound(w, n, UsedAfter, symbols, held, made)
    BY <1>14
  <2> QED
    BY <1>2, <1>15, <2>1, <2>3, <2>4 DEF IInv
<1>17. CASE ~(~reused /\ UsedAfter * 4 > Capacity(symbolTable) * 3)
  <2>1. interning' = Idle /\ held' = (held \ {s}) \cup {s}
    BY <1>17 DEF Enter, Answer, reused, s
  <2>2. UsedAfter < n
    <3>1. CASE reused
      BY <1>2, <1>3, <3>1
    <3>2. CASE ~reused
      <4>1. ~(UsedAfter * 4 > n * 3)
        BY <1>17, <3>2 DEF n
      <4> QED
        BY <1>1, <1>10, <4>1
    <3> QED
      BY <3>1, <3>2
  <2>3. InternSound(w, n, UsedAfter, symbols, made, interning')
    BY <2>1, <2>2 DEF InternSound, Idle
  <2>4. TableSound(w, n, UsedAfter, symbols, held', made)
    BY <1>14, <2>1
  <2> QED
    BY <1>2, <1>15, <2>3, <2>4 DEF IInv
<1> QED
  BY <1>16, <1>17

LEMMA BeginRehashKeeps ==
  ASSUME IInv, BeginRehash
  PROVE  IInv'
<1> DEFINE n == Capacity(symbolTable)
           t == symbolTable
           dead == {i \in DOMAIN t : t[i] = nil}
           m == Grown(n, symbolTableUsed - Cardinality(dead))
           w == [i \in 1..m |-> Unused]
           rest == [pc |-> "move", string |-> interning.string, oldIndex |-> 1, newUsed |-> 0, newTable |-> w]
<1>1. /\ TableSound(t, n, symbolTableUsed, canonical, held, made)
      /\ InternSound(t, n, symbolTableUsed, canonical, made, interning)
      /\ Good(t, n) /\ Sized(t, n) /\ n \in Nat \ {0}
      /\ interning.pc = "count" /\ Searches(interning) /\ interning # Idle
  BY Facts DEF BeginRehash
<1>2. /\ symbolTable' = t /\ symbolTableUsed' = symbolTableUsed /\ canonical' = canonical /\ held' = held
      /\ made' = made /\ interning' = rest
  BY DEF BeginRehash
<1>3. /\ symbolTableUsed \in Nat /\ symbolTableUsed # nil /\ symbolTableUsed = Cardinality(Full(t))
      /\ interning.string \in Strings /\ interning.string \in made
      /\ interning.string \in canonical => \E i \in Present(t) : t[i] = interning.string
  BY <1>1 DEF InternSound, TableSound, Searches
<1> HIDE DEF n, t
<1>4. /\ DOMAIN t = 1..n /\ IsFiniteSet(Present(t)) /\ Cardinality(Present(t)) \in Nat
      /\ IsFiniteSet(Full(t)) /\ Full(t) \subseteq 1..n /\ Present(t) \subseteq 1..n /\ Cardinality(Full(t)) <= n
      /\ \A i \in 1..n : /\ t[i] \in Strings \cup {nil, Unused}
                         /\ (i \in Full(t) <=> t[i] # Unused) /\ (i \in Present(t) <=> t[i] \in Strings)
  BY <1>1, Sizes
<1>5. Cardinality(Present(t)) = symbolTableUsed - Cardinality(dead)
  <2>1. dead \subseteq Full(t) /\ Present(t) \cup dead = Full(t) /\ Present(t) \cap dead = {}
    BY <1>4, Constants
  <2> HIDE DEF dead
  <2>2. IsFiniteSet(dead) /\ Cardinality(dead) \in Nat
    BY <1>4, <2>1, FS_Subset, FS_CardinalityType
  <2>3. Cardinality(Present(t) \cup dead) = Cardinality(Present(t)) + Cardinality(dead) - Cardinality(Present(t) \cap dead)
    BY <1>4, <2>2, FS_Union
  <2>4. Cardinality(Present(t) \cap dead) = 0
    BY <2>1, FS_EmptySet
  <2>5. Cardinality(Present(t) \cup dead) = symbolTableUsed
    BY <1>3, <2>1
  <2> QED
    BY <1>3, <1>4, <2>2, <2>3, <2>4, <2>5
<1>6. m \in Nat \ {0} /\ Cardinality(Present(t)) < m
  <2>1. Cardinality(Present(t)) <= n
    <3>1. Cardinality(Present(t)) <= Cardinality(Full(t)) /\ Cardinality(Full(t)) \in Nat
      BY <1>1, Sizes
    <3> QED
      BY <1>1, <1>4, <3>1
  <2>2. m = IF Cardinality(Present(t)) > n \div 2 THEN 2 * n ELSE n
    BY <1>5 DEF Grown
  <2> HIDE DEF m
  <2>3. n \div 2 < n /\ n \div 2 \in Nat
    BY <1>1
  <2> QED
    BY <1>1, <1>4, <2>1, <2>2, <2>3
<1> HIDE DEF m, dead
<1>7. /\ Sized(w, m) /\ DOMAIN w = 1..m /\ \A i \in 1..m : w[i] = Unused
      /\ Present(w) = {} /\ Full(w) = {}
  <2>1. Sized(w, m) /\ DOMAIN w = 1..m /\ \A i \in 1..m : w[i] = Unused
    BY <1>6 DEF Sized
  <2> HIDE DEF w
  <2> QED
    BY <2>1, Constants DEF Present, Full
<1>8. Good(w, m)
  <2> HIDE DEF w
  <2> QED
    BY <1>7 DEF Good, Found, Distinct
<1>9. Capacity(w) = m
  <2> HIDE DEF w
  <2> QED
    BY <1>7, Sizes
<1>10. Searches(interning) => interning.string \in Strings
  BY DEF Searches
<1>11. rest.pc = "move" /\ rest.string = interning.string /\ rest.oldIndex = 1 /\ rest.newUsed = 0
       /\ rest.newTable = w /\ Moves(rest)
  <2>1. w \in [1..m -> Strings \cup {nil, Unused}]
    BY <1>7 DEF Sized
  <2> HIDE DEF w
  <2>2. rest \in [pc : {"move"}, string : Strings, oldIndex : Nat, newUsed : Nat,
                  newTable : [1..m -> Strings \cup {nil, Unused}]]
    BY <1>3, <2>1
  <2>3. Moves(rest)
    <3> HIDE DEF rest
    <3> QED
      BY <1>6, <2>2 DEF Moves
  <2> QED
    BY <2>3
<1> HIDE DEF w, rest
<1>12. Moving(t, n, w, m, 1, 0)
  <2>1. {i \in Present(t) : i >= 1} = Present(t)
    BY <1>4
  <2>2. \A i \in Present(t) : ~(i < 1)
    BY <1>4
  <2>3. 1 \in 1..(n + 1)
    BY <1>1
  <2>4. 0 = Cardinality(Full(w)) /\ 0 + Cardinality({i \in Present(t) : i >= 1}) < m
    <3>1. Cardinality({}) = 0
      BY FS_EmptySet
    <3>2. 0 + Cardinality(Present(t)) < m
      BY <1>4, <1>6
    <3> QED
      BY <1>7, <2>1, <3>1, <3>2
  <2> QED
    BY <1>7, <1>8, <2>2, <2>3, <2>4 DEF Moving
<1>13. InternSound(t, n, symbolTableUsed, canonical, made, rest)
  BY <1>3, <1>9, <1>11, <1>12 DEF InternSound
<1> QED
  BY <1>1, <1>2, <1>13 DEF IInv, n, t

LEMMA MoveEntryKeeps ==
  ASSUME IInv, MoveEntry
  PROVE  IInv'
<1> DEFINE n == Capacity(symbolTable)
           t == symbolTable
           new == interning.newTable
           m == Capacity(interning.newTable)
           old == interning.oldIndex
           symbol == t[old]
<1>1. /\ TableSound(t, n, symbolTableUsed, canonical, held, made)
      /\ InternSound(t, n, symbolTableUsed, canonical, made, interning)
      /\ Good(t, n) /\ Sized(t, n) /\ n \in Nat \ {0}
      /\ interning.pc = "move" /\ Moves(interning) /\ interning # Idle /\ old <= n
  BY Facts DEF MoveEntry
<1>2. /\ symbolTable' = t /\ symbolTableUsed' = symbolTableUsed /\ canonical' = canonical /\ held' = held
      /\ made' = made
      /\ interning' =
           IF symbol \in {nil, Unused} THEN [interning EXCEPT !.oldIndex = @ + 1]
           ELSE [interning EXCEPT !.oldIndex = @ + 1, !.newUsed = @ + 1,
                                  !.newTable[FreeFrom(new, Index(symbol, new))] = symbol]
  BY DEF MoveEntry
<1>3. /\ symbolTableUsed # nil /\ interning.string \in made
      /\ interning.string \in canonical => \E i \in Present(t) : t[i] = interning.string
      /\ Moving(t, n, new, m, old, interning.newUsed)
  BY <1>1 DEF InternSound
<1>4. /\ Good(new, m) /\ Sized(new, m) /\ m \in Nat \ {0} /\ old \in 1..n
      /\ interning.newUsed = Cardinality(Full(new)) /\ interning.newUsed \in Nat
      /\ interning.newUsed + Cardinality({i \in Present(t) : i >= old}) < m
      /\ \A j \in Present(new) : \E i \in Present(t) : i < old /\ new[j] = t[i]
      /\ \A i \in Present(t) : i < old => \E j \in Present(new) : new[j] = t[i]
  <2>1. /\ Good(new, m) /\ old \in 1..(n + 1)
        /\ interning.newUsed = Cardinality(Full(new))
        /\ interning.newUsed + Cardinality({i \in Present(t) : i >= old}) < m
        /\ \A j \in Present(new) : \E i \in Present(t) : i < old /\ new[j] = t[i]
        /\ \A i \in Present(t) : i < old => \E j \in Present(new) : new[j] = t[i]
    BY <1>3 DEF Moving
  <2>2. Sized(new, m)
    BY <2>1 DEF Good
  <2> HIDE DEF new, m, n, old, t
  <2>3. Cardinality(Full(new)) \in Nat /\ m \in Nat \ {0}
    BY <2>2, Sizes
  <2> QED
    BY <1>1, <2>1, <2>2, <2>3
<1>5. PICK k \in Nat \ {0} :
        interning \in [pc : {"move"}, string : Strings, oldIndex : Nat, newUsed : Nat,
                       newTable : [1..k -> Strings \cup {nil, Unused}]]
  BY <1>1 DEF Moves
<1>6. DOMAIN new = 1..k /\ k = m
  <2>1. Sized(new, k)
    BY <1>5 DEF Sized
  <2> HIDE DEF new
  <2> QED
    BY <2>1, Sizes DEF new
<1> HIDE DEF n, t, m
<1>7. /\ old \in Nat /\ old + 1 \in 1..(n + 1) /\ Present(t) \subseteq 1..n /\ IsFiniteSet(Present(t))
      /\ symbol \in Strings \cup {nil, Unused} /\ (old \in Present(t) <=> symbol \in Strings)
  <2>1. /\ Present(t) \subseteq 1..n /\ IsFiniteSet(Present(t))
        /\ \A i \in 1..n : t[i] \in Strings \cup {nil, Unused} /\ (i \in Present(t) <=> t[i] \in Strings)
    BY <1>1, Sizes
  <2> QED
    BY <1>1, <1>4, <2>1
<1>8. \A i \in Present(t) : i \in Int /\ (i >= old <=> (i = old \/ i >= old + 1)) /\ (i < old + 1 <=> (i < old \/ i = old))
  BY <1>7
<1> DEFINE before == {i \in Present(t) : i >= old}
           after == {i \in Present(t) : i >= old + 1}
<1>9. IsFiniteSet(before) /\ IsFiniteSet(after) /\ Cardinality(before) \in Nat /\ Cardinality(after) \in Nat
  <2>1. IsFiniteSet(before) /\ IsFiniteSet(after)
    <3>1. before \subseteq Present(t) /\ after \subseteq Present(t)
      OBVIOUS
    <3> HIDE DEF before, after
    <3> QED
      BY <1>7, <3>1, FS_Subset
  <2> HIDE DEF before, after
  <2> QED
    BY <2>1, FS_CardinalityType
<1>10. CASE symbol \in {nil, Unused}
  <2>1. old \notin Present(t)
    BY <1>7, <1>10, Constants
  <2>2. interning' = [interning EXCEPT !.oldIndex = @ + 1]
    BY <1>2, <1>10
  <2>3. /\ interning'.pc = "move" /\ interning'.string = interning.string /\ interning'.oldIndex = old + 1
        /\ interning'.newUsed = interning.newUsed /\ interning'.newTable = new
        /\ interning' \in [pc : {"move"}, string : Strings, oldIndex : Nat, newUsed : Nat,
                           newTable : [1..k -> Strings \cup {nil, Unused}]]
    BY <1>5, <2>2
  <2>4. Moves(interning')
    BY <2>3 DEF Moves
  <2>5. before = after
    BY <1>8, <2>1
  <2>6. Moving(t, n, new, m, old + 1, interning.newUsed)
    <3>1. \A i \in Present(t) : i < old + 1 <=> i < old
      BY <1>8, <2>1
    <3>2. interning.newUsed + Cardinality(after) < m
      BY <1>4, <2>5
    <3> HIDE DEF new, old
    <3> QED
      BY <1>4, <1>7, <3>1, <3>2 DEF Moving
  <2>7. InternSound(t, n, symbolTableUsed, canonical, made, interning')
    BY <1>3, <2>3, <2>4, <2>6 DEF InternSound, m
  <2> QED
    BY <1>1, <1>2, <2>7 DEF IInv, n, t
<1>11. CASE symbol \notin {nil, Unused}
  <2> DEFINE w == [new EXCEPT ![FreeFrom(new, Index(symbol, new))] = symbol]
  <2>1. symbol \in Strings /\ old \in Present(t)
    BY <1>7, <1>11
  <2>2. interning' = [interning EXCEPT !.oldIndex = @ + 1, !.newUsed = @ + 1, !.newTable = w]
    BY <1>2, <1>5, <1>11
  <2> HIDE DEF symbol, w
  <2>3. /\ interning'.pc = "move" /\ interning'.string = interning.string /\ interning'.oldIndex = old + 1
        /\ interning'.newUsed = interning.newUsed + 1 /\ interning'.newTable = w
    BY <1>5, <2>2
  <2> HIDE DEF new, old
  <2>4. Cardinality(Full(new)) < m
    BY <1>4, <1>9
  <2>5. PICK d \in 0..(m - 1) : /\ FreeFrom(new, Index(symbol, new)) = At(symbol, m, d)
                                /\ new[At(symbol, m, d)] = Unused /\ Open(new, m, symbol, d)
    BY <1>4, <2>1, <2>4, FreeFound
  <2>6. \A j \in Present(new) : Contents(new[j]) # Contents(symbol)
    <3> SUFFICES ASSUME NEW j \in Present(new), Contents(new[j]) = Contents(symbol) PROVE FALSE
      OBVIOUS
    <3>1. PICK i \in Present(t) : i < old /\ new[j] = t[i]
      BY <1>4
    <3>2. i = old
      BY <1>1, <2>1, <3>1 DEF Good, Distinct, symbol
    <3> QED
      BY <1>7, <3>1, <3>2
  <2>7. Enters(new, m, symbol, d, w)
    BY <1>4, <2>1, <2>5, <2>6, Constants DEF Enters, w
  <2>8. Entered(new, m, symbol, d, w)
    BY <2>7, Entering
  <2> DEFINE i == At(symbol, m, d)
  <2>9. /\ Good(w, m) /\ Sized(w, m) /\ i \in 1..m /\ w[i] = symbol
        /\ Present(w) = Present(new) \cup {i} /\ Full(w) = Full(new) \cup {i}
        /\ \A j \in Present(new) : w[j] = new[j]
    <3>1. Present(new) \subseteq 1..m
      BY <1>4, Sizes
    <3> QED
      BY <2>8, <3>1 DEF Entered, Good
  <2>10. interning.newUsed + 1 = Cardinality(Full(w))
    <3>1. IsFiniteSet(Full(new)) /\ i \notin Full(new)
      <4>1. IsFiniteSet(Full(new)) /\ \A j \in 1..m : j \in Full(new) <=> new[j] # Unused
        BY <1>4, Sizes
      <4> QED
        BY <2>5, <2>9, <4>1
    <3> HIDE DEF i
    <3>2. Cardinality(Full(w)) = Cardinality(Full(new)) + 1
      BY <2>9, <3>1, FS_AddElement
    <3> QED
      BY <1>4, <3>2
  <2> HIDE DEF i
  <2>11. interning.newUsed + 1 + Cardinality(after) < m
    <3>1. before = after \cup {old} /\ old \notin after
      BY <1>7, <1>8, <2>1
    <3> HIDE DEF before, after
    <3>2. Cardinality(before) = Cardinality(after) + 1
      BY <1>9, <3>1, FS_AddElement
    <3>3. interning.newUsed + Cardinality(before) < m
      BY <1>4 DEF before
    <3> QED
      BY <1>4, <1>9, <3>2, <3>3
  <2>12. \A j \in Present(w) : \E h \in Present(t) : h < old + 1 /\ w[j] = t[h]
    <3> SUFFICES ASSUME NEW j \in Present(w) PROVE \E h \in Present(t) : h < old + 1 /\ w[j] = t[h]
      OBVIOUS
    <3>1. CASE j = i
      BY <1>8, <2>1, <2>9, <3>1 DEF symbol
    <3>2. CASE j \in Present(new)
      <4>1. PICK h \in Present(t) : h < old /\ new[j] = t[h]
        BY <1>4, <3>2
      <4> QED
        BY <1>8, <2>9, <3>2, <4>1
    <3> QED
      BY <2>9, <3>1, <3>2
  <2>13. \A h \in Present(t) : h < old + 1 => \E j \in Present(w) : w[j] = t[h]
    <3> SUFFICES ASSUME NEW h \in Present(t), h < old + 1 PROVE \E j \in Present(w) : w[j] = t[h]
      OBVIOUS
    <3>1. CASE h = old
      BY <2>9, <3>1 DEF symbol
    <3>2. CASE h < old
      <4>1. PICK j \in Present(new) : new[j] = t[h]
        BY <1>4, <3>2
      <4> QED
        BY <2>9, <4>1
    <3> QED
      BY <1>8, <3>1, <3>2
  <2>14. Moving(t, n, w, m, old + 1, interning.newUsed + 1)
    BY <1>7, <2>9, <2>10, <2>11, <2>12, <2>13 DEF Moving
  <2>15. Moves(interning')
    <3>1. w \in [1..k -> Strings \cup {nil, Unused}]
      BY <1>6, <2>9 DEF Sized
    <3>2. interning' \in [pc : {"move"}, string : Strings, oldIndex : Nat, newUsed : Nat,
                          newTable : [1..k -> Strings \cup {nil, Unused}]]
      <4>1. /\ interning.oldIndex + 1 \in Nat /\ interning.newUsed + 1 \in Nat
            /\ interning.pc = "move" /\ interning.string \in Strings
        BY <1>5
      <4>2. interning' = [pc |-> interning.pc, string |-> interning.string,
                          oldIndex |-> interning.oldIndex + 1, newUsed |-> interning.newUsed + 1,
                          newTable |-> w]
        BY <1>5, <2>2
      <4> QED
        BY <3>1, <4>1, <4>2
    <3> QED
      BY <3>2 DEF Moves
  <2>16. Capacity(w) = m
    BY <2>9, Sizes
  <2>17. InternSound(t, n, symbolTableUsed, canonical, made, interning')
    BY <1>3, <2>3, <2>14, <2>15, <2>16 DEF InternSound
  <2> QED
    BY <1>1, <1>2, <2>17 DEF IInv, n, t
<1> QED
  BY <1>10, <1>11

LEMMA EndRehashKeeps ==
  ASSUME IInv, EndRehash
  PROVE  IInv'
<1> DEFINE n == Capacity(symbolTable)
           t == symbolTable
           new == interning.newTable
           m == Capacity(interning.newTable)
           s == interning.string
<1>1. /\ TableSound(t, n, symbolTableUsed, canonical, held, made)
      /\ InternSound(t, n, symbolTableUsed, canonical, made, interning)
      /\ Good(t, n) /\ Sized(t, n) /\ n \in Nat \ {0}
      /\ interning.pc = "move" /\ Moves(interning) /\ interning # Idle /\ interning.oldIndex > n
  BY Facts DEF EndRehash
<1>2. /\ symbolTable' = new /\ symbolTableUsed' = interning.newUsed /\ canonical' = canonical /\ made' = made
  BY DEF EndRehash
<1>3. /\ s \in made /\ s \in Strings
      /\ s \in canonical => \E i \in Present(t) : t[i] = s
      /\ Moving(t, n, new, m, interning.oldIndex, interning.newUsed)
  BY <1>1 DEF InternSound, TableSound
<1> HIDE DEF n, t
<1>4. Present(t) \subseteq 1..n /\ IsFiniteSet(Present(t))
  BY <1>1, Sizes
<1>5. /\ Good(new, m) /\ Sized(new, m)
      /\ interning.newUsed = Cardinality(Full(new)) /\ interning.newUsed \in Nat /\ interning.newUsed # nil
      /\ interning.newUsed < m
      /\ \A j \in Present(new) : \E i \in Present(t) : new[j] = t[i]
      /\ \A i \in Present(t) : \E j \in Present(new) : new[j] = t[i]
  <2>1. /\ Good(new, m) /\ Sized(new, m) /\ interning.newUsed = Cardinality(Full(new))
        /\ interning.oldIndex \in 1..(n + 1)
        /\ interning.newUsed + Cardinality({i \in Present(t) : i >= interning.oldIndex}) < m
        /\ \A j \in Present(new) : \E i \in Present(t) : new[j] = t[i]
        /\ \A i \in Present(t) : i < interning.oldIndex => \E j \in Present(new) : new[j] = t[i]
    BY <1>3 DEF Moving, Good
  <2> DEFINE left == {i \in Present(t) : i >= interning.oldIndex}
  <2>2. Cardinality(left) \in Nat
    <3>1. left \subseteq Present(t)
      OBVIOUS
    <3> HIDE DEF left
    <3> QED
      BY <1>4, <3>1, FS_Subset, FS_CardinalityType
  <2>3. \A i \in Present(t) : i < interning.oldIndex
    BY <1>1, <1>4, <2>1
  <2> HIDE DEF new, m
  <2>4. Cardinality(Full(new)) \in Nat /\ m \in Nat \ {0}
    BY <2>1, Sizes
  <2>5. interning.newUsed + Cardinality(left) < m
    BY <2>1
  <2> HIDE DEF left
  <2>6. interning.newUsed < m
    BY <2>1, <2>2, <2>4, <2>5
  <2> QED
    BY <2>1, <2>3, <2>4, <2>6, Constants
<1> HIDE DEF new, m
<1>6. ASSUME NEW refs, refs \subseteq held \cup {s}
      PROVE  TableSound(new, m, interning.newUsed, canonical, refs, made)
  <2>1. \A x \in canonical \cap refs : \E i \in Present(t) : t[i] = x
    BY <1>1, <1>3, <1>6 DEF TableSound
  <2>2. \A x \in canonical \cap refs : \E j \in Present(new) : new[j] = x
    BY <1>5, <2>1
  <2>3. \A j \in Present(new) : new[j] \in canonical
    BY <1>1, <1>5 DEF TableSound
  <2>4. refs \subseteq made
    BY <1>1, <1>3, <1>6 DEF TableSound
  <2> QED
    BY <1>1, <1>5, <2>2, <2>3, <2>4 DEF TableSound
<1>7. Capacity(new) = m
  BY DEF new, m
<1>8. CASE s \in canonical
  <2>1. interning' = Idle /\ held' = (held \ {s}) \cup {s}
    BY <1>8 DEF EndRehash, Answer
  <2>2. InternSound(new, m, interning.newUsed, canonical, made, interning')
    BY <1>5, <2>1 DEF InternSound, Idle
  <2>3. TableSound(new, m, interning.newUsed, canonical, held', made)
    BY <1>6, <2>1
  <2> QED
    BY <1>2, <1>7, <2>2, <2>3 DEF IInv
<1>9. CASE s \notin canonical
  <2> DEFINE rest == [pc |-> "probe", string |-> s, reuseIndex |-> nil, index |-> Index(s, new)]
  <2>1. interning' = rest /\ held' = held
    BY <1>9 DEF EndRehash, new
  <2>2. Sought(new, m, s, Index(s, new), nil) /\ Index(s, new) \in Nat
    <3> HIDE DEF s
    <3> QED
      BY <1>3, <1>5, SearchBegins
  <2> HIDE DEF s
  <2>3. /\ rest.pc = "probe" /\ rest.string = s /\ rest.index = Index(s, new) /\ rest.reuseIndex = nil
        /\ Searches(rest)
    BY <1>3, <2>2 DEF Searches
  <2> HIDE DEF rest
  <2>4. InternSound(new, m, interning.newUsed, canonical, made, rest)
    BY <1>3, <1>5, <1>9, <2>2, <2>3 DEF InternSound
  <2>5. TableSound(new, m, interning.newUsed, canonical, held, made)
    BY <1>6
  <2> QED
    BY <1>2, <1>7, <2>1, <2>4, <2>5 DEF IInv
<1> QED
  BY <1>8, <1>9

(* A collection clears what nothing refers to, the string being interned and the  *)
(* strings that are held excepted.                                            *)
LEMMA CollectKeeps ==
  ASSUME IInv, Collect
  PROVE  IInv'
<1> DEFINE n == Capacity(symbolTable)
           t == symbolTable
           s == interning.string
<1>1. /\ TableSound(t, n, symbolTableUsed, canonical, held, made)
      /\ InternSound(t, n, symbolTableUsed, canonical, made, interning)
      /\ Good(t, n) /\ Sized(t, n) /\ n \in Nat \ {0}
      /\ (interning = Idle <=> interning.pc = "idle")
      /\ (interning.pc \in {"probe", "count"} => Searches(interning))
      /\ (interning.pc = "move" => Moves(interning))
  BY Facts
<1>2. PICK S \in SUBSET (InTable \ Referenced) :
        /\ symbolTable' = Cleared(t, S)
        /\ interning' = IF interning.pc = "move"
                        THEN [interning EXCEPT !.newTable = Cleared(@, S)] ELSE interning
        /\ symbolTableUsed' = symbolTableUsed /\ canonical' = canonical /\ held' = held /\ made' = made
  BY DEF Collect
<1> DEFINE w == Cleared(t, S)
           new == interning.newTable
           m == Capacity(interning.newTable)
<1>3. interning.pc = "move" =>
        /\ Moving(t, n, new, m, interning.oldIndex, interning.newUsed)
        /\ Good(new, m) /\ Sized(new, m)
  BY <1>1 DEF InternSound, Moving, Good
<1>4. S \subseteq Strings
  <2>1. Entries(t) \subseteq Strings
    <3>1. \A i \in DOMAIN t : t[i] \in Strings \cup {nil, Unused}
      <4> HIDE DEF t, n
      <4> QED
        BY <1>1, Sizes
    <3> QED
      BY <3>1 DEF Entries
  <2>2. interning.pc = "move" => Entries(new) \subseteq Strings
    <3> SUFFICES ASSUME interning.pc = "move" PROVE Entries(new) \subseteq Strings
      OBVIOUS
    <3>1. \A i \in DOMAIN new : new[i] \in Strings \cup {nil, Unused}
      <4> HIDE DEF new, m
      <4> QED
        BY <1>3, Sizes
    <3> QED
      BY <3>1 DEF Entries
  <2> QED
    BY <1>2, <2>1, <2>2 DEF InTable
<1>5. (\A x \in held : x \notin S) /\ (interning # Idle => s \notin S)
  BY <1>1, <1>2 DEF Referenced, Running
<1> HIDE DEF t, n, new, m
<1>6. Kept(t, n, S, w)
  BY <1>1, <1>4, Clearing
<1> HIDE DEF w
<1>7. /\ Good(w, n) /\ Full(w) = Full(t) /\ Capacity(w) = n /\ DOMAIN w = 1..n /\ DOMAIN t = 1..n
      /\ \A i \in Present(t) : t[i] \notin S => i \in Present(w) /\ w[i] = t[i]
      /\ \A i \in Present(w) : i \in Present(t) /\ w[i] = t[i]
      /\ \A i \in 1..n : w[i] = IF t[i] \in S THEN nil ELSE t[i]
  <2>1. Good(w, n) /\ Full(w) = Full(t) /\ Present(w) = {i \in Present(t) : t[i] \notin S}
        /\ \A i \in 1..n : w[i] = IF t[i] \in S THEN nil ELSE t[i]
    BY <1>6 DEF Kept
  <2>2. Sized(w, n)
    BY <2>1 DEF Good
  <2>3. Capacity(w) = n /\ DOMAIN w = 1..n /\ DOMAIN t = 1..n /\ Present(t) \subseteq 1..n
    BY <1>1, <2>2, Sizes
  <2> QED
    BY <2>1, <2>3
<1>8. TableSound(w, n, symbolTableUsed, canonical, held, made)
  <2>1. \A x \in canonical \cap held : \E i \in Present(w) : w[i] = x
    <3> SUFFICES ASSUME NEW x \in canonical \cap held PROVE \E i \in Present(w) : w[i] = x
      OBVIOUS
    <3>1. PICK i \in Present(t) : t[i] = x
      BY <1>1 DEF TableSound
    <3>2. i \in Present(w) /\ w[i] = x
      BY <1>5, <1>7, <3>1
    <3> QED
      BY <3>2
  <2>2. \A i \in Present(w) : w[i] \in canonical
    BY <1>1, <1>7 DEF TableSound
  <2> QED
    BY <1>1, <1>7, <2>1, <2>2 DEF TableSound
<1>9. interning # Idle /\ s \in canonical => \E i \in Present(w) : w[i] = s
  <2> SUFFICES ASSUME interning # Idle, s \in canonical PROVE \E i \in Present(w) : w[i] = s
    OBVIOUS
  <2>1. PICK i \in Present(t) : t[i] = s
    BY <1>1 DEF InternSound
  <2> QED
    BY <1>5, <1>7, <2>1
<1>10. CASE interning.pc # "move"
  <2>1. interning' = interning
    BY <1>2, <1>10
  <2>2. interning.pc = "probe" => Sought(w, n, s, interning.index, interning.reuseIndex)
    <3> SUFFICES ASSUME interning.pc = "probe" PROVE Sought(w, n, s, interning.index, interning.reuseIndex)
      OBVIOUS
    <3>1. s \in Strings /\ Sought(t, n, s, interning.index, interning.reuseIndex)
      BY <1>1 DEF InternSound, Searches
    <3>2. PICK d \in 0..(n - 1) :
            /\ interning.index = At(s, n, d) /\ Open(t, n, s, d)
            /\ \A k \in 0..(d - 1) : t[At(s, n, k)] \in Strings => Contents(t[At(s, n, k)]) # Contents(s)
            /\ interning.reuseIndex # nil =>
                 \E k \in 0..(d - 1) : interning.reuseIndex = At(s, n, k) /\ t[interning.reuseIndex] = nil
      BY <3>1 DEF Sought
    <3>3. \A k \in 0..(d - 1) : k \in 0..(n - 1)
      BY <1>1
    <3>4. \A k \in 0..(d - 1) : At(s, n, k) \in 1..n
      <4> HIDE DEF s
      <4> QED
        BY <1>1, <3>1, <3>3, Places
    <3> HIDE DEF s
    <3>5. \A k \in 0..(d - 1) : w[At(s, n, k)] = IF t[At(s, n, k)] \in S THEN nil ELSE t[At(s, n, k)]
      BY <1>7, <3>4
    <3>6. Open(w, n, s, d)
      BY <3>2, <3>5, Constants DEF Open
    <3>7. \A k \in 0..(d - 1) : w[At(s, n, k)] \in Strings => Contents(w[At(s, n, k)]) # Contents(s)
      BY <3>2, <3>5, Constants
    <3>8. interning.reuseIndex # nil =>
            \E k \in 0..(d - 1) : interning.reuseIndex = At(s, n, k) /\ w[interning.reuseIndex] = nil
      BY <1>4, <3>2, <3>5, Constants
    <3> QED
      BY <3>2, <3>6, <3>7, <3>8 DEF Sought
  <2>3. InternSound(w, n, symbolTableUsed, canonical, made, interning)
    BY <1>1, <1>9, <1>10, <2>2 DEF InternSound
  <2> QED
    BY <1>2, <1>7, <1>8, <2>1, <2>3 DEF IInv, w
<1>11. CASE interning.pc = "move"
  <2> DEFINE v == Cleared(new, S)
             old == interning.oldIndex
  <2>1. PICK k \in Nat \ {0} :
          interning \in [pc : {"move"}, string : Strings, oldIndex : Nat, newUsed : Nat,
                         newTable : [1..k -> Strings \cup {nil, Unused}]]
    BY <1>1, <1>11 DEF Moves
  <2>2. k = m
    <3>1. Sized(new, k)
      BY <2>1 DEF Sized, new
    <3> QED
      BY <1>3, <1>11, <3>1, Sizes
  <2>3. Kept(new, m, S, v)
    BY <1>3, <1>4, <1>11, Clearing
  <2>4. interning' = [interning EXCEPT !.newTable = v]
    BY <1>2, <1>11 DEF new
  <2> HIDE DEF v
  <2>5. /\ Good(v, m) /\ Sized(v, m) /\ Full(v) = Full(new) /\ Capacity(v) = m
        /\ \A j \in Present(new) : new[j] \notin S => j \in Present(v) /\ v[j] = new[j]
        /\ \A j \in Present(v) : j \in Present(new) /\ v[j] = new[j] /\ new[j] \notin S
    <3>1. Good(v, m) /\ Full(v) = Full(new) /\ Present(v) = {i \in Present(new) : new[i] \notin S}
          /\ \A i \in 1..m : v[i] = IF new[i] \in S THEN nil ELSE new[i]
      BY <2>3 DEF Kept
    <3>2. Sized(v, m)
      BY <3>1 DEF Good
    <3>3. Capacity(v) = m /\ Present(new) \subseteq 1..m
      BY <1>3, <1>11, <3>2, Sizes
    <3> QED
      BY <3>1, <3>2, <3>3
  <2>6. /\ interning'.pc = "move" /\ interning'.string = s /\ interning'.oldIndex = old
        /\ interning'.newUsed = interning.newUsed /\ interning'.newTable = v /\ Moves(interning')
    <3>1. v \in [1..k -> Strings \cup {nil, Unused}]
      BY <2>2, <2>5 DEF Sized
    <3>2. interning' \in [pc : {"move"}, string : Strings, oldIndex : Nat, newUsed : Nat,
                          newTable : [1..k -> Strings \cup {nil, Unused}]]
      BY <2>1, <2>4, <3>1
    <3>3. Moves(interning')
      BY <3>2 DEF Moves
    <3> QED
      BY <2>1, <2>4, <3>3
  <2>7. /\ interning.newUsed = Cardinality(Full(new)) /\ interning.newUsed \in Nat
        /\ old \in 1..(n + 1)
        /\ interning.newUsed + Cardinality({i \in Present(t) : i >= old}) < m
        /\ \A j \in Present(new) : \E i \in Present(t) : i < old /\ new[j] = t[i]
        /\ \A i \in Present(t) : i < old => \E j \in Present(new) : new[j] = t[i]
    BY <1>3, <1>11, <2>1 DEF Moving
  <2> HIDE DEF old
  <2>8. interning.newUsed + Cardinality({i \in Present(w) : i >= old}) < m
    <3> DEFINE a == {i \in Present(t) : i >= old}
               b == {i \in Present(w) : i >= old}
    <3>1. a \subseteq Present(t) /\ b \subseteq a /\ IsFiniteSet(Present(t))
      <4>1. IsFiniteSet(Present(t))
        BY <1>1, Sizes
      <4> QED
        BY <1>7, <4>1
    <3>2. interning.newUsed + Cardinality(a) < m
      BY <2>7
    <3> HIDE DEF a, b
    <3>3. IsFiniteSet(a)
      BY <3>1, FS_Subset
    <3>4. IsFiniteSet(b) /\ Cardinality(b) <= Cardinality(a)
      BY <3>1, <3>3, FS_Subset
    <3>5. Cardinality(a) \in Nat /\ Cardinality(b) \in Nat /\ m \in Nat
      <4>1. m \in Nat
        BY <1>3, <1>11, Sizes
      <4> QED
        BY <3>3, <3>4, <4>1, FS_CardinalityType
    <3>6. interning.newUsed + Cardinality(b) < m
      BY <2>7, <3>2, <3>4, <3>5
    <3> QED
      BY <3>6 DEF b
  <2>9. \A j \in Present(v) : \E i \in Present(w) : i < old /\ v[j] = w[i]
    <3> SUFFICES ASSUME NEW j \in Present(v) PROVE \E i \in Present(w) : i < old /\ v[j] = w[i]
      OBVIOUS
    <3>1. j \in Present(new) /\ v[j] = new[j] /\ new[j] \notin S
      BY <2>5
    <3>2. PICK i \in Present(t) : i < old /\ new[j] = t[i]
      BY <2>7, <3>1
    <3>3. i \in Present(w) /\ w[i] = t[i]
      BY <1>7, <3>1, <3>2
    <3> QED
      BY <3>1, <3>2, <3>3
  <2>10. \A i \in Present(w) : i < old => \E j \in Present(v) : v[j] = w[i]
    <3> SUFFICES ASSUME NEW i \in Present(w), i < old PROVE \E j \in Present(v) : v[j] = w[i]
      OBVIOUS
    <3>1. i \in Present(t) /\ w[i] = t[i] /\ t[i] \in Strings
      BY <1>7 DEF Present
    <3>2. t[i] \notin S
      <4>1. i \in 1..n
        BY <1>7, <3>1 DEF Present
      <4> QED
        BY <1>7, <3>1, <4>1, Constants
    <3>3. PICK j \in Present(new) : new[j] = t[i]
      BY <2>7, <3>1
    <3> QED
      BY <2>5, <3>1, <3>2, <3>3
  <2>11. Moving(w, n, v, m, old, interning.newUsed)
    BY <2>5, <2>7, <2>8, <2>9, <2>10 DEF Moving
  <2>12. InternSound(w, n, symbolTableUsed, canonical, made, interning')
    <3>1. symbolTableUsed # nil /\ s \in made /\ interning # Idle
      <4>1. interning # Idle
        BY <1>11 DEF Idle
      <4> QED
        BY <1>1, <4>1 DEF InternSound
    <3> QED
      BY <1>9, <2>5, <2>6, <2>11, <3>1 DEF InternSound
  <2> QED
    BY <1>2, <1>7, <1>8, <2>12 DEF IInv, w
<1> QED
  BY <1>10, <1>11

-----------------------------------------------------------------------------
LEMMA Starts == SymbolsInit => IInv
<1> SUFFICES ASSUME SymbolsInit PROVE IInv
  OBVIOUS
<1>1. PICK S \in SnapshotSymbols :
        /\ \E t \in [1..Cardinality(S) -> S] : Entries(t) = S /\ symbolTable = t
        /\ symbolTableUsed = nil /\ canonical = S /\ made = S
        /\ held \in SUBSET S /\ interning = Idle
  BY DEF SymbolsInit
<1> DEFINE n == Cardinality(S)
           t == symbolTable
<1>2. /\ S \subseteq Strings /\ IsFiniteSet(S) /\ S # {}
      /\ \A x, y \in S : Contents(x) = Contents(y) => x = y
  BY SymbolsAssumption DEF SymbolsAssumption
<1>3. n \in Nat \ {0}
  BY <1>2, FS_EmptySet, FS_CardinalityType
<1>4. t \in [1..n -> S] /\ Entries(t) = S
  BY <1>1
<1>5. S = {t[i] : i \in 1..n}
  BY <1>2, <1>4, Constants DEF Entries
<1> HIDE DEF n, t
<1>6. Sized(t, n) /\ DOMAIN t = 1..n /\ \A i \in 1..n : t[i] \in S /\ t[i] \in Strings /\ t[i] # Unused
  BY <1>2, <1>3, <1>4, Constants DEF Sized
<1>7. Present(t) = 1..n /\ Full(t) = 1..n
  BY <1>6 DEF Present, Full
<1>8. Found(t, n)
  <2> SUFFICES ASSUME NEW i \in Present(t)
               PROVE  \E d \in 0..(n - 1) : At(t[i], n, d) = i /\ Open(t, n, t[i], d)
    BY DEF Found
  <2>1. i \in 1..n /\ t[i] \in Strings
    BY <1>6, <1>7
  <2>2. PICK d \in 0..(n - 1) : At(t[i], n, d) = i
    BY <1>3, <2>1, Places
  <2>3. \A k \in 0..(d - 1) : k \in 0..(n - 1)
    BY <1>3
  <2>4. \A k \in 0..(d - 1) : At(t[i], n, k) \in 1..n
    BY <1>3, <2>1, <2>3, Places
  <2> QED
    BY <1>6, <2>2, <2>4 DEF Open
<1>9. Distinct(t)
  <2>1. \A i, j \in 1..n : t[i] = t[j] => i = j
    <3>1. IsFiniteSet(1..n) /\ Cardinality(1..n) = n
      <4>1. 1 \in Int /\ n \in Int /\ ~(1 > n) /\ n - 1 + 1 = n
        BY <1>3
      <4>2. IsFiniteSet(1..n) /\ Cardinality(1..n) = IF 1 > n THEN 0 ELSE n - 1 + 1
        BY <4>1, FS_Interval
      <4> QED
        BY <4>1, <4>2
    <3>2. t \in Surjection(1..n, S)
      BY <1>4, <1>5 DEF Surjection
    <3>3. t \in Injection(1..n, S)
      BY <1>2, <3>1, <3>2, FS_SurjSameCardinalityImpliesInj DEF n
    <3> QED
      BY <3>3 DEF Injection, IsInjective
  <2> QED
    BY <1>2, <1>6, <1>7, <2>1 DEF Distinct
<1>10. TableSound(t, n, symbolTableUsed, canonical, held, made)
  <2>1. \A x \in canonical \cap held : \E i \in Present(t) : t[i] = x
    BY <1>1, <1>5, <1>7
  <2> QED
    BY <1>1, <1>2, <1>6, <1>7, <1>8, <1>9, <2>1 DEF TableSound, Good
<1>11. InternSound(t, n, symbolTableUsed, canonical, made, interning)
  BY <1>1 DEF InternSound, Idle
<1>12. Capacity(t) = n
  BY <1>6, Sizes
<1> QED
  BY <1>10, <1>11, <1>12 DEF IInv, t

LEMMA Inductive == IInv /\ [SymbolsNext]_symbolVars => IInv'
<1> SUFFICES ASSUME IInv, [SymbolsNext]_symbolVars PROVE IInv'
  OBVIOUS
<1>1. ASSUME NEW s \in Strings, Make(s) \/ AsSymbol(s) \/ Forget(s) PROVE IInv'
  BY <1>1, MakeKeeps, AsSymbolKeeps, ForgetKeeps
<1>2. CASE UNCHANGED symbolVars
  BY <1>2 DEF symbolVars, IInv
<1> QED
  BY <1>1, <1>2, ProbeKeeps, EnterKeeps, BeginRehashKeeps, MoveEntryKeeps, EndRehashKeeps, CollectKeeps
  DEF SymbolsNext

THEOREM Invariant == SymbolsSpec => []IInv
  BY Starts, Inductive, PTL DEF SymbolsSpec

(* Selectors are compared by identity.  Whatever strings a program makes and      *)
(* forgets, and whatever entries the collector clears between any two steps of   *)
(* intern: and rehashSymbolTable, the symbols that the program can reach differ   *)
(* in their bytes and are in the table, and every search of a table ends.        *)
THEOREM OneSymbolForEachString == SymbolsSpec => []SymbolsSound
<1>1. IInv => SymbolsSound
  <2> SUFFICES ASSUME IInv PROVE SymbolsSound
    OBVIOUS
  <2> DEFINE n == Capacity(symbolTable)
             t == symbolTable
  <2>1. /\ TableSound(t, n, symbolTableUsed, canonical, held, made)
        /\ InternSound(t, n, symbolTableUsed, canonical, made, interning)
        /\ Good(t, n) /\ Sized(t, n)
        /\ (interning = Idle <=> interning.pc = "idle")
    BY Facts
  <2>2. OneSymbolEach
    <3>1. \A x \in canonical \cap held : \E i \in Present(t) : t[i] = x
      BY <2>1 DEF TableSound
    <3>2. \A x, y \in canonical \cap held : Contents(x) = Contents(y) => x = y
      BY <2>1, <3>1 DEF Good, Distinct
    <3>3. canonical \cap held \subseteq Entries(t)
      BY <3>1, Constants DEF Entries, Present
    <3> QED
      BY <3>2, <3>3 DEF OneSymbolEach
  <2>3. interning.pc = "probe" => \E i \in DOMAIN symbolTable : symbolTable[i] = Unused
    <3> SUFFICES ASSUME interning.pc = "probe" PROVE \E i \in DOMAIN symbolTable : symbolTable[i] = Unused
      OBVIOUS
    <3>1. interning # Idle
      BY DEF Idle
    <3>2. Cardinality(Full(t)) < n
      BY <2>1, <3>1 DEF InternSound, TableSound
    <3> HIDE DEF n
    <3>3. \E i \in 1..n : t[i] = Unused
      BY <2>1, <3>2, UnusedThere
    <3>4. DOMAIN t = 1..n
      BY <2>1, Sizes
    <3> QED
      BY <3>3, <3>4
  <2>4. interning.pc = "move" => \E i \in DOMAIN interning.newTable : interning.newTable[i] = Unused
    <3> SUFFICES ASSUME interning.pc = "move"
                 PROVE  \E i \in DOMAIN interning.newTable : interning.newTable[i] = Unused
      OBVIOUS
    <3> DEFINE new == interning.newTable
               m == Capacity(interning.newTable)
               left == {i \in Present(t) : i >= interning.oldIndex}
    <3>1. Sized(new, m) /\ interning.newUsed = Cardinality(Full(new)) /\ interning.newUsed + Cardinality(left) < m
      BY <2>1 DEF InternSound, Moving, Good
    <3> HIDE DEF new, m, n
    <3>2. Cardinality(left) \in Nat
      <4>1. left \subseteq Present(t) /\ IsFiniteSet(Present(t))
        BY <2>1, Sizes
      <4> HIDE DEF left
      <4> QED
        BY <4>1, FS_Subset, FS_CardinalityType
    <3> HIDE DEF left
    <3>3. Cardinality(Full(new)) \in Nat /\ m \in Nat \ {0} /\ DOMAIN new = 1..m
      BY <3>1, Sizes
    <3>4. Cardinality(Full(new)) < m
      BY <3>1, <3>2, <3>3
    <3>5. \E i \in 1..m : new[i] = Unused
      BY <3>1, <3>4, UnusedThere
    <3> QED
      BY <3>3, <3>5 DEF new
  <2>5. symbolTableUsed # nil =>
          symbolTableUsed = Cardinality({i \in DOMAIN symbolTable : symbolTable[i] # Unused})
    BY <2>1 DEF TableSound, Full
  <2> QED
    BY <2>2, <2>3, <2>4, <2>5 DEF SymbolsSound, UnusedEntryLeft
<1> QED
  BY <1>1, Invariant, PTL
=================================================================================
