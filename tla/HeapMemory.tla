------------------------------ MODULE HeapMemory ------------------------------
(***************************************************************************)
(* The memory of the heap (vm/heap.cc, vm/heap.h, the headers of             *)
(* vm/object.h): how spaces are cut into objects.  Nothing records where an  *)
(* object begins; every pass over a space steps from header to header by the *)
(* size it reads.  The size is a field of the header if it fits, and else is *)
(* computed from what the object says of itself.                             *)
(*                                                                         *)
(* An address is a space and an offset in it, in units of kObjectAlignment;   *)
(* space 0 is to-space, the others are the regions of old space.  Sizes are  *)
(* in units too; within an object they are in quarters of a unit, the size   *)
(* of a digit.  Which objects are alive is computed at once: Heap.tla has    *)
(* the steps of a collection and says how it finds them.                     *)
(***************************************************************************)
EXTENDS Integers, SequencesExt

CONSTANTS
  NewUnits,     \* how much fits into a semispace
  RegionUnits,  \* kRegionSize
  LargeUnits,   \* kLargeAllocationSize
  MaxTag,       \* the largest size that fits into the header's field
  SizeClasses,  \* kSizeClasses
  LimitSlack,   \* what SetOldAllocationLimit lets old space grow by at least
  Arrays,       \* bound: the sizes of the arrays asked for
  Digits,       \* bound: the numbers of digits asked for
  MaxRoots, MaxRegions, MaxLoaded,  \* bounds
  MaxCalls,     \* bound: how many steps the program takes
  LargeShifts,  \* may ShiftLeft drop a digit of an integer with no size in its header?
  SelfReference \* may referencesTo: be asked about an object that refers to itself?

VARIABLE heap

Nowhere == <<0, 0>>
Junk    == [cid |-> "junk", tag |-> 0, size |-> 0, refs |-> {}]
Legal   == {"array", "digits", "object"}
UnitsOf(quarters) == (quarters + 3) \div 4

(* AllocationSize of a layout with n elements. *)
AllocationSize(cid, n) ==
  CASE cid = "array"  -> UnitsOf(6 + 2 * n)
    [] cid = "digits" -> UnitsOf(6 + n)
    [] cid = "object" -> UnitsOf(4 + 2 * n)

set_heap_size(units) == IF units > MaxTag THEN 0 ELSE units

(* Nothing is known of what a walk finds where no object begins; any size      *)
(* would do.                                                                  *)
HeapSizeFromClass(x) ==
  CASE x.cid \in {"array", "digits"} -> AllocationSize(x.cid, x.size)
    [] x.cid \in {"corpse", "free"}  -> x.size
    [] OTHER -> 1

HeapSize(x) == IF x.tag # 0 THEN x.tag ELSE HeapSizeFromClass(x)

(* x at offset i of the space m; what is inside an object is no header.        *)
Place(m, i, x, units) ==
  [j \in DOMAIN m |-> IF j = i THEN x
                      ELSE IF j \in (i + 1)..(i + units - 1) THEN Junk ELSE m[j]]
Header(cid, n, units) ==
  [cid |-> cid, tag |-> set_heap_size(units), size |-> n, refs |-> {}]

(* mutant: the overflow size is forgotten *)
FreeElementWithoutSize(units) == Header("free", 0, units)

(* A free list element, and below a corpse, keep a size that does not fit into *)
(* the header in a word of their own.                                         *)
FreeElement(units) == Header("free", IF units > MaxTag THEN units ELSE 0, units)
Corpse(units)      == Header("corpse", IF units > MaxTag THEN units ELSE 0, units)

-----------------------------------------------------------------------------
(* A walk from object_start to end: where it finds objects, and where it ends.  *)
(* At a size of 0 it would stay for ever.                                     *)
Walk(m, end) ==
  LET from[i \in Nat] == IF i >= end THEN {i} ELSE IF HeapSize(m[i]) = 0 THEN {i}
                         ELSE {i} \cup from[i + HeapSize(m[i])]
  IN  from[1]
Found(m, end) == {i \in Walk(m, end) : i < end}

Spaces(h)    == <<0>> \o h.regions_
End(h, s)    == IF s = 0 THEN h.top_ ELSE h.object_end[s]
Objects(h)   == UNION {{<<s, i>> : i \in Found(h.mem[s], End(h, s))} : s \in Range(Spaces(h))}
At(h, a)     == h.mem[a[1]][a[2]]
InNew(a)     == a[1] = 0

RECURSIVE Closure(_, _)
Closure(h, S) == LET T == S \cup UNION {At(h, a).refs : a \in S}
                 IN  IF T = S THEN S ELSE Closure(h, T)
Roots(h)     == {r.at : r \in h.roots} \cup ({h.handle} \ {Nowhere})

(* Every pointer is replaced by what it is forwarded to. *)
Forward(h, to) ==
  LET new(a) == IF a \in DOMAIN to THEN to[a] ELSE a
      moved(x) == [x EXCEPT !.refs = {new(a) : a \in x.refs}]
  IN  [h EXCEPT !.mem = [s \in DOMAIN h.mem |-> [i \in DOMAIN h.mem[s] |-> moved(h.mem[s][i])]],
                !.roots = {[r EXCEPT !.at = new(r.at)] : r \in h.roots},
                !.handle = new(h.handle)]

-----------------------------------------------------------------------------
(* The free list. *)
IndexForSize(units) == IF units > SizeClasses THEN SizeClasses ELSE units

EnqueueRange(h, a, units) ==
  LET k == IndexForSize(units)
  IN  [h EXCEPT !.mem[a[1]] = Place(@, a[2], FreeElement(units), units),
                !.free_lists_[k] = <<a>> \o @]

(* mutant: the rest of a split begins a unit early *)
SplitAndRequeueEarly(h, a, units) ==
  LET rest == HeapSize(At(h, a)) - units
  IN  IF rest = 0 THEN h ELSE EnqueueRange(h, <<a[1], a[2] + units - 1>>, rest + 1)

SplitAndRequeue(h, a, units) ==
  LET rest == HeapSize(At(h, a)) - units
  IN  IF rest = 0 THEN h ELSE EnqueueRange(h, <<a[1], a[2] + units>>, rest)

(* The first list of elements that are large enough; else the first element    *)
(* that is, of those the last list has.                                       *)
TryAllocate(h, units) ==
  LET lists == {k \in IndexForSize(units)..(SizeClasses - 1) : h.free_lists_[k] # <<>>}
      last  == h.free_lists_[SizeClasses]
      large == {n \in DOMAIN last : HeapSize(At(h, last[n])) >= units}
      taken(k, n) ==
        LET a == h.free_lists_[k][n]
        IN  [h |-> SplitAndRequeue([h EXCEPT !.free_lists_[k] = RemoveAt(@, n)], a, units),
             at |-> a]
  IN  IF lists # {} THEN taken(Min(lists), 1)
      ELSE IF large # {} THEN taken(SizeClasses, Min(large))
      ELSE [h |-> h, at |-> Nowhere]

-----------------------------------------------------------------------------
(* Mark-sweep, of which only the sweep is of interest here. *)

(* The runs of adjacent objects of a space that are not marked. *)
FreeRuns(m, end, marked) ==
  LET found == Found(m, end)
      stops(i) == {j \in found : j > i /\ j \in marked} \cup {end}
  IN  {<<i, Min(stops(i))>> : i \in {j \in found \ marked :
         j = 1 \/ \E k \in found \cap marked : k + HeapSize(m[k]) = j}}
InOrder(runs) == SetToSortSeq(runs, LAMBDA p, q : p[1] < q[1])

(* Of to-space, where nothing is enqueued. *)
SweepNew(m, end, marked) ==
  FoldLeft(LAMBDA n, run : Place(n, run[1], FreeElement(run[2] - run[1]), run[2] - run[1]),
           m, InOrder(FreeRuns(m, end, marked)))

(* A region with nothing marked in it is released, whole.                      *)
SweepRegion(h, s, marked) ==
  LET live == {i \in Found(h.mem[s], h.object_end[s]) : <<s, i>> \in marked}
      sized == [h EXCEPT !.old_size_ = @ + MapThenSumSet(LAMBDA i : HeapSize(h.mem[s][i]), live)]
  IN  IF live = {}
      THEN [h EXCEPT !.regions_ = SelectSeq(@, LAMBDA r : r # s),
                     !.mem[s] = <<>>, !.object_end[s] = 0]
      ELSE FoldLeft(LAMBDA g, run : EnqueueRange(g, <<s, run[1]>>, run[2] - run[1]),
                    sized, InOrder(FreeRuns(h.mem[s], h.object_end[s], live)))

SetOldAllocationLimit(h) ==
  [h EXCEPT !.old_limit_ = Max({h.old_size_ + h.old_size_ \div 2, h.old_size_ + LimitSlack})]

MarkSweep(h) ==
  LET marked == Closure(h, Roots(h))
      inNew  == {a[2] : a \in {b \in marked : InNew(b)}}
      start  == [h EXCEPT !.old_size_ = 0,
                          !.free_lists_ = [k \in 0..SizeClasses |-> <<>>],
                          !.mem[0] = SweepNew(@, h.top_, inNew)]
  IN  SetOldAllocationLimit(
        FoldLeft(LAMBDA g, s : SweepRegion(g, s, marked), start, h.regions_))

-----------------------------------------------------------------------------
(* Allocation.  The result is the new state of the heap and where the room is;  *)
(* the state is marked full, and the step not taken, when the bound on regions  *)
(* is reached.                                                                *)
Controlled == {FALSE, TRUE}   \* kForceGrowth, kControlGrowth

(* The struct Region takes the first unit; what is allocated begins after it.   *)
TakeRegion(h, units) ==
  LET unused == (1..MaxRegions) \ Range(h.regions_)
      s == Min(unused)
  IN  IF unused = {} THEN [h |-> [h EXCEPT !.full = TRUE], at |-> Nowhere]
      ELSE [h |-> [h EXCEPT !.regions_ = <<s>> \o @,
                            !.mem[s] = [i \in 1..(units - 1) |-> Junk],
                            !.object_end[s] = 1],
            at |-> <<s, 1>>]
AllocateRegion(h, units, controlled) ==
  TakeRegion(IF controlled /\ h.old_size_ + units > h.old_limit_ THEN MarkSweep(h) ELSE h, units)

(* The rest of a new region goes to the free list. *)
SplitRegion(r, units) ==
  LET s == r.at[1]
      rest == RegionUnits - 1 - units
      whole == [r.h EXCEPT !.object_end[s] = RegionUnits]
  IN  IF r.h.full THEN r
      ELSE [r EXCEPT !.h = IF rest = 0 THEN whole ELSE EnqueueRange(whole, <<s, 1 + units>>, rest)]
OrElse(got, other) == IF got.at # Nowhere THEN got ELSE other

AllocateOldSmall(h, units, controlled) ==
  LET got == OrElse(TryAllocate(h, units), SplitRegion(AllocateRegion(h, RegionUnits, controlled), units))
  IN  [got EXCEPT !.h.old_size_ = @ + units]

WholeRegion(r, units) ==
  IF r.h.full THEN r
  ELSE [r EXCEPT !.h.object_end[r.at[1]] = 1 + units, !.h.old_size_ = @ + units]
AllocateOldLarge(h, units, controlled) ==
  WholeRegion(AllocateRegion(h, units + 1, controlled), units)

(* Scavenge.  What is below survivor_end_ moves to old space, the rest to the    *)
(* other semispace.  Each move to old space pushes a word onto the tenure stack, *)
(* which grows down from the end of the semispace.  All of old space keeps what  *)
(* it refers to.                                                              *)
TenureEntry == 1                        \* words
WordsLeft(copied, pushed) == 2 * NewUnits + 1 - 2 * copied - TenureEntry * pushed

AllocateCopy(h, units) == [h |-> [h EXCEPT !.top_ = @ + units], at |-> <<0, h.top_>>]

CopyTo(room, x) ==
  IF room.h.full THEN room
  ELSE [room EXCEPT !.h.mem[room.at[1]] = Place(@, room.at[2], x, HeapSize(x))]
Copied(g, i, copy, pushed) ==
  [h |-> [copy.h EXCEPT !.overrun = @ \/ WordsLeft(copy.h.top_ - 1, pushed) <= 0],
   to |-> g.to @@ (<<0, i>> :> copy.at), pushed |-> pushed]

Evacuate(g, i, from, boundary) ==
  LET x == from[i] IN
  IF g.h.full THEN g
  ELSE IF i < boundary
  THEN Copied(g, i, CopyTo(AllocateOldSmall(g.h, HeapSize(x), FALSE), x), g.pushed + 1)
  ELSE Copied(g, i, CopyTo(AllocateCopy(g.h, HeapSize(x)), x), g.pushed)

Forwarded(g) ==
  IF g.h.full THEN g.h ELSE [Forward(g.h, g.to) EXCEPT !.survivor_end_ = g.h.top_]
Scavenge(h, tenureAll) ==
  LET from == h.mem[0]
      boundary == IF tenureAll THEN h.top_ ELSE h.survivor_end_
      alive == Closure(h, Roots(h) \cup {a \in Objects(h) : ~InNew(a)})
      order == SetToSortSeq({a[2] : a \in {b \in alive : InNew(b)}}, <)
      flipped == [h EXCEPT !.mem[0] = [i \in 1..NewUnits |-> Junk], !.top_ = 1]
      done == FoldLeft(LAMBDA g, i : Evacuate(g, i, from, boundary),
                       [h |-> flipped, to |-> <<>>, pushed |-> 0], order)
  IN  Forwarded(done)

Bump(h, units) == [h |-> [h EXCEPT !.top_ = @ + units], at |-> <<0, h.top_>>]
HasRoom(h, units) == h.top_ + units <= NewUnits + 1

SweepIfOver(h) == IF h.old_size_ > h.old_limit_ /\ ~h.full THEN MarkSweep(h) ELSE h
AllocateAgain(h, units) ==
  IF HasRoom(h, units) THEN Bump(h, units) ELSE AllocateOldSmall(h, units, TRUE)

AllocateNormal(h, units) ==
  IF units >= LargeUnits THEN AllocateOldLarge(h, units, TRUE)
  ELSE IF HasRoom(h, units) THEN Bump(h, units)
  ELSE AllocateAgain(SweepIfOver(Scavenge(h, FALSE)), units)

(* mutant: what a region has left is counted as used *)
UnusedStaysCounted(h) ==
  LET rest == h.load_end - h.load_top[2]
  IN  IF rest = 0 THEN h ELSE EnqueueRange(h, h.load_top, rest)

(* While a snapshot is loaded everything goes to old space: top_ and end_ are in *)
(* a region, all of which old_size_ counts in advance.                        *)
Unused(h) ==
  LET rest == h.load_end - h.load_top[2]
  IN  IF rest = 0 THEN h
      ELSE [EnqueueRange(h, h.load_top, rest) EXCEPT !.old_size_ = @ - rest]

BumpRegion(r, units) ==
  IF r.h.full THEN r
  ELSE [r EXCEPT !.h.object_end[r.at[1]] = RegionUnits, !.h.load_end = RegionUnits,
                 !.h.load_top = <<r.at[1], 1 + units>>, !.h.old_size_ = @ + RegionUnits - 1]

AllocateSnapshot(h, units) ==
  IF units >= LargeUnits THEN AllocateOldLarge(h, units, FALSE)
  ELSE IF h.load_top[2] + units <= h.load_end
  THEN [h |-> [h EXCEPT !.load_top[2] = @ + units], at |-> h.load_top]
  ELSE BumpRegion(AllocateRegion(Unused(h), RegionUnits, FALSE), units)

(* Initialize, of the object that AllocateArray and the like return. *)
Initialize(got, cid, n) ==
  LET units == AllocationSize(cid, n)
  IN  IF got.h.full THEN got
      ELSE [got EXCEPT !.h.mem[got.at[1]] = Place(@, got.at[2], Header(cid, n, units), units)]
Allocated(h, cid, n) == Initialize(AllocateNormal(h, AllocationSize(cid, n)), cid, n)

Held(got, cid, n) ==
  [got.h EXCEPT !.roots = @ \cup {[at |-> got.at, cid |-> cid, size |-> n]}]

(* mutant: the object is cut without a free element behind it *)
TruncateNoElement(h, a, n) ==
  LET x == At(h, a)
  IN  [h EXCEPT !.mem[a[1]][a[2]] =
         [x EXCEPT !.size = n, !.tag = set_heap_size(AllocationSize(x.cid, n))]]

(* The object gives up its end, which becomes an element of no free list.      *)
Truncate(h, a, n) ==
  LET x == At(h, a)
      kept == AllocationSize(x.cid, n)
      rest == AllocationSize(x.cid, x.size) - kept
      cut == [h EXCEPT !.mem[a[1]][a[2]] = [x EXCEPT !.size = n, !.tag = set_heap_size(kept)]]
  IN  IF rest = 0 THEN cut
      ELSE [cut EXCEPT !.mem[a[1]] = Place(@, a[2] + kept, FreeElement(rest), rest)]

-----------------------------------------------------------------------------
Init ==
  heap = [mem |-> [s \in 0..MaxRegions |-> IF s = 0 THEN [i \in 1..NewUnits |-> Junk] ELSE <<>>],
          top_ |-> 1, survivor_end_ |-> 1,
          regions_ |-> <<>>, object_end |-> [s \in 1..MaxRegions |-> 0],
          free_lists_ |-> [k \in 0..SizeClasses |-> <<>>],
          old_size_ |-> 0, old_limit_ |-> 0,
          loading |-> TRUE, load_top |-> Nowhere, load_end |-> 0,
          roots |-> {}, handle |-> Nowhere, full |-> FALSE, overrun |-> FALSE,
          calls |-> 0]

Running      == ~heap.loading /\ heap.calls < MaxCalls
RoomForRoot  == Running /\ Cardinality(heap.roots) < MaxRoots
Loads(h)     == ~h.full /\ heap' = h
Becomes(h)   == ~h.full /\ heap' = [h EXCEPT !.calls = @ + 1]

Load(cid, n) ==
  /\ heap.loading /\ Cardinality(heap.roots) < MaxLoaded
  /\ Loads(Held(Initialize(AllocateSnapshot(heap, AllocationSize(cid, n)), cid, n), cid, n))

InitializeAfterSnapshot ==
  /\ heap.loading
  /\ Loads(SetOldAllocationLimit([Unused(heap) EXCEPT !.loading = FALSE,
                                      !.load_top = Nowhere, !.load_end = 0]))

New(cid, n) ==
  /\ RoomForRoot
  /\ Becomes(Held(Allocated(heap, cid, n), cid, n))

Cut(got, used) == [got EXCEPT !.h = IF @.full THEN @ ELSE Truncate(@, got.at, used)]
Resized(got, n) == [got EXCEPT !.h = IF @.full THEN @
                                     ELSE [@ EXCEPT !.mem[got.at[1]][got.at[2]].size = n]]

(* The result of adding, subtracting and the like, whose leading zeros go.     *)
LargeResult(n, used) ==
  /\ RoomForRoot
  /\ Becomes(Held(Cut(Allocated(heap, "digits", n), used), "digits", used))

(* ShiftLeft and ShiftRight just set the size when the leading digit is zero.   *)
ShiftLeft(n) ==
  /\ RoomForRoot
  /\ AllocationSize("digits", n) > MaxTag => LargeShifts
  /\ Becomes(Held(Resized(Allocated(heap, "digits", n), n - 1), "digits", n - 1))

Store(r, q) ==
  /\ Running /\ r.cid = "array" /\ r.size > 0
  /\ Becomes([heap EXCEPT !.mem[r.at[1]][r.at[2]].refs = {q.at}])

Drop(r) == Running /\ Becomes([heap EXCEPT !.roots = @ \ {r}])

Collect == Running /\ Becomes(MarkSweep(heap))
RememberedSetInterrupt == Running /\ Becomes(Scavenge(heap, TRUE))

(* The forwarder becomes a corpse of the same size. *)
BecomeForward(r, q) ==
  LET h == Forward(heap, r.at :> q.at)
  IN  /\ Running /\ r # q
      /\ Becomes([h EXCEPT !.mem[r.at[1]][r.at[2]] = Corpse(HeapSize(@)),
                           !.roots = heap.roots \ {r}])

(* AllocateArray for count objects, then those in found(h, result), which is    *)
(* computed after that, are stored in it and the rest of it is cut off.        *)
Filled(got, all, count) ==
  LET n == Min({Cardinality(all), count})
      filled == [got.h EXCEPT !.mem[got.at[1]][got.at[2]].refs = all,
                              !.overrun = @ \/ Cardinality(all) > count]
  IN  Held([h |-> [Truncate(filled, got.at, n) EXCEPT !.handle = Nowhere], at |-> got.at],
           "array", n)
Collected(h, count, found(_, _)) ==
  LET collect(got) == IF got.h.full THEN got.h ELSE Filled(got, found(got.h, got.at), count)
  IN  collect(Allocated(h, "array", count))

InstancesIn(h, cid) == {a \in Objects(h) : At(h, a).cid = cid}

(* mutant: the result is not counted *)
CountInstancesNoResult(cid) == Cardinality(InstancesIn(heap, cid))

(* The result is an instance itself when it is arrays that are asked for.       *)
CountInstances(cid) == Cardinality(InstancesIn(heap, cid)) + (IF cid = "array" THEN 1 ELSE 0)

InstancesOf(cid) ==
  /\ RoomForRoot
  /\ Becomes(Collected(heap, CountInstances(cid), LAMBDA h, result : InstancesIn(h, cid)))

ReferencesIn(h, target) ==
  {a \in Objects(h) : At(h, a).cid \in Legal /\ target \in At(h, a).refs}
Precedes(h, a, b) ==
  LET place(c) == CHOOSE n \in DOMAIN Spaces(h) : Spaces(h)[n] = c[1]
  IN  \/ place(a) < place(b)
      \/ a[1] = b[1] /\ a[2] < b[2]

(* The target is moved with a handle.  By the time the walk comes to the result  *)
(* itself, that refers to everything found before, perhaps to the target.      *)
ReferencesTo(r) ==
  /\ RoomForRoot
  /\ r.at \in At(heap, r.at).refs => SelfReference
  /\ Becomes(Collected([heap EXCEPT !.handle = r.at],
       Cardinality(ReferencesIn(heap, r.at)),
       LAMBDA h, result :
         LET found == ReferencesIn(h, h.handle)
         IN  IF h.handle \in found /\ Precedes(h, h.handle, result)
             THEN found \cup {result} ELSE found))

Asked == {<<"array", n>> : n \in Arrays} \cup {<<"digits", n>> : n \in Digits} \cup {<<"object", 0>>}

Next ==
  \/ \E a \in Asked : Load(a[1], a[2]) \/ New(a[1], a[2])
  \/ InitializeAfterSnapshot
  \/ \E n \in Digits : ShiftLeft(n) \/ \E used \in 1..(n - 1) : LargeResult(n, used)
  \/ \E r \in heap.roots :
       Drop(r) \/ ReferencesTo(r) \/ \E q \in heap.roots : Store(r, q) \/ BecomeForward(r, q)
  \/ \E cid \in Legal : InstancesOf(cid)
  \/ Collect \/ RememberedSetInterrupt

Spec == Init /\ [][Next]_heap

-----------------------------------------------------------------------------
(* A walk over a space finds objects and nothing else and ends where the space  *)
(* does: none of the collector's passes comes to the UNREACHABLE of             *)
(* HeapSizeFromClass and Pointers (object.cc:25, 65).                          *)
WalksFindObjects ==
  ~heap.loading =>
    \A s \in Range(Spaces(heap)) :
      LET end == End(heap, s)
      IN  /\ end \in Walk(heap.mem[s], end)
          /\ \A i \in Walk(heap.mem[s], end) : i <= end
          /\ \A i \in Found(heap.mem[s], end) : heap.mem[s][i].cid # "junk"

(* What the program holds is still the object it made, where it thinks it is:   *)
(* nothing was allocated over it, and no cut, split or sweep took a part of it. *)
RootsIntact ==
  \A r \in heap.roots :
    LET x == At(heap, r.at)
    IN  x.cid = r.cid /\ x.size = r.size /\ (~heap.loading => r.at \in Objects(heap))

(* The free lists hold free elements of regions, each once, in the list for     *)
(* its size (heap.cc:1525-1592).                                              *)
FreeListsSound ==
  LET listed(k) == Range(heap.free_lists_[k])
  IN  /\ \A k \in DOMAIN heap.free_lists_ :
           /\ IsInjective(heap.free_lists_[k])
           /\ \A a \in listed(k) :
                /\ At(heap, a).cid = "free"
                /\ IndexForSize(HeapSize(At(heap, a))) = k
                /\ ~heap.loading => a \in Objects(heap) /\ ~InNew(a)
      /\ \A j, k \in DOMAIN heap.free_lists_ : j # k => listed(j) \cap listed(k) = {}

(* old_size_ covers every object in old space, is never more than there is      *)
(* room, and after a mark-sweep exact.                                        *)
OldSizeTrue ==
  LET used == {a \in Objects(heap) : ~InNew(a) /\ At(heap, a).cid # "free"}
      room == MapThenSumSet(LAMBDA s : heap.object_end[s] - 1, Range(heap.regions_))
  IN  ~heap.loading =>
        /\ MapThenSumSet(LAMBDA a : HeapSize(At(heap, a)), used) <= heap.old_size_
        /\ heap.old_size_ <= room

MemorySound == WalksFindObjects /\ RootsIntact /\ FreeListsSound /\ OldSizeTrue

(* allInstances and referencesTo: never write past the array they allocated for  *)
(* what they had counted (heap.cc:1441, 1519: "There may be fewer instances     *)
(* than we initially counted"), and the copies of a scavenge never meet the     *)
(* tenure stack (heap.cc:469 asserts it).                                     *)
NoOverrun == ~heap.overrun
===============================================================================
