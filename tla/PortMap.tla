-------------------------------- MODULE PortMap --------------------------------
(***************************************************************************)
(* vm/port.cc: the process-wide map from port numbers to message loops, an  *)
(* open-addressed table with linear probing.  Every public function runs    *)
(* under PortMap::mutex_ and is one action.  A closed entry keeps its slot  *)
(* as a tombstone until a rehash; the counters used_ and deleted_ decide    *)
(* when that is.                                                            *)
(*                                                                          *)
(* Port numbers come from Random::NextUInt64 and are kept in an int64_t, so *)
(* they may be negative.  FindPort reduces them unsigned, Rehash signed.    *)
(***************************************************************************)
EXTENDS Integers, FiniteSets, FiniteSetsExt

CONSTANTS
  Port,             (* the port numbers AllocatePort may draw              *)
  Loop,             (* message loops                                       *)
  InitialCapacity,  (* kInitialCapacity: a power of two, so that a port's  *)
                    (* unsigned remainder is its remainder                 *)
  None              (* nullptr, and the result of a failed lookup          *)

IllegalPort == 0
DeletedEntry == "deleted"   \* deleted_entry_

ASSUME PortAssumption ==
  /\ Port \subseteq Int \ {IllegalPort}
  /\ InitialCapacity \in Nat /\ InitialCapacity >= 4
  /\ None # DeletedEntry /\ {None, DeletedEntry} \cap Loop = {}

VARIABLES
  map,         \* map_
  capacity,    \* capacity_
  used,        \* used_
  deleted,     \* deleted_
  routed,      \* the loop the last PostMessage reached
  outOfBounds  \* Rehash has stored an entry outside of the new table

vars == <<map, capacity, used, deleted, routed, outOfBounds>>

Free == [port |-> IllegalPort, loop |-> None]
Tombstone == [port |-> IllegalPort, loop |-> DeletedEntry]

EmptyMap(n) == [i \in 0 .. n - 1 |-> Free]

Init ==
  /\ map = EmptyMap(InitialCapacity) /\ capacity = InitialCapacity
  /\ used = 0 /\ deleted = 0
  /\ routed = None
  /\ outOfBounds = FALSE

Indices == 0 .. capacity - 1
Home(p) == p % capacity

(* Probing for p goes on over tombstones, up to a slot that was never used. *)
FindPort(p) ==
  LET home  == Home(p)
      stops == {k \in Indices : LET e == map[(home + k) % capacity] IN
                                 e.loop = None \/ e.port = p}
      last  == (home + Min(stops)) % capacity
  IN  IF stops # {} /\ map[last].port = p THEN last ELSE -1

(* What the table answers for p. *)
RouteOf(p) == LET i == FindPort(p) IN IF i = -1 THEN None ELSE map[i].loop

(* The first slot with no port at or after an index: free or a tombstone.   *)
FirstUnused(m, n, start) ==
  (start + Min({k \in 0 .. n - 1 : m[(start + k) % n].port = IllegalPort})) % n

(* C++'s remainder of a signed number keeps the sign of the dividend.       *)
SignedRemainder(p, n) == IF p >= 0 \/ p % n = 0 THEN p % n ELSE (p % n) - n

(* Entries move in index order.  One whose index is negative goes to memory *)
(* before the array; here it is lost.                                       *)
Entered(new, n, e) ==
  LET i == SignedRemainder(e.port, n) IN
  IF e.port = IllegalPort \/ i < 0 THEN new
  ELSE [new EXCEPT ![FirstUnused(new, n, i)] = e]
Rehash(m, n) ==
  LET upTo[k \in 0 .. capacity] ==
        IF k = 0 THEN EmptyMap(n) ELSE Entered(upTo[k - 1], n, m[k - 1])
  IN  upTo[capacity]

RehashEscapes(m, n) ==
  \E i \in Indices : m[i].port # IllegalPort /\ SignedRemainder(m[i].port, n) < 0

MustGrow(u) == u > (capacity \div 4) * 3

NoFlush(u, d) == FALSE  \* mutant: tombstones stay until the table grows
MustFlush(u, d) == capacity - u - d < d

(* m, u and d are the table and the counters the caller leaves behind.      *)
MaintainInvariants(m, u, d) ==
  LET size == IF MustGrow(u) THEN capacity * 2 ELSE capacity IN
  /\ used' = u
  /\ IF MustGrow(u) \/ MustFlush(u, d)
       THEN /\ map' = Rehash(m, size)
            /\ capacity' = size
            /\ deleted' = 0
            /\ outOfBounds' = (outOfBounds \/ RehashEscapes(m, size))
       ELSE /\ map' = m
            /\ deleted' = d
            /\ UNCHANGED <<capacity, outOfBounds>>
  /\ UNCHANGED routed

(* AllocatePort draws until it has a port that is not in the map.           *)
CreatePort(p, l) ==
  LET i == FirstUnused(map, capacity, Home(p)) IN
  /\ FindPort(p) = -1
  /\ MaintainInvariants([map EXCEPT ![i] = [port |-> p, loop |-> l]], used + 1,
                        IF map[i] = Tombstone THEN deleted - 1 ELSE deleted)

PostMessage(p) ==
  /\ routed' = RouteOf(p)
  /\ UNCHANGED <<map, capacity, used, deleted, outOfBounds>>

CloseToFree(p) ==  \* mutant: a closed slot becomes free at once
  LET i == FindPort(p) IN
  /\ i # -1
  /\ MaintainInvariants([map EXCEPT ![i] = Free], used - 1, deleted)

ClosePort(p) ==
  LET i == FindPort(p) IN
  /\ i # -1
  /\ MaintainInvariants([map EXCEPT ![i] = Tombstone], used - 1, deleted + 1)

CloseAllPorts(l) ==
  LET mine == {i \in Indices : map[i].loop = l}
      n    == Cardinality(mine)
  IN  MaintainInvariants([i \in Indices |-> IF i \in mine THEN Tombstone ELSE map[i]],
                         used - n, deleted + n)

Next ==
  \/ \E p \in Port, l \in Loop : CreatePort(p, l)
  \/ \E p \in Port : PostMessage(p) \/ ClosePort(p)
  \/ \E l \in Loop : CloseAllPorts(l)

Spec == Init /\ [][Next]_vars

-----------------------------------------------------------------------------
(* Properties *)

TypeOK ==
  /\ DOMAIN map = Indices
  /\ \A i \in DOMAIN map :
       \/ map[i] \in {Free, Tombstone}
       \/ map[i].port \in Port /\ map[i].loop \in Loop
  /\ used \in Nat /\ deleted \in Nat
  /\ routed \in Loop \cup {None}

(* FindPort's ASSERT(index != start_index): a probe for a port that is not  *)
(* there ends, since some slot has never been used since the last rehash.   *)
ProbesEnd == \E i \in DOMAIN map : map[i] = Free

(* The counters that MaintainInvariants decides by are the true ones.       *)
CountersTrue ==
  /\ used = Cardinality({i \in DOMAIN map : map[i].port # IllegalPort})
  /\ deleted = Cardinality({i \in DOMAIN map : map[i] = Tombstone})

(* CreatePort's ASSERT(index >= 0) and ASSERT(index < capacity_), asked of  *)
(* the index Rehash computes for the same entry.                            *)
StaysInBounds == ~outOfBounds

(* No probe runs forever: FindPort has no bound, and ends because a slot is     *)
(* empty, which MaintainInvariants sees to by its counters; those are exact     *)
(* while no entry was stored outside.                                         *)
ProbesStop == TypeOK /\ ProbesEnd /\ (StaysInBounds => CountersTrue)

(* Every operation does to the routes that FindPort finds what PortTable says:  *)
(* none loses, duplicates or redirects another port, whatever growth or flush  *)
(* it sets off.                                                            *)
Routes == INSTANCE PortTable WITH owner <- [p \in Port |-> RouteOf(p)]
PortMapBehaves == Routes!Spec
===============================================================================
