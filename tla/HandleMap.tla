------------------------------- MODULE HandleMap -------------------------------
(***************************************************************************)
(* vm/handle.cc: a message loop's open-addressed map from handle ids to     *)
(* handles.  Ids are given out in sequence and never reused; a slot is      *)
(* named by the id it holds, and the handle by its id.  One thread, the     *)
(* loop's, calls it, so every public function is one action.                *)
(***************************************************************************)
EXTENDS Integers, FiniteSets, FiniteSetsExt

Seqs == INSTANCE SequencesExt

CONSTANTS
  LastId  (* bound: no id above it is given out *)

kEmpty == 0
kDeleted == 1
kFirstRegularId == 2
Ids == kFirstRegularId .. LastId

VARIABLES
  table,  \* entries_, capacity_, used_ and deleted_
  nextId, \* next_id_
  live    \* the ids registered and not removed

vars == <<table, nextId, live>>

Emptied(n) == [i \in 0 .. n - 1 |-> kEmpty]
Occupied(e) == e \notin {kEmpty, kDeleted}

(* The first slot at or after id's own that holds one of values; or -1.     *)
Probe(t, id, values) ==
  LET slot(k) == (id + k) % t.capacity
      stops   == {k \in 0 .. t.capacity - 1 : t.entries[slot(k)] \in values}
  IN  IF stops = {} THEN -1 ELSE slot(Min(stops))

MustGrow(t) == t.used > (t.capacity \div 4) * 3

MustFlush(t) == t.capacity - t.used - t.deleted < t.deleted

NewTable(t, n) ==
  [entries |-> Emptied(n), capacity |-> n, used |-> t.used, deleted |-> 0]

RECURSIVE Insert(_, _), Rehash(_, _)

(* A rehash inserts entry by entry, so it may set off another one half-way; *)
(* it clears deleted_ and leaves used_ as it is.                            *)
Insert(t, id) ==
  LET i == Probe(t, id, {kEmpty, kDeleted})
      u == [t EXCEPT !.entries[i] = id,
                     !.used = @ + 1,
                     !.deleted = IF t.entries[i] = kDeleted THEN @ - 1 ELSE @]
  IN  IF MustGrow(u) THEN Rehash(u, u.capacity * 2)
      ELSE IF MustFlush(u) THEN Rehash(u, u.capacity)
      ELSE u

Rehash(t, n) ==
  Seqs!FoldLeft(LAMBDA u, e : IF Occupied(e) THEN Insert(u, e) ELSE u,
           NewTable(t, n), [j \in 1 .. t.capacity |-> t.entries[j - 1]])

(* HandleMap(): Rehash(8) of a map with no entries.                         *)
Init ==
  /\ table = [entries |-> Emptied(8), capacity |-> 8, used |-> 0, deleted |-> 0]
  /\ nextId = kFirstRegularId
  /\ live = {}

Register ==
  /\ nextId <= LastId
  /\ table' = Insert(table, nextId)
  /\ live' = live \cup {nextId}
  /\ nextId' = nextId + 1

Lookup(id) ==
  LET i == Probe(table, id, {kEmpty, id})
  IN  i # -1 /\ table.entries[i] = id

RemoveAsEmpty(id) ==  \* mutant: the slot becomes empty, not deleted
  /\ Lookup(id)
  /\ table' = [table EXCEPT !.used = @ - 1,
                            !.entries[Probe(table, id, {id})] = kEmpty]
  /\ live' = live \ {id}
  /\ UNCHANGED nextId

Remove(id) ==
  /\ Lookup(id)
  /\ table' = [table EXCEPT !.used = @ - 1, !.deleted = @ + 1,
                            !.entries[Probe(table, id, {id})] = kDeleted]
  /\ live' = live \ {id}
  /\ UNCHANGED nextId

Next == Register \/ \E id \in Ids : Remove(id)

Spec == Init /\ [][Next]_vars

-----------------------------------------------------------------------------
(* Properties *)

TypeOK ==
  /\ DOMAIN table.entries = 0 .. table.capacity - 1
  /\ \A i \in DOMAIN table.entries : table.entries[i] \in Ids \cup {kEmpty, kDeleted}
  /\ nextId \in kFirstRegularId .. LastId + 1

(* Lookup finds exactly the handles registered and not removed, through any *)
(* sequence of reused slots, rehashes and rehashes within rehashes.         *)
FindsExactlyTheLive == \A id \in Ids : Lookup(id) <=> id \in live

(* Lookup and Remove have no bound on their loop: they end because some     *)
(* slot is empty.                                                           *)
ProbesEnd == \E i \in DOMAIN table.entries : table.entries[i] = kEmpty

(* deleted_ is exact, and used_ is never less than the handles there are,   *)
(* so that the table is grown in time.                                      *)
CountersSafe ==
  /\ table.deleted = Cardinality({i \in DOMAIN table.entries :
                                    table.entries[i] = kDeleted})
  /\ table.used >= Cardinality(live)

(* What used_ and the local `empty` in Insert are named for.                *)
CountersExact ==
  /\ table.used = Cardinality(live)
  /\ table.capacity - table.used - table.deleted
       = Cardinality({i \in DOMAIN table.entries : table.entries[i] = kEmpty})
===============================================================================
