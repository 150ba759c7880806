------------------------------ MODULE Dispatch ------------------------------
(* Message sends of the interpreter and their inline cache (vm/interpreter.cc, *)
(* vm/lookup_cache.h, .cc).  A method is private, protected or public; a send  *)
(* looks it up by its own rule, some through the objects that enclose the      *)
(* receiver's class.  What a miss finds is cached by class id and addresses,   *)
(* which a collection changes; only Clear, in GCEpilogue, forgets entries.     *)
EXTENDS Naturals, Sequences

CONSTANTS
  Classes, Mixins, Selectors, Objects,
  Superclass, MixinOf,             \* of a class; NoClass above the root
  EnclosingObject,                 \* of a class; NoObject for a top-level one
  EnclosingMixin,                  \* of a mixin; NoMixin for a top-level one
  Callers, CallerMixin,            \* the methods that send, and where they are defined
  doesNotUnderstand,
  MethodTables,                    \* the programs: mixin -> selector -> access
  InitialClass, InitialIds,        \* of objects, of classes
  Placements,                      \* addresses of selectors and callers
  ClassIds,
  Slots, OrdinaryProbes(_, _), NSProbes(_, _, _),   \* the cache's slots and hashes
  MaxSends, MaxChanges

VARIABLES
  methods,       \* the methods of every mixin, and which edition of them
  classOf,       \* of an object
  id,            \* of a class; NoId if it has none yet
  place,         \* where selectors and calling methods are
  ordinary, ns,  \* the two halves of the cache's entries
  sends, changes

dispatchVars == <<methods, classOf, id, place, ordinary, ns, sends, changes>>

NoClass == "NoObject"
NoMixin == "NoObject"
NoObject == "NoObject"
Self == "self"          \* the receiver of the running method, whichever it is
NullReceiver == "null"
NoMethod == <<>>
NoId == 0
kIllegalCid == 0

kSelf == 0
kSuper == 256
kImplicitReceiver == 257

Table == [Mixins -> [Selectors -> {"none", "public", "protected", "private"}]]

-----------------------------------------------------------------------------
(* Lookup, as a function of the methods m, of the classes e of the enclosing *)
(* objects, and of the receiver's class.                                      *)

(* a class and its superclasses *)
Chain ==
  LET up[c \in Classes] == IF Superclass[c] = NoClass THEN <<c>> ELSE <<c>> \o up[Superclass[c]]
  IN  [c \in Classes |-> up[c]]

First(cs, Test(_)) ==
  LET hits == {i \in 1..Len(cs) : Test(cs[i])}
  IN  IF hits = {} THEN NoClass ELSE cs[CHOOSE i \in hits : \A j \in hits : i <= j]

MethodAt(m, c, s) == m.access[MixinOf[c]][s]
HasMethod(m, c, s) == MethodAt(m, c, s) # "none"
FindApplicationOf(mixin, c) == First(Chain[c], LAMBDA k : MixinOf[k] = mixin)

Understood(m, k, s, receiver) ==
  [method |-> <<MixinOf[k], s, m.edition>>, receiver |-> receiver, understood |-> TRUE]

(* SendPrivate: any method will do *)
DNUSend(m, c, receiver) ==
  LET k == First(Chain[c], LAMBDA j : HasMethod(m, j, doesNotUnderstand))
  IN  [method |-> <<MixinOf[k], doesNotUnderstand, m.edition>>, receiver |-> receiver,
       understood |-> FALSE]

OrdinaryLookup(m, c, s) ==
  LET k == First(Chain[c], LAMBDA j : MethodAt(m, j, s) \in {"public", "protected"})
  IN  IF k # NoClass /\ MethodAt(m, k, s) = "public" THEN Understood(m, k, s, Self)
      ELSE DNUSend(m, c, Self)

(* the mirrors' way to send, with as many arguments as the method takes; it has a *)
(* lookup of its own                                                              *)
Perform(m, c, s) ==
  LET stops == {i \in 1..Len(Chain[c]) : MethodAt(m, Chain[c][i], s) \in {"public", "protected"}}
      publics == {i \in stops : MethodAt(m, Chain[c][i], s) = "public"}
  IN  IF \E i \in publics : \A j \in stops : i <= j
      THEN Understood(m, First(Chain[c], LAMBDA k : MethodAt(m, k, s) = "public"), s, Self)
      ELSE DNUSend(m, c, Self)

(* mutant: private methods of superclasses are found too *)
ProtectedAnyAccess(m, c, s, receiver) ==
  LET k == First(Chain[c], LAMBDA j : HasMethod(m, j, s))
  IN  IF k # NoClass THEN Understood(m, k, s, receiver) ELSE DNUSend(m, c, receiver)
ProtectedLookup(m, c, s, receiver) ==
  LET k == First(Chain[c], LAMBDA j : MethodAt(m, j, s) \in {"public", "protected"})
  IN  IF k # NoClass THEN Understood(m, k, s, receiver) ELSE DNUSend(m, c, receiver)

(* The lexical scopes of a method of `mixin' whose receiver is of class c: the *)
(* receiver itself, the object that encloses the class it has the method from, *)
(* and so on outward.                                                           *)
Nesting ==
  LET depth[mixin \in Mixins] ==
        IF EnclosingMixin[mixin] = NoMixin THEN 0 ELSE 1 + depth[EnclosingMixin[mixin]]
  IN  [mixin \in Mixins |-> depth[mixin]]

Receiver(c, mixin) == [object |-> Self, class |-> c, mixin |-> mixin]
Outward(e, c, mixin) ==
  LET scope[n \in 1..Nesting[mixin]] ==
        LET within == IF n = 1 THEN Receiver(c, mixin) ELSE scope[n - 1]
            app == FindApplicationOf(within.mixin, within.class)
        IN  [object |-> EnclosingObject[app], class |-> e[app], mixin |-> EnclosingMixin[within.mixin]]
  IN  scope
Scope(e, c, mixin, depth) ==
  IF depth = 0 THEN Receiver(c, mixin) ELSE Outward(e, c, mixin)[depth]

PushEnclosingObject(e, c, mixin, depth) == Scope(e, c, mixin, depth).object

LexicalLookup(m, scope, s) ==
  LET app == FindApplicationOf(scope.mixin, scope.class)
  IN  IF MethodAt(m, app, s) = "private" THEN Understood(m, app, s, scope.object)
      ELSE ProtectedLookup(m, scope.class, s, scope.object)

ImplicitLookup(m, e, c, mixin, s) ==
  LET defining == {n \in 0..Nesting[mixin] :
                     LET scope == Scope(e, c, mixin, n)
                     IN  HasMethod(m, FindApplicationOf(scope.mixin, scope.class), s)}
  IN  IF defining = {} THEN ProtectedLookup(m, c, s, Self)
      ELSE LexicalLookup(m, Scope(e, c, mixin, CHOOSE n \in defining : \A k \in defining : n <= k), s)

SuperLookup(m, c, mixin, s) ==
  ProtectedLookup(m, Superclass[FindApplicationOf(mixin, c)], s, Self)

NSLookup(m, e, rule, c, mixin, s) ==
  IF rule = kSelf THEN LexicalLookup(m, Scope(e, c, mixin, 0), s)
  ELSE IF rule = kSuper THEN SuperLookup(m, c, mixin, s)
  ELSE IF rule = kImplicitReceiver THEN ImplicitLookup(m, e, c, mixin, s)
  ELSE LexicalLookup(m, Scope(e, c, mixin, rule), s)   \* an outer send, its depth

Rules(mixin) == {kSelf, kSuper, kImplicitReceiver} \cup 1..Nesting[mixin]

(* The superclasses of a class come to an end. *)
ASSUME HierarchyAssumption ==
  NoClass \notin Classes /\ \A c \in Classes : Chain[c] \in Seq(Classes)

(* A class has an id when it has an instance, of its own; equal addresses are *)
(* those of one object; probes stay inside the cache.                          *)
ASSUME DispatchAssumption ==
  /\ InitialClass \in [Objects -> Classes]
  /\ InitialIds \in [Classes -> ClassIds \cup {NoId}] /\ NoId \notin ClassIds
  /\ \A c, d \in Classes : InitialIds[c] = InitialIds[d] /\ c # d => InitialIds[c] = NoId
  /\ \A o \in Objects : InitialIds[InitialClass[o]] # NoId
  /\ MethodTables \subseteq Table
  /\ EnclosingObject \in [Classes -> Objects \cup {NoObject}]
  /\ NoObject \notin Objects /\ Self \notin Objects /\ NullReceiver \notin Objects
  /\ CallerMixin \in [Callers -> Mixins]
  /\ \A mixin \in Mixins : Nesting[mixin] \in 0..255
  /\ \A p \in Placements : \A a, b \in Selectors \cup Callers : p[a] = p[b] => a = b
  /\ \A cid \in ClassIds, p \in Placements, s \in Selectors :
       /\ OrdinaryProbes(cid, p[s]) \in Slots \X Slots
       /\ \A m \in Callers : NSProbes(cid, p[s], p[m]) \in Slots \X Slots

-----------------------------------------------------------------------------
(* The cache. *)

(* Clear: only the class ids are overwritten *)
Clear ==
  /\ ordinary' = [p \in Slots |-> [ordinary[p] EXCEPT !.cid = kIllegalCid]]
  /\ ns' = [p \in Slots |-> [ns[p] EXCEPT !.cid = kIllegalCid]]

ProbeSlots(entry, probes, Matches(_)) ==
  IF Matches(entry[probes[1]]) THEN entry[probes[1]]
  ELSE IF Matches(entry[probes[2]]) THEN entry[probes[2]]
  ELSE [target |-> NoMethod]

LookupOrdinary(cid, s) ==
  ProbeSlots(ordinary, OrdinaryProbes(cid, place[s]),
        LAMBDA entry : entry.cid = cid /\ entry.selector = place[s]).target

(* mutant: entries of different rules are not told apart *)
LookupNSAnyRule(cid, s, caller, rule) ==
  ProbeSlots(ns, NSProbes(cid, place[s], place[caller]),
        LAMBDA entry : /\ entry.cid = cid /\ entry.selector = place[s]
                       /\ entry.caller = place[caller])
LookupNS(cid, s, caller, rule) ==
  ProbeSlots(ns, NSProbes(cid, place[s], place[caller]),
        LAMBDA entry : /\ entry.cid = cid /\ entry.rule = rule
                       /\ entry.selector = place[s] /\ entry.caller = place[caller])

InsertOrdinary(cid, s, target) ==
  LET probes == OrdinaryProbes(cid, place[s])
      entry == [cid |-> cid, selector |-> place[s], target |-> target]
  IN  ordinary' = [p \in Slots |-> IF p = probes[1] \/ p = probes[2] THEN entry ELSE ordinary[p]]

InsertNS(cid, s, caller, rule, receiver, target) ==
  LET probes == NSProbes(cid, place[s], place[caller])
      entry == [cid |-> cid, rule |-> rule, selector |-> place[s], caller |-> place[caller],
                receiver |-> receiver, target |-> target]
  IN  ns' = [p \in Slots |-> IF p = probes[1] \/ p = probes[2] THEN entry ELSE ns[p]]

-----------------------------------------------------------------------------
(* The state. *)

EnclosingClass == [c \in Classes |-> IF EnclosingObject[c] = NoObject THEN NoClass ELSE classOf[EnclosingObject[c]]]
Encloses(o) == \E c \in Classes : EnclosingObject[c] = o

(* Caller runs on receiver r: its mixin is applied in r's class, and so        *)
(* outward, and r is not an object that encloses its own class, which is older  *)
(* than r.  It can send by a rule if it has that many scopes, by super if its   *)
(* mixin is not applied at the root.                                            *)
InScope(r, caller) ==
  \A n \in 0..Nesting[CallerMixin[caller]] :
    LET scope == Scope(EnclosingClass, classOf[r], CallerMixin[caller], n)
    IN  /\ FindApplicationOf(scope.mixin, scope.class) # NoClass
        /\ n > 0 => PushEnclosingObject(EnclosingClass, classOf[r], CallerMixin[caller], n)
                      \in Objects \ {r}
HasRule(r, caller, rule) ==
  /\ rule \in Rules(CallerMixin[caller])
  /\ rule = kSuper => Superclass[FindApplicationOf(CallerMixin[caller], classOf[r])] # NoClass
Runs(r, caller, rule) == InScope(r, caller) /\ HasRule(r, caller, rule)

DispatchInit ==
  /\ methods \in [edition : {0}, access : MethodTables]
  /\ classOf = InitialClass
  /\ id = InitialIds
  /\ place \in Placements
  /\ ordinary = [p \in Slots |-> [cid |-> kIllegalCid, selector |-> 0, target |-> NoMethod]]
  /\ ns = [p \in Slots |-> [cid |-> kIllegalCid, rule |-> 0, selector |-> 0, caller |-> 0,
                              receiver |-> NullReceiver, target |-> NoMethod]]
  /\ sends = 0 /\ changes = 0

Sent ==
  /\ sends < MaxSends /\ sends' = sends + 1
  /\ UNCHANGED <<methods, classOf, id, place, changes>>

(* A send that is understood is cached; what is not understood never is. *)
OrdinarySendMiss(r, s) ==
  LET cid == id[classOf[r]]
      found == OrdinaryLookup(methods, classOf[r], s)
  IN  /\ Sent /\ UNCHANGED ns
      /\ LookupOrdinary(cid, s) = NoMethod
      /\ found.understood
      /\ InsertOrdinary(cid, s, found.method)

NSSendMiss(rule, r, caller, s) ==
  LET cid == id[classOf[r]]
      found == NSLookup(methods, EnclosingClass, rule, classOf[r], CallerMixin[caller], s)
      receiver == IF found.receiver = Self THEN r ELSE found.receiver
  IN  /\ Sent /\ UNCHANGED ordinary
      /\ Runs(r, caller, rule)
      /\ LookupNS(cid, s, caller, rule).target = NoMethod
      /\ found.understood
      /\ InsertNS(cid, s, caller, rule,
                  IF receiver = r THEN NullReceiver ELSE receiver, found.method)

Changed == changes < MaxChanges /\ changes' = changes + 1

(* AtomicInstaller: the mixins and classes become their new definitions.  The *)
(* methods that are running stay.                                              *)
(* mutant: become without GCEpilogue *)
InstallUncleared(table) ==
  /\ Changed
  /\ methods' = [edition |-> methods.edition + 1, access |-> table]
  /\ UNCHANGED <<classOf, id, place, ordinary, ns, sends>>
Install(table) ==
  /\ Changed
  /\ methods' = [edition |-> methods.edition + 1, access |-> table]
  /\ Clear
  /\ UNCHANGED <<classOf, id, place, sends>>

(* Selectors and methods move, classes without instances may die: a class that *)
(* gets an id later may get theirs.                                             *)
CollectAndClear(dead, placement) ==
  /\ Changed
  /\ \A o \in Objects : classOf[o] \notin dead
  /\ id' = [c \in Classes |-> IF c \in dead THEN NoId ELSE id[c]]
  /\ place' = placement
  /\ Clear
  /\ UNCHANGED <<methods, classOf, sends>>

(* Behavior_adoptInstance does not clear the cache.  Serialization.ns, its only *)
(* user, adopts objects it has just made: they enclose no class.                *)
AdoptInstance(c, o, newId) ==
  /\ Changed
  /\ ~Encloses(o)
  /\ IF id[c] # NoId THEN newId = id[c] ELSE \A d \in Classes : id[d] # newId
  /\ id' = [id EXCEPT ![c] = newId]
  /\ classOf' = [classOf EXCEPT ![o] = c]
  /\ UNCHANGED <<methods, place, ordinary, ns, sends>>

DispatchNext ==
  \/ \E r \in Objects, s \in Selectors :
       \/ OrdinarySendMiss(r, s)
       \/ \E caller \in Callers : \E rule \in Rules(CallerMixin[caller]) : NSSendMiss(rule, r, caller, s)
  \/ \E table \in MethodTables : Install(table)
  \/ \E dead \in SUBSET Classes, placement \in Placements : CollectAndClear(dead, placement)
  \/ \E c \in Classes, o \in Objects, newId \in ClassIds : AdoptInstance(c, o, newId)

DispatchSpec == DispatchInit /\ [][DispatchNext]_dispatchVars

-----------------------------------------------------------------------------
(* What a send does in this state: the cached method if there is one. *)
OrdinarySend(r, s) ==
  LET target == LookupOrdinary(id[classOf[r]], s)
  IN  IF target # NoMethod THEN [method |-> target, receiver |-> Self, understood |-> TRUE]
      ELSE OrdinaryLookup(methods, classOf[r], s)

Resolve(r, found) == [found EXCEPT !.receiver = IF @ = Self THEN r ELSE @]

NSSendHit(rule, r, entry) ==
  [method |-> entry.target, understood |-> TRUE,
   receiver |-> IF rule \in {kSelf, kSuper} THEN r
                ELSE IF rule = kImplicitReceiver /\ entry.receiver = NullReceiver THEN r
                ELSE entry.receiver]

NSSend(rule, r, caller, s) ==
  LET entry == LookupNS(id[classOf[r]], s, caller, rule)
  IN  IF entry.target # NoMethod THEN NSSendHit(rule, r, entry)
      ELSE Resolve(r, NSLookup(methods, EnclosingClass, rule, classOf[r], CallerMixin[caller], s))

(* Every send, of any receiver by any running method, does what a full lookup *)
(* would do now: no entry outlives the class id, the addresses, the methods or *)
(* the enclosing object it was made with, and two receivers of one class may   *)
(* share one (LookupCache, GCEpilogue, Behavior_adoptInstance).                 *)
OrdinaryTrue ==
  \A r \in Objects, s \in Selectors :
    LookupOrdinary(id[classOf[r]], s) # NoMethod =>
      OrdinarySend(r, s) = OrdinaryLookup(methods, classOf[r], s)
NSTrue ==
  \A r \in Objects, s \in Selectors, caller \in Callers :
    \A rule \in Rules(CallerMixin[caller]) :
      LookupNS(id[classOf[r]], s, caller, rule).target # NoMethod /\ Runs(r, caller, rule) =>
        NSSend(rule, r, caller, s) =
          Resolve(r, NSLookup(methods, EnclosingClass, rule, classOf[r], CallerMixin[caller], s))
CacheTrue == OrdinaryTrue /\ NSTrue

(* Access modifiers are honoured by every rule, cached or not: from outside    *)
(* only public methods are reached, and mirrors reach the same; a private one   *)
(* only from code written inside its class declaration; super reaches no        *)
(* private one at all (OrdinarySendMiss, Perform, LexicalSend, ProtectedSend;   *)
(* AccessModifierTesting.ns).                                                   *)
AccessOf(method) == methods.access[method[1]][method[2]]
Encloser(mixin) ==
  LET out[n \in 0..Nesting[mixin]] == IF n = 0 THEN mixin ELSE EnclosingMixin[out[n - 1]]
  IN  {out[n] : n \in 0..Nesting[mixin]}
AccessHonoured ==
  \A r \in Objects :
    /\ \A s \in Selectors :
         LET sent == OrdinarySend(r, s)
         IN  /\ sent = Perform(methods, classOf[r], s)
             /\ sent.understood => AccessOf(sent.method) = "public"
    /\ \A caller \in Callers : InScope(r, caller) =>
         \A rule \in Rules(CallerMixin[caller]), s \in Selectors :
           LET sent == NSSend(rule, r, caller, s)
           IN  HasRule(r, caller, rule) /\ sent.understood /\ AccessOf(sent.method) = "private" =>
                 /\ rule # kSuper
                 /\ sent.method[1] \in Encloser(CallerMixin[caller])
=============================================================================
