--------------------------- MODULE DispatchProofs ---------------------------
(* Proofs about Dispatch: whatever the hierarchy of classes, the programs, the *)
(* hashes and the size of the cache, a hit is what a full lookup would find,   *)
(* and access modifiers are honoured.                                          *)
EXTENDS Dispatch, WellFoundedInduction, TLAPS

(* What an entry of the cache remembers of a lookup. *)
Remembered(found) == IF found.receiver = Self THEN NullReceiver ELSE found.receiver

Found(rule, c, caller, s) == NSLookup(methods, EnclosingClass, rule, c, CallerMixin[caller], s)

OrdinarySound(entry) ==
  \E c \in Classes, s \in Selectors :
    /\ entry.cid = id[c] /\ entry.selector = place[s]
    /\ OrdinaryLookup(methods, c, s).understood
    /\ entry.target = OrdinaryLookup(methods, c, s).method

NSSound(entry) ==
  \E c \in Classes, s \in Selectors, caller \in Callers : \E rule \in Rules(CallerMixin[caller]) :
    /\ entry.cid = id[c] /\ entry.selector = place[s]
    /\ entry.caller = place[caller] /\ entry.rule = rule
    /\ Found(rule, c, caller, s).understood
    /\ entry.target = Found(rule, c, caller, s).method
    /\ entry.receiver = Remembered(Found(rule, c, caller, s))

Types ==
  /\ classOf \in [Objects -> Classes]
  /\ id \in [Classes -> ClassIds \cup {NoId}]
  /\ place \in Placements

(* Live classes have ids of their own. *)
Identified ==
  /\ \A o \in Objects : id[classOf[o]] # NoId
  /\ \A c, d \in Classes : id[c] = id[d] /\ c # d => id[c] = NoId

(* Slots are records; every one in use was found by a lookup that would find *)
(* the same today.                                                              *)
OrdinaryEntry(entry) ==
  entry = [cid |-> entry.cid, selector |-> entry.selector, target |-> entry.target]
NSEntry(entry) ==
  entry = [cid |-> entry.cid, rule |-> entry.rule, selector |-> entry.selector,
           caller |-> entry.caller, receiver |-> entry.receiver, target |-> entry.target]
Shaped ==
  /\ \A p \in Slots : OrdinaryEntry(ordinary[p])
  /\ \A p \in Slots : NSEntry(ns[p])
Sound ==
  /\ \A p \in Slots : ordinary[p].cid # kIllegalCid => OrdinarySound(ordinary[p])
  /\ \A p \in Slots : ns[p].cid # kIllegalCid => NSSound(ns[p])

IInv == Types /\ Identified /\ Shaped /\ Sound

-----------------------------------------------------------------------------
(* The shape of what lookups return. *)
Shape(found, receiver) ==
  /\ found = [method |-> found.method, receiver |-> receiver, understood |-> found.understood]
  /\ found.understood \in BOOLEAN

LEMMA ProtectedShape ==
  ASSUME NEW m, NEW c, NEW s, NEW receiver
  PROVE  Shape(ProtectedLookup(m, c, s, receiver), receiver)
<1> DEFINE k == First(Chain[c], LAMBDA j : MethodAt(m, j, s) \in {"public", "protected"})
<1>1. \/ ProtectedLookup(m, c, s, receiver) = Understood(m, k, s, receiver)
      \/ ProtectedLookup(m, c, s, receiver) = DNUSend(m, c, receiver)
  BY DEF ProtectedLookup
<1> HIDE DEF k
<1>2. Shape(Understood(m, k, s, receiver), receiver)
  BY DEF Understood, Shape
<1>3. Shape(DNUSend(m, c, receiver), receiver)
  BY DEF DNUSend, Shape
<1> QED BY <1>1, <1>2, <1>3

LEMMA OrdinaryShape ==
  ASSUME NEW m, NEW c, NEW s
  PROVE  Shape(OrdinaryLookup(m, c, s), Self)
<1> DEFINE k == First(Chain[c], LAMBDA j : MethodAt(m, j, s) \in {"public", "protected"})
<1>1. \/ OrdinaryLookup(m, c, s) = Understood(m, k, s, Self)
      \/ OrdinaryLookup(m, c, s) = DNUSend(m, c, Self)
  BY DEF OrdinaryLookup
<1> HIDE DEF k
<1>2. Shape(Understood(m, k, s, Self), Self)
  BY DEF Understood, Shape
<1>3. Shape(DNUSend(m, c, Self), Self)
  BY DEF DNUSend, Shape
<1> QED BY <1>1, <1>2, <1>3

LEMMA LexicalShape ==
  ASSUME NEW m, NEW scope, NEW s
  PROVE  Shape(LexicalLookup(m, scope, s), scope.object)
<1> DEFINE app == FindApplicationOf(scope.mixin, scope.class)
<1>1. \/ LexicalLookup(m, scope, s) = Understood(m, app, s, scope.object)
      \/ LexicalLookup(m, scope, s) = ProtectedLookup(m, scope.class, s, scope.object)
  BY DEF LexicalLookup
<1> HIDE DEF app
<1>2. Shape(Understood(m, app, s, scope.object), scope.object)
  BY DEF Understood, Shape
<1> QED BY <1>1, <1>2, ProtectedShape

LEMMA FirstOfSome ==
  ASSUME NEW S \in SUBSET Nat, S # {}
  PROVE  LET first == CHOOSE n \in S : \A k \in S : n <= k
         IN  first \in S /\ \A k \in S : first <= k
<1> DEFINE R == OpToRel(<, Nat)
<1>1. IsWellFoundedOn(R, Nat)
  BY NatLessThanWellFounded
<1>2. ASSUME NEW j \in Nat, NEW k \in Nat, k < j PROVE <<k, j>> \in R
  <2>1. <<k, j>> \in Nat \X Nat
    OBVIOUS
  <2>2. <<k, j>>[1] < <<k, j>>[2]
    BY <1>2
  <2> QED BY <2>1, <2>2 DEF OpToRel
<1> HIDE DEF R
<1>3. PICK n \in S : \A k \in S : ~ (<<k, n>> \in R)
  BY <1>1, WFMin
<1>4. \A k \in S : ~ (k < n)
  BY <1>2, <1>3
<1>5. \A k \in S : n <= k
  BY <1>4
<1> QED BY <1>5

(* A lookup is made for the receiver itself or for an object that encloses it, *)
(* and self and super sends for the receiver, outer sends for another.          *)
LEMMA NSShape ==
  ASSUME NEW m, NEW e, NEW c, NEW s, NEW mixin \in Mixins, NEW rule \in Rules(mixin)
  PROVE  \E n \in 0..Nesting[mixin] :
           /\ Shape(NSLookup(m, e, rule, c, mixin, s), Scope(e, c, mixin, n).object)
           /\ rule \in {kSelf, kSuper} => n = 0
           /\ rule \notin {kSelf, kSuper, kImplicitReceiver} => n # 0
<1> USE DispatchAssumption
<1>0. Nesting[mixin] \in 0..255
  OBVIOUS
<1>1. Scope(e, c, mixin, 0).object = Self
  BY DEF Scope, Receiver
<1>2. CASE rule = kSelf
  BY <1>0, <1>2, LexicalShape DEF NSLookup, kSelf, kSuper, kImplicitReceiver
<1>3. CASE rule = kSuper
  <2>1. NSLookup(m, e, rule, c, mixin, s)
          = ProtectedLookup(m, Superclass[FindApplicationOf(mixin, c)], s, Self)
    BY <1>3 DEF NSLookup, SuperLookup, kSelf, kSuper
  <2>2. Shape(NSLookup(m, e, rule, c, mixin, s), Scope(e, c, mixin, 0).object)
    BY <1>1, <2>1, ProtectedShape
  <2> QED BY <1>0, <1>3, <2>2 DEF kSelf, kSuper, kImplicitReceiver
<1>4. CASE rule = kImplicitReceiver
  <2>1. NSLookup(m, e, rule, c, mixin, s) = ImplicitLookup(m, e, c, mixin, s)
    BY <1>4 DEF NSLookup, kSelf, kSuper, kImplicitReceiver
  <2> DEFINE defining == {n \in 0..Nesting[mixin] :
                            LET scope == Scope(e, c, mixin, n)
                            IN  HasMethod(m, FindApplicationOf(scope.mixin, scope.class), s)}
             first == CHOOSE n \in defining : \A k \in defining : n <= k
  <2>2. CASE defining = {}
    <3>1. ImplicitLookup(m, e, c, mixin, s) = ProtectedLookup(m, c, s, Self)
      BY <2>2 DEF ImplicitLookup
    <3>2. Shape(NSLookup(m, e, rule, c, mixin, s), Scope(e, c, mixin, 0).object)
      BY <1>1, <2>1, <3>1, ProtectedShape
    <3> QED BY <1>0, <1>4, <3>2 DEF kSelf, kSuper, kImplicitReceiver
  <2>3. CASE defining # {}
    <3>1. ImplicitLookup(m, e, c, mixin, s) = LexicalLookup(m, Scope(e, c, mixin, first), s)
      BY <2>3 DEF ImplicitLookup
    <3>2. first \in defining
      <4>1. defining \in SUBSET Nat
        BY <1>0
      <4> HIDE DEF defining
      <4> QED BY <2>3, <4>1, FirstOfSome
    <3>3. first \in 0..Nesting[mixin]
      BY <3>2
    <3> HIDE DEF first
    <3>4. Shape(NSLookup(m, e, rule, c, mixin, s), Scope(e, c, mixin, first).object)
      BY <2>1, <3>1, LexicalShape
    <3> QED BY <1>4, <3>3, <3>4 DEF kSelf, kSuper, kImplicitReceiver
  <2> QED BY <2>2, <2>3
<1>5. CASE rule \in 1..Nesting[mixin]
  <2>1. NSLookup(m, e, rule, c, mixin, s) = LexicalLookup(m, Scope(e, c, mixin, rule), s)
    BY <1>0, <1>5 DEF NSLookup, kSelf, kSuper, kImplicitReceiver
  <2> QED BY <1>0, <1>5, <2>1, LexicalShape DEF kSelf, kSuper
<1> QED BY <1>2, <1>3, <1>4, <1>5 DEF Rules

-----------------------------------------------------------------------------
(* Access modifiers. *)

AccessIn(m, method) == m.access[method[1]][method[2]]

LEMMA ExportedFirst ==
  ASSUME NEW m, NEW c, NEW s
  PROVE  LET k == First(Chain[c], LAMBDA j : MethodAt(m, j, s) \in {"public", "protected"})
         IN  k # NoClass => MethodAt(m, k, s) \in {"public", "protected"}
<1> DEFINE cs == Chain[c]
           k == First(cs, LAMBDA j : MethodAt(m, j, s) \in {"public", "protected"})
           hits == {i \in 1..Len(cs) : MethodAt(m, cs[i], s) \in {"public", "protected"}}
           first == CHOOSE i \in hits : \A j \in hits : i <= j
<1>1. k = IF hits = {} THEN NoClass ELSE cs[first]
  BY DEF First
<1>2. hits # {} => first \in hits
  <2>1. hits \in SUBSET Nat
    OBVIOUS
  <2> HIDE DEF hits
  <2> QED BY <2>1, FirstOfSome
<1>3. \A i \in hits : MethodAt(m, cs[i], s) \in {"public", "protected"}
  OBVIOUS
<1> HIDE DEF k, hits, first
<1> QED BY <1>1, <1>2, <1>3 DEF k

LEMMA ApplicationOfMixin ==
  ASSUME NEW mixin, NEW c, FindApplicationOf(mixin, c) # NoClass
  PROVE  MixinOf[FindApplicationOf(mixin, c)] = mixin
<1> DEFINE cs == Chain[c]
           hits == {i \in 1..Len(cs) : MixinOf[cs[i]] = mixin}
           first == CHOOSE i \in hits : \A j \in hits : i <= j
<1>1. FindApplicationOf(mixin, c) = IF hits = {} THEN NoClass ELSE cs[first]
  BY DEF First, FindApplicationOf
<1>2. hits # {} => first \in hits
  <2>1. hits \in SUBSET Nat
    OBVIOUS
  <2> HIDE DEF hits
  <2> QED BY <2>1, FirstOfSome
<1>3. \A i \in hits : MixinOf[cs[i]] = mixin
  OBVIOUS
<1> HIDE DEF hits, first
<1> QED BY <1>1, <1>2, <1>3

(* The mirrors' own lookup finds what a send from outside finds.              *)
LEMMA PerformIsOrdinary ==
  ASSUME NEW m, NEW c \in Classes, NEW s
  PROVE  OrdinaryLookup(m, c, s) = Perform(m, c, s)
<1> DEFINE cs == Chain[c]
           stops == {i \in 1..Len(cs) : MethodAt(m, cs[i], s) \in {"public", "protected"}}
           publics == {i \in stops : MethodAt(m, cs[i], s) = "public"}
           hits == {i \in 1..Len(cs) : MethodAt(m, cs[i], s) = "public"}
           first == CHOOSE i \in stops : \A j \in stops : i <= j
           firstPublic == CHOOSE i \in hits : \A j \in hits : i <= j
           k == IF stops = {} THEN NoClass ELSE cs[first]
<1>1. OrdinaryLookup(m, c, s) =
        IF k # NoClass /\ MethodAt(m, k, s) = "public" THEN Understood(m, k, s, Self)
        ELSE DNUSend(m, c, Self)
  BY DEF OrdinaryLookup, First
<1>2. Perform(m, c, s) =
        IF \E i \in publics : \A j \in stops : i <= j
        THEN Understood(m, IF hits = {} THEN NoClass ELSE cs[firstPublic], s, Self)
        ELSE DNUSend(m, c, Self)
  BY DEF Perform, First
<1>3. stops \in SUBSET Nat /\ publics \subseteq stops /\ hits = publics
  OBVIOUS
<1>4. \A i \in stops : cs[i] # NoClass
  <2>1. cs \in Seq(Classes) /\ NoClass \notin Classes
    BY HierarchyAssumption
  <2> HIDE DEF cs
  <2> QED BY <2>1
<1>5. \A i \in stops : i \in publics <=> MethodAt(m, cs[i], s) = "public"
  OBVIOUS
<1>6. stops # {} => first \in stops /\ \A j \in stops : first <= j
  <2> HIDE DEF stops
  <2> QED BY <1>3, FirstOfSome
<1>7. CASE stops = {} \/ first \notin publics
  <2>1. ~\E i \in publics : \A j \in stops : i <= j
    <3> SUFFICES ASSUME NEW i \in publics, \A j \in stops : i <= j PROVE FALSE
      OBVIOUS
    <3> HIDE DEF stops, publics, first
    <3>1. i \in stops /\ first \in stops /\ first <= i /\ i <= first
      BY <1>3, <1>6
    <3>2. i = first
      BY <1>3, <3>1
    <3> QED BY <1>7, <3>1, <3>2
  <2>2. ~(k # NoClass /\ MethodAt(m, k, s) = "public")
    <3> HIDE DEF stops, publics, first, cs
    <3> QED BY <1>5, <1>6, <1>7
  <2> HIDE DEF stops, publics, k, hits, firstPublic
  <2> QED BY <1>1, <1>2, <2>1, <2>2
<1>8. CASE stops # {} /\ first \in publics
  <2>1. firstPublic = first
    <3> HIDE DEF stops, publics, hits, first
    <3>1. first \in hits /\ \A j \in hits : first <= j
      BY <1>3, <1>6, <1>8
    <3>2. firstPublic \in hits /\ \A j \in hits : firstPublic <= j
      BY <1>3, <1>8, FirstOfSome
    <3>3. first \in Nat /\ firstPublic \in Nat
      BY <1>3, <3>1, <3>2
    <3> HIDE DEF firstPublic
    <3> QED BY <3>1, <3>2, <3>3
  <2>2. k = cs[first] /\ k # NoClass /\ MethodAt(m, k, s) = "public" /\ hits # {}
    <3> HIDE DEF stops, publics, hits, first, cs
    <3> QED BY <1>3, <1>4, <1>5, <1>6, <1>8
  <2>3. \E i \in publics : \A j \in stops : i <= j
    <3> HIDE DEF stops, publics, first
    <3> QED BY <1>6, <1>8
  <2> HIDE DEF stops, publics, k, hits, first, firstPublic
  <2> QED BY <1>1, <1>2, <2>1, <2>2, <2>3
<1> QED BY <1>7, <1>8

LEMMA OrdinaryAccess ==
  ASSUME NEW m, NEW c, NEW s, OrdinaryLookup(m, c, s).understood
  PROVE  AccessIn(m, OrdinaryLookup(m, c, s).method) = "public"
<1> DEFINE k == First(Chain[c], LAMBDA j : MethodAt(m, j, s) \in {"public", "protected"})
<1>1. OrdinaryLookup(m, c, s) =
        IF k # NoClass /\ MethodAt(m, k, s) = "public" THEN Understood(m, k, s, Self)
        ELSE DNUSend(m, c, Self)
  BY DEF OrdinaryLookup
<1>2. ~DNUSend(m, c, Self).understood
  BY DEF DNUSend
<1> HIDE DEF k
<1>3. OrdinaryLookup(m, c, s) = Understood(m, k, s, Self) /\ MethodAt(m, k, s) = "public"
  BY <1>1, <1>2
<1> QED BY <1>3 DEF Understood, AccessIn, MethodAt

LEMMA ProtectedAccess ==
  ASSUME NEW m, NEW c, NEW s, NEW receiver, ProtectedLookup(m, c, s, receiver).understood
  PROVE  AccessIn(m, ProtectedLookup(m, c, s, receiver).method) \in {"public", "protected"}
<1> DEFINE k == First(Chain[c], LAMBDA j : MethodAt(m, j, s) \in {"public", "protected"})
<1>1. ProtectedLookup(m, c, s, receiver) =
        IF k # NoClass THEN Understood(m, k, s, receiver) ELSE DNUSend(m, c, receiver)
  BY DEF ProtectedLookup
<1>2. ~DNUSend(m, c, receiver).understood
  BY DEF DNUSend
<1>3. k # NoClass => MethodAt(m, k, s) \in {"public", "protected"}
  BY ExportedFirst DEF First
<1> HIDE DEF k
<1>4. /\ ProtectedLookup(m, c, s, receiver) = Understood(m, k, s, receiver)
      /\ MethodAt(m, k, s) \in {"public", "protected"}
  BY <1>1, <1>2, <1>3
<1> QED BY <1>4 DEF Understood, AccessIn, MethodAt

(* A private method is found only where the scope's own mixin defines it.     *)
LEMMA LexicalAccess ==
  ASSUME NEW m, NEW scope, NEW s, FindApplicationOf(scope.mixin, scope.class) # NoClass,
         LexicalLookup(m, scope, s).understood,
         AccessIn(m, LexicalLookup(m, scope, s).method) = "private"
  PROVE  LexicalLookup(m, scope, s).method[1] = scope.mixin
<1> DEFINE app == FindApplicationOf(scope.mixin, scope.class)
<1>1. LexicalLookup(m, scope, s) =
        IF MethodAt(m, app, s) = "private" THEN Understood(m, app, s, scope.object)
        ELSE ProtectedLookup(m, scope.class, s, scope.object)
  BY DEF LexicalLookup
<1>2. LexicalLookup(m, scope, s) # ProtectedLookup(m, scope.class, s, scope.object)
  BY ProtectedAccess
<1>3. LexicalLookup(m, scope, s) = Understood(m, app, s, scope.object)
  BY <1>1, <1>2
<1>4. MixinOf[app] = scope.mixin
  BY ApplicationOfMixin
<1> HIDE DEF app
<1> QED BY <1>3, <1>4 DEF Understood

LEMMA NSAccess ==
  ASSUME NEW m, NEW e, NEW c, NEW s, NEW mixin \in Mixins, NEW rule \in Rules(mixin),
         \A n \in 0..Nesting[mixin] :
           FindApplicationOf(Scope(e, c, mixin, n).mixin, Scope(e, c, mixin, n).class) # NoClass,
         NSLookup(m, e, rule, c, mixin, s).understood,
         AccessIn(m, NSLookup(m, e, rule, c, mixin, s).method) = "private"
  PROVE  /\ rule # kSuper
         /\ \E n \in 0..Nesting[mixin] :
              NSLookup(m, e, rule, c, mixin, s).method[1] = Scope(e, c, mixin, n).mixin
<1> DEFINE found == NSLookup(m, e, rule, c, mixin, s)
<1>0. Nesting[mixin] \in 0..255
  BY DispatchAssumption
<1>1. ASSUME NEW n \in 0..Nesting[mixin], found = LexicalLookup(m, Scope(e, c, mixin, n), s)
      PROVE  found.method[1] = Scope(e, c, mixin, n).mixin
  <2> HIDE DEF found
  <2>1. found.understood /\ AccessIn(m, found.method) = "private"
    BY DEF found
  <2> QED BY <1>1, <2>1, LexicalAccess
<1>2. \A d, receiver : found # ProtectedLookup(m, d, s, receiver)
  BY ProtectedAccess
<1>3. CASE rule = kSelf
  <2>1. found = LexicalLookup(m, Scope(e, c, mixin, 0), s) /\ 0 \in 0..Nesting[mixin]
    BY <1>0, <1>3 DEF NSLookup
  <2> QED BY <1>1, <1>3, <2>1 DEF kSelf, kSuper
<1>4. CASE rule = kSuper
  BY <1>2, <1>4 DEF NSLookup, SuperLookup, kSelf, kSuper
<1>5. CASE rule = kImplicitReceiver
  <2>1. found = ImplicitLookup(m, e, c, mixin, s) /\ rule # kSuper
    BY <1>5 DEF NSLookup, kSelf, kSuper, kImplicitReceiver
  <2> DEFINE defining == {n \in 0..Nesting[mixin] :
                            LET scope == Scope(e, c, mixin, n)
                            IN  HasMethod(m, FindApplicationOf(scope.mixin, scope.class), s)}
             first == CHOOSE n \in defining : \A k \in defining : n <= k
  <2>2. defining # {}
    BY <1>2, <2>1 DEF ImplicitLookup
  <2>3. found = LexicalLookup(m, Scope(e, c, mixin, first), s)
    BY <2>1, <2>2 DEF ImplicitLookup
  <2>4. first \in defining
    <3>1. defining \in SUBSET Nat
      BY <1>0
    <3> HIDE DEF defining
    <3> QED BY <2>2, <3>1, FirstOfSome
  <2>5. first \in 0..Nesting[mixin]
    BY <2>4
  <2> HIDE DEF first, found
  <2>6. found.method[1] = Scope(e, c, mixin, first).mixin
    BY <1>1, <2>3, <2>5
  <2> QED BY <2>1, <2>5, <2>6 DEF found
<1>6. CASE rule \in 1..Nesting[mixin]
  <2>1. found = LexicalLookup(m, Scope(e, c, mixin, rule), s) /\ rule # kSuper
    BY <1>0, <1>6 DEF NSLookup, kSelf, kSuper, kImplicitReceiver
  <2>2. rule \in 0..Nesting[mixin]
    BY <1>0, <1>6
  <2> QED BY <1>1, <2>1, <2>2
<1> QED BY <1>3, <1>4, <1>5, <1>6 DEF Rules

(* The scopes outward, and the mixins outward, by their recursive definitions. *)
LEMMA OutwardStep ==
  ASSUME NEW e, NEW c, NEW mixin \in Mixins, NEW n \in 1..Nesting[mixin]
  PROVE  Scope(e, c, mixin, n).mixin = EnclosingMixin[Scope(e, c, mixin, n - 1).mixin]
<1> DEFINE N == Nesting[mixin]
           Around(within) ==
             LET app == FindApplicationOf(within.mixin, within.class)
             IN  [object |-> EnclosingObject[app], class |-> e[app],
                  mixin |-> EnclosingMixin[within.mixin]]
           Within(f, k) == IF k = 1 THEN Receiver(c, mixin) ELSE f[k - 1]
           Scopes(f, k) == f = [j \in 1..k |-> Around(Within(f, j))]
           missing == {k \in 0..N : ~\E f : Scopes(f, k)}
<1>0. N \in Nat
  BY DispatchAssumption
<1>1. missing = {}
  <2> SUFFICES ASSUME missing # {} PROVE FALSE
    OBVIOUS
  <2>1. PICK k \in missing : \A j \in missing : k <= j
    <3>1. missing \in SUBSET Nat
      BY <1>0
    <3> HIDE DEF missing
    <3> QED BY <3>1, FirstOfSome
  <2>2. k \in 0..N
    BY <2>1
  <2>3. k # 0
    <3>1. Scopes([j \in 1..0 |-> 0], 0)
      OBVIOUS
    <3> QED BY <2>1, <3>1
  <2>4. k - 1 \in 0..N /\ k - 1 \notin missing
    <3>1. k - 1 \in 0..N /\ ~(k <= k - 1)
      BY <1>0, <2>2, <2>3
    <3> HIDE DEF missing
    <3> QED BY <2>1, <3>1
  <2>5. PICK f : Scopes(f, k - 1)
    BY <2>4
  <2> DEFINE g == [j \in 1..k |-> IF j = k THEN Around(Within(f, k)) ELSE f[j]]
  <2>6. \A j \in 1..k : Within(g, j) = Within(f, j)
    BY <1>0, <2>2
  <2>7. \A j \in 1..k : g[j] = Around(Within(f, j))
    <3> HIDE DEF Around, Within
    <3>1. \A j \in 1..(k - 1) : f[j] = Around(Within(f, j))
      BY <2>5
    <3> QED BY <1>0, <2>2, <3>1
  <2>8. Scopes(g, k)
    <3>1. \A j \in 1..k : Around(Within(g, j)) = g[j]
      <4> HIDE DEF Around, Within, g
      <4> QED BY <2>6, <2>7
    <3>2. g = [j \in 1..k |-> g[j]]
      OBVIOUS
    <3> HIDE DEF Around, Within, g
    <3> QED BY <3>1, <3>2
  <2> HIDE DEF g, Scopes
  <2> QED BY <2>1, <2>8
<1>2. Scopes(Outward(e, c, mixin), N)
  <2>1. PICK f : Scopes(f, N)
    <3>1. N \notin missing /\ N \in 0..N
      BY <1>0, <1>1
    <3> HIDE DEF Scopes
    <3> QED BY <3>1
  <2>2. Outward(e, c, mixin) = CHOOSE h : Scopes(h, N)
    BY DEF Outward
  <2> HIDE DEF Scopes
  <2> QED BY <2>1, <2>2
<1>3. Outward(e, c, mixin)[n] = Around(Within(Outward(e, c, mixin), n))
  <2> HIDE DEF Around, Within
  <2> QED BY <1>2
<1>4. Within(Outward(e, c, mixin), n) = Scope(e, c, mixin, n - 1)
  BY <1>0 DEF Scope
<1>5. Scope(e, c, mixin, n) = Outward(e, c, mixin)[n]
  BY <1>0 DEF Scope
<1> HIDE DEF Within
<1> QED BY <1>3, <1>4, <1>5

LEMMA EncloserSteps ==
  ASSUME NEW mixin \in Mixins
  PROVE  \E out : /\ Encloser(mixin) = {out[n] : n \in 0..Nesting[mixin]}
                  /\ out[0] = mixin
                  /\ \A n \in 1..Nesting[mixin] : out[n] = EnclosingMixin[out[n - 1]]
<1> DEFINE N == Nesting[mixin]
           Next1(f, k) == IF k = 0 THEN mixin ELSE EnclosingMixin[f[k - 1]]
           Mixes(f, k) == f = [j \in 0..k |-> Next1(f, j)]
           missing == {k \in 0..N : ~\E f : Mixes(f, k)}
<1>0. N \in Nat
  BY DispatchAssumption
<1>1. missing = {}
  <2> SUFFICES ASSUME missing # {} PROVE FALSE
    OBVIOUS
  <2>1. PICK k \in missing : \A j \in missing : k <= j
    <3>1. missing \in SUBSET Nat
      BY <1>0
    <3> HIDE DEF missing
    <3> QED BY <3>1, FirstOfSome
  <2>2. k \in 0..N
    BY <2>1
  <2>3. k # 0
    <3> DEFINE f == [j \in 0..0 |-> mixin]
    <3>1. Mixes(f, 0)
      OBVIOUS
    <3> QED BY <2>1, <3>1
  <2>4. k - 1 \in 0..N /\ k - 1 \notin missing
    <3>1. k - 1 \in 0..N /\ ~(k <= k - 1)
      BY <1>0, <2>2, <2>3
    <3> HIDE DEF missing
    <3> QED BY <2>1, <3>1
  <2>5. PICK f : Mixes(f, k - 1)
    BY <2>4
  <2> DEFINE g == [j \in 0..k |-> IF j = k THEN Next1(f, k) ELSE f[j]]
  <2>6. \A j \in 0..k : Next1(g, j) = Next1(f, j)
    BY <1>0, <2>2
  <2>7. \A j \in 0..k : g[j] = Next1(f, j)
    <3> HIDE DEF Next1
    <3>1. \A j \in 0..(k - 1) : f[j] = Next1(f, j)
      BY <2>5
    <3> QED BY <1>0, <2>2, <3>1
  <2>8. Mixes(g, k)
    <3>1. \A j \in 0..k : Next1(g, j) = g[j]
      <4> HIDE DEF Next1, g
      <4> QED BY <2>6, <2>7
    <3>2. g = [j \in 0..k |-> g[j]]
      OBVIOUS
    <3> HIDE DEF Next1, g
    <3> QED BY <3>1, <3>2
  <2> HIDE DEF g, Mixes
  <2> QED BY <2>1, <2>8
<1> DEFINE out == CHOOSE f : Mixes(f, N)
<1>2. Mixes(out, N)
  <2>1. PICK f : Mixes(f, N)
    <3>1. N \notin missing /\ N \in 0..N
      BY <1>0, <1>1
    <3> HIDE DEF Mixes
    <3> QED BY <3>1
  <2> HIDE DEF Mixes
  <2> QED BY <2>1
<1>3. Encloser(mixin) = {out[n] : n \in 0..N}
  BY DEF Encloser
<1> HIDE DEF out
<1>4. out[0] = mixin /\ \A n \in 1..N : out[n] = EnclosingMixin[out[n - 1]]
  BY <1>0, <1>2
<1> QED BY <1>3, <1>4

LEMMA ScopesEnclose ==
  ASSUME NEW e, NEW c, NEW mixin \in Mixins, NEW n \in 0..Nesting[mixin]
  PROVE  Scope(e, c, mixin, n).mixin \in Encloser(mixin)
<1> DEFINE N == Nesting[mixin]
<1>0. N \in Nat
  BY DispatchAssumption
<1>1. PICK out : /\ Encloser(mixin) = {out[k] : k \in 0..N}
                 /\ out[0] = mixin
                 /\ \A k \in 1..N : out[k] = EnclosingMixin[out[k - 1]]
  BY EncloserSteps
<1> DEFINE others == {k \in 0..N : Scope(e, c, mixin, k).mixin # out[k]}
<1>2. others = {}
  <2> SUFFICES ASSUME others # {} PROVE FALSE
    OBVIOUS
  <2>1. PICK k \in others : \A j \in others : k <= j
    <3>1. others \in SUBSET Nat
      BY <1>0
    <3> HIDE DEF others
    <3> QED BY <3>1, FirstOfSome
  <2>2. k \in 0..N /\ Scope(e, c, mixin, k).mixin # out[k]
    BY <2>1
  <2>3. Scope(e, c, mixin, 0).mixin = mixin
    BY DEF Scope, Receiver
  <2>4. k \in 1..N /\ k - 1 \in 0..N /\ ~(k <= k - 1)
    BY <1>0, <1>1, <2>2, <2>3
  <2>5. Scope(e, c, mixin, k - 1).mixin = out[k - 1]
    BY <2>1, <2>4
  <2> QED BY <1>1, <2>2, <2>4, <2>5, OutwardStep
<1> QED BY <1>1, <1>2

-----------------------------------------------------------------------------
LEMMA InitIInv == DispatchInit => IInv
<1> SUFFICES ASSUME DispatchInit PROVE IInv
  OBVIOUS
<1> USE DispatchAssumption DEF DispatchInit
<1>1. Types
  BY DEF Types
<1>2. Identified
  BY DEF Identified
<1>3. Shaped
  BY DEF Shaped, OrdinaryEntry, NSEntry
<1>4. Sound
  BY DEF Sound
<1> QED BY <1>1, <1>2, <1>3, <1>4 DEF IInv

(* Clear leaves records, none of them in use. *)
LEMMA ClearForgets ==
  ASSUME Shaped, Clear
  PROVE  Shaped' /\ Sound'
<1>1. \A p \in Slots : /\ ordinary'[p] = [ordinary[p] EXCEPT !.cid = kIllegalCid]
                         /\ ns'[p] = [ns[p] EXCEPT !.cid = kIllegalCid]
  BY DEF Clear
<1>2. \A p \in Slots : /\ ordinary'[p].cid = kIllegalCid /\ OrdinaryEntry(ordinary'[p])
                         /\ ns'[p].cid = kIllegalCid /\ NSEntry(ns'[p])
  <2> SUFFICES ASSUME NEW p \in Slots
               PROVE  /\ ordinary'[p].cid = kIllegalCid /\ OrdinaryEntry(ordinary'[p])
                      /\ ns'[p].cid = kIllegalCid /\ NSEntry(ns'[p])
    OBVIOUS
  <2>1. OrdinaryEntry(ordinary[p]) /\ NSEntry(ns[p])
    BY DEF Shaped
  <2>2. ordinary'[p] = [cid |-> kIllegalCid, selector |-> ordinary[p].selector,
                        target |-> ordinary[p].target]
    BY <1>1, <2>1 DEF OrdinaryEntry
  <2>3. ns'[p] = [cid |-> kIllegalCid, rule |-> ns[p].rule, selector |-> ns[p].selector,
                  caller |-> ns[p].caller, receiver |-> ns[p].receiver, target |-> ns[p].target]
    BY <1>1, <2>1 DEF NSEntry
  <2> QED BY <2>2, <2>3 DEF OrdinaryEntry, NSEntry
<1> QED BY <1>2 DEF Shaped, Sound

(* Inserting what a lookup found keeps every entry sound. *)
LEMMA InsertOrdinarySound ==
  ASSUME IInv, NEW r \in Objects, NEW s \in Selectors, OrdinarySendMiss(r, s)
  PROVE  IInv'
<1> DEFINE cid == id[classOf[r]]
           found == OrdinaryLookup(methods, classOf[r], s)
           entry == [cid |-> cid, selector |-> place[s], target |-> found.method]
<1>1. found.understood /\ UNCHANGED <<methods, classOf, id, place, ns>>
  BY DEF OrdinarySendMiss, Sent
<1>2. classOf[r] \in Classes
  BY DEF IInv, Types
<1>3. \A p \in Slots : ordinary'[p] = entry \/ ordinary'[p] = ordinary[p]
  BY DEF OrdinarySendMiss, InsertOrdinary
<1>4. OrdinaryEntry(entry) /\ OrdinarySound(entry)
  BY <1>1, <1>2 DEF OrdinaryEntry, OrdinarySound
<1> HIDE DEF entry
<1>5. Types' /\ Identified'
  BY <1>1 DEF IInv, Types, Identified
<1>6. Shaped'
  BY <1>1, <1>3, <1>4 DEF IInv, Shaped
<1>7. EnclosingClass' = EnclosingClass
  BY <1>1 DEF EnclosingClass
<1>8. \A x : OrdinarySound(x)' <=> OrdinarySound(x)
  BY <1>1 DEF OrdinarySound
<1>9. \A x : NSSound(x)' <=> NSSound(x)
  BY <1>1, <1>7 DEF NSSound, Found
<1>10. Sound'
  BY <1>1, <1>3, <1>4, <1>8, <1>9 DEF IInv, Sound
<1> QED BY <1>5, <1>6, <1>10 DEF IInv

(* The receiver r is none of the objects around it, so that the comparison     *)
(* with r tells whether the lookup was made for the receiver.                   *)
LEMMA RememberedByComparison ==
  ASSUME IInv, NEW rule, NEW r \in Objects, NEW caller \in Callers, NEW s \in Selectors,
         Runs(r, caller, rule)
  PROVE  LET found == Found(rule, classOf[r], caller, s)
             receiver == IF found.receiver = Self THEN r ELSE found.receiver
         IN  /\ (IF receiver = r THEN NullReceiver ELSE receiver) = Remembered(found)
             /\ found.receiver = Self \/ found.receiver \in Objects \ {r}
             /\ Shape(found, found.receiver)
             /\ rule \in {kSelf, kSuper} => found.receiver = Self
             /\ rule \notin {kSelf, kSuper, kImplicitReceiver} => found.receiver # Self
<1> DEFINE mixin == CallerMixin[caller]
           c == classOf[r]
           found == Found(rule, c, caller, s)
<1>1. mixin \in Mixins /\ rule \in Rules(mixin)
  BY DispatchAssumption DEF Runs, HasRule
<1>2. \A n \in 1..Nesting[mixin] : Scope(EnclosingClass, c, mixin, n).object \in Objects \ {r}
  BY DEF Runs, InScope, PushEnclosingObject
<1>3. Scope(EnclosingClass, c, mixin, 0).object = Self
  BY DEF Scope, Receiver
<1>4. PICK n \in 0..Nesting[mixin] :
        /\ Shape(found, Scope(EnclosingClass, c, mixin, n).object)
        /\ rule \in {kSelf, kSuper} => n = 0
        /\ rule \notin {kSelf, kSuper, kImplicitReceiver} => n # 0
  BY <1>1, NSShape DEF Found
<1> HIDE DEF found
<1>5. found.receiver = Scope(EnclosingClass, c, mixin, n).object
  BY <1>4 DEF Shape
<1>6. n \in 1..Nesting[mixin] \/ n = 0
  BY <1>1, DispatchAssumption
<1>7. n # 0 => found.receiver \in Objects \ {r}
  BY <1>2, <1>5, <1>6
<1>8. n = 0 => found.receiver = Self
  BY <1>3, <1>5
<1>9. Self # r /\ Self \notin Objects
  BY DispatchAssumption
<1>10. Shape(found, found.receiver)
  BY <1>4, <1>5
<1>11. found.receiver = Self \/ found.receiver \in Objects \ {r}
  BY <1>7, <1>8
<1> QED BY <1>4, <1>7, <1>8, <1>9, <1>10, <1>11 DEF Remembered, found

LEMMA InsertNSSound ==
  ASSUME IInv, NEW r \in Objects, NEW s \in Selectors, NEW caller \in Callers,
         NEW rule \in Rules(CallerMixin[caller]), NSSendMiss(rule, r, caller, s)
  PROVE  IInv'
<1> DEFINE c == classOf[r]
           found == Found(rule, c, caller, s)
           entry == [cid |-> id[c], rule |-> rule, selector |-> place[s], caller |-> place[caller],
                     receiver |-> Remembered(found), target |-> found.method]
<1>1. found.understood /\ UNCHANGED <<methods, classOf, id, place, ordinary>>
  BY DEF NSSendMiss, Sent, Found
<1>2. c \in Classes
  BY DEF IInv, Types
<1>3. \A p \in Slots : ns'[p] = entry \/ ns'[p] = ns[p]
  <2>1. Runs(r, caller, rule)
    BY DEF NSSendMiss
  <2>2. LET receiver == IF found.receiver = Self THEN r ELSE found.receiver
        IN  InsertNS(id[c], s, caller, rule,
                     IF receiver = r THEN NullReceiver ELSE receiver, found.method)
    BY DEF NSSendMiss, Found
  <2>3. InsertNS(id[c], s, caller, rule, Remembered(found), found.method)
    BY <2>1, <2>2, RememberedByComparison
  <2> QED BY <2>3 DEF InsertNS
<1>4. NSEntry(entry) /\ NSSound(entry)
  BY <1>1, <1>2 DEF NSEntry, NSSound
<1> HIDE DEF entry
<1>5. Types' /\ Identified'
  BY <1>1 DEF IInv, Types, Identified
<1>6. Shaped'
  BY <1>1, <1>3, <1>4 DEF IInv, Shaped
<1>7. EnclosingClass' = EnclosingClass
  BY <1>1 DEF EnclosingClass
<1>8. \A x : OrdinarySound(x)' <=> OrdinarySound(x)
  BY <1>1 DEF OrdinarySound
<1>9. \A x : NSSound(x)' <=> NSSound(x)
  BY <1>1, <1>7 DEF NSSound, Found
<1>10. Sound'
  BY <1>1, <1>3, <1>4, <1>8, <1>9 DEF IInv, Sound
<1> QED BY <1>5, <1>6, <1>10 DEF IInv

LEMMA InstallSound ==
  ASSUME IInv, NEW table \in MethodTables, Install(table)
  PROVE  IInv'
<1>1. UNCHANGED <<classOf, id, place>> /\ Clear
  BY DEF Install
<1>2. Types' /\ Identified'
  BY <1>1 DEF IInv, Types, Identified
<1> QED BY <1>1, <1>2, ClearForgets DEF IInv

LEMMA CollectSound ==
  ASSUME IInv, NEW dead \in SUBSET Classes, NEW placement \in Placements, CollectAndClear(dead, placement)
  PROVE  IInv'
<1>1. UNCHANGED classOf /\ Clear /\ place' = placement
  BY DEF CollectAndClear
<1>2. id' = [c \in Classes |-> IF c \in dead THEN NoId ELSE id[c]]
  BY DEF CollectAndClear
<1>3. Types'
  BY <1>1, <1>2 DEF IInv, Types
<1>4. \A o \in Objects : classOf[o] \in Classes /\ classOf[o] \notin dead
  BY DEF IInv, Types, CollectAndClear
<1>5. Identified'
  BY <1>1, <1>2, <1>4 DEF IInv, Identified
<1> QED BY <1>1, <1>3, <1>5, ClearForgets DEF IInv

(* An adopted object encloses no class, and its new class keeps its id. *)
LEMMA AdoptSound ==
  ASSUME IInv, NEW c \in Classes, NEW o \in Objects, NEW newId \in ClassIds,
         AdoptInstance(c, o, newId)
  PROVE  IInv'
<1> USE DispatchAssumption
<1>1. /\ UNCHANGED <<methods, place, ordinary, ns>>
      /\ id' = [id EXCEPT ![c] = newId] /\ classOf' = [classOf EXCEPT ![o] = c]
      /\ IF id[c] # NoId THEN newId = id[c] ELSE \A d \in Classes : id[d] # newId
      /\ \A d \in Classes : EnclosingObject[d] # o
  BY DEF AdoptInstance, Encloses
<1>2. /\ classOf \in [Objects -> Classes] /\ id \in [Classes -> ClassIds \cup {NoId}]
      /\ Identified
  BY DEF IInv, Types
<1>3. Types'
  BY <1>1 DEF IInv, Types
<1>4. newId # NoId
  OBVIOUS
<1>5. Identified'
  BY <1>1, <1>2, <1>4 DEF Identified
<1>6. EnclosingClass' = EnclosingClass
  <2>1. \A d \in Classes : EnclosingObject[d] # NoObject => classOf'[EnclosingObject[d]] = classOf[EnclosingObject[d]]
    BY <1>1, <1>2
  <2> QED BY <2>1 DEF EnclosingClass
<1>7. \A d \in Classes : id[d] # NoId => id'[d] = id[d]
  BY <1>1, <1>2
<1>8. ASSUME NEW x, x.cid # kIllegalCid, OrdinarySound(x) PROVE OrdinarySound(x)'
  BY <1>1, <1>7, <1>8 DEF OrdinarySound, kIllegalCid, NoId
<1>9. ASSUME NEW x, x.cid # kIllegalCid, NSSound(x) PROVE NSSound(x)'
  BY <1>1, <1>6, <1>7, <1>9 DEF NSSound, Found, kIllegalCid, NoId
<1>10. Shaped' /\ Sound'
  BY <1>1, <1>8, <1>9 DEF IInv, Shaped, Sound
<1> QED BY <1>3, <1>5, <1>10 DEF IInv

LEMMA NextIInv == IInv /\ [DispatchNext]_dispatchVars => IInv'
<1> SUFFICES ASSUME IInv, [DispatchNext]_dispatchVars PROVE IInv'
  OBVIOUS
<1>1. ASSUME NEW r \in Objects, NEW s \in Selectors, OrdinarySendMiss(r, s) PROVE IInv'
  BY <1>1, InsertOrdinarySound
<1>2. ASSUME NEW r \in Objects, NEW s \in Selectors, NEW caller \in Callers,
             NEW rule \in Rules(CallerMixin[caller]), NSSendMiss(rule, r, caller, s)
      PROVE  IInv'
  BY <1>2, InsertNSSound
<1>3. ASSUME NEW table \in MethodTables, Install(table) PROVE IInv'
  BY <1>3, InstallSound
<1>4. ASSUME NEW dead \in SUBSET Classes, NEW placement \in Placements, CollectAndClear(dead, placement)
      PROVE  IInv'
  BY <1>4, CollectSound
<1>5. ASSUME NEW c \in Classes, NEW o \in Objects, NEW newId \in ClassIds, AdoptInstance(c, o, newId)
      PROVE  IInv'
  BY <1>5, AdoptSound
<1>6. CASE UNCHANGED dispatchVars
  <2>1. UNCHANGED <<methods, classOf, id, place, ordinary, ns>>
    BY <1>6 DEF dispatchVars
  <2>2. EnclosingClass' = EnclosingClass
    BY <2>1 DEF EnclosingClass
  <2> QED BY <2>1, <2>2 DEF IInv, Types, Identified, Shaped, Sound, OrdinarySound, NSSound, Found
<1> QED BY <1>1, <1>2, <1>3, <1>4, <1>5, <1>6 DEF DispatchNext

-----------------------------------------------------------------------------
(* A hit found an entry in use, with this key. *)
LEMMA OrdinaryHit ==
  ASSUME IInv, NEW r \in Objects, NEW s \in Selectors,
         LookupOrdinary(id[classOf[r]], s) # NoMethod
  PROVE  OrdinarySend(r, s) = OrdinaryLookup(methods, classOf[r], s)
<1> DEFINE cid == id[classOf[r]]
           target == LookupOrdinary(cid, s)
           c == classOf[r]
<1>1. c \in Classes /\ cid \in ClassIds /\ place \in Placements
  BY DEF IInv, Types, Identified
<1>2. PICK p \in Slots : /\ ordinary[p].cid = cid /\ ordinary[p].selector = place[s]
                           /\ target = ordinary[p].target
  <2> DEFINE probes == OrdinaryProbes(cid, place[s])
  <2>1. probes[1] \in Slots /\ probes[2] \in Slots
    BY <1>1, DispatchAssumption
  <2> HIDE DEF probes
  <2> QED BY <2>1 DEF LookupOrdinary, ProbeSlots, probes
<1>3. OrdinarySound(ordinary[p])
  BY <1>1, <1>2, DispatchAssumption DEF IInv, Sound, kIllegalCid, NoId
<1>4. PICK d \in Classes, t \in Selectors :
        /\ cid = id[d] /\ place[s] = place[t]
        /\ OrdinaryLookup(methods, d, t).understood
        /\ target = OrdinaryLookup(methods, d, t).method
  BY <1>2, <1>3 DEF OrdinarySound
<1>5. d = c
  BY <1>1, <1>4, DispatchAssumption DEF IInv, Identified
<1>6. t = s
  BY <1>1, <1>4, DispatchAssumption
<1> QED BY <1>4, <1>5, <1>6, OrdinaryShape DEF OrdinarySend, Shape

LEMMA NSHit ==
  ASSUME IInv, NEW r \in Objects, NEW s \in Selectors, NEW caller \in Callers,
         NEW rule \in Rules(CallerMixin[caller]),
         LookupNS(id[classOf[r]], s, caller, rule).target # NoMethod, Runs(r, caller, rule)
  PROVE  NSSend(rule, r, caller, s) =
           Resolve(r, NSLookup(methods, EnclosingClass, rule, classOf[r], CallerMixin[caller], s))
<1> DEFINE c == classOf[r]
           cid == id[c]
           entry == LookupNS(cid, s, caller, rule)
           found == Found(rule, c, caller, s)
<1>1. c \in Classes /\ cid \in ClassIds /\ place \in Placements
  BY DEF IInv, Types, Identified
<1>2. PICK p \in Slots : /\ ns[p].cid = cid /\ ns[p].rule = rule
                           /\ ns[p].selector = place[s] /\ ns[p].caller = place[caller]
                           /\ entry = ns[p]
  <2> DEFINE probes == NSProbes(cid, place[s], place[caller])
  <2>1. probes[1] \in Slots /\ probes[2] \in Slots
    BY <1>1, DispatchAssumption
  <2>2. [target |-> NoMethod].target = NoMethod
    OBVIOUS
  <2> HIDE DEF probes
  <2> QED BY <2>1, <2>2 DEF LookupNS, ProbeSlots, probes
<1>3. NSSound(ns[p])
  BY <1>1, <1>2, DispatchAssumption DEF IInv, Sound, kIllegalCid, NoId
<1>4. PICK d \in Classes, t \in Selectors, b \in Callers : \E q \in Rules(CallerMixin[b]) :
        /\ ns[p].cid = id[d] /\ ns[p].selector = place[t]
        /\ ns[p].caller = place[b] /\ ns[p].rule = q
        /\ Found(q, d, b, t).understood
        /\ ns[p].target = Found(q, d, b, t).method
        /\ ns[p].receiver = Remembered(Found(q, d, b, t))
  BY <1>3 DEF NSSound
<1>5. PICK q \in Rules(CallerMixin[b]) :
        /\ ns[p].cid = id[d] /\ ns[p].selector = place[t]
        /\ ns[p].caller = place[b] /\ ns[p].rule = q
        /\ Found(q, d, b, t).understood
        /\ ns[p].target = Found(q, d, b, t).method
        /\ ns[p].receiver = Remembered(Found(q, d, b, t))
  BY <1>4
<1>6. d = c
  <2>1. id[c] = id[d] /\ id[c] # NoId
    BY <1>1, <1>2, <1>5, DispatchAssumption
  <2>2. Identified
    BY DEF IInv
  <2> QED BY <1>1, <2>1, <2>2 DEF Identified
<1>7. t = s /\ b = caller
  <2>1. place[s] = place[t] /\ place[caller] = place[b]
    BY <1>2, <1>5
  <2> QED BY <1>1, <2>1, DispatchAssumption
<1>8. /\ found.understood
      /\ entry.target = found.method
      /\ entry.receiver = Remembered(found)
  BY <1>2, <1>5, <1>6, <1>7
<1>9. /\ found.receiver = Self \/ found.receiver \in Objects \ {r}
      /\ Shape(found, found.receiver)
      /\ rule \in {kSelf, kSuper} => found.receiver = Self
      /\ rule \notin {kSelf, kSuper, kImplicitReceiver} => found.receiver # Self
  BY RememberedByComparison
<1> HIDE DEF entry, found
<1>10. NSSendHit(rule, r, entry).receiver = IF found.receiver = Self THEN r ELSE found.receiver
  <2>1. CASE rule \in {kSelf, kSuper}
    BY <1>9, <2>1 DEF NSSendHit
  <2>2. CASE rule = kImplicitReceiver
    BY <1>8, <1>9, <2>2, DispatchAssumption DEF NSSendHit, Remembered, kSelf, kSuper, kImplicitReceiver
  <2>3. CASE rule \notin {kSelf, kSuper, kImplicitReceiver}
    BY <1>8, <1>9, <2>3 DEF NSSendHit, Remembered
  <2> QED BY <2>1, <2>2, <2>3
<1>11. found.understood = TRUE
  BY <1>8, <1>9 DEF Shape
<1>12. NSSendHit(rule, r, entry) = [found EXCEPT !.receiver = IF @ = Self THEN r ELSE @]
  <2> DEFINE receiver == IF found.receiver = Self THEN r ELSE found.receiver
  <2>1. NSSendHit(rule, r, entry) = [method |-> found.method, receiver |-> receiver, understood |-> TRUE]
    BY <1>8, <1>10 DEF NSSendHit
  <2> HIDE DEF receiver
  <2>2. [found EXCEPT !.receiver = receiver]
          = [method |-> found.method, receiver |-> receiver, understood |-> TRUE]
    <3>1. PICK x, y, z : found = [method |-> x, receiver |-> y, understood |-> z]
      BY <1>9 DEF Shape
    <3>2. [[method |-> x, receiver |-> y, understood |-> z] EXCEPT !.receiver = receiver]
            = [method |-> x, receiver |-> receiver, understood |-> z]
      OBVIOUS
    <3>3. found.method = x /\ found.understood = z
      BY <3>1
    <3> QED BY <1>11, <3>1, <3>2, <3>3
  <2> QED BY <2>1, <2>2 DEF receiver
<1>13. NSSend(rule, r, caller, s) = NSSendHit(rule, r, entry)
  BY DEF NSSend, entry
<1> QED BY <1>12, <1>13 DEF Resolve, found, Found

LEMMA IInvCacheTrue == IInv => CacheTrue
BY OrdinaryHit, NSHit DEF CacheTrue, OrdinaryTrue, NSTrue

(* Types, ids and entries: class ids are never shared by two classes, every    *)
(* object's class has one, and every entry in use is one that its own lookup    *)
(* would make again (AllocateClassId, GCEpilogue, InsertOrdinary, InsertNS).     *)
THEOREM EntriesStaySound == DispatchSpec => []IInv
<1> QED BY InitIInv, NextIInv, PTL DEF DispatchSpec

(* The cache never changes what a send does: for any hierarchy, any program,    *)
(* any hash and any number of entries, collections, installations and adopted   *)
(* instances (LookupOrdinary and LookupNS against the misses).                   *)
THEOREM CacheIsTransparent == DispatchSpec => []CacheTrue
<1>1. IInv => CacheTrue
  BY IInvCacheTrue
<1> QED BY <1>1, EntriesStaySound, PTL

(* What an ordinary send does, with or without the cache.                     *)
LEMMA OrdinarySendHonours ==
  ASSUME IInv, NEW r \in Objects, NEW s \in Selectors
  PROVE  /\ OrdinarySend(r, s) = Perform(methods, classOf[r], s)
         /\ OrdinarySend(r, s).understood => AccessOf(OrdinarySend(r, s).method) = "public"
<1>1. classOf[r] \in Classes
  BY DEF IInv, Types
<1>2. OrdinarySend(r, s) = OrdinaryLookup(methods, classOf[r], s)
  <2>1. CASE LookupOrdinary(id[classOf[r]], s) # NoMethod
    BY <2>1, OrdinaryHit
  <2>2. CASE LookupOrdinary(id[classOf[r]], s) = NoMethod
    BY <2>2 DEF OrdinarySend
  <2> QED BY <2>1, <2>2
<1> QED BY <1>1, <1>2, PerformIsOrdinary, OrdinaryAccess DEF AccessOf, AccessIn

(* What every other send does.                                                *)
LEMMA NSSendHonours ==
  ASSUME IInv, NEW r \in Objects, NEW s \in Selectors, NEW caller \in Callers,
         NEW rule \in Rules(CallerMixin[caller]), Runs(r, caller, rule),
         NSSend(rule, r, caller, s).understood,
         AccessOf(NSSend(rule, r, caller, s).method) = "private"
  PROVE  /\ rule # kSuper
         /\ NSSend(rule, r, caller, s).method[1] \in Encloser(CallerMixin[caller])
<1> DEFINE mixin == CallerMixin[caller]
           c == classOf[r]
           found == NSLookup(methods, EnclosingClass, rule, c, mixin, s)
           sent == NSSend(rule, r, caller, s)
<1>1. sent = Resolve(r, found)
  <2>1. CASE LookupNS(id[classOf[r]], s, caller, rule).target # NoMethod
    BY <2>1, NSHit
  <2>2. CASE LookupNS(id[classOf[r]], s, caller, rule).target = NoMethod
    BY <2>2 DEF NSSend
  <2> QED BY <2>1, <2>2
<1>2. mixin \in Mixins
  BY DispatchAssumption
<1>3. sent.understood = found.understood /\ sent.method = found.method
  <2>1. Shape(found, found.receiver)
    BY RememberedByComparison DEF Found
  <2> HIDE DEF found, sent
  <2>2. PICK x, y, z : found = [method |-> x, receiver |-> y, understood |-> z]
    BY <2>1 DEF Shape
  <2>3. sent = [method |-> x, receiver |-> IF y = Self THEN r ELSE y, understood |-> z]
    BY <1>1, <2>2 DEF Resolve
  <2> QED BY <2>2, <2>3
<1>4. found.understood /\ AccessIn(methods, found.method) = "private"
  <2> HIDE DEF found
  <2> QED BY <1>3 DEF AccessOf, AccessIn
<1>5. \A n \in 0..Nesting[mixin] :
        FindApplicationOf(Scope(EnclosingClass, c, mixin, n).mixin,
                          Scope(EnclosingClass, c, mixin, n).class) # NoClass
  BY DEF Runs, InScope
<1>6. rule # kSuper /\ \E n \in 0..Nesting[mixin] :
        found.method[1] = Scope(EnclosingClass, c, mixin, n).mixin
  BY <1>2, <1>4, <1>5, NSAccess
<1> HIDE DEF found, sent
<1> QED BY <1>2, <1>3, <1>6, ScopesEnclose DEF sent

(* Whatever the program and the hierarchy, and with the cache in use: code     *)
(* outside reaches public methods only, mirrors reach the same, and a private  *)
(* method is reached only from code inside its class declaration, never by     *)
(* super (OrdinarySendMiss, Perform, LexicalSend, ProtectedSend).              *)
THEOREM AccessIsHonoured == DispatchSpec => []AccessHonoured
<1>1. IInv => AccessHonoured
  BY OrdinarySendHonours, NSSendHonours DEF AccessHonoured, Runs
<1> QED BY <1>1, EntriesStaySound, PTL
=============================================================================
