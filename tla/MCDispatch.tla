----------------------------- MODULE MCDispatch -----------------------------
(* The mixin of Inner is nested in that of Outer and applied for two instances  *)
(* of Outer; one application has a subclass, which has no instance at first.    *)
EXTENDS Dispatch, TLC

CONSTANTS Base, Outer, Inner, OtherInner, SubInner, MBase, MOuter, MInner, MSub,
          outer, otherOuter, inner, otherInner, foo, inOuter, inInner, inSub

MCSuperclass == Base :> NoClass @@ Outer :> Base @@ Inner :> Base @@ OtherInner :> Base
             @@ SubInner :> Inner
MCMixinOf == Base :> MBase @@ Outer :> MOuter @@ Inner :> MInner @@ OtherInner :> MInner
          @@ SubInner :> MSub
MCEnclosingObject == Base :> NoObject @@ Outer :> NoObject @@ Inner :> outer @@ OtherInner :> otherOuter
                  @@ SubInner :> outer
MCEnclosingMixin == MBase :> NoMixin @@ MOuter :> NoMixin @@ MInner :> MOuter @@ MSub :> MOuter
MCCallerMixin == inOuter :> MOuter @@ inInner :> MInner @@ inSub :> MSub
MCInitialClass == outer :> Outer @@ otherOuter :> Outer @@ inner :> Inner @@ otherInner :> OtherInner
MCInitialIds == Base :> 0 @@ Outer :> 1 @@ Inner :> 2 @@ OtherInner :> 3 @@ SubInner :> 0

(* foo varies where it matters *)
Defines(table) == [mixin \in {MBase, MOuter, MInner, MSub} |->
  (foo :> table[mixin] @@ doesNotUnderstand :> IF mixin \in {MBase, MOuter} THEN "protected" ELSE "none")]
MCMethodTables ==
  {Defines(MBase :> b @@ MOuter :> (IF b = "none" THEN "private" ELSE "protected")
           @@ MInner :> i @@ MSub :> (IF i = "none" THEN "public" ELSE "none")) :
     b \in {"none", "public"}, i \in {"none", "private"}}

(* two slots, and the hashes of lookup_cache.h cut down to two bits *)
Bit(n, k) == (n \div k) % 2
Probes(a, b, c) == <<(Bit(a, 1) + Bit(b, 1) + Bit(c, 1)) % 2, (Bit(a, 2) + Bit(b, 2) + Bit(c, 2)) % 2>>
MCOrdinaryProbes(cid, selector) == Probes(cid, selector, 0)
MCNSProbes(cid, selector, caller) == Probes(cid, selector, caller)
MCPlacements ==
  {foo :> 1 @@ doesNotUnderstand :> 2 @@ inOuter :> 3 @@ inInner :> 4 @@ inSub :> 5,
   foo :> 2 @@ doesNotUnderstand :> 1 @@ inOuter :> 4 @@ inInner :> 3 @@ inSub :> 6}
=============================================================================
