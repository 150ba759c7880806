SPECIFICATION TablesSpec
CONSTANTS
  l1 = l1  l2 = l2
  Port <- Colliding
  Loop = {l1, l2}
  InitialCapacity = 4
  None = None
  LastId = 10
  LastString = 5
  Strings <- SomeStrings
  Contents <- ContentOf
  HashValue <- HashOf
  SnapshotSymbols <- Snapshots
  nil = nil
  Unused = Unused
  Base = Base  Outer = Outer  Inner = Inner  OtherInner = OtherInner  SubInner = SubInner
  MBase = MBase  MOuter = MOuter  MInner = MInner  MSub = MSub
  outer = outer  otherOuter = otherOuter  inner = inner  otherInner = otherInner
  foo = foo  doesNotUnderstand = doesNotUnderstand  inOuter = inOuter  inInner = inInner  inSub = inSub
  Classes = {Base, Outer, Inner, OtherInner, SubInner}
  Mixins = {MBase, MOuter, MInner, MSub}
  Superclass <- MCSuperclass  MixinOf <- MCMixinOf
  Selectors = {foo, doesNotUnderstand}
  Objects = {outer, otherOuter, inner, otherInner}
  Callers = {inOuter, inInner, inSub}
  EnclosingObject <- MCEnclosingObject  EnclosingMixin <- MCEnclosingMixin
  CallerMixin <- MCCallerMixin
  MethodTables <- MCMethodTables
  InitialClass <- MCInitialClass  InitialIds <- MCInitialIds
  Placements <- MCPlacements
  ClassIds = {1, 2, 3}
  Slots = {0, 1}
  OrdinaryProbes <- MCOrdinaryProbes  NSProbes <- MCNSProbes
  MaxSends = 1
  MaxChanges = 3
SYMMETRY Symmetry
INVARIANTS
  ProbesStop FindsLiveHandles SymbolsSound CacheTrue AccessHonoured
PROPERTIES
  PortMapBehaves
CHECK_DEADLOCK FALSE
