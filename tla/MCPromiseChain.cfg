SPECIFICATION ChainFairSpec
CONSTANTS
  c1 = c1
  c2 = c2
  c3 = c3
  Nobody = Nobody
  Callers <- ThreeCallers
  Contents <- Counter
  Initial = 0
  Ops <- AddOrReset
  Effects <- CounterEffects
  MaxCalls = 4
INVARIANTS
  FirstComeFirstServed
PROPERTIES
  ImplementsSerialFile
  EveryOperationEnds
