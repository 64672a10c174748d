SPECIFICATION Spec
CONSTANTS
  w1 = w1
  w2 = w2
  v1 = v1
  v2 = v2
  v3 = v3
  n1 = n1
  n2 = n2
  GC = GC
  Null = Null
  Workers <- TwoWorkers
  Values <- ThreeValues
  Natives <- TwoNatives
  PageSize = 2
  MaxIndex = 3
  Hazards <- SpuriousOnly
SYMMETRY Symmetry
INVARIANTS
  TypeOK
  CountsExact
  IndexPartition
  BindSucceeds
PROPERTIES
  ReapsPinged
  ImplementsTable
