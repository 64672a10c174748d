SPECIFICATION FairSpec
CONSTANTS
  w1 = w1
  w2 = w2
  v1 = v1
  v2 = v2
  v3 = v3
  n1 = n1
  n2 = n2
  GC = GC
  Null = Null
  Workers <- OneWorker
  Values <- TwoValues
  Natives <- OneNative
  PageSize = 1
  MaxIndex = 2
  Hazards <- OverlapReuse
PROPERTIES
  DtorCompletes
  DeadReaped
