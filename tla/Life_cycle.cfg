SPECIFICATION FairSpec
CONSTANTS
    t1 = t1  t2 = t2
    s1 = s1  s2 = s2
    Main = Main
    Collector = Collector
    Other = Other
    Pool <- TwoThreads
    Stops <- TwoStops
    Modes <- AllModes
INVARIANTS
    ServedWhileThere
    DestroyedOnce
    ShutdownOutlived
    
PROPERTIES
    TimelyEnds
CHECK_DEADLOCK FALSE
