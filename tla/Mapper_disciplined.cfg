SPECIFICATION Spec
CONSTANTS
    t1 = t1  t2 = t2
    n1 = n1  n2 = n2
    v1 = v1  v2 = v2  v3 = v3
    a = a  b = b
    Null = Null
    Threads <- TwoThreads
    Natives <- TwoNatives
    Names <- TwoNames
    Values <- ThreeValues
    MaxIndex = 2
    MaxGrants = 1
    Hazards <- NoHazard
SYMMETRY Symmetry
INVARIANTS TypeOK GrantHonoured AnswersTheQuestion NamesDenote
