SPECIFICATION FairSpec
CONSTANTS
    t1 = t1  t2 = t2
    Null = Null
    Object = "Object"
    Threads <- OneThread
    Calls = {1, 2, 3, 4}
    Oneways <- SomeOneways
    Requests <- Several
    Interfaces <- SomeInterfaces
    Own <- SomeOwn
    Bases <- SomeBases
    Greater <- SomeGreater
    Ones <- SomeOnes
INVARIANTS SignatureRight SignatureKept AnswersFit FacesReceiver
PROPERTIES AnsweredAtLast
CHECK_DEADLOCK FALSE
