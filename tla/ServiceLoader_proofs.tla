------------------------ MODULE ServiceLoader_proofs ------------------------
(***************************************************************************)
(* What a process that starts finds, for any number of processes and       *)
(* inodes and with all hazards: RefusedByTheLiving, and FilesTell.         *)
(***************************************************************************)
EXTENDS ServiceLoader, TLAPS

\* A lock belongs to a process that still has the inode open as lock_fd_.
LocksHeld == \A i \in Inodes : locked[i] # None => fd[locked[i]] = i

\* What the exit of a process does to the types and the locks.
LEMMA EndKeeps ==
    ASSUME TypeOK, LocksHeld, NEW p \in Procs, End(p), path' \in Inodes \cup {None},
           alone' = alone, harmed' \subseteq Procs
    PROVE  TypeOK' /\ LocksHeld'
<1> USE LoaderAssumption
<1>1. /\ pc' \in [Procs -> PC] /\ proxy' \in [Procs -> BOOLEAN]
      /\ fd' \in [Procs -> Inodes \cup {None}] /\ out' \in [Procs -> Inodes \cup {None}]
  BY DEF TypeOK, End, At, PC
<1>2. /\ text' \in [Inodes -> Pid] /\ locked' \in [Inodes -> Procs \cup {None}]
      /\ iorFile' \in Pid
  BY DEF TypeOK, End, Ended, Orphaned, Pid
<1>3. \A q \in Procs : (fd'[q] # None) = (pc'[q] \in Locking) /\ (out'[q] # None) = (pc'[q] = "fclose")
  BY DEF TypeOK, End, At, Locking
<1>4. LocksHeld'
  BY DEF TypeOK, LocksHeld, End, Ended
<1> QED
  BY <1>1, <1>2, <1>3, <1>4 DEF TypeOK

\* Every step keeps the types and the locks.
LEMMA StepKeeps == TypeOK /\ LocksHeld /\ [Next]_vars => TypeOK' /\ LocksHeld'
<1> SUFFICES ASSUME TypeOK, LocksHeld, [Next]_vars
             PROVE  TypeOK' /\ LocksHeld'
  OBVIOUS
<1> USE LoaderAssumption
<1>1. CASE UNCHANGED vars
  BY <1>1 DEF vars, procVars, fileVars, pastVars, TypeOK, LocksHeld, Locking
<1>2. CASE Next
  <2> PICK p \in Procs : Start(p) \/ Step(p) \/ Stop(p) \/ GiveUp(p) \/ Crash(p)
    BY <1>2 DEF Next
  <2>1. CASE Start(p)
    BY <2>1 DEF Start, At, TypeOK, LocksHeld, Locking, PC, fileVars, pastVars
  <2>2. CASE \E ok \in BOOLEAN : InitProxy(p, ok)
    <3> PICK ok \in BOOLEAN : InitProxy(p, ok)
      BY <2>2
    <3>1. iorFile' \in Pid
      BY DEF InitProxy, Configured, TypeOK, Pid
    <3> QED
      BY <3>1 DEF InitProxy, At, TypeOK, LocksHeld, Locking, PC, fileVars, pastVars
  <2>3. CASE OpenPid(p)
    <3> PICK i \in Opened : /\ path' = i
                            /\ fd' = [fd EXCEPT ![p] = i]
                            /\ text' = [text EXCEPT ![i] = IF path = None THEN None ELSE @]
      BY <2>3 DEF OpenPid
    <3>1. i \in Inodes
      BY DEF Opened, Unused, TypeOK
    <3>2. fd[p] = None /\ pc[p] = "open"
      BY <2>3 DEF OpenPid, TypeOK, Locking
    <3>3. text' \in [Inodes -> Pid]
      BY <3>1 DEF TypeOK, Pid
    <3>4. LocksHeld'
      BY <2>3, <3>1, <3>2 DEF OpenPid, TypeOK, LocksHeld
    <3> QED
      BY <2>3, <3>1, <3>2, <3>3, <3>4 DEF OpenPid, At, TypeOK, Locking, PC, pastVars
  <2>4. CASE LockPid(p)
    <3>1. fd[p] \in Inodes
      BY <2>4 DEF LockPid, TypeOK, Locking
    <3> QED
      BY <2>4, <3>1 DEF LockPid, Grantable, At, TypeOK, LocksHeld, Locking, PC, pastVars
  <2>5. CASE LockRefused(p)
    BY <2>5, EndKeeps DEF LockRefused, pastVars, TypeOK
  <2>6. CASE WritePid(p)
    <3>1. fd[p] \in Inodes
      BY <2>6 DEF WritePid, TypeOK, Locking
    <3>2. text' \in [Inodes -> Pid]
      BY <2>6, <3>1 DEF WritePid, TypeOK, Pid
    <3> QED
      BY <2>6, <3>2 DEF WritePid, At, TypeOK, LocksHeld, Locking, PC, pastVars
  <2>7. CASE FopenPid(p)
    <3> PICK i \in Opened : /\ path' = i
                            /\ out' = [out EXCEPT ![p] = i]
                            /\ text' = [text EXCEPT ![i] = None]
      BY <2>7 DEF FopenPid
    <3>1. i \in Inodes
      BY DEF Opened, Unused, TypeOK
    <3>2. text' \in [Inodes -> Pid]
      BY <3>1 DEF TypeOK, Pid
    <3> QED
      BY <2>7, <3>1, <3>2 DEF FopenPid, At, TypeOK, LocksHeld, Locking, PC, pastVars
  <2>8. CASE FclosePid(p)
    <3>1. out[p] \in Inodes
      BY <2>8 DEF FclosePid, TypeOK
    <3>2. text' \in [Inodes -> Pid]
      BY <2>8, <3>1 DEF FclosePid, Written, TypeOK, Pid
    <3>3. locked' \in [Inodes -> Procs \cup {None}] /\ LocksHeld'
      BY <2>8, <3>1 DEF FclosePid, Closed, TypeOK, LocksHeld
    <3> QED
      BY <2>8, <3>2, <3>3 DEF FclosePid, At, TypeOK, Locking, PC, pastVars
  <2>9. CASE Activate(p)
    BY <2>9 DEF Activate, At, TypeOK, LocksHeld, Locking, PC, fileVars, pastVars
  <2>10. CASE NoProxy(p)
    BY <2>10, EndKeeps DEF NoProxy, pastVars, TypeOK
  <2>11. CASE UnlockPid(p)
    <3>1. fd[p] \in Inodes
      BY <2>11 DEF UnlockPid, TypeOK, Locking
    <3>2. locked' \in [Inodes -> Procs \cup {None}] /\ LocksHeld'
      BY <2>11, <3>1 DEF UnlockPid, Closed, TypeOK, LocksHeld
    <3> QED
      BY <2>11, <3>2 DEF UnlockPid, At, TypeOK, Locking, PC, pastVars
  <2>12. CASE UnlinkPid(p)
    BY <2>12, EndKeeps DEF UnlinkPid, pastVars, TypeOK
  <2>13. CASE Stop(p)
    BY <2>13 DEF Stop, At, TypeOK, LocksHeld, Locking, PC, fileVars, pastVars
  <2>14. CASE GiveUp(p)
    BY <2>14, EndKeeps DEF GiveUp, TypeOK
  <2>15. CASE Crash(p)
    BY <2>15, EndKeeps DEF Crash, TypeOK
  <2> QED
    BY <2>1, <2>2, <2>3, <2>4, <2>5, <2>6, <2>7, <2>8, <2>9, <2>10, <2>11, <2>12, <2>13, <2>14, <2>15
    DEF Step
<1> QED
  BY <1>1, <1>2

LEMMA InitKeeps == Init => TypeOK /\ LocksHeld
<1> SUFFICES ASSUME Init PROVE TypeOK /\ LocksHeld
  OBVIOUS
<1>1. harmed \subseteq Procs
  BY DEF Init
<1>2. alone \in [Procs -> BOOLEAN] /\ proxy \in [Procs -> BOOLEAN]
  BY DEF Init
<1> QED
  BY <1>1, <1>2, LoaderAssumption DEF Init, TypeOK, LocksHeld, PC, Pid, Locking

\* Every variable keeps its type, and a process has a descriptor of the PID file
\* open at just the places of run_i where the code has one: no early return, kill
\* or overlap leaves lock_fd_ or output_file behind.
THEOREM TypeCorrect == Spec => []TypeOK
<1> QED
  BY InitKeeps, StepKeeps, PTL DEF Spec

\* A start that nothing harmed is turned away only by a process that has the same
\* file open and locked, whatever processes overlap, fail or are killed: run_i's early
\* returns, its second descriptor of the PID file and get_lock leave no lock without
\* its lock_fd_.
THEOREM RefusalsJustified == Spec => RefusedByTheLiving
<1> DEFINE Justified(p) == \/ p \in harmed'
                           \/ \E q \in Procs \ {p} : fd[q] = fd[p] /\ locked[fd[p]] = q
<1>1. TypeOK /\ LocksHeld /\ [Next]_vars
        => [\A p \in Procs : pc[p] = "lock" /\ pc'[p] = "off" => Justified(p)]_vars
  <2> SUFFICES ASSUME TypeOK, LocksHeld, Next,
                      NEW p \in Procs, pc[p] = "lock", pc'[p] = "off"
               PROVE  Justified(p)
    OBVIOUS
  <2> PICK o \in Procs : Start(o) \/ Step(o) \/ Stop(o) \/ GiveUp(o) \/ Crash(o)
    BY DEF Next
  <2>1. o = p
    BY DEF Step, InitProxy, OpenPid, LockPid, LockRefused, WritePid, FopenPid, FclosePid, Activate,
           NoProxy, UnlockPid, UnlinkPid, Start, Stop, GiveUp, Crash, End, At, TypeOK
  <2>2. CASE GiveUp(p) \/ Crash(p)
    BY <2>2 DEF GiveUp, Crash
  <2>3. CASE LockRefused(p)
    <3>1. fd[p] \in Inodes
      BY DEF TypeOK, Locking
    <3>2. locked[fd[p]] \in Procs \ {p}
      BY <2>3, <3>1 DEF LockRefused, Grantable, TypeOK
    <3>3. fd[locked[fd[p]]] = fd[p]
      BY <3>1, <3>2, LoaderAssumption DEF LocksHeld
    <3> QED
      BY <3>2, <3>3
  <2>4. CASE LockPid(p)
    BY <2>4 DEF LockPid, At, TypeOK
  <2> QED
    BY <2>1, <2>2, <2>3, <2>4
    DEF Step, InitProxy, OpenPid, WritePid, FopenPid, FclosePid, Activate,
        NoProxy, UnlockPid, UnlinkPid, Start, Stop
<1> QED
  BY <1>1, InitKeeps, StepKeeps, PTL DEF Spec, RefusedByTheLiving

-----------------------------------------------------------------------------
(***************************************************************************)
(* A process that no other one has overlapped.                             *)
(***************************************************************************)
Alone(p) == Alive(p) /\ alone[p]

\* How far such a process has got with the files.
Progress(p) ==
    /\ \A q \in Procs : Alive(q) => q = p
    /\ proxy[p] => iorFile = p
    /\ pc[p] = "fclose" => path = out[p]
    /\ pc[p] \in {"check", "running"} => path # None /\ text[path] = p

\* Whether a process has a proxy, overlapped or not.
HasProxy ==
    \A p \in Procs :
        /\ pc[p] = "running" => proxy[p]
        /\ pc[p] \in {"off", "init"} => ~proxy[p]

Sequence == TypeOK /\ LocksHeld /\ HasProxy /\ \A p \in Procs : Alone(p) => Progress(p)

LEMMA HasProxyKept == TypeOK /\ HasProxy /\ [Next]_vars => HasProxy'
<1> SUFFICES ASSUME TypeOK, HasProxy, [Next]_vars PROVE HasProxy'
  OBVIOUS
<1>1. CASE UNCHANGED vars
  BY <1>1 DEF vars, procVars, HasProxy
<1>2. CASE Next
  <2> PICK p \in Procs : Start(p) \/ Step(p) \/ Stop(p) \/ GiveUp(p) \/ Crash(p)
    BY <1>2 DEF Next
  <2>1. CASE Start(p) \/ Stop(p) \/ OpenPid(p) \/ LockPid(p) \/ WritePid(p) \/ FopenPid(p)
    BY <2>1 DEF Start, Stop, OpenPid, LockPid, WritePid, FopenPid, At, HasProxy, TypeOK
  <2>2. CASE FclosePid(p) \/ Activate(p) \/ UnlockPid(p) \/ \E ok \in BOOLEAN : InitProxy(p, ok)
    BY <2>2 DEF FclosePid, Activate, UnlockPid, InitProxy, At, HasProxy, TypeOK
  <2>3. CASE LockRefused(p) \/ NoProxy(p) \/ UnlinkPid(p) \/ GiveUp(p) \/ Crash(p)
    BY <2>3 DEF LockRefused, NoProxy, UnlinkPid, GiveUp, Crash, End, At, HasProxy, TypeOK
  <2> QED
    BY <2>1, <2>2, <2>3 DEF Step
<1> QED
  BY <1>1, <1>2

\* A process that has gone on alone keeps the files, and one that starts alone
\* has not touched them.
LEMMA SequenceStep == Sequence /\ [Next]_vars => Sequence'
<1> SUFFICES ASSUME Sequence, [Next]_vars PROVE Sequence'
  OBVIOUS
<1> USE LoaderAssumption
<1>0. TypeOK' /\ LocksHeld' /\ HasProxy'
  BY StepKeeps, HasProxyKept DEF Sequence
<1> SUFFICES ASSUME NEW r \in Procs, Alone(r)' PROVE Progress(r)'
  BY <1>0 DEF Sequence
<1>1. CASE UNCHANGED vars
  BY <1>1 DEF vars, procVars, fileVars, pastVars, Sequence, Alone, Progress, Alive
<1>2. CASE Next
  <2> PICK p \in Procs : Start(p) \/ Step(p) \/ Stop(p) \/ GiveUp(p) \/ Crash(p)
    BY <1>2 DEF Next
  <2>1. CASE Start(p)
    <3>1. p = r
      BY <2>1 DEF Start, At, Alone, Alive, Sequence, TypeOK
    <3>2. \A o \in Procs : ~Alive(o)
      BY <2>1, <3>1 DEF Start, Alone, Sequence, TypeOK
    <3> QED
      BY <2>1, <3>1, <3>2 DEF Start, At, Progress, HasProxy, Alive, Sequence, TypeOK
  <2>2. CASE ~Start(p)
    <3>0. Alive(p) /\ alone' = alone
      BY <2>2 DEF Step, InitProxy, OpenPid, LockPid, LockRefused, WritePid, FopenPid, FclosePid,
                  Activate, NoProxy, UnlockPid, UnlinkPid, Stop, GiveUp, Crash, Alive, pastVars
    <3>1. \A q \in Procs \ {p} : pc'[q] = pc[q]
      BY <2>2 DEF Step, InitProxy, OpenPid, LockPid, LockRefused, WritePid, FopenPid, FclosePid,
                  Activate, NoProxy, UnlockPid, UnlinkPid, Stop, GiveUp, Crash, End, At, Sequence, TypeOK
    <3>2. Alone(r)
      BY <3>0, <3>1 DEF Alone, Alive
    <3>3. Progress(r) /\ p = r
      BY <3>0, <3>2 DEF Sequence, Progress
    <3>4. \A q \in Procs : pc'[q] # "off" => q = r
      BY <3>1, <3>3 DEF Progress, Alive
    <3>5. CASE \E ok \in BOOLEAN : InitProxy(p, ok)
      <4> PICK ok \in BOOLEAN : InitProxy(p, ok)
        BY <3>5
      <4>1. ok => iorFile' = p
        BY DEF InitProxy, Configured
      <4> QED
        BY <3>3, <3>4, <4>1 DEF InitProxy, At, Progress, Alive, Sequence, TypeOK
    <3>6. CASE OpenPid(p) \/ LockPid(p) \/ WritePid(p) \/ UnlockPid(p)
      BY <3>6, <3>3, <3>4 DEF OpenPid, LockPid, WritePid, UnlockPid, At, Progress, Alive, Sequence, TypeOK
    <3>7. CASE FopenPid(p)
      <4>1. path' = out'[p]
        BY <3>7 DEF FopenPid, Sequence, TypeOK
      <4> QED
        BY <3>7, <3>3, <3>4, <4>1 DEF FopenPid, At, Progress, Alive, Sequence, TypeOK
    <3>8. CASE FclosePid(p)
      <4>1. path = out[p] /\ path' = path /\ out[p] \in Inodes
        BY <3>8, <3>3 DEF FclosePid, Sequence, Progress, TypeOK
      <4>2. path' # None /\ text'[path'] = p
        BY <3>8, <4>1 DEF FclosePid, Written, Sequence, TypeOK
      <4> QED
        BY <3>8, <3>3, <3>4, <4>2 DEF FclosePid, At, Progress, Alive, Sequence, TypeOK
    <3>9. CASE Activate(p) \/ Stop(p)
      BY <3>9, <3>3, <3>4 DEF Activate, Stop, At, Progress, Alive, Sequence, TypeOK, fileVars
    <3>10. CASE LockRefused(p) \/ NoProxy(p) \/ UnlinkPid(p) \/ GiveUp(p) \/ Crash(p)
      <4>1. pc'[p] = "off"
        BY <3>10 DEF LockRefused, NoProxy, UnlinkPid, GiveUp, Crash, End, At, Sequence, TypeOK
      <4> QED
        BY <3>3, <4>1 DEF Alone, Alive
    <3> QED
      BY <2>2, <3>5, <3>6, <3>7, <3>8, <3>9, <3>10 DEF Step
  <2> QED
    BY <2>1, <2>2
<1> QED
  BY <1>1, <1>2

\* As long as no other process is started, the PID file and the IOR file are those
\* of the process that runs, after any sequence of failures and kills of its
\* predecessors, and whatever overlapped before it was started.
THEOREM SuccessorsTell == Spec => []FilesTell
<1>1. Init => Sequence
  BY InitKeeps DEF Init, Sequence, HasProxy, Alone, Alive
<1>2. Sequence => FilesTell
  BY DEF Sequence, HasProxy, Alone, Progress, Alive, FilesTell
<1> QED
  BY <1>1, <1>2, SequenceStep, PTL DEF Spec
=============================================================================
