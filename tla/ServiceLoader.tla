--------------------------- MODULE ServiceLoader ---------------------------
(***************************************************************************)
(* Starting and stopping the proxy on UNIX                                 *)
(* (src/src/proxy/UNIX_svc_loader.cpp, with the files that                 *)
(* Proxy::configure in src/src/proxy/proxy.cpp writes): several processes  *)
(* of one installation share a PID file, whose lock is to keep all but one *)
(* of them from running, and an IOR file.                                  *)
(*                                                                         *)
(* The PID file is an inode that the path may name; a process may have one *)
(* open that no path names any more.  The lock is the fcntl lock of POSIX: *)
(* it belongs to a process and an inode, and goes when that process closes *)
(* ANY descriptor of that inode.  A file holds the pid of a process, or    *)
(* Gone when the process that wrote it has ended.                          *)
(***************************************************************************)
CONSTANTS
    Procs,     \* the processes that may be started, again and again
    Inodes,    \* the inodes there are for the PID file
    None,      \* no inode, no process
    Gone,      \* what a process that has ended has left in a file
    Hazards    \* what may happen: see Overlap, Crashes and Fails

ASSUME LoaderAssumption ==
    /\ None \notin Inodes \cup Procs
    /\ Gone \notin Procs /\ Gone # None

Overlap == "overlap" \in Hazards  \* a process is started while another one lives
Crashes == "crash"   \in Hazards  \* a process is killed
Fails   == "fail"    \in Hazards  \* a call fails, or the proxy throws

VARIABLES
    pc,       \* where each process is in run_i
    proxy,    \* whether init_proxy gave it a proxy
    fd,       \* lock_fd_
    out,      \* output_file
    path,     \* the inode that the path of the PID file names
    text,     \* what each inode says
    locked,   \* the process that has each inode locked
    iorFile,  \* what the IOR file says
    alone,    \* history: whether no other process has lived since this one started
    harmed    \* history: the processes that a call failed, or that were killed, since they started

procVars == <<pc, proxy, fd, out>>
fileVars == <<path, text, locked>>
pastVars == <<alone, harmed>>
vars == <<procVars, fileVars, iorFile, pastVars>>

PC == {"off", "init", "open", "lock", "write", "fopen", "fclose", "check", "running", "unlock", "unlink"}
Locking == {"lock", "write", "fopen", "fclose", "check", "running", "unlock"}
Pid == Procs \cup {None, Gone}

TypeOK ==
    /\ pc \in [Procs -> PC]
    /\ proxy \in [Procs -> BOOLEAN]
    /\ fd \in [Procs -> Inodes \cup {None}]
    /\ out \in [Procs -> Inodes \cup {None}]
    /\ path \in Inodes \cup {None}
    /\ text \in [Inodes -> Pid]
    /\ locked \in [Inodes -> Procs \cup {None}]
    /\ iorFile \in Pid
    /\ alone \in [Procs -> BOOLEAN] /\ harmed \subseteq Procs
    /\ \A p \in Procs : (fd[p] # None) = (pc[p] \in Locking) /\ (out[p] # None) = (pc[p] = "fclose")

Init ==
    /\ pc = [p \in Procs |-> "off"]
    /\ proxy = [p \in Procs |-> FALSE]
    /\ fd = [p \in Procs |-> None]
    /\ out = [p \in Procs |-> None]
    /\ path = None
    /\ text = [i \in Inodes |-> None]
    /\ locked = [i \in Inodes |-> None]
    /\ iorFile = None
    /\ alone = [p \in Procs |-> FALSE] /\ harmed = {}

-----------------------------------------------------------------------------
(***************************************************************************)
(* Files and processes.                                                    *)
(*                                                                         *)
(* A definition that stands before the one it resembles is a faulty        *)
(* variant that no action uses: it shows which fault a property notices.   *)
(***************************************************************************)
Alive(p) == pc[p] # "off"

At(p, l) == pc' = [pc EXCEPT ![p] = l]

\* What a file says once process p has ended.
Orphaned(p, x) == IF x = p THEN Gone ELSE x

\* The locks when p has closed a descriptor of the inode i.
Closed(p, i) == [locked EXCEPT ![i] = IF @ = p THEN None ELSE @]

\* Process p ends: the kernel closes what it has open.
Ended(p) == [i \in Inodes |-> IF locked[i] = p THEN None ELSE locked[i]]

\* An inode that is neither named by the path nor open is no more.
Linked(i) == i = path' \/ \E q \in Procs : fd'[q] = i \/ out'[q] = i

\* The process exits, leaving the path as path' says.
End(p) ==
    /\ At(p, "off")
    /\ proxy' = [proxy EXCEPT ![p] = FALSE]
    /\ fd' = [fd EXCEPT ![p] = None]
    /\ out' = [out EXCEPT ![p] = None]
    /\ locked' = Ended(p)
    /\ text' = [i \in Inodes |-> IF Linked(i) THEN Orphaned(p, text[i]) ELSE None]
    /\ iorFile' = Orphaned(p, iorFile)

\* open and fopen create the file when the path names none: an inode that
\* nobody has open.
Unused == {i \in Inodes : i # path /\ \A q \in Procs : fd[q] # i /\ out[q] # i}
OpenedOnly == {path}
Opened     == IF path = None THEN Unused ELSE {path}

-----------------------------------------------------------------------------
(***************************************************************************)
(* The life of a process: run_service and run_i.                           *)
(***************************************************************************)

\* become_daemon: the process that goes on is the second child of the one that
\* was started, with no file open.  When it fails nothing has happened.
Start(p) ==
    /\ pc[p] = "off"
    /\ Overlap \/ \A q \in Procs : ~Alive(q)
    /\ At(p, "init")
    /\ alone' = [q \in Procs |-> ~Alive(q) /\ (q = p => \A o \in Procs : ~Alive(o))]
    /\ harmed' = harmed \ {p}
    /\ UNCHANGED <<proxy, fd, out, fileVars, iorFile>>

\* configure has written the IOR file unless it threw before it got there.
Configured(p, ok) == IF ok THEN {p} ELSE {p, iorFile}

\* init_proxy, whose null result run_i does not look at yet.
InitProxy(p, ok) ==
    /\ pc[p] = "init"
    /\ ok \/ Fails
    /\ proxy' = [proxy EXCEPT ![p] = ok]
    /\ iorFile' \in Configured(p, ok)
    /\ At(p, "open")
    /\ UNCHANGED <<fd, out, fileVars, pastVars>>

\* The open of get_process_lock.
OpenPid(p) ==
    /\ pc[p] = "open"
    /\ \E i \in Opened :
         /\ path' = i
         /\ fd' = [fd EXCEPT ![p] = i]
         /\ text' = [text EXCEPT ![i] = IF path = None THEN None ELSE @]
    /\ At(p, "lock")
    /\ UNCHANGED <<proxy, out, locked, iorFile, pastVars>>

\* Whether fcntl(F_SETLK) grants the lock.
FreeOfText(p) == locked[fd[p]] \in {None, p} /\ text[fd[p]] = None
Grantable(p)  == locked[fd[p]] \in {None, p}

\* lock_fd
LockPid(p) ==
    /\ pc[p] = "lock"
    /\ Grantable(p)
    /\ locked' = [locked EXCEPT ![fd[p]] = p]
    /\ At(p, "write")
    /\ UNCHANGED <<proxy, fd, out, path, text, iorFile, pastVars>>

\* Somebody else has it: get_lock closes the file, "Could not lock pidfile".
LockRefused(p) ==
    /\ pc[p] = "lock"
    /\ ~Grantable(p)
    /\ UNCHANGED <<path, pastVars>>
    /\ End(p)

\* ftruncate, write and fsync of the pid.
WritePid(p) ==
    /\ pc[p] = "write"
    /\ text' = [text EXCEPT ![fd[p]] = p]
    /\ At(p, "fopen")
    /\ UNCHANGED <<proxy, fd, out, path, locked, iorFile, pastVars>>

\* run_i opens the PID file by its path once more, for writing.
FopenPid(p) ==
    /\ pc[p] = "fopen"
    /\ \E i \in Opened :
         /\ path' = i
         /\ out' = [out EXCEPT ![p] = i]
         /\ text' = [text EXCEPT ![i] = None]
    /\ At(p, "fclose")
    /\ UNCHANGED <<proxy, fd, locked, iorFile, pastVars>>

\* What the fprintf leaves in output_file.
WrittenNot(p) == text
Written(p)    == [text EXCEPT ![out[p]] = p]

\* fprintf and fclose.
FclosePid(p) ==
    /\ pc[p] = "fclose"
    /\ text' = Written(p)
    /\ locked' = Closed(p, out[p])
    /\ out' = [out EXCEPT ![p] = None]
    /\ At(p, "check")
    /\ UNCHANGED <<proxy, fd, path, iorFile, pastVars>>

\* activate, or EXIT_FAILURE when there is no proxy.
Activate(p) ==
    /\ pc[p] = "check"
    /\ proxy[p]
    /\ At(p, "running")
    /\ UNCHANGED <<proxy, fd, out, fileVars, iorFile, pastVars>>

NoProxy(p) ==
    /\ pc[p] = "check"
    /\ ~proxy[p]
    /\ UNCHANGED <<path, pastVars>>
    /\ End(p)

\* A signal has shut the ORB down: wait returns, the proxy is destroyed.
Stop(p) ==
    /\ pc[p] = "running"
    /\ At(p, "unlock")
    /\ UNCHANGED <<proxy, fd, out, fileVars, iorFile, pastVars>>

UnlockPid(p) ==
    /\ pc[p] = "unlock"
    /\ locked' = Closed(p, fd[p])
    /\ fd' = [fd EXCEPT ![p] = None]
    /\ At(p, "unlink")
    /\ UNCHANGED <<proxy, out, path, text, iorFile, pastVars>>

UnlinkPid(p) ==
    /\ pc[p] = "unlink"
    /\ path' = None
    /\ UNCHANGED pastVars
    /\ End(p)

\* The early returns of get_lock and run_i, and its catch blocks: any call may
\* fail, the fcntl of lock_fd for other reasons than a lock in its way too.
GiveUp(p) ==
    /\ Fails
    /\ pc[p] \in {"open", "lock", "write", "fopen", "running"}
    /\ harmed' = harmed \cup {p}
    /\ UNCHANGED <<path, alone>>
    /\ End(p)

Crash(p) ==
    /\ Crashes
    /\ Alive(p)
    /\ harmed' = harmed \cup {p}
    /\ UNCHANGED <<path, alone>>
    /\ End(p)

Step(p) ==
    \/ \E ok \in BOOLEAN : InitProxy(p, ok)
    \/ OpenPid(p) \/ LockPid(p) \/ LockRefused(p) \/ WritePid(p)
    \/ FopenPid(p) \/ FclosePid(p) \/ Activate(p) \/ NoProxy(p)
    \/ UnlockPid(p) \/ UnlinkPid(p)

Next == \E p \in Procs : Start(p) \/ Step(p) \/ Stop(p) \/ GiveUp(p) \/ Crash(p)

Spec == Init /\ [][Next]_vars

\* A process that lives takes its next step; nobody has to start or to stop one.
FairSpec == Spec /\ \A p \in Procs : WF_vars(Step(p))

-----------------------------------------------------------------------------
(***************************************************************************)
(* Properties.                                                             *)
(***************************************************************************)

\* While a process runs, the PID file and the IOR file say so, whatever its
\* predecessors have left behind when they failed or were killed.  Only a process
\* that was started in its time can have changed that.
FilesTell ==
    \A p \in Procs : pc[p] = "running" /\ alone[p] =>
        path # None /\ text[path] = p /\ iorFile = p

\* A process that has opened the PID file and leaves without the lock was killed, or
\* a call failed it, or another process has the very file that it opened open as
\* lock_fd_ and locked: neither what a file says nor a process that has ended, in
\* whatever way, turns a start away.
RefusedByTheLiving ==
    [][\A p \in Procs : pc[p] = "lock" /\ pc'[p] = "off" =>
         \/ p \in harmed'
         \/ \E q \in Procs \ {p} : fd[q] = fd[p] /\ locked[fd[p]] = q]_vars

\* When several processes start at once, and none runs or is on its way out, the
\* lock does not make them all refuse one another: one of them gets to run, unless
\* a call fails or somebody is killed, or one has got no proxy.
OneOfThemRuns ==
    /\ \E p \in Procs : pc[p] = "lock"
    /\ \A p \in Procs : pc[p] \notin {"running", "unlock", "unlink"}
    ~> \/ harmed # {}
       \/ \E p \in Procs : pc[p] \notin {"off", "init"} /\ ~proxy[p]
       \/ \E p \in Procs : pc[p] = "running"

\* svc_loader_base.h on get_lock: "Will ensure that only one instance of Lorica is
\* running at any one time".
OneInstance ==
    \A p, q \in Procs : pc[p] = "running" /\ pc[q] = "running" => p = q

\* UNIX_svc_loader.cpp in run_i: "Output the pid file indicating we are running".
\* Without a crash, the PID file never names a process that has ended.
PidIndicatesRunning == path # None => text[path] # Gone
=============================================================================
