--------------------------- MODULE ProxyLifeCycle ---------------------------
(***************************************************************************)
(* The proxy in its process: made by a loader, run by a pool of threads,   *)
(* told to stop by a signal or by the Windows service control, destroyed   *)
(* (src/src/proxy/proxy.cpp, ntsvc.cpp, Win32_svc_loader.cpp, and run_i of *)
(* UNIX_svc_loader.cpp).                                                   *)
(*                                                                         *)
(* There are three ways to run it: on UNIX, where a signal interrupts one  *)
(* of the threads of the process; as a Windows service, where a stop comes *)
(* on the thread that the process ends with; and as a Windows application, *)
(* where a stop comes on a thread of its own.                              *)
(*                                                                         *)
(* A table of mapped references has a thread of its own, the collector     *)
(* (src/src/lorica/RMVByMapped.cpp), which holds the table's lock but for  *)
(* its waits and pings; one collector stands for those of all mappers.     *)
(*                                                                         *)
(* A call of the ORB that CORBA answers with BAD_INV_ORDER, on a path that *)
(* nobody catches it on, and the use of an object that is not there count  *)
(* as a crash.                                                             *)
(***************************************************************************)
EXTENDS Naturals

CONSTANTS
    Modes,   \* among "unix", "service" and "standalone"
    Pool,    \* the threads of the proxy
    Stops,   \* the requests to stop: each is made at most once
    Main,    \* the thread of the loader, or of the service
    Collector, \* the thread of the collector
    Other    \* a thread that is none of these

ASSUME LifeCycleAssumption ==
    /\ Modes \subseteq {"unix", "service", "standalone"}
    /\ Pool # {} /\ Main \notin Pool /\ Collector \notin Pool \cup {Main}
    /\ Other \notin Pool \cup {Main, Collector}

VARIABLES
    mode,       \* how the proxy is run
    main,       \* where the loader is
    pool,       \* what each thread of the pool does
    sweep,      \* what the collector does
    orb,        \* the ORB: "none" yet, "up", "shut" down or "gone"
    orb_,       \* whether Proxy::orb_ refers to it
    object,     \* the Proxy object
    this_,      \* whether Proxy::this_ is set
    handled,    \* whether the signal handler is set
    proxy_,     \* whether NT_Service::proxy_ is set
    destroyed,  \* how often the mapper registry has been destroyed
    req,        \* for each stop: where it is, on which thread, and whether it is timely
    crashed

loaderVars == <<mode, main, this_, handled, proxy_>>
proxyVars  == <<orb, orb_, object, destroyed>>
threadVars == <<pool, sweep>>
vars == <<loaderVars, proxyVars, threadVars, req, crashed>>

MainPC == {"start", "made", "orb", "handled", "mapped", "configured", "published", "waiting",
           "joined", "unpublished", "destroying", "destroyed", "deleted", "noproxy", "exited"}
Busy   == {"check", "call", "inside"}

\* A thread of the pool in an upcall waits for the interface repository, for the lock
\* of the table, or for nothing.
Upcalls == {"asking", "locking", "upcall"}

TypeOK ==
    /\ mode \in Modes
    /\ main \in MainPC
    /\ pool \in [Pool -> {"unborn", "starting", "running", "done"} \cup Upcalls]
    /\ sweep \in {"none", "waiting", "holding", "pinging", "ended"}
    /\ orb \in {"none", "up", "shut", "gone"}
    /\ orb_ \in BOOLEAN /\ this_ \in BOOLEAN /\ handled \in BOOLEAN /\ proxy_ \in BOOLEAN
    /\ object \in {"unborn", "live", "deleted"}
    /\ destroyed \in Nat
    /\ req \in [Stops -> [pc : Busy \cup {"new", "done"}, on : Pool \cup {Main, Collector, Other}, timely : BOOLEAN]]
    /\ crashed \in BOOLEAN
    /\ orb_ => orb \in {"up", "shut"}

Init ==
    /\ mode \in Modes
    /\ main = "start"
    /\ pool = [t \in Pool |-> "unborn"]
    /\ sweep = "none"
    /\ orb = "none" /\ orb_ = FALSE
    /\ object = "unborn"
    /\ this_ = FALSE /\ handled = FALSE /\ proxy_ = FALSE
    /\ destroyed = 0
    /\ req = [s \in Stops |-> [pc |-> "new", on |-> Other, timely |-> FALSE]]
    /\ crashed = FALSE

-----------------------------------------------------------------------------
(***************************************************************************)
(* The loader.  A definition that stands before the one it resembles is a  *)
(* faulty variant that no action uses.                                     *)
(***************************************************************************)

\* A thread that runs a signal handler does nothing else meanwhile.
Interrupted(t) == \E s \in Stops : req[s].on = t /\ req[s].pc \in Busy

Go(from, to) == ~crashed /\ ~Interrupted(Main) /\ main = from /\ main' = to

Windows == mode # "unix"

\* init_proxy
NewProxy ==
    /\ Go("start", "made")
    /\ object' = "live"
    /\ UNCHANGED <<mode, this_, handled, proxy_, orb, orb_, destroyed, threadVars, req, crashed>>

\* ... whose configuration file cannot be read.
NoConfig ==
    /\ Go("start", "noproxy")
    /\ UNCHANGED <<mode, this_, handled, proxy_, proxyVars, threadVars, req, crashed>>

\* Mappers are made, by evaluator services that ORB_init loads or by configure, and
\* with them their tables, if references are cached: then a collector runs.
NewMappers == sweep' \in IF sweep = "none" THEN {"none", "waiting"} ELSE {sweep}

\* configure, up to ORB_init
OrbInit ==
    /\ Go("made", "orb")
    /\ this_' = TRUE
    /\ orb' = "up" /\ orb_' = TRUE
    /\ NewMappers
    /\ UNCHANGED <<mode, handled, proxy_, object, destroyed, pool, req, crashed>>

setup_shutdown_handler ==
    /\ Go("orb", "handled")
    /\ handled' = TRUE
    /\ UNCHANGED <<mode, this_, proxy_, proxyVars, threadVars, req, crashed>>

\* The mappers of configure and init_mappers, and the POA managers' activation: an ORB
\* that has been shut down meanwhile raises.
StartMappers ==
    /\ Go("handled", "mapped")
    /\ orb = "up"
    /\ NewMappers
    /\ UNCHANGED <<mode, this_, handled, proxy_, proxyVars, pool, req, crashed>>

Configured ==
    /\ Go("mapped", "configured")
    /\ orb = "up"
    /\ UNCHANGED <<mode, this_, handled, proxy_, proxyVars, threadVars, req, crashed>>

\* destroy: what it leaves of the ORB and the registry.  It does nothing without
\* an ORB.
KeptRef   == orb_
Forgotten == FALSE

DestroyRegistry == destroyed' = IF orb_ THEN destroyed + 1 ELSE destroyed

DestroyOrb ==
    /\ orb' = IF orb_ THEN "gone" ELSE orb
    /\ orb_' = Forgotten

\* The table's destructor tells the collector to end and waits for it.
Ended == sweep \in {"none", "ended"}

\* InitError: the proxy is deleted, and its destructor calls destroy.
ConfigureFails ==
    /\ \E from \in {"made", "orb", "handled", "mapped"} : Go(from, "noproxy")
    /\ ~Interrupted(Collector) /\ sweep # "pinging"
    /\ sweep' = IF sweep = "none" THEN "none" ELSE "ended"
    /\ DestroyRegistry
    /\ DestroyOrb
    /\ object' = "deleted"
    /\ this_' \in {this_, TRUE}
    /\ UNCHANGED <<mode, handled, proxy_, pool, req, crashed>>

\* Without a proxy run_i fails; the Windows loader calls activate all the same.
NoProxy ==
    /\ Go("noproxy", "exited")
    /\ crashed' = Windows
    /\ UNCHANGED <<mode, this_, handled, proxy_, proxyVars, threadVars, req>>

\* The service is told of its proxy.
Publish ==
    /\ Windows
    /\ Go("configured", "published")
    /\ proxy_' = TRUE
    /\ UNCHANGED <<mode, this_, handled, proxyVars, threadVars, req, crashed>>

Activate ==
    /\ Go(IF Windows THEN "published" ELSE "configured", "waiting")
    /\ pool' = [t \in Pool |-> "starting"]
    /\ UNCHANGED <<mode, this_, handled, proxy_, proxyVars, sweep, req, crashed>>

\* run_i cannot lock or write the PID file: the proxy is deleted unused.
NoPidFile ==
    /\ mode = "unix"
    /\ Go("configured", "joined")
    /\ UNCHANGED <<mode, this_, handled, proxy_, proxyVars, threadVars, req, crashed>>

\* wait
AnyDone == \E t \in Pool : pool[t] = "done"
AllDone == \A t \in Pool : pool[t] = "done"

Join ==
    /\ Go("waiting", "joined")
    /\ AllDone
    /\ UNCHANGED <<mode, this_, handled, proxy_, proxyVars, threadVars, req, crashed>>

\* The standalone loader takes the proxy away from the service again.
Unpublish ==
    /\ mode = "standalone"
    /\ Go("joined", "unpublished")
    /\ proxy_' = FALSE
    /\ UNCHANGED <<mode, this_, handled, proxyVars, threadVars, req, crashed>>

\* Proxy::destroy: by the loaders, or by the destructor when the service object
\* is deleted at the end of the process, after the last control.
Destroy ==
    /\ Go(IF mode = "standalone" THEN "unpublished" ELSE "joined", "destroying")
    /\ mode = "service" => ~Interrupted(Other)
    /\ DestroyRegistry
    /\ UNCHANGED <<mode, this_, handled, proxy_, orb, orb_, object, threadVars, req, crashed>>

DestroyEnds ==
    /\ Go("destroying", "destroyed")
    /\ Ended
    /\ DestroyOrb
    /\ UNCHANGED <<mode, this_, handled, proxy_, object, destroyed, threadVars, req, crashed>>

\* The proxy is deleted, and its destructor calls destroy.
Delete ==
    /\ Go("destroyed", "deleted")
    /\ object' = "deleted"
    /\ DestroyRegistry
    /\ DestroyOrb
    /\ UNCHANGED <<mode, this_, handled, proxy_, threadVars, req, crashed>>

\* The process ends, and with it every thread.
Exit ==
    /\ Go("deleted", "exited")
    /\ UNCHANGED <<mode, this_, handled, proxy_, proxyVars, threadVars, req, crashed>>

Load ==
    \/ NewProxy \/ NoConfig \/ OrbInit \/ setup_shutdown_handler \/ StartMappers \/ Configured
    \/ ConfigureFails \/ NoProxy \/ Publish \/ Activate \/ NoPidFile \/ Join \/ Unpublish \/ Destroy \/ DestroyEnds
    \/ Delete \/ Exit

-----------------------------------------------------------------------------
(***************************************************************************)
(* The pool and the collector.                                             *)
(***************************************************************************)
Alive == ~crashed /\ main # "exited"

Becomes(t, from, to) ==
    /\ Alive /\ ~Interrupted(t)
    /\ pool[t] = from
    /\ pool' = [pool EXCEPT ![t] = to]
    /\ UNCHANGED <<loaderVars, proxyVars, sweep, req>>

\* svc: an ORB that has been shut down already does not run.
Run(t) ==
    /\ Becomes(t, "starting", "running")
    /\ crashed' = (orb # "up")

\* A request or a reply comes.
Upcall(t) ==
    /\ orb = "up"
    /\ \E to \in Upcalls : Becomes(t, "running", to)
    /\ UNCHANGED crashed

\* gc_control_lock_ is taken, for the time of bind, find or unbind, and the upcall goes on.
LockFree == sweep # "holding"

Locks(t, to) ==
    /\ LockFree
    /\ Becomes(t, "locking", to)
    /\ UNCHANGED crashed

\* The interface repository answers.
Answered(t) ==
    /\ \E to \in {"locking", "upcall"} : Becomes(t, "asking", to)
    /\ UNCHANGED crashed

\* run returns once the ORB is shut down, and with it svc and the thread.
RunAgain == "starting"
RunOnce  == "done"

Work(t) ==
    \/ Run(t)
    \/ Becomes(t, "upcall", "running") /\ UNCHANGED crashed
    \/ orb = "shut" /\ Becomes(t, "running", RunOnce) /\ UNCHANGED crashed

Sweeps(from, to) ==
    /\ Alive /\ ~Interrupted(Collector)
    /\ sweep \in from /\ sweep' = to
    /\ UNCHANGED <<loaderVars, proxyVars, pool, req, crashed>>

\* RMVByMapped::svc: it takes the lock when its wait times out or a ping has been
\* answered, and gives it up to ping or to wait, until the table's destructor ends it.
Terminated == main = "destroying"

SweepBegins == ~Terminated /\ Sweeps({"waiting"}, "holding")
Pinged      == Sweeps({"pinging"}, "holding")
Collect ==
    \/ ~Terminated /\ (Sweeps({"holding"}, "pinging") \/ Sweeps({"holding"}, "waiting"))
    \/ Terminated /\ Sweeps({"waiting", "holding"}, "ended")

-----------------------------------------------------------------------------
(***************************************************************************)
(* Stopping.                                                               *)
(***************************************************************************)

\* The threads a stop may come on: a signal, on any thread of the process.
Hosts ==
    IF mode # "unix" THEN {Other}
    ELSE {Main} \cup {t \in Pool : pool[t] \in {"starting", "running"} \cup Upcalls}
                \cup {t \in {Collector} : ~Ended}

\* Whether anybody listens: the signal handler, the console handler, or the
\* service, which has its last control before its proxy is deleted.
Heard ==
    CASE mode = "unix"       -> handled
      [] mode = "standalone" -> main \notin {"start", "made", "orb", "handled", "mapped", "configured", "noproxy"}
      [] mode = "service"    -> main \in {"published", "waiting", "joined"}

\* The first stop, while every thread serves, on none that is in an upcall and not on the
\* collector while it has the lock, for which an upcall may be waiting.
Timely(t) ==
    /\ main = "waiting" /\ \A u \in Pool : pool[u] \in {"running"} \cup Upcalls
    /\ t \in Pool => pool[t] = "running"
    /\ t = Collector => LockFree
    /\ \A s \in Stops : req[s].pc = "new"

Arrive(s, t) ==
    /\ Alive /\ Heard
    /\ req[s].pc = "new" /\ t \in Hosts /\ ~Interrupted(t)
    /\ req' = [req EXCEPT ![s] = [pc |-> "check", on |-> t, timely |-> Timely(t)]]
    /\ UNCHANGED <<loaderVars, proxyVars, threadVars, crashed>>

\* signal_handler and handle_control look for the proxy.
FoundService == proxy_
Found == IF mode = "unix" THEN this_ ELSE proxy_

Check(s) ==
    /\ Alive
    /\ req[s].pc = "check"
    /\ req' = [req EXCEPT ![s].pc = IF Found THEN "call" ELSE "done"]
    /\ UNCHANGED <<loaderVars, proxyVars, threadVars, crashed>>

\* Proxy::shutdown: it needs the object, an ORB that is up, and a thread that is
\* not in an upcall.
CanShutDown(s) ==
    /\ object = "live" /\ orb_ /\ orb = "up"
    /\ req[s].on \in Pool => pool[req[s].on] \notin Upcalls

shutdown(s) ==
    /\ Alive
    /\ req[s].pc = "call"
    /\ crashed' = ~CanShutDown(s)
    /\ orb' = IF CanShutDown(s) THEN "shut" ELSE orb
    /\ req' = [req EXCEPT ![s].pc = IF CanShutDown(s) THEN "inside" ELSE "call"]
    /\ UNCHANGED <<loaderVars, orb_, object, destroyed, threadVars>>

\* The ORB's shutdown returns when no upcall is in progress, unless the ORB has been
\* destroyed in the meantime.
Returns(s) ==
    /\ Alive
    /\ req[s].pc = "inside"
    /\ \A t \in Pool : pool[t] \notin Upcalls
    /\ req' = [req EXCEPT ![s].pc = "done"]
    /\ crashed' = (orb = "gone")
    /\ UNCHANGED <<loaderVars, proxyVars, threadVars>>

Stop(s) == Check(s) \/ shutdown(s) \/ Returns(s)

Next ==
    \/ Load
    \/ \E t \in Pool : Work(t) \/ Upcall(t) \/ Locks(t, "upcall") \/ Locks(t, "asking") \/ Answered(t)
    \/ SweepBegins \/ Pinged \/ Collect
    \/ \E s \in Stops : Stop(s) \/ \E t \in Pool \cup {Main, Collector, Other} : Arrive(s, t)

Spec == Init /\ [][Next]_vars

\* Threads go on.  The lock is taken by whoever waits for it while it is given back
\* again and again, and an upcall makes finitely many calls.  Nobody has to send
\* requests or to answer: neither the interface repository nor the objects that are pinged.
FairSpec ==
    /\ Spec
    /\ WF_vars(Load)
    /\ \A t \in Pool : WF_vars(Work(t)) /\ SF_vars(Locks(t, "upcall"))
    /\ WF_vars(Collect)
    /\ \A s \in Stops : WF_vars(Stop(s))

-----------------------------------------------------------------------------
(***************************************************************************)
(* Properties.                                                             *)
(***************************************************************************)

\* However and whenever it is stopped, no thread of the pool runs the ORB or
\* serves a request once the mapper registry is being destroyed.
ServedWhileThere ==
    destroyed > 0 => \A t \in Pool : pool[t] \in {"unborn", "done"}

\* destroy is called by the loader and again by the destructor, and by the
\* destructor alone when the start fails: the registry and the ORB are destroyed
\* once, and when the process ends without a crash they have been.
DestroyedOnce ==
    /\ destroyed <= 1
    /\ main = "exited" /\ ~crashed /\ orb # "none" => destroyed = 1 /\ orb = "gone"

\* On UNIX and as a service, the ORB outlives the call of its shutdown, although
\* the end of the pool, which that call brings about, lets the loader destroy it.
ShutdownOutlived ==
    mode # "standalone" => \A s \in Stops : req[s].pc = "inside" => orb # "gone"

\* The process only crashes when a Windows loader activates a proxy that could
\* not be configured; by a stop that comes too early (svc runs an ORB that was
\* shut down), too late (this_ outlives orb_ and the proxy), in an upcall or after
\* another one (both raise); or, in a Windows application, by any stop, if the loader
\* destroys the ORB before its shutdown has returned.
TimelyIsSafe ==
    crashed => \/ main = "exited" /\ Windows
               \/ \E s \in Stops : req[s].pc # "new" /\ ~req[s].timely
               \/ mode = "standalone" /\ orb = "gone"

\* If the interface repository and the objects that are pinged answer in the end, a
\* timely stop, unless another one comes after it, ends the process: the upcalls that
\* shutdown waits for, the pool, the collector and the loader do not wait for one
\* another in a circle.
TimelyEnds ==
    (\A t \in Pool : []<>(pool[t] # "asking")) /\ []<>(sweep # "pinging") =>
        \A s \in Stops :
            req[s].pc # "new" /\ req[s].timely ~>
                \/ main = "exited"
                \/ mode = "standalone" /\ crashed
                \/ \E q \in Stops : req[q].pc # "new" /\ ~req[q].timely
=============================================================================
