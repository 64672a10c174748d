----------------------- MODULE ProxyLifeCycle_proofs -----------------------
(***************************************************************************)
(* Proofs about ProxyLifeCycle, for any number of threads and stops, in    *)
(* all three modes.                                                        *)
(***************************************************************************)
EXTENDS ProxyLifeCycle, TLAPS

(***************************************************************************)
(* The inductive invariant, in named parts.                                *)
(***************************************************************************)

\* The stages at which the proxy has its ORB and nothing has been destroyed, and
\* those at which the pool has not been activated, or has ended.
Whole    == {"orb", "handled", "mapped", "configured", "published", "waiting", "joined", "unpublished"}
Inactive == {"start", "made", "orb", "handled", "mapped", "configured", "published", "noproxy"}

Torn == \/ orb = "none" /\ destroyed = 0
        \/ orb = "gone" /\ destroyed = 1

\* What the loader's stage says of the proxy, its ORB and the registry.
Staged ==
    /\ main \in {"start", "made"} => ~orb_ /\ orb = "none" /\ destroyed = 0
    /\ main = "made" => object = "live"
    /\ main \in Whole => orb_ /\ orb \in {"up", "shut"} /\ object = "live" /\ destroyed = 0
    /\ main = "destroying" => orb_ /\ orb \in {"up", "shut"} /\ destroyed = 1
    /\ main \in {"destroyed", "deleted"} => ~orb_ /\ orb = "gone" /\ destroyed = 1
    /\ main \in {"noproxy", "exited"} => ~orb_ /\ Torn

\* What it says of the pool.
Pooled ==
    /\ main \in Inactive => \A t \in Pool : pool[t] = "unborn"
    /\ main = "waiting" => \A t \in Pool : pool[t] # "unborn"
    /\ main \notin Inactive \cup {"waiting"} => \A t \in Pool : pool[t] \in {"unborn", "done"}

\* A stop that is under way keeps its thread: the loader's, one of the pool or a
\* collector that has not ended, or the service's.
Hosted ==
    \A s \in Stops : req[s].pc \in Busy =>
        /\ mode = "unix" => \/ req[s].on = Main
                            \/ req[s].on \in Pool /\ pool[req[s].on] \in {"starting", "running"} \cup Upcalls
                            \/ req[s].on = Collector /\ ~Ended
        /\ mode = "service" => req[s].on = Other /\ main \in {"published", "waiting", "joined"}

Safe == Staged /\ Pooled /\ Hosted /\ ShutdownOutlived

IInv == TypeOK /\ Safe

LEMMA Initially == Init => IInv
<1> SUFFICES ASSUME Init PROVE IInv
  OBVIOUS
<1>1. TypeOK
  BY DEF Init, TypeOK, MainPC, Busy
<1>2. Staged
  BY DEF Init, Staged, Whole
<1>3. Pooled
  BY DEF Init, Pooled, Inactive
<1>4. Hosted
  BY DEF Init, Hosted, Busy
<1>5. ShutdownOutlived
  BY DEF Init, ShutdownOutlived
<1> QED
  BY <1>1, <1>2, <1>3, <1>4, <1>5 DEF IInv, Safe

\* The loader.
LEMMA LoadKeeps == IInv /\ Load => IInv'
<1> SUFFICES ASSUME IInv, Load PROVE IInv'
  OBVIOUS
<1> USE LifeCycleAssumption DEF IInv, Safe, TypeOK, MainPC, Go, loaderVars, proxyVars, threadVars, Ended, Upcalls
<1>1. CASE NewProxy
  BY <1>1 DEF NewProxy, Staged, Torn, Pooled, Hosted, ShutdownOutlived, Whole, Inactive
<1>2. CASE NoConfig
  BY <1>2 DEF NoConfig, Staged, Torn, Pooled, Hosted, ShutdownOutlived, Whole, Inactive
<1>3. CASE OrbInit
  BY <1>3 DEF OrbInit, NewMappers, Staged, Torn, Pooled, Hosted, ShutdownOutlived, Whole, Inactive
<1>4. CASE setup_shutdown_handler
  BY <1>4 DEF setup_shutdown_handler, Staged, Torn, Pooled, Hosted, ShutdownOutlived, Whole, Inactive
<1>5. CASE Configured
  BY <1>5 DEF Configured, Staged, Torn, Pooled, Hosted, ShutdownOutlived, Whole, Inactive
<1>17. CASE StartMappers
  BY <1>17 DEF StartMappers, NewMappers, Staged, Torn, Pooled, Hosted, ShutdownOutlived, Whole, Inactive
<1>6. CASE ConfigureFails
  <2>1. TypeOK'
    <3>1. this_' \in BOOLEAN
      BY <1>6, Zenon DEF ConfigureFails
    <3>2. orb_' \in BOOLEAN /\ (orb_' => orb' \in {"up", "shut"}) /\ orb' \in {"none", "up", "shut", "gone"}
      BY <1>6 DEF ConfigureFails, DestroyOrb, Forgotten
    <3> QED
      BY <1>6, <3>1, <3>2 DEF ConfigureFails, DestroyRegistry
  <2>2. Staged'
    BY <1>6 DEF ConfigureFails, DestroyRegistry, DestroyOrb, Forgotten, Staged, Whole, Torn
  <2>3. Pooled'
    BY <1>6 DEF ConfigureFails, Pooled, Inactive
  <2>4. Hosted'
    BY <1>6 DEF ConfigureFails, Hosted, Interrupted
  <2>5. ShutdownOutlived'
    BY <1>6 DEF ConfigureFails, DestroyOrb, ShutdownOutlived, Hosted, Interrupted, Busy, Pooled, Inactive
  <2> QED
    BY <2>1, <2>2, <2>3, <2>4, <2>5
<1>7. CASE NoProxy
  BY <1>7 DEF NoProxy, Windows, Staged, Torn, Pooled, Hosted, ShutdownOutlived, Whole, Inactive
<1>8. CASE Publish
  BY <1>8 DEF Publish, Windows, Staged, Torn, Pooled, Hosted, ShutdownOutlived, Whole, Inactive
<1>9. CASE Activate
  BY <1>9 DEF Activate, Windows, Staged, Torn, Pooled, Hosted, ShutdownOutlived, Whole, Inactive
<1>10. CASE NoPidFile
  BY <1>10 DEF NoPidFile, Staged, Torn, Pooled, Hosted, ShutdownOutlived, Whole, Inactive
<1>11. CASE Join
  BY <1>11 DEF Join, AllDone, Staged, Torn, Pooled, Hosted, ShutdownOutlived, Whole, Inactive
<1>12. CASE Unpublish
  BY <1>12 DEF Unpublish, Staged, Torn, Pooled, Hosted, ShutdownOutlived, Whole, Inactive
<1>13. CASE Destroy
  <2>1. TypeOK'
    BY <1>13 DEF Destroy, DestroyRegistry
  <2>2. Staged'
    BY <1>13 DEF Destroy, DestroyRegistry, Staged, Whole, Torn
  <2>3. Pooled'
    BY <1>13 DEF Destroy, Pooled, Inactive
  <2>4. Hosted'
    BY <1>13 DEF Destroy, Hosted, Interrupted
  <2>5. ShutdownOutlived'
    BY <1>13 DEF Destroy, ShutdownOutlived, Hosted, Interrupted, Busy, Pooled, Inactive
  <2> QED
    BY <2>1, <2>2, <2>3, <2>4, <2>5
<1>14. CASE DestroyEnds
  <2>1. TypeOK'
    BY <1>14 DEF DestroyEnds, DestroyOrb, Forgotten
  <2>2. Staged'
    BY <1>14 DEF DestroyEnds, DestroyOrb, Forgotten, Staged, Whole, Torn
  <2>3. Pooled'
    BY <1>14 DEF DestroyEnds, Pooled, Inactive
  <2>4. Hosted'
    BY <1>14 DEF DestroyEnds, Hosted
  <2>5. ShutdownOutlived'
    BY <1>14 DEF DestroyEnds, DestroyOrb, ShutdownOutlived, Hosted, Interrupted, Busy, Pooled, Inactive
  <2> QED
    BY <2>1, <2>2, <2>3, <2>4, <2>5
<1>15. CASE Delete
  <2>1. TypeOK'
    BY <1>15 DEF Delete, DestroyRegistry, DestroyOrb, Forgotten, Staged
  <2>2. Staged'
    BY <1>15 DEF Delete, DestroyRegistry, DestroyOrb, Forgotten, Staged, Whole, Torn
  <2>3. Pooled'
    BY <1>15 DEF Delete, Pooled, Inactive
  <2>4. Hosted'
    BY <1>15 DEF Delete, Hosted
  <2>5. ShutdownOutlived'
    <3>1. orb' = orb
      BY <1>15 DEF Delete, DestroyOrb, Staged
    <3> QED
      BY <1>15, <3>1 DEF Delete, ShutdownOutlived
  <2> QED
    BY <2>1, <2>2, <2>3, <2>4, <2>5
<1>16. CASE Exit
  BY <1>16 DEF Exit, Staged, Torn, Pooled, Hosted, ShutdownOutlived, Whole, Inactive
<1> QED
  BY <1>1, <1>2, <1>3, <1>4, <1>5, <1>6, <1>7, <1>8, <1>9, <1>10, <1>11, <1>12, <1>13, <1>14, <1>15, <1>16, <1>17 DEF Load

\* The threads of the pool.
Serves(t) == Work(t) \/ Upcall(t) \/ Locks(t, "upcall") \/ Locks(t, "asking") \/ Answered(t)

\* What a step of a thread of the pool changes.
LEMMA ServesStep ==
    ASSUME TypeOK, NEW t \in Pool, Serves(t)
    PROVE  /\ ~Interrupted(t) /\ pool[t] \in {"starting", "running"} \cup Upcalls
           /\ UNCHANGED <<loaderVars, proxyVars, sweep, req>> /\ crashed' \in BOOLEAN
           /\ \E to \in {"running", "done"} \cup Upcalls :
                 pool' = [pool EXCEPT ![t] = to] /\ (to = "done" => orb = "shut")
<1>1. CASE Work(t)
  BY <1>1 DEF Work, Run, Becomes, RunOnce, Upcalls, TypeOK
<1>2. CASE Upcall(t)
  BY <1>2 DEF Upcall, Becomes, Upcalls, TypeOK
<1>3. CASE Locks(t, "upcall") \/ Locks(t, "asking")
  BY <1>3 DEF Locks, Becomes, Upcalls, TypeOK
<1>4. CASE Answered(t)
  BY <1>4 DEF Answered, Becomes, Upcalls, TypeOK
<1> QED
  BY <1>1, <1>2, <1>3, <1>4 DEF Serves

LEMMA WorkKeeps == IInv /\ (\E t \in Pool : Serves(t)) => IInv'
<1> SUFFICES ASSUME IInv, NEW t \in Pool, Serves(t) PROVE IInv'
  OBVIOUS
<1> USE LifeCycleAssumption DEF IInv, Safe, TypeOK, loaderVars, proxyVars, Upcalls
<1>1. PICK to \in {"running", "done"} \cup Upcalls : pool' = [pool EXCEPT ![t] = to]
  BY ServesStep
<1>u. /\ ~Interrupted(t) /\ pool[t] \in {"starting", "running"} \cup Upcalls
      /\ UNCHANGED <<loaderVars, proxyVars, sweep, req>> /\ crashed' \in BOOLEAN
  BY ServesStep
<1>2. TypeOK'
  BY <1>1, <1>u
<1>3. Staged'
  BY <1>1, <1>u DEF Staged, Torn
<1>4. Pooled'
  BY <1>1, <1>u DEF Pooled, Inactive
<1>5. Hosted'
  BY <1>1, <1>u DEF Hosted, Interrupted, Ended
<1>6. ShutdownOutlived'
  BY <1>1, <1>u DEF ShutdownOutlived
<1> QED
  BY <1>2, <1>3, <1>4, <1>5, <1>6

\* The collector.
LEMMA CollectKeeps == IInv /\ (SweepBegins \/ Pinged \/ Collect) => IInv'
<1> SUFFICES ASSUME IInv, SweepBegins \/ Pinged \/ Collect PROVE IInv'
  OBVIOUS
<1> USE LifeCycleAssumption DEF IInv, Safe, TypeOK, loaderVars, proxyVars
<1>1. /\ ~Interrupted(Collector) /\ sweep' \in {"waiting", "holding", "pinging", "ended"}
      /\ UNCHANGED <<loaderVars, proxyVars, pool, req, crashed>>
  BY DEF SweepBegins, Pinged, Collect, Sweeps
<1>2. TypeOK'
  BY <1>1
<1>3. Staged' /\ Pooled'
  BY <1>1 DEF Staged, Torn, Pooled
<1>4. Hosted'
  BY <1>1 DEF Hosted, Interrupted, Ended, Busy
<1>5. ShutdownOutlived'
  BY <1>1 DEF ShutdownOutlived
<1> QED
  BY <1>2, <1>3, <1>4, <1>5

\* The stops.
LEMMA StopKeeps ==
    ASSUME IInv, NEW s \in Stops, Stop(s) \/ \E t \in Pool \cup {Main, Collector, Other} : Arrive(s, t)
    PROVE  IInv'
<1> USE LifeCycleAssumption DEF IInv, Safe, TypeOK, loaderVars, proxyVars, threadVars, Ended, Upcalls
<1>1. ASSUME NEW t \in Pool \cup {Main, Collector, Other}, Arrive(s, t) PROVE IInv'
  <2>1. TypeOK'
    BY <1>1 DEF Arrive, Busy, Timely
  <2>2. Staged' /\ Pooled'
    BY <1>1 DEF Arrive, Staged, Torn, Pooled
  <2>3. Hosted'
    BY <1>1 DEF Arrive, Hosted, Hosts, Heard
  <2>4. ShutdownOutlived'
    BY <1>1 DEF Arrive, ShutdownOutlived
  <2> QED
    BY <2>1, <2>2, <2>3, <2>4
<1>2. CASE Check(s)
  <2>1. TypeOK'
    BY <1>2 DEF Check, Busy
  <2>2. Staged' /\ Pooled'
    BY <1>2 DEF Check, Staged, Torn, Pooled
  <2>3. Hosted'
    BY <1>2 DEF Check, Hosted, Busy
  <2>4. ShutdownOutlived'
    BY <1>2 DEF Check, ShutdownOutlived
  <2> QED
    BY <2>1, <2>2, <2>3, <2>4
<1>3. CASE shutdown(s)
  <2>1. TypeOK'
    BY <1>3 DEF shutdown, CanShutDown, Busy
  <2>2. Staged' /\ Pooled'
    BY <1>3 DEF shutdown, CanShutDown, Staged, Torn, Pooled
  <2>3. Hosted'
    BY <1>3 DEF shutdown, Hosted, Busy
  <2>4. ShutdownOutlived'
    BY <1>3 DEF shutdown, CanShutDown, ShutdownOutlived
  <2> QED
    BY <2>1, <2>2, <2>3, <2>4
<1>4. CASE Returns(s)
  <2>1. TypeOK'
    BY <1>4 DEF Returns, Busy
  <2>2. Staged' /\ Pooled'
    BY <1>4 DEF Returns, Staged, Torn, Pooled
  <2>3. Hosted'
    BY <1>4 DEF Returns, Hosted, Busy
  <2>4. ShutdownOutlived'
    BY <1>4 DEF Returns, ShutdownOutlived
  <2> QED
    BY <2>1, <2>2, <2>3, <2>4
<1> QED
  BY <1>1, <1>2, <1>3, <1>4 DEF Stop

LEMMA Steps == IInv /\ [Next]_vars => IInv'
<1> SUFFICES ASSUME IInv, [Next]_vars PROVE IInv'
  OBVIOUS
<1>1. CASE UNCHANGED vars
  BY <1>1 DEF vars, loaderVars, proxyVars, threadVars, IInv, Safe, TypeOK, Staged, Torn, Pooled, Hosted, Ended, ShutdownOutlived
<1> QED
  BY <1>1, LoadKeeps, WorkKeeps, CollectKeeps, StopKeeps DEF Next, Serves

\* Every variable keeps its type, and Proxy::orb_ refers to an ORB that has not
\* been destroyed.
THEOREM TypeCorrect == Spec => []TypeOK
<1>1. IInv => TypeOK
  BY DEF IInv
<1> QED
  BY <1>1, Initially, Steps, PTL DEF Spec

\* Whenever and however often it is stopped, the pool has ended, or was never
\* activated, before Proxy::destroy touches the mapper registry.
THEOREM NobodyServesTheDestroyed == Spec => []ServedWhileThere
<1>1. IInv => ServedWhileThere
  BY DEF IInv, Safe, TypeOK, MainPC, Staged, Pooled, Whole, Inactive, Torn, ServedWhileThere
<1> QED
  BY <1>1, Initially, Steps, PTL DEF Spec

\* The loader's destroy and the destructor's leave the registry and the ORB
\* destroyed once, also when configure throws half-way.
THEOREM DestructionOnce == Spec => []DestroyedOnce
<1>1. IInv => DestroyedOnce
  BY DEF IInv, Safe, TypeOK, MainPC, Staged, Whole, Torn, DestroyedOnce
<1> QED
  BY <1>1, Initially, Steps, PTL DEF Spec

\* On UNIX and as a service nobody destroys the ORB under a shutdown that has not
\* returned: the thread it runs on keeps the loader from getting there.
THEOREM OrbOutlivesShutdown == Spec => []ShutdownOutlived
<1>1. IInv => ShutdownOutlived
  BY DEF IInv, Safe
<1> QED
  BY <1>1, Initially, Steps, PTL DEF Spec

-----------------------------------------------------------------------------
(***************************************************************************)
(* What can crash the process.                                             *)
(***************************************************************************)
Come(s) == req[s].pc # "new"

\* The ORB is only shut down by a stop.
ShutBySome == orb = "shut" => \E s \in Stops : Come(s)

\* No two stops are both the first.
OneTimely ==
    \A s, q \in Stops : Come(s) /\ Come(q) /\ req[s].timely /\ req[q].timely => s = q

\* Once a timely stop has come no thread has still to run the ORB.
AllServe ==
    \A s \in Stops : Come(s) /\ req[s].timely =>
        \A t \in Pool : pool[t] \in {"running", "done"} \cup Upcalls

\* A timely stop finds what it needs, as long as it is the only one.
Unhindered ==
    \A s \in Stops :
        /\ req[s].pc \in {"check", "call"} /\ req[s].timely
        /\ \A q \in Stops : Come(q) => q = s
        => /\ main = "waiting" /\ orb = "up"
           /\ \A t \in Pool : pool[t] \in {"running"} \cup Upcalls
           /\ req[s].on \in Pool => pool[req[s].on] = "running"

Causes == ShutBySome /\ OneTimely /\ AllServe /\ Unhindered /\ TimelyIsSafe

LEMMA CausesInit == Init => Causes
BY DEF Init, Causes, ShutBySome, OneTimely, AllServe, Unhindered, TimelyIsSafe, Come

LEMMA CausesStep == IInv /\ Causes /\ [Next]_vars => Causes'
<1> SUFFICES ASSUME IInv, Causes, [Next]_vars PROVE Causes'
  OBVIOUS
<1> USE LifeCycleAssumption DEF IInv, TypeOK, Causes, Come, loaderVars, proxyVars, threadVars, Upcalls
<1>1. CASE Load
  <2>1. UNCHANGED <<mode, req>> /\ orb' \in {orb, "up", "gone"} /\ ~crashed
    BY <1>1 DEF Load, NewProxy, NoConfig, OrbInit, setup_shutdown_handler, StartMappers, Configured, ConfigureFails,
                NoProxy, Publish, Activate, NoPidFile, Join, Unpublish, Destroy, DestroyEnds, Delete,
                Exit, DestroyOrb, Go
  <2>2. \/ UNCHANGED pool
        \/ main \in {"configured", "published"} /\ pool' = [t \in Pool |-> "starting"]
    BY <1>1 DEF Load, NewProxy, NoConfig, OrbInit, setup_shutdown_handler, StartMappers, Configured, ConfigureFails,
                NoProxy, Publish, Activate, Go, NoPidFile, Join, Unpublish, Destroy, DestroyEnds, Delete,
                Exit
  <2>3. main = "waiting" => AllDone /\ main' = "joined" /\ orb' = orb
    BY <1>1 DEF Load, NewProxy, NoConfig, OrbInit, setup_shutdown_handler, StartMappers, Configured, ConfigureFails,
                NoProxy, Publish, Activate, Go, NoPidFile, Join, Unpublish, Destroy, DestroyEnds, Delete,
                Exit
  <2>4. crashed' => main' = "exited" /\ mode # "unix"
    <3>1. CASE NoProxy
      BY <3>1, Zenon DEF NoProxy, Windows, Go
    <3>2. CASE ~NoProxy
      <4>1. ~crashed /\ crashed' = crashed
        BY <1>1, <3>2 DEF Load, NewProxy, NoConfig, OrbInit, setup_shutdown_handler, StartMappers, Configured,
             ConfigureFails, Publish, Activate, Go, NoPidFile, Join, Unpublish, Destroy, DestroyEnds,
             Delete, Exit
      <4> QED
        BY <4>1
    <3> QED
      BY <3>1, <3>2
  <2>6. ShutBySome' /\ OneTimely'
    BY <2>1 DEF ShutBySome, OneTimely
  <2>7. AllServe'
    BY <2>1, <2>2 DEF AllServe, Safe, Pooled, Inactive
  <2>8. Unhindered'
    BY <2>1, <2>2, <2>3 DEF Unhindered, AllDone
  <2>9. TimelyIsSafe'
    BY <2>1, <2>4 DEF TimelyIsSafe, Windows
  <2> QED
    BY <2>6, <2>7, <2>8, <2>9
<1>2. ASSUME NEW t \in Pool, Serves(t) PROVE Causes'
  <2>1. UNCHANGED <<mode, main, orb, req>> /\ ~Interrupted(t)
    BY <1>2, ServesStep
  <2>2. PICK to \in {"running", "done"} \cup Upcalls :
          /\ pool' = [pool EXCEPT ![t] = to]
          /\ to = "done" => orb = "shut"
    BY <1>2, ServesStep
  <2>s. pool[t] \in {"starting", "running"} \cup Upcalls
    BY <1>2, ServesStep
  <2>3. crashed' => crashed \/ (orb # "up" /\ pool[t] = "starting")
    <3>1. CASE Run(t)
      <4>1. pool[t] = "starting" /\ crashed' = (orb # "up")
        BY <3>1 DEF Run, Becomes
      <4> QED
        BY <4>1
    <3>2. CASE ~Run(t)
      BY <1>2, <3>2 DEF Serves, Work, Upcall, Locks, Answered
    <3> QED
      BY <3>1, <3>2
  <2>4. ShutBySome' /\ OneTimely'
    BY <2>1 DEF ShutBySome, OneTimely
  <2>5. AllServe'
    BY <2>1, <2>2 DEF AllServe
  <2>6. Unhindered'
    BY <2>1, <2>2 DEF Unhindered, Interrupted, Busy
  <2>7. TimelyIsSafe'
    <3>1. pool[t] # "unborn" => main = "waiting" \/ pool[t] = "done"
      BY DEF Safe, Pooled, Inactive
    <3>2. orb # "up" /\ pool[t] = "starting" => orb = "shut"
      BY <3>1 DEF Safe, Staged, Whole
    <3>3. orb # "up" /\ pool[t] = "starting" => \E s \in Stops : Come(s) /\ ~req[s].timely
      BY <3>2 DEF ShutBySome, AllServe
    <3> QED
      BY <2>1, <2>3, <3>3 DEF TimelyIsSafe, Windows
  <2> QED
    BY <2>4, <2>5, <2>6, <2>7
<1>3. ASSUME NEW s \in Stops, NEW t \in Pool \cup {Main, Collector, Other}, Arrive(s, t) PROVE Causes'
  <2>1. /\ UNCHANGED <<mode, main, pool, orb, crashed>> /\ ~crashed /\ ~Come(s)
        /\ req' = [req EXCEPT ![s] = [pc |-> "check", on |-> t, timely |-> Timely(t)]]
    BY <1>3 DEF Arrive, Alive
  <2>2. Timely(t) => /\ \A q \in Stops : ~Come(q)
                     /\ main = "waiting" /\ \A u \in Pool : pool[u] \in {"running"} \cup Upcalls
                     /\ t \in Pool => pool[t] = "running"
    BY DEF Timely
  <2>3. orb # "up" /\ main = "waiting" => orb = "shut"
    BY DEF Safe, Staged, Whole
  <2>4. /\ req'[s].pc = "check" /\ req'[s].on = t /\ req'[s].timely = Timely(t)
        /\ \A q \in Stops \ {s} : req'[q] = req[q]
    BY <2>1
  <2>5. ShutBySome' /\ TimelyIsSafe'
    BY <2>1, <2>4 DEF ShutBySome, TimelyIsSafe
  <2>6. OneTimely' /\ AllServe'
    BY <2>1, <2>2, <2>4 DEF OneTimely, AllServe
  <2>7. Unhindered'
    BY <2>1, <2>2, <2>3, <2>4 DEF Unhindered, ShutBySome
  <2> QED
    BY <2>5, <2>6, <2>7
<1>4. ASSUME NEW s \in Stops, Stop(s) PROVE Causes'
  <2>1. /\ UNCHANGED <<mode, main, pool>> /\ ~crashed /\ Come(s)
        /\ req'[s].pc # "new" /\ req'[s].on = req[s].on /\ req'[s].timely = req[s].timely
        /\ \A q \in Stops \ {s} : req'[q] = req[q]
    BY <1>4 DEF Stop, Check, shutdown, Returns, Alive
  <2>2. \A q \in Stops : Come(q)' = Come(q) /\ req'[q].timely = req[q].timely
    BY <2>1
  <2>3. ShutBySome'
    BY <2>1
    DEF ShutBySome
  <2>4. OneTimely' /\ AllServe'
    BY <2>1, <2>2 DEF OneTimely, AllServe
  <2>5. Unhindered'
    <3>1. req'[s].pc \in {"check", "call"} => orb' = orb /\ req[s].pc \in {"check", "call"}
      BY <1>4 DEF Stop, Check, shutdown, Returns
    <3> QED
      BY <2>1, <3>1 DEF Unhindered
  <2>6. TimelyIsSafe'
    <3>1. crashed' => \/ req[s].pc = "call" /\ ~CanShutDown(s)
                      \/ mode = "standalone" /\ orb = "gone" /\ orb' = orb
      <4>1. CASE Returns(s)
        <5>1. req[s].pc = "inside" /\ orb' = orb /\ (crashed' => orb = "gone")
          BY <4>1 DEF Returns
        <5>2. orb = "gone" => mode = "standalone"
          BY <5>1 DEF Safe, ShutdownOutlived
        <5> QED
          BY <5>1, <5>2
      <4>2. CASE ~Returns(s)
        BY <1>4, <2>1, <4>2 DEF Stop, Check, shutdown
      <4> QED
        BY <4>1, <4>2
    <3>2. ASSUME req[s].pc = "call", ~CanShutDown(s), req[s].timely
          PROVE  \E q \in Stops : Come(q) /\ ~req[q].timely
      <4>1. main = "waiting" => object = "live" /\ orb_
        BY DEF Safe, Staged, Whole
      <4>2. \E q \in Stops : Come(q) /\ q # s
        BY <3>2, <4>1 DEF Unhindered, CanShutDown
      <4> QED
        BY <2>1, <3>2, <4>2 DEF OneTimely
    <3> QED
      BY <2>1, <2>2, <3>1, <3>2 DEF TimelyIsSafe
  <2> QED
    BY <2>3, <2>4, <2>5, <2>6
<1>6. CASE SweepBegins \/ Pinged \/ Collect
  <2>1. UNCHANGED <<mode, main, orb, pool, req, crashed>>
    BY <1>6 DEF SweepBegins, Pinged, Collect, Sweeps
  <2> QED
    BY <2>1 DEF ShutBySome, OneTimely, AllServe, Unhindered, TimelyIsSafe, Windows
<1>5. CASE UNCHANGED vars
  BY <1>5 DEF vars, ShutBySome, OneTimely, AllServe, Unhindered, TimelyIsSafe, Windows
<1> QED
  BY <1>1, <1>2, <1>3, <1>4, <1>5, <1>6 DEF Next, Serves

\* With any number of threads and stops, a crash of the process has one of the
\* named causes: a stop that comes while every thread serves, first and on none
\* that is in an upcall, finds the proxy, its ORB and nobody who would run an
\* ORB that is shut down, and on UNIX and as a service its shutdown returns before
\* the ORB goes; only in a Windows application it may not.
THEOREM TimelyStopsAreSafe == Spec => []TimelyIsSafe
<1>1. Causes => TimelyIsSafe
  BY DEF Causes
<1> QED
  BY <1>1, Initially, Steps, CausesInit, CausesStep, PTL DEF Spec
=============================================================================
