------------------------- MODULE DaemonStartupProofs -------------------------
(***************************************************************************)
(* For any number of processes: as long as start-ups do not overlap, one   *)
(* daemon at a time listens, and its socket file is never taken away.      *)
(*                                                                         *)
(* The run checks two invariants that are not inductive by themselves.     *)
(* What makes them so is the exclusion that the check at the start buys:   *)
(* whoever is past it and has not bound yet knows that nobody listens.     *)
(***************************************************************************)
EXTENDS DaemonStartup, TLAPS

\* Past the check, not listening yet.
PastCheck == {"clearing", "initDisplay", "binding"}

Exclusive ==
    /\ \A p, q \in Daemon : stage[p] \in Starting /\ stage[q] \in Starting => p = q
    /\ \A p, q \in Daemon : stage[p] \in PastCheck => stage[q] \notin Listening

IInv == TypeOK /\ Exclusive /\ ListenerIsReachable

\* What the files and stages hold is what TypeOK says, overlapping or not: every
\* process is at one of the listed points of run_daemon.
THEOREM StartupTyped == Spec => []TypeOK
<1>1. Init => TypeOK
  BY DEF Init, TypeOK, Stage
<1>2. TypeOK /\ [Next]_vars => TypeOK'
  <2> SUFFICES ASSUME TypeOK, [Next]_vars PROVE TypeOK'
    OBVIOUS
  <2> USE DEF TypeOK, Stage, Starting, Listening, Enter
  <2>1. CASE UNCHANGED vars
    BY <2>1 DEF vars
  <2>2. ASSUME NEW p \in Daemon, StartUp(p) PROVE TypeOK'
    BY <2>2 DEF StartUp, DropDisplayFile, AlreadyRunning, NotRunning,
                RemoveStaleSocket, InitDisplay, Bind, Fail
  <2>3. ASSUME NEW p \in Daemon, ShutDown(p) PROVE TypeOK'
    BY <2>3 DEF ShutDown, ShutDownDisplay, RemoveSocket
  <2>4. ASSUME NEW p \in Daemon, Start(p) \/ Terminate(p) \/ Crash(p) PROVE TypeOK'
    BY <2>4 DEF Start, Terminate, Crash
  <2> QED
    BY <2>1, <2>2, <2>3, <2>4 DEF Next
<1> QED
  BY <1>1, <1>2, PTL DEF Spec

-----------------------------------------------------------------------------

\* No process has started.
LEMMA ExclusionInit == Init => IInv
<1> SUFFICES ASSUME Init PROVE IInv
  OBVIOUS
<1>1. \A p \in Daemon : stage[p] = "down"
  BY DEF Init
<1>2. "down" \notin Starting \cup PastCheck \cup Listening
  BY DEF Starting, PastCheck, Listening
<1> QED
  BY <1>1, <1>2 DEF Init, IInv, TypeOK, Stage, Exclusive, ListenerIsReachable

\* A process moves to a stage that claims nothing and leaves the socket alone.
LEMMA ExclusionKept ==
    ASSUME IInv, NEW p \in Daemon, NEW s \in Stage, Enter(p, s), UNCHANGED socket,
           s \in Starting => stage[p] \in Starting,
           s \in PastCheck => stage[p] \in PastCheck,
           s \in Listening => stage[p] \in Listening
    PROVE  Exclusive' /\ ListenerIsReachable'
<1>1. \A q \in Daemon : stage'[q] = IF q = p THEN s ELSE stage[q]
  BY DEF IInv, TypeOK, Enter
<1>2. \A q \in Daemon : /\ stage'[q] \in Starting => stage[q] \in Starting
                        /\ stage'[q] \in PastCheck => stage[q] \in PastCheck
                        /\ stage'[q] \in Listening => stage[q] \in Listening
  BY <1>1
<1> QED
  BY <1>2 DEF IInv, Exclusive, ListenerIsReachable

\* Every step of every process keeps start-ups apart.
LEMMA ExclusionStep ==
    ASSUME ~Overlap, IInv, TypeOK', [Next]_vars
    PROVE  IInv'
<1> SUFFICES Exclusive' /\ ListenerIsReachable'
  BY DEF IInv
<1> USE DEF Starting, PastCheck, Listening, Stage
<1>1. CASE UNCHANGED vars
  BY <1>1 DEF IInv, Exclusive, ListenerIsReachable, vars
<1>2. ASSUME NEW p \in Daemon, Start(p) PROVE Exclusive' /\ ListenerIsReachable'
  <2>1. \A q \in Daemon : stage'[q] = IF q = p THEN "started" ELSE stage[q]
    BY <1>2 DEF IInv, TypeOK, Enter, Start
  <2>2. \A q \in Daemon : stage[q] \notin Starting
    BY <1>2 DEF Start
  <2> QED
    BY <1>2, <2>1, <2>2 DEF Start, IInv, Exclusive, ListenerIsReachable
<1>3. ASSUME NEW p \in Daemon, DropDisplayFile(p) PROVE Exclusive' /\ ListenerIsReachable'
  BY <1>3, ExclusionKept DEF DropDisplayFile
<1>4. ASSUME NEW p \in Daemon, AlreadyRunning(p) PROVE Exclusive' /\ ListenerIsReachable'
  BY <1>4, ExclusionKept DEF AlreadyRunning
<1>5. ASSUME NEW p \in Daemon, NotRunning(p) PROVE Exclusive' /\ ListenerIsReachable'
  <2>1. \A q \in Daemon : stage'[q] = IF q = p THEN "clearing" ELSE stage[q]
    BY <1>5 DEF IInv, TypeOK, Enter, NotRunning
  <2>2. \A q \in Daemon : stage[q] \notin Listening
    \* Who listens owns the socket, so the connect would have succeeded.
    BY <1>5, DaemonsAssumption DEF NotRunning, Answered, IInv, ListenerIsReachable
  <2>3. UNCHANGED socket /\ stage[p] \in Starting
    BY <1>5 DEF NotRunning
  <2> QED
    BY <2>1, <2>2, <2>3 DEF IInv, Exclusive, ListenerIsReachable
<1>6. ASSUME NEW p \in Daemon, RemoveStaleSocket(p) PROVE Exclusive' /\ ListenerIsReachable'
  <2>1. \A q \in Daemon : stage'[q] = IF q = p THEN "initDisplay" ELSE stage[q]
    BY <1>6 DEF IInv, TypeOK, Enter, RemoveStaleSocket
  <2>2. stage[p] \in PastCheck \cap Starting
    BY <1>6 DEF RemoveStaleSocket
  <2>3. \A q \in Daemon : stage[q] \notin Listening
    BY <2>2 DEF IInv, Exclusive
  <2> QED
    BY <2>1, <2>2, <2>3 DEF IInv, Exclusive, ListenerIsReachable
<1>7. ASSUME NEW p \in Daemon, InitDisplay(p) PROVE Exclusive' /\ ListenerIsReachable'
  BY <1>7, ExclusionKept DEF InitDisplay
<1>8. ASSUME NEW p \in Daemon, Bind(p) PROVE Exclusive' /\ ListenerIsReachable'
  <2>1. stage[p] = "binding"
    BY <1>8 DEF Bind
  <2>2. CASE Enter(p, "bindFailed") /\ UNCHANGED socket
    BY <2>1, <2>2, ExclusionKept
  <2>3. CASE Enter(p, "serving") /\ socket' = p
    <3>1. \A q \in Daemon : stage'[q] = IF q = p THEN "serving" ELSE stage[q]
      BY <2>3 DEF IInv, TypeOK, Enter
    <3>2. \A q \in Daemon : stage[q] \notin Listening
      BY <2>1 DEF IInv, Exclusive
    <3>3. \A q \in Daemon \ {p} : stage[q] \notin Starting
      BY <2>1 DEF IInv, Exclusive
    <3> QED
      BY <2>3, <3>1, <3>2, <3>3 DEF IInv, Exclusive, ListenerIsReachable
  <2> QED
    BY <1>8, <2>2, <2>3 DEF Bind
<1>9. ASSUME NEW p \in Daemon, Fail(p) PROVE Exclusive' /\ ListenerIsReachable'
  BY <1>9, ExclusionKept DEF Fail
<1>10. ASSUME NEW p \in Daemon, Terminate(p) PROVE Exclusive' /\ ListenerIsReachable'
  BY <1>10, ExclusionKept DEF Terminate
<1>11. ASSUME NEW p \in Daemon, ShutDownDisplay(p) PROVE Exclusive' /\ ListenerIsReachable'
  BY <1>11, ExclusionKept DEF ShutDownDisplay
<1>12. ASSUME NEW p \in Daemon, RemoveSocket(p) PROVE Exclusive' /\ ListenerIsReachable'
  <2>1. \A q \in Daemon : stage'[q] = IF q = p THEN "down" ELSE stage[q]
    BY <1>12 DEF IInv, TypeOK, Enter, RemoveSocket
  <2>2. \A q \in Daemon \ {p} : stage[q] \notin Listening
    \* Both would own the one socket.
    BY <1>12 DEF RemoveSocket, IInv, ListenerIsReachable
  <2> QED
    BY <2>1, <2>2 DEF IInv, Exclusive, ListenerIsReachable
<1>13. ASSUME NEW p \in Daemon, Crash(p) PROVE Exclusive' /\ ListenerIsReachable'
  BY <1>13, ExclusionKept DEF Crash
<1> QED
  BY <1>1, <1>2, <1>3, <1>4, <1>5, <1>6, <1>7, <1>8, <1>9, <1>10, <1>11, <1>12, <1>13
     DEF Next, StartUp, ShutDown

\* The invariant behind both theorems.
LEMMA ExclusionAlways == ASSUME ~Overlap PROVE Spec => []IInv
<1>1. IInv /\ TypeOK' /\ [Next]_vars => IInv'
  BY ExclusionStep
<1> QED
  BY <1>1, ExclusionInit, StartupTyped, PTL DEF Spec

\* run_daemon: nothing that another start, failure, shutdown or crash does makes a
\* daemon that listens unreachable, if start-ups do not overlap.
THEOREM SocketIsKept == ASSUME ~Overlap PROVE Spec => []ListenerIsReachable
BY ExclusionAlways, PTL DEF IInv

\* run_daemon: the connect to the socket path is a sound single-instance check, if
\* start-ups do not overlap.
THEOREM SingleInstance == ASSUME ~Overlap PROVE Spec => []OneDaemon
<1>1. IInv => OneDaemon
  BY DEF IInv, ListenerIsReachable, OneDaemon
<1> QED
  BY <1>1, ExclusionAlways, PTL
=============================================================================
