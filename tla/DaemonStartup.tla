---------------------------- MODULE DaemonStartup ----------------------------
(***************************************************************************)
(* run_daemon, from its first line to its last, as several processes of    *)
(* one user run it: `tassh daemon` started by systemd, started again by    *)
(* hand, killed, restarted.  They share two files, the IPC socket and      *)
(* ~/.tassh/display, and no lock.                                          *)
(*                                                                         *)
(* The display is abstracted to the process that published it; its own     *)
(* life is XvfbLifecycle.                                                  *)
(***************************************************************************)
EXTENDS Naturals

CONSTANTS
    Daemon,   \* processes
    Nobody,   \* no file
    Overlap   \* may a daemon start while another one is starting?

ASSUME DaemonsAssumption == Nobody \notin Daemon /\ Overlap \in BOOLEAN

VARIABLES
    stage,    \* how far each process is in run_daemon
    socket,   \* the process whose listener the socket path names
    display   \* the process whose display ~/.tassh/display names

vars == <<stage, socket, display>>

Starting == {"started", "checking", "clearing", "initDisplay", "binding"}

\* The listener is open from bind to the return of run_daemon.
Listening == {"serving", "stopping", "removing"}

\* "alreadyRunning", "noDisplay" and "bindFailed" are errors about to be returned.
Stage == Starting \cup Listening
         \cup {"down", "alreadyRunning", "noDisplay", "bindFailed"}

TypeOK ==
    /\ stage \in [Daemon -> Stage]
    /\ socket \in Daemon \cup {Nobody}
    /\ display \in Daemon \cup {Nobody}

Enter(p, s) == stage' = [stage EXCEPT ![p] = s]

-----------------------------------------------------------------------------
(* Start-up *)

Start(p) ==
    /\ stage[p] = "down"
    /\ Overlap \/ \A q \in Daemon : stage[q] \notin Starting
    /\ Enter(p, "started")
    /\ UNCHANGED <<socket, display>>

\* "Drop stale exported display from previous runs", before anything is checked.
DropDisplayFile(p) ==
    /\ stage[p] = "started"
    /\ display' = Nobody
    /\ Enter(p, "checking")
    /\ UNCHANGED socket

\* Somebody accepts on the socket path.
Answered == socket # Nobody /\ stage[socket] \in Listening

AlreadyRunning(p) ==
    /\ stage[p] = "checking"
    /\ Answered
    /\ Enter(p, "alreadyRunning")
    /\ UNCHANGED <<socket, display>>

\* Variant: takes the socket over from whoever answers.
NotRunningUnchecked(p) ==
    /\ stage[p] = "checking"
    /\ Enter(p, "clearing")
    /\ UNCHANGED <<socket, display>>

NotRunning(p) ==
    /\ stage[p] = "checking"
    /\ ~Answered
    /\ Enter(p, "clearing")
    /\ UNCHANGED <<socket, display>>

\* Variant: a socket file that a crash left behind stays.
KeepStaleSocket(p) ==
    /\ stage[p] = "clearing"
    /\ Enter(p, "initDisplay")
    /\ UNCHANGED <<socket, display>>

\* "Remove stale socket from previous crash": by path, whoever is bound to it now.
RemoveStaleSocket(p) ==
    /\ stage[p] = "clearing"
    /\ socket' = Nobody
    /\ Enter(p, "initDisplay")
    /\ UNCHANGED display

\* DisplayManager::detect_and_init(true): seconds, not microseconds.
InitDisplay(p) ==
    /\ stage[p] = "initDisplay"
    /\ \/ display' = p /\ Enter(p, "binding")
       \/ Enter(p, "noDisplay") /\ UNCHANGED display
    /\ UNCHANGED socket

\* UnixListener::bind fails when the path exists.
Bind(p) ==
    /\ stage[p] = "binding"
    /\ \/ /\ socket = Nobody
          /\ socket' = p
          /\ Enter(p, "serving")
       \/ /\ socket # Nobody
          /\ Enter(p, "bindFailed")
          /\ UNCHANGED socket
    /\ UNCHANGED display

\* Variant: a failed start cleans up like a shutdown.
FailRemovesSocket(p) ==
    /\ stage[p] \in {"alreadyRunning", "noDisplay", "bindFailed"}
    /\ Enter(p, "down")
    /\ socket' = Nobody
    /\ UNCHANGED display

\* A failed start returns the error and leaves the files, its Xvfb included.
Fail(p) ==
    /\ stage[p] \in {"alreadyRunning", "noDisplay", "bindFailed"}
    /\ Enter(p, "down")
    /\ UNCHANGED <<socket, display>>

-----------------------------------------------------------------------------
(* Shutdown and crash *)

Terminate(p) ==
    /\ stage[p] = "serving"
    /\ Enter(p, "stopping")
    /\ UNCHANGED <<socket, display>>

\* DisplayManager::shutdown removes the display file, or times out.
ShutDownDisplay(p) ==
    /\ stage[p] = "stopping"
    /\ display' \in {display, Nobody}
    /\ Enter(p, "removing")
    /\ UNCHANGED socket

\* The last statement removes the socket file, by path, and the process ends.
RemoveSocket(p) ==
    /\ stage[p] = "removing"
    /\ socket' = Nobody
    /\ Enter(p, "down")
    /\ UNCHANGED display

\* SIGKILL, a panic, a power cut: no file is removed.
Crash(p) ==
    /\ stage[p] # "down"
    /\ Enter(p, "down")
    /\ UNCHANGED <<socket, display>>

-----------------------------------------------------------------------------
(* Specification *)

\* Files of an earlier run may be there; its processes are not.
Init ==
    /\ stage = [p \in Daemon |-> "down"]
    /\ socket \in Daemon \cup {Nobody}
    /\ display \in Daemon \cup {Nobody}

StartUp(p) ==
    \/ DropDisplayFile(p)
    \/ AlreadyRunning(p)
    \/ NotRunning(p)
    \/ RemoveStaleSocket(p)
    \/ InitDisplay(p)
    \/ Bind(p)
    \/ Fail(p)

ShutDown(p) ==
    \/ ShutDownDisplay(p)
    \/ RemoveSocket(p)

Next ==
    \E p \in Daemon :
        \/ StartUp(p)
        \/ ShutDown(p)
        \/ Start(p)
        \/ Terminate(p)
        \/ Crash(p)

Spec == Init /\ [][Next]_vars

\* A process that runs gets on with run_daemon.
FairSpec == Spec /\ \A p \in Daemon : WF_vars(StartUp(p)) /\ WF_vars(ShutDown(p))

-----------------------------------------------------------------------------
(* Properties *)

\* One daemon at a time listens (the single-instance check).  Start-ups that do
\* not overlap are assumed: between check, removal and bind nothing is locked.
OneDaemon ==
    \A p, q \in Daemon :
        stage[p] \in Listening /\ stage[q] \in Listening => p = q

\* A daemon that listens can be reached by notify and status: no other start,
\* failure, shutdown or crash takes its socket file away.
ListenerIsReachable == \A p \in Daemon : stage[p] \in Listening => socket = p

\* A daemon that starts while no other runs comes up, whatever an earlier crash has
\* left behind, unless it has no display or is killed: it is never refused because
\* of a file.
RestartServes ==
    \A p \in Daemon :
        []([](\A q \in Daemon \ {p} : stage[q] = "down") /\ stage[p] = "started"
             => /\ <>(stage[p] \in {"serving", "noDisplay", "down"})
                /\ [](stage[p] \notin {"alreadyRunning", "bindFailed"}))

\* The display a start-up removes is "stale", left by a "previous run".
DropsOnlyStaleDisplay ==
    [][\A p \in Daemon :
         (stage[p] = "started" /\ display # Nobody /\ display' = Nobody)
           => stage[display] \notin Listening]_vars
=============================================================================
