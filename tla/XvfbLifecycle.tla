---------------------------- MODULE XvfbLifecycle ----------------------------
(***************************************************************************)
(* DisplayManager (display.rs): the Xvfb server one daemon runs, the file  *)
(* ~/.tassh/display that names it to SSH sessions, the task that restarts  *)
(* it, and the shutdown that should kill it.  The daemon always takes the  *)
(* headless path (force_xvfb = true).                                      *)
(*                                                                         *)
(* The child handle sits behind a mutex, which the monitor holds while it  *)
(* waits for the child to exit: monitor = "waiting" is "the mutex is held".*)
(***************************************************************************)
EXTENDS Naturals

CONSTANTS
    Display,      \* display numbers Xvfb may come up on
    NoDisplay,    \* no display file
    MaxAttempts   \* MAX_ATTEMPTS of monitor_xvfb

ASSUME DisplaysAssumption == NoDisplay \notin Display
ASSUME AttemptsAssumption == MaxAttempts \in Nat \ {0}

VARIABLES
    main,       \* the daemon's main task
    monitor,    \* the monitor_xvfb task
    handle,     \* the child behind the mutex (NoChild: None, or dropped)
    fresh,      \* a child spawn_xvfb has returned and nobody has stored
    attempts,   \* the counter of monitor_xvfb
    failures,   \* respawns that have failed since one succeeded
    file,       \* the display ~/.tassh/display names
    published   \* the last publish_display succeeded

vars == <<main, monitor, handle, fresh, attempts, failures, file, published>>

\* A child process: the display it serves, and whether it still runs.
Child == [display : Display, up : BOOLEAN]
NoChild == [display |-> NoDisplay, up |-> FALSE]

\* The last three are the ends of the process.
Main == {"spawning", "publishing", "serving", "stopping", "unlinking",
         "stopped", "failed", "gaveUp"}
Ended == {"stopped", "failed", "gaveUp"}

Monitor == {"notStarted", "locking", "waiting", "backoff", "publishing",
            "storing", "gone", "waitFailed"}

TypeOK ==
    /\ main \in Main
    /\ monitor \in Monitor
    /\ handle \in Child \cup {NoChild}
    /\ fresh \in Child \cup {NoChild}
    /\ attempts \in 0 .. MaxAttempts - 1
    /\ failures \in 0 .. MaxAttempts - 1
    /\ file \in Display \cup {NoDisplay}
    /\ published \in BOOLEAN

Alive == main \notin Ended

-----------------------------------------------------------------------------
(* spawn_xvfb and publish_display *)

\* Xvfb chooses a free display and writes its number to the -displayfd pipe.  An
\* Xvfb that exits before it does so ends the read, and the spawn fails.
SpawnXvfb == \E d \in Display : fresh' = [display |-> d, up |-> TRUE]

PublishDisplay == file' = fresh.display /\ published' = TRUE

\* A write that fails may have truncated the file.
PublishFails == file' \in {file, NoDisplay} /\ published' = FALSE

-----------------------------------------------------------------------------
(* detect_and_init *)

FirstSpawn ==
    /\ main = "spawning"
    /\ \/ /\ SpawnXvfb
          /\ main' = "publishing"
       \/ /\ main' = "failed"
          /\ UNCHANGED fresh
    /\ UNCHANGED <<monitor, handle, attempts, failures, file, published>>

\* A failed write fails the start, and the child is dropped without being killed.
FirstPublish ==
    /\ main = "publishing"
    /\ \/ /\ PublishDisplay
          /\ handle' = fresh
          /\ fresh' = NoChild
          /\ monitor' = "locking"
          /\ main' = "serving"
       \/ /\ PublishFails
          /\ main' = "failed"
          /\ UNCHANGED <<monitor, handle, fresh>>
    /\ UNCHANGED <<attempts, failures>>

-----------------------------------------------------------------------------
(* The world *)

\* Xvfb exits: it crashes, or something else kills it.
XvfbExits ==
    /\ \/ handle.up /\ handle' = [handle EXCEPT !.up = FALSE] /\ UNCHANGED fresh
       \/ fresh.up /\ fresh' = [fresh EXCEPT !.up = FALSE] /\ UNCHANGED handle
    /\ UNCHANGED <<main, monitor, attempts, failures, file, published>>

\* SIGTERM or Ctrl-C.
Terminate ==
    /\ main = "serving"
    /\ main' = "stopping"
    /\ UNCHANGED <<monitor, handle, fresh, attempts, failures, file, published>>

-----------------------------------------------------------------------------
(* monitor_xvfb *)

\* lock().await: shutdown may have taken the child.
MonitorLocks ==
    /\ Alive
    /\ monitor = "locking"
    /\ monitor' = IF handle = NoChild THEN "gone" ELSE "waiting"
    /\ UNCHANGED <<main, handle, fresh, attempts, failures, file, published>>

\* Variant: one attempt too many.
MonitorReapsOnceMore ==
    /\ Alive
    /\ monitor = "waiting"
    /\ ~handle.up
    /\ \/ attempts + 1 > MaxAttempts /\ main' = "gaveUp" /\ UNCHANGED <<monitor, attempts>>
       \/ attempts + 1 <= MaxAttempts /\ monitor' = "backoff" /\ attempts' = attempts + 1
          /\ UNCHANGED main
    /\ UNCHANGED <<handle, fresh, failures, file, published>>

\* wait() returns (at once when the child has been reaped before) and the mutex
\* is released; std::process::exit(1) runs no destructor and removes no file.
MonitorReaps ==
    /\ Alive
    /\ monitor = "waiting"
    /\ ~handle.up
    /\ \/ /\ attempts + 1 >= MaxAttempts
          /\ main' = "gaveUp"
          /\ UNCHANGED <<monitor, attempts>>
       \/ /\ attempts + 1 < MaxAttempts
          /\ monitor' = "backoff"
          /\ attempts' = attempts + 1
          /\ UNCHANGED main
    /\ UNCHANGED <<handle, fresh, failures, file, published>>

\* Variant: a failed wait is taken for an exit.
WaitFailsRetries ==
    /\ Alive
    /\ monitor = "waiting"
    /\ monitor' = "backoff"
    /\ UNCHANGED <<main, handle, fresh, attempts, failures, file, published>>

\* wait() itself fails: the task ends.
WaitFails ==
    /\ Alive
    /\ monitor = "waiting"
    /\ monitor' = "waitFailed"
    /\ UNCHANGED <<main, handle, fresh, attempts, failures, file, published>>

\* Variant: the first failed respawn ends the task.
RespawnFailsForGood ==
    /\ Alive
    /\ monitor = "backoff"
    /\ monitor' = "gone"
    /\ failures' = failures + 1
    /\ UNCHANGED <<main, handle, fresh, attempts, file, published>>

\* The backoff is over and spawn_xvfb fails; the handle keeps the dead child.
RespawnFails ==
    /\ Alive
    /\ monitor = "backoff"
    /\ monitor' = "locking"
    /\ failures' = failures + 1
    /\ UNCHANGED <<main, handle, fresh, attempts, file, published>>

\* Variant: the file is written at start-up only.
RespawnKeepsFile ==
    /\ Alive
    /\ monitor = "backoff"
    /\ SpawnXvfb
    /\ monitor' = "storing"
    /\ failures' = 0
    /\ UNCHANGED <<main, handle, attempts, file, published>>

\* ... or succeeds, on any display.
Respawn ==
    /\ Alive
    /\ monitor = "backoff"
    /\ SpawnXvfb
    /\ monitor' = "publishing"
    /\ failures' = 0
    /\ UNCHANGED <<main, handle, attempts, file, published>>

\* A failed publish_display is only logged.
Republish ==
    /\ Alive
    /\ monitor = "publishing"
    /\ monitor' = "storing"
    /\ PublishDisplay \/ PublishFails
    /\ UNCHANGED <<main, handle, fresh, attempts, failures>>

\* Variant: the counter is never reset.
StoreChildKeepsCount ==
    /\ Alive
    /\ monitor = "storing"
    /\ monitor' = "locking"
    /\ handle' = fresh
    /\ fresh' = NoChild
    /\ UNCHANGED <<main, attempts, failures, file, published>>

StoreChild ==
    /\ Alive
    /\ monitor = "storing"
    /\ monitor' = "locking"
    /\ handle' = fresh
    /\ fresh' = NoChild
    /\ attempts' = 0
    /\ UNCHANGED <<main, failures, file, published>>

-----------------------------------------------------------------------------
(* shutdown, under the 2 s timeout of run_daemon *)

\* The mutex is free: take the child, kill it, release the mutex.
ShutdownKills ==
    /\ main = "stopping"
    /\ monitor # "waiting"
    /\ main' = "unlinking"
    /\ handle' = NoChild
    /\ UNCHANGED <<monitor, fresh, attempts, failures, file, published>>

\* Remove the display file and let the process end.
ShutdownUnlinks ==
    /\ main = "unlinking"
    /\ main' = "stopped"
    /\ file' = NoDisplay
    /\ UNCHANGED <<monitor, handle, fresh, attempts, failures, published>>

\* The mutex stayed locked for 2 s: "display shutdown timed out, forcing exit".
ShutdownTimesOut ==
    /\ main = "stopping"
    /\ monitor = "waiting"
    /\ main' = "stopped"
    /\ UNCHANGED <<monitor, handle, fresh, attempts, failures, file, published>>

-----------------------------------------------------------------------------
(* Specification *)

\* run_daemon has removed the display file of an earlier run.
Init ==
    /\ main = "spawning"
    /\ monitor = "notStarted"
    /\ handle = NoChild
    /\ fresh = NoChild
    /\ attempts = 0
    /\ failures = 0
    /\ file = NoDisplay
    /\ published = FALSE

MonitorStep ==
    \/ MonitorLocks
    \/ MonitorReaps
    \/ RespawnFails
    \/ Respawn
    \/ Republish
    \/ StoreChild

MainStep ==
    \/ FirstSpawn
    \/ FirstPublish
    \/ ShutdownKills
    \/ ShutdownUnlinks
    \/ ShutdownTimesOut

Next == MainStep \/ MonitorStep \/ WaitFails \/ XvfbExits \/ Terminate

Spec == Init /\ [][Next]_vars

\* The runtime polls both tasks, and every sleep and timeout ends.
FairSpec == Spec /\ WF_vars(MainStep) /\ WF_vars(MonitorStep)

-----------------------------------------------------------------------------
(* Properties *)

\* A daemon never runs two Xvfb servers: a new one is spawned only when the old
\* one is known to be dead (monitor_xvfb reaps before it respawns).
OneServer == ~(handle.up /\ fresh.up)

\* While the monitor watches a live server, SSH sessions are told its display:
\* a restart on another display has been published, unless the write failed.
PublishedIsLive ==
    monitor = "waiting" /\ handle.up /\ published /\ main = "serving"
        => file = handle.display

\* The daemon gives up only after MAX_ATTEMPTS - 1 respawns in a row have failed,
\* never because servers that did come up crashed later: the exit counter is reset
\* when a new child is stored, and the first of the exits it counts is no attempt.
GivesUpInARow == main = "gaveUp" => failures = MaxAttempts - 1

\* A dead server is replaced, unless the daemon ends or gives up, or wait() fails.
ServerComesBack ==
    (main = "serving" /\ ~handle.up)
        ~> (handle.up \/ fresh.up \/ main # "serving" \/ monitor = "waitFailed")

\* "Shut down cleanly: kill Xvfb (if running) and remove ~/.tassh/display."
ShutDownCleanly == main = "stopped" => ~handle.up /\ ~fresh.up /\ file = NoDisplay
=============================================================================
