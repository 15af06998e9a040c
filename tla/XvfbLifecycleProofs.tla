------------------------- MODULE XvfbLifecycleProofs -------------------------
(***************************************************************************)
(* For every set of displays and every MAX_ATTEMPTS: one server at a time, *)
(* the published display is the live one, and the daemon gives up only     *)
(* after as many failed respawns as the constant allows.                   *)
(*                                                                         *)
(* One inductive invariant carries all of it: what the point the monitor   *)
(* has reached says about the two child handles, the file and the counter. *)
(***************************************************************************)
EXTENDS XvfbLifecycle, TLAPS

\* A handle that is not stored yet exists only between a spawn and its storing.
Handles ==
    /\ monitor = "notStarted" => handle = NoChild
    /\ monitor \in {"locking", "waiting", "backoff"} => fresh = NoChild
    /\ monitor \in {"backoff", "publishing", "storing"} => ~handle.up
    /\ monitor \in {"gone", "waitFailed"} => fresh = NoChild
    /\ main = "spawning" => fresh = NoChild
    /\ main \in {"spawning", "publishing"} <=> monitor = "notStarted" /\ main # "failed"
    /\ main \in {"serving", "stopping", "unlinking", "stopped", "gaveUp"}
         => monitor # "notStarted"

\* The file follows the child from its publication on.
FileFollows ==
    published =>
        /\ monitor \in {"locking", "waiting"} /\ handle.up => file = handle.display
                                                             \/ main = "stopped"
        /\ monitor = "storing" => file = fresh.display \/ main = "stopped"

\* The counter is the number of failed respawns, plus the exit being dealt with.
Counts ==
    /\ monitor \in {"notStarted", "locking", "waiting"} => attempts = failures
    /\ monitor = "backoff" => attempts = failures + 1
    /\ monitor \in {"publishing", "storing"} => failures = 0

IInv == TypeOK /\ Handles /\ FileFollows /\ Counts /\ GivesUpInARow

-----------------------------------------------------------------------------

\* The absent child is not a server.
LEMMA NoChildIsDown == NoChild.up = FALSE /\ NoChild.display = NoDisplay
BY DEF NoChild

\* The fields of a handle, and of the handle of a child that has died.
LEMMA ChildFields ==
    ASSUME NEW c \in Child \cup {NoChild}
    PROVE  /\ c.up \in BOOLEAN
           /\ c.up => c.display \in Display
           /\ c.up => [c EXCEPT !.up = FALSE] \in Child
           /\ [c EXCEPT !.up = FALSE].up = FALSE
           /\ [c EXCEPT !.up = FALSE].display = c.display
<1>1. CASE c \in Child
  BY <1>1 DEF Child
<1>2. CASE c = NoChild
  BY <1>2 DEF NoChild
<1> QED
  BY <1>1, <1>2

\* Before the first spawn there is no child and no file to name one.
LEMMA IInvInit == Init => IInv
<1> SUFFICES ASSUME Init PROVE IInv
  OBVIOUS
<1>1. TypeOK
  <2>1. 0 \in 0 .. MaxAttempts - 1
    BY AttemptsAssumption
  <2>2. main \in Main /\ monitor \in Monitor
    BY DEF Init, Main, Monitor
  <2> QED
    BY <2>1, <2>2 DEF Init, TypeOK
<1>2. Handles /\ FileFollows /\ Counts /\ GivesUpInARow
  BY NoChildIsDown DEF Init, Handles, FileFollows, Counts, GivesUpInARow
<1> QED
  BY <1>1, <1>2 DEF IInv

\* Every step of the monitor, of shutdown and of Xvfb preserves it.
LEMMA IInvStep == IInv /\ [Next]_vars => IInv'
<1> SUFFICES ASSUME IInv, [Next]_vars PROVE IInv'
  OBVIOUS
<1>0. /\ main \in Main /\ monitor \in Monitor
      /\ handle \in Child \cup {NoChild} /\ fresh \in Child \cup {NoChild}
      /\ attempts \in 0 .. MaxAttempts - 1 /\ failures \in 0 .. MaxAttempts - 1
      /\ MaxAttempts \in Nat \ {0}
  BY AttemptsAssumption DEF IInv, TypeOK
<1>1. Handles /\ FileFollows /\ Counts /\ GivesUpInARow
  BY DEF IInv
<1> USE DEF IInv, TypeOK, Main, Monitor, Alive, Ended, GivesUpInARow
<1>2. CASE UNCHANGED vars
  BY <1>2 DEF vars, Handles, FileFollows, Counts
<1>3. CASE FirstSpawn
  <2>1. main = "spawning" /\ monitor = "notStarted"
    BY <1>1, <1>3 DEF FirstSpawn, Handles
  <2>2. fresh' \in Child \cup {NoChild} /\ (main' = "failed" => fresh' = fresh)
    <3>1. CASE SpawnXvfb /\ main' = "publishing"
      <4>1. PICK d \in Display : fresh' = [display |-> d, up |-> TRUE]
        BY <3>1 DEF SpawnXvfb
      <4> QED
        BY <3>1, <4>1 DEF Child
    <3>2. CASE main' = "failed" /\ UNCHANGED fresh
      BY <1>0, <3>2
    <3> QED
      BY <1>3, <3>1, <3>2 DEF FirstSpawn
  <2> QED
    BY <1>0, <1>1, <1>3, <2>1, <2>2 DEF FirstSpawn, Handles, FileFollows, Counts
<1>4. CASE FirstPublish
  <2>1. main = "publishing" /\ monitor = "notStarted" /\ handle = NoChild
    BY <1>1, <1>4 DEF FirstPublish, Handles
  <2>2. file' \in Display \cup {NoDisplay}
    BY <1>0, <1>4 DEF FirstPublish, PublishDisplay, PublishFails, Child, NoChild
  <2> QED
    BY <1>0, <1>1, <1>4, <2>1, <2>2, NoChildIsDown
       DEF FirstPublish, PublishDisplay, PublishFails, Handles, FileFollows, Counts
<1>5. CASE ShutdownKills
  BY <1>0, <1>1, <1>5, NoChildIsDown DEF ShutdownKills, Handles, FileFollows, Counts
<1>6. CASE ShutdownUnlinks
  BY <1>0, <1>1, <1>6 DEF ShutdownUnlinks, Handles, FileFollows, Counts
<1>7. CASE ShutdownTimesOut
  BY <1>0, <1>1, <1>7 DEF ShutdownTimesOut, Handles, FileFollows, Counts
<1>8. CASE MonitorLocks
  BY <1>0, <1>1, <1>8 DEF MonitorLocks, Handles, FileFollows, Counts
<1>9. CASE MonitorReaps
  <2>1. attempts = failures
    BY <1>1, <1>9 DEF MonitorReaps, Counts
  <2> QED
    BY <1>0, <1>1, <1>9, <2>1 DEF MonitorReaps, Handles, FileFollows, Counts
<1>10. CASE RespawnFails
  BY <1>0, <1>1, <1>10 DEF RespawnFails, Handles, FileFollows, Counts
<1>11. CASE Respawn
  <2>1. fresh' \in Child
    BY <1>11 DEF Respawn, SpawnXvfb, Child
  <2> QED
    BY <1>0, <1>1, <1>11, <2>1 DEF Respawn, Handles, FileFollows, Counts
<1>12. CASE Republish
  <2>1. file' \in Display \cup {NoDisplay}
    BY <1>0, <1>12 DEF Republish, PublishDisplay, PublishFails, Child, NoChild
  <2> QED
    BY <1>0, <1>1, <1>12, <2>1
       DEF Republish, PublishDisplay, PublishFails, Handles, FileFollows, Counts
<1>13. CASE StoreChild
  BY <1>0, <1>1, <1>13 DEF StoreChild, Handles, FileFollows, Counts
<1>14. CASE WaitFails
  BY <1>0, <1>1, <1>14 DEF WaitFails, Handles, FileFollows, Counts
<1>15. CASE XvfbExits
  <2>1. CASE handle.up /\ handle' = [handle EXCEPT !.up = FALSE] /\ UNCHANGED fresh
    BY <1>0, <1>1, <1>15, <2>1, ChildFields, NoChildIsDown
       DEF XvfbExits, Handles, FileFollows, Counts
  <2>2. CASE fresh.up /\ fresh' = [fresh EXCEPT !.up = FALSE] /\ UNCHANGED handle
    BY <1>0, <1>1, <1>15, <2>2, ChildFields, NoChildIsDown
       DEF XvfbExits, Handles, FileFollows, Counts
  <2> QED
    BY <1>15, <2>1, <2>2 DEF XvfbExits
<1>16. CASE Terminate
  BY <1>0, <1>1, <1>16 DEF Terminate, Handles, FileFollows, Counts
<1> QED
  BY <1>2, <1>3, <1>4, <1>5, <1>6, <1>7, <1>8, <1>9, <1>10, <1>11, <1>12, <1>13,
     <1>14, <1>15, <1>16 DEF Next, MainStep, MonitorStep

\* The invariant behind the theorems.
LEMMA IInvAlways == Spec => []IInv
BY IInvInit, IInvStep, PTL DEF Spec

-----------------------------------------------------------------------------

\* monitor_xvfb and detect_and_init: the counter stays below MAX_ATTEMPTS and every
\* handle is a child or nothing.
THEOREM LifecycleTyped == Spec => []TypeOK
BY IInvAlways, PTL DEF IInv

\* monitor_xvfb: a server is spawned only when the one before it is dead.
THEOREM NeverTwoServers == Spec => []OneServer
<1>1. IInv => OneServer
  BY NoChildIsDown DEF IInv, TypeOK, Main, Monitor, Handles, OneServer
<1> QED
  BY <1>1, IInvAlways, PTL

\* publish_display: while the monitor waits for a live server, the file names it.
THEOREM FileNamesServer == Spec => []PublishedIsLive
<1>1. IInv => PublishedIsLive
  BY DEF IInv, FileFollows, PublishedIsLive
<1> QED
  BY <1>1, IInvAlways, PTL

\* monitor_xvfb: the daemon exits only after MAX_ATTEMPTS - 1 failed respawns in a row.
THEOREM GivesUpLate == Spec => []GivesUpInARow
BY IInvAlways, PTL DEF IInv
=============================================================================
