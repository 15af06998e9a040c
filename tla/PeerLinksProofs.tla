--------------------------- MODULE PeerLinksProofs ---------------------------
(***************************************************************************)
(* Proofs about PeerLinks, for every number of hosts, sessions, connection *)
(* tasks and refresh calls.                                                *)
(***************************************************************************)
EXTENDS PeerLinks, FiniteSetTheorems, TLAPS

USE HostsAssumption, SessionsAssumption, RefreshersAssumption, BoundsAssumption

-----------------------------------------------------------------------------
(* The operators on one registry entry *)

\* Counting a set of processes: the set of pids is finite, so the sum is a number.
LEMMA WithSessionsType ==
    ASSUME NEW peer \in PeerState, NEW pids \in SUBSET Session
    PROVE  WithSessions(peer, pids) \in PeerState
<1>1. IsFiniteSet(pids)
  BY FS_Subset
<1>2. peer.session_count + Cardinality(pids) \in Nat
  BY <1>1, FS_CardinalityType DEF PeerState
<1>3. peer.watched_pids \cup pids \in SUBSET Session
  BY DEF PeerState
<1> QED
  BY <1>2, <1>3 DEF WithSessions, PeerState

\* handle_pid_exit keeps an entry well typed: the subtraction saturates.
LEMMA AfterPidExitType ==
    ASSUME NEW peer \in PeerState, NEW s \in Session
    PROVE  AfterPidExit(peer, s) \in PeerState
<1> DEFINE left == IF peer.session_count = 0 THEN 0 ELSE peer.session_count - 1
           counted == [peer EXCEPT !.watched_pids = @ \ {s}, !.session_count = left]
<1>1. left \in Nat /\ peer.watched_pids \ {s} \in SUBSET Session
  BY DEF PeerState
<1>2. AfterPidExit(peer, s) =
        IF left = 0 THEN [counted EXCEPT !.connected = FALSE, !.close_tx = NoLink]
                    ELSE counted
  BY DEF AfterPidExit
<1> HIDE DEF left
<1>3. counted \in PeerState
  BY <1>1 DEF PeerState
<1> HIDE DEF counted
<1>4. [counted EXCEPT !.connected = FALSE, !.close_tx = NoLink] \in PeerState
  BY <1>3 DEF PeerState
<1> QED
  BY <1>2, <1>3, <1>4

\* The other operators assign constants to some of the fields.
LEMMA EntryTypes ==
    ASSUME NEW peer \in PeerState
    PROVE  /\ Claimed(peer) \in PeerState
           /\ AttemptOver(peer) \in PeerState
           /\ [AttemptOver(peer) EXCEPT !.close_tx = NoLink] \in PeerState
           /\ NoDaemon(peer) \in PeerState
           /\ Closed(peer) \in PeerState
<1>1. Claimed(peer) \in PeerState /\ AttemptOver(peer) \in PeerState
  BY DEF Claimed, AttemptOver, PeerState
<1>2. [AttemptOver(peer) EXCEPT !.close_tx = NoLink] \in PeerState
  BY <1>1 DEF PeerState
<1>3. NoDaemon(peer) \in PeerState
  BY DEF NoDaemon, PeerState
<1>4. Closed(peer) \in PeerState
  BY DEF Closed, PeerState
<1> QED
  BY <1>1, <1>2, <1>3, <1>4

\* A connection that is kept stores its close handle.
LEMMA ConnectedType ==
    ASSUME NEW peer \in PeerState, NEW l \in Link
    PROVE  Connected(peer, l) \in PeerState
BY DEF Connected, PeerState

\* A failed liveness probe may also take the connection down.
LEMMA UnreachableType ==
    ASSUME NEW peer \in PeerState, NEW wasConnected \in BOOLEAN
    PROVE  Unreachable(peer, wasConnected) \in PeerState
<1>1. NoDaemon(peer) \in PeerState
  BY EntryTypes
<1> QED
  BY <1>1 DEF Unreachable, PeerState

\* What a task does to its slot.
LEMMA SlotTypes ==
    ASSUME NEW slot \in LinkState
    PROVE  /\ [slot EXCEPT !.eof = TRUE] \in LinkState
           /\ \A stage \in Stage : [slot EXCEPT !.stage = stage] \in LinkState
BY DEF LinkState

\* Slots as they are before a task, and when one is spawned.
LEMMA NewSlotTypes ==
    /\ IdleLink \in LinkState
    /\ \A h \in Host, stage \in Stage : [stage |-> stage, host |-> h, eof |-> FALSE] \in LinkState
BY DEF LinkState, IdleLink, Stage

-----------------------------------------------------------------------------
(* Type correctness *)

\* A task that runs belongs to a host.
LinksHaveHosts == \A l \in Link : link[l].stage # "idle" => link[l].host \in Host

Typed == TypeOK /\ LinksHaveHosts

\* The daemon starts with well-typed state.
LEMMA TypedInit == Init => Typed
<1> SUFFICES ASSUME Init PROVE Typed
  OBVIOUS
<1>1. NewPeer \in PeerState /\ IdleLink \in LinkState /\ NoJob \in JobState
  BY DEF NewPeer, PeerState, IdleLink, LinkState, Stage, NoJob, JobState
<1>2. disconnects \in 0 .. MaxDisconnects /\ outages \in 0 .. MaxOutages /\ late \in 0 .. MaxLateProbes
  BY DEF Init
<1>3. TypeOK
  BY <1>1, <1>2 DEF Init, TypeOK
<1>4. LinksHaveHosts
  BY DEF Init, LinksHaveHosts, IdleLink
<1> QED
  BY <1>3, <1>4 DEF Typed

\* Spawning a task, moving it to another stage and ending it keep `link` typed.
LEMMA SpawnTyped ==
    ASSUME Typed, NEW l \in Link, NEW h \in Host, NEW stage \in Stage, SpawnLink(l, h, stage)
    PROVE  link' \in [Link -> LinkState] /\ LinksHaveHosts'
BY NewSlotTypes DEF Typed, TypeOK, SpawnLink, LinksHaveHosts

\* A task that moves on keeps its host.
LEMMA MoveTyped ==
    ASSUME Typed, NEW l \in Link, link[l].stage # "idle", NEW stage \in Stage,
           link' = [link EXCEPT ![l].stage = stage]
    PROVE  link' \in [Link -> LinkState] /\ LinksHaveHosts'
<1>1. link \in [Link -> LinkState]
  BY DEF Typed, TypeOK
<1>2. link' = [link EXCEPT ![l] = [link[l] EXCEPT !.stage = stage]]
  BY <1>1
<1>3. link' \in [Link -> LinkState]
  <2>1. [link[l] EXCEPT !.stage = stage] \in LinkState
    BY <1>1, SlotTypes
  <2> QED
    BY <1>1, <1>2, <2>1
<1>4. \A m \in Link : link'[m].host = link[m].host
  BY <1>1, <1>2 DEF LinkState
<1>5. \A m \in Link : m # l => link'[m] = link[m]
  BY <1>1, <1>2
<1> QED
  BY <1>3, <1>4, <1>5 DEF Typed, LinksHaveHosts

\* A task that ends gives its host back.
LEMMA EndTyped ==
    ASSUME Typed, NEW l \in Link, link' = [link EXCEPT ![l] = IdleLink]
    PROVE  link' \in [Link -> LinkState] /\ LinksHaveHosts'
BY NewSlotTypes DEF Typed, TypeOK, LinksHaveHosts, IdleLink

\* A probe counts at most one late answer, and no more than the bound.
LEMMA ProbedTyped ==
    ASSUME Typed, NEW h \in Host, NEW found \in BOOLEAN, Probed(h, found)
    PROVE  late' \in 0 .. MaxLateProbes
BY DEF Probed, Typed, TypeOK

\* Every step of every task preserves the types.
LEMMA TypedStep ==
    ASSUME Typed, [Next]_vars
    PROVE  Typed'
<1>1. /\ peers \in [Host -> PeerState] /\ link \in [Link -> LinkState]
      /\ \A s \in Session : HostOf[s] \in Host
      /\ \A l \in Link : link[l].stage # "idle" => link[l].host \in Host
      /\ {"probing", "dialing", "absent", "opened", "refused", "stream", "ended"} \subseteq Stage
  BY DEF Typed, TypeOK, LinksHaveHosts, Stage, Attempting
<1>2. ASSUME NEW s \in Session, SshStarts(s) PROVE Typed'
  BY <1>2 DEF SshStarts, Typed, TypeOK, LinksHaveHosts, refreshVars, networkVars
<1>3. ASSUME NEW s \in Session, SshExits(s) PROVE Typed'
  BY <1>3 DEF SshExits, Typed, TypeOK, LinksHaveHosts, refreshVars, networkVars
<1>4. ASSUME NEW s \in Session, Notify(s) PROVE Typed'
  BY <1>4 DEF Notify, Typed, TypeOK, LinksHaveHosts, refreshVars, networkVars
<1>5. ASSUME NEW s \in Session, HandleDisconnect(s) PROVE Typed'
  <2>1. peers' \in [Host -> PeerState]
    BY <1>1, <1>5, AfterPidExitType DEF HandleDisconnect
  <2>2. disconnects' \in 0 .. MaxDisconnects
    BY <1>5 DEF HandleDisconnect, Typed, TypeOK
  <2> QED
    BY <1>5, <2>1, <2>2
    DEF HandleDisconnect, Typed, TypeOK, LinksHaveHosts, refreshVars, networkVars
<1>6. ASSUME NEW h \in Host, Outage(h) PROVE Typed'
  <2>1. PICK broken \in SUBSET OpenLinks(h) :
          link' = [l \in Link |-> IF l \in broken THEN [link[l] EXCEPT !.eof = TRUE]
                                                 ELSE link[l]]
    BY <1>6 DEF Outage
  <2>2. link' \in [Link -> LinkState]
    BY <1>1, <2>1, SlotTypes, "idle" \in Stage DEF Stage
  <2>3. LinksHaveHosts'
    BY <1>1, <2>1 DEF LinksHaveHosts, LinkState
  <2>4. outages' \in 0 .. MaxOutages /\ reachable' \subseteq Host
    BY <1>6 DEF Outage, Typed, TypeOK
  <2> QED
    BY <1>6, <2>2, <2>3, <2>4 DEF Outage, Typed, TypeOK, refreshVars, sessionVars
<1>7. ASSUME NEW h \in Host, Recovery(h) PROVE Typed'
  BY <1>7 DEF Recovery, Typed, TypeOK, LinksHaveHosts, refreshVars, sessionVars
<1>8. ASSUME NEW s \in Session, HandleConnect(s) PROVE Typed'
  <2>1. peers' \in [Host -> PeerState]
    <3>1. WithSessions(peers[HostOf[s]], {s}) \in PeerState
      BY <1>1, WithSessionsType
    <3>2. \/ UNCHANGED peers
          \/ peers' = [peers EXCEPT ![HostOf[s]] = WithSessions(peers[HostOf[s]], {s})]
      BY <1>8 DEF HandleConnect
    <3> QED
      BY <1>1, <3>1, <3>2
  <2>2. watcher' \in [Session -> Nat] /\ ipc' \subseteq Session /\ pending' \subseteq Session
    BY <1>8 DEF HandleConnect, Typed, TypeOK
  <2> QED
    BY <1>8, <2>1, <2>2
    DEF HandleConnect, Typed, TypeOK, LinksHaveHosts, refreshVars, networkVars
<1>9. ASSUME NEW s \in Session, ConnectIfUnlinked(s) PROVE Typed'
  <2>1. peers' \in [Host -> PeerState]
    <3>1. Claimed(peers[HostOf[s]]) \in PeerState
      BY <1>1, EntryTypes
    <3>2. \/ UNCHANGED peers
          \/ peers' = [peers EXCEPT ![HostOf[s]] = Claimed(peers[HostOf[s]])]
      BY <1>9 DEF ConnectIfUnlinked
    <3> QED
      BY <1>1, <3>1, <3>2
  <2>2. link' \in [Link -> LinkState] /\ LinksHaveHosts'
    <3>1. CASE UNCHANGED link
      BY <1>1, <3>1 DEF LinksHaveHosts
    <3>2. CASE \E l \in Link : SpawnLink(l, HostOf[s], "probing")
      BY <1>1, <3>2, SpawnTyped
    <3> QED
      BY <1>9, <3>1, <3>2 DEF ConnectIfUnlinked
  <2> QED
    BY <1>9, <2>1, <2>2 DEF ConnectIfUnlinked, Typed, TypeOK, refreshVars, networkVars
<1>10. CASE ScanProcesses
  BY <1>10 DEF ScanProcesses, Typed, TypeOK, LinksHaveHosts, refreshVars, networkVars
<1>11. ASSUME NEW h \in Host, DiscoverHost(h) PROVE Typed'
  <2> DEFINE pids == {s \in discovered : HostOf[s] = h}
             new  == pids \ peers[h].watched_pids
  <2>1. new \in SUBSET Session
    BY DEF Typed, TypeOK
  <2>2. /\ \/ peers' = [peers EXCEPT ![h] = WithSessions(@, new)] /\ UNCHANGED link
           \/ /\ peers' = [peers EXCEPT ![h] = Claimed(WithSessions(@, new))]
              /\ \E l \in Link : SpawnLink(l, h, "probing")
        /\ watcher' = [s \in Session |-> IF s \in new THEN watcher[s] + 1 ELSE watcher[s]]
        /\ discovered' = discovered \ pids
    BY <1>11 DEF DiscoverHost
  <2> HIDE DEF new
  <2>3. peers' \in [Host -> PeerState]
    <3>1. WithSessions(peers[h], new) \in PeerState
      BY <1>1, <2>1, WithSessionsType
    <3>2. Claimed(WithSessions(peers[h], new)) \in PeerState
      BY <3>1 DEF Claimed, PeerState
    <3> QED
      BY <1>1, <2>2, <3>1, <3>2
  <2>4. link' \in [Link -> LinkState] /\ LinksHaveHosts'
    <3>1. CASE UNCHANGED link
      BY <1>1, <3>1 DEF LinksHaveHosts
    <3>2. CASE \E l \in Link : SpawnLink(l, h, "probing")
      BY <1>1, <3>2, SpawnTyped
    <3> QED
      BY <2>2, <3>1, <3>2
  <2>5. watcher' \in [Session -> Nat] /\ discovered' \subseteq Session
    BY <2>2 DEF Typed, TypeOK
  <2> QED
    BY <1>11, <2>3, <2>4, <2>5 DEF DiscoverHost, Typed, TypeOK, refreshVars, networkVars
<1>12. ASSUME NEW s \in Session, WatcherFires(s) PROVE Typed'
  <2>1. peers' \in [Host -> PeerState]
    BY <1>1, <1>12, AfterPidExitType DEF WatcherFires
  <2>2. watcher' \in [Session -> Nat]
    BY <1>12 DEF WatcherFires, Typed, TypeOK
  <2> QED
    BY <1>12, <2>1, <2>2
    DEF WatcherFires, Typed, TypeOK, LinksHaveHosts, refreshVars, networkVars
<1>13. ASSUME NEW r \in Refresher, RefreshStart(r) PROVE Typed'
  <2>1. peers' \in [Host -> PeerState]
    BY <1>1, <1>13, EntryTypes DEF RefreshStart
  <2>2. todo' \in [Refresher -> SUBSET Host]
    BY <1>13 DEF RefreshStart, HostsWithSessions, Typed, TypeOK
  <2> QED
    BY <1>13, <2>1, <2>2
    DEF RefreshStart, Typed, TypeOK, LinksHaveHosts, sessionVars, networkVars
<1>14. ASSUME NEW r \in Refresher, NEW h \in Host, RefreshVisit(r, h) PROVE Typed'
  <2>1. [result |-> "waiting", connected |-> peers[h].connected] \in JobState
    BY <1>1 DEF JobState, PeerState
  <2>2. job' \in [Refresher -> [Host -> JobState]] /\ todo' \in [Refresher -> SUBSET Host]
    <3>1. job \in [Refresher -> [Host -> JobState]] /\ todo \in [Refresher -> SUBSET Host]
      BY DEF Typed, TypeOK
    <3>2. todo' \in [Refresher -> SUBSET Host]
      BY <1>14, <3>1 DEF RefreshVisit
    <3>3. \/ UNCHANGED job
          \/ \E e \in JobState : job' = [job EXCEPT ![r][h] = e]
      BY <1>14, <2>1 DEF RefreshVisit
    <3> QED
      BY <3>1, <3>2, <3>3
  <2> QED
    BY <1>14, <2>2 DEF RefreshVisit, Typed, TypeOK, LinksHaveHosts, sessionVars, networkVars
<1>15. ASSUME NEW r \in Refresher, NEW h \in Host, RefreshProbed(r, h) PROVE Typed'
  <2>1. job \in [Refresher -> [Host -> JobState]]
    BY DEF Typed, TypeOK
  <2>2. \A result \in {"up", "down"} : [job[r][h] EXCEPT !.result = result] \in JobState
    BY <2>1 DEF JobState
  <2>3. PICK result \in {"up", "down"} :
          job' = [job EXCEPT ![r] = [job[r] EXCEPT ![h] = [job[r][h] EXCEPT !.result = result]]]
    BY <1>15, <2>1 DEF RefreshProbed
  <2>4. job' \in [Refresher -> [Host -> JobState]]
    <3>1. [job[r][h] EXCEPT !.result = result] \in JobState
      BY <2>2
    <3>2. PICK e \in JobState : job' = [job EXCEPT ![r] = [job[r] EXCEPT ![h] = e]]
      BY <2>3, <3>1
    <3>3. [job[r] EXCEPT ![h] = e] \in [Host -> JobState]
      BY <2>1
    <3> QED
      BY <2>1, <3>2, <3>3
  <2> QED
    BY <1>15, <2>4, ProbedTyped DEF RefreshProbed, Typed, TypeOK, LinksHaveHosts, sessionVars
<1>16. ASSUME NEW r \in Refresher, NEW h \in Host,
              job' = [job EXCEPT ![r][h] = NoJob]
       PROVE  job' \in [Refresher -> [Host -> JobState]]
  <2>1. job \in [Refresher -> [Host -> JobState]] /\ NoJob \in JobState
    BY DEF Typed, TypeOK, NoJob, JobState
  <2> QED
    BY <1>16, <2>1
<1>17. ASSUME NEW r \in Refresher, NEW h \in Host, RefreshReachable(r, h) PROVE Typed'
  <2>1. peers' \in [Host -> PeerState]
    <3>1. Claimed(peers[h]) \in PeerState
      BY <1>1, EntryTypes
    <3> QED
      BY <1>1, <1>17, <3>1 DEF RefreshReachable
  <2>2. link' \in [Link -> LinkState] /\ LinksHaveHosts'
    <3>1. CASE UNCHANGED link
      BY <1>1, <3>1 DEF LinksHaveHosts
    <3>2. CASE \E l \in Link : SpawnLink(l, h, "dialing")
      BY <1>1, <3>2, SpawnTyped
    <3> QED
      BY <1>17, <3>1, <3>2 DEF RefreshReachable
  <2>3. job' \in [Refresher -> [Host -> JobState]]
    BY <1>16, <1>17 DEF RefreshReachable
  <2> QED
    BY <1>17, <2>1, <2>2, <2>3 DEF RefreshReachable, Typed, TypeOK, sessionVars, networkVars
<1>18. ASSUME NEW r \in Refresher, NEW h \in Host, RefreshUnreachable(r, h) PROVE Typed'
  <2>1. job[r][h].connected \in BOOLEAN
    BY DEF Typed, TypeOK, JobState
  <2>2. peers' \in [Host -> PeerState]
    BY <1>1, <1>18, <2>1, UnreachableType DEF RefreshUnreachable
  <2>3. job' \in [Refresher -> [Host -> JobState]]
    BY <1>16, <1>18 DEF RefreshUnreachable
  <2> QED
    BY <1>18, <2>2, <2>3
    DEF RefreshUnreachable, Typed, TypeOK, LinksHaveHosts, sessionVars, networkVars
<1>19. ASSUME NEW l \in Link, ProbeRemote(l) \/ Dial(l) \/ LeaveLoop(l) PROVE Typed'
  <2>1. PICK stage \in Stage : link' = [link EXCEPT ![l].stage = stage]
    BY <1>1, <1>19 DEF ProbeRemote, Dial, LeaveLoop
  <2>2. link[l].stage # "idle"
    BY <1>19 DEF ProbeRemote, Dial, LeaveLoop
  <2>3. link' \in [Link -> LinkState] /\ LinksHaveHosts'
    BY <2>1, <2>2, MoveTyped
  <2>4. late' \in 0 .. MaxLateProbes
    BY <1>1, <1>19, <2>2, ProbedTyped DEF ProbeRemote, Dial, LeaveLoop, networkVars, Typed, TypeOK
  <2> QED
    BY <1>19, <2>3, <2>4
    DEF ProbeRemote, Dial, LeaveLoop, Typed, TypeOK, sessionVars, refreshVars, networkVars
<1>20. ASSUME NEW l \in Link, NoDaemonFound(l) \/ DialRefused(l) \/ CleanUp(l) PROVE Typed'
  <2>1. link[l].host \in Host
    BY <1>1, <1>20 DEF NoDaemonFound, DialRefused, CleanUp
  <2>2. peers' \in [Host -> PeerState]
    <3>1. PICK e \in PeerState : peers' = [peers EXCEPT ![link[l].host] = e]
      BY <1>1, <1>20, <2>1, EntryTypes DEF NoDaemonFound, DialRefused, CleanUp
    <3> QED
      BY <1>1, <2>1, <3>1
  <2>3. link' \in [Link -> LinkState] /\ LinksHaveHosts'
    BY <1>20, EndTyped DEF NoDaemonFound, DialRefused, CleanUp
  <2> QED
    BY <1>20, <2>2, <2>3
    DEF NoDaemonFound, DialRefused, CleanUp, Typed, TypeOK, sessionVars, refreshVars, networkVars
<1>21. ASSUME NEW l \in Link, KeepConnection(l) PROVE Typed'
  <2>1. link[l].host \in Host /\ link[l].stage # "idle"
    BY <1>1, <1>21 DEF KeepConnection
  <2>2. peers' \in [Host -> PeerState]
    <3>1. /\ [AttemptOver(peers[link[l].host]) EXCEPT !.close_tx = NoLink] \in PeerState
          /\ Connected(peers[link[l].host], l) \in PeerState
      BY <1>1, <2>1, EntryTypes, ConnectedType
    <3> QED
      BY <1>1, <1>21, <2>1, <3>1 DEF KeepConnection
  <2>3. link' \in [Link -> LinkState] /\ LinksHaveHosts'
    BY <1>1, <1>21, <2>1, EndTyped, MoveTyped DEF KeepConnection
  <2> QED
    BY <1>21, <2>2, <2>3 DEF KeepConnection, Typed, TypeOK, sessionVars, refreshVars, networkVars
<1>22. CASE UNCHANGED vars
  BY <1>22 DEF vars, sessionVars, refreshVars, networkVars, Typed, TypeOK, LinksHaveHosts
<1> QED
  BY <1>2, <1>3, <1>4, <1>5, <1>6, <1>7, <1>8, <1>9, <1>10, <1>11, <1>12, <1>13, <1>14,
     <1>15, <1>17, <1>18, <1>19, <1>20, <1>21, <1>22
  DEF Next, Environment, SessionStep, RefreshStep, LinkStep

\* Type correctness of the sending half of the daemon.
THEOREM TypeCorrect == Spec => []TypeOK
<1>1. Spec => []Typed
  BY TypedInit, TypedStep, PTL DEF Spec
<1>2. Typed => TypeOK
  BY DEF Typed
<1> QED
  BY <1>1, <1>2, PTL

-----------------------------------------------------------------------------
(* The owner of a connection *)

\* What the operators on an entry do to the fields that matter here.
LEMMA WithSessionsFields ==
    ASSUME NEW peer \in PeerState, NEW pids \in SUBSET Session
    PROVE  LET e == WithSessions(peer, pids) IN
           /\ e.connected = peer.connected /\ e.close_tx = peer.close_tx
           /\ e.connecting = peer.connecting
           /\ e.session_count >= peer.session_count
           /\ e.watched_pids = peer.watched_pids \cup pids
<1>1. IsFiniteSet(pids)
  BY FS_Subset
<1>2. Cardinality(pids) \in Nat /\ peer.session_count \in Nat
  BY <1>1, FS_CardinalityType DEF PeerState
<1> QED
  BY <1>2 DEF WithSessions, PeerState

\* The exit of a process leaves the owner, or takes it with the last session.
LEMMA AfterPidExitFields ==
    ASSUME NEW peer \in PeerState, NEW s \in Session
    PROVE  LET e == AfterPidExit(peer, s) IN
           /\ e.watched_pids = peer.watched_pids \ {s}
           /\ e.session_count = IF peer.session_count = 0 THEN 0 ELSE peer.session_count - 1
           /\ e.connecting = peer.connecting
           /\ \/ e.connected = FALSE /\ e.close_tx = NoLink
              \/ /\ e.connected = peer.connected /\ e.close_tx = peer.close_tx
                 /\ e.session_count > 0
<1> DEFINE left == IF peer.session_count = 0 THEN 0 ELSE peer.session_count - 1
           counted == [peer EXCEPT !.watched_pids = @ \ {s}, !.session_count = left]
<1>1. left \in Nat
  BY DEF PeerState
<1>2. AfterPidExit(peer, s) =
        IF left = 0 THEN [counted EXCEPT !.connected = FALSE, !.close_tx = NoLink]
                    ELSE counted
  BY DEF AfterPidExit
<1>3. left = IF peer.session_count = 0 THEN 0 ELSE peer.session_count - 1
  OBVIOUS
<1> HIDE DEF left
<1>4. CASE left = 0
  BY <1>2, <1>3, <1>4 DEF PeerState
<1>5. CASE left # 0
  BY <1>1, <1>2, <1>3, <1>5 DEF PeerState
<1> QED
  BY <1>4, <1>5

\* l is a kept connection to h whose task has not cleaned up yet.
Serves(l, h) == link[l].host = h /\ link[l].stage \in {"stream", "ended"}

Owned(h) ==
    /\ peers[h].connected => peers[h].session_count > 0
    /\ peers[h].connected <=> peers[h].close_tx # NoLink
    /\ peers[h].connected => peers[h].close_tx \in Link /\ Serves(peers[h].close_tx, h)

\* What the invariant says is what the two checked properties say.
LEMMA OwnedMeans ==
    ASSUME Typed
    PROVE  (\A h \in Host : Owned(h)) <=> (ConnectedHasSession /\ ConnectionOwned)
<1>1. \A h \in Host : peers[h].close_tx \in Link \cup {NoLink}
  BY DEF Typed, TypeOK, PeerState
<1> QED
  BY <1>1 DEF Owned, Serves, ConnectedHasSession, ConnectionOwned

\* A host keeps its owner when neither its entry nor its connection is disturbed.
LEMMA OwnedFrame ==
    ASSUME NEW h \in Host, Owned(h),
           peers'[h].connected = peers[h].connected,
           peers'[h].close_tx = peers[h].close_tx,
           peers[h].session_count > 0 => peers'[h].session_count > 0,
           \A l \in Link : Serves(l, h) => Serves(l, h)'
    PROVE  Owned(h)'
BY DEF Owned

\* A host without a connection owns nothing.
LEMMA OwnedNothing ==
    ASSUME NEW h \in Host, peers'[h].connected = FALSE, peers'[h].close_tx = NoLink
    PROVE  Owned(h)'
BY DEF Owned

\* Spawned, moved and broken tasks go on serving the hosts they serve.
LEMMA ServesKept ==
    ASSUME Typed, NEW h \in Host,
           \/ UNCHANGED link
           \/ \E l \in Link, g \in Host, stage \in Stage : SpawnLink(l, g, stage)
           \/ \E l \in Link : ~Serves(l, h) /\ \E slot : link' = [link EXCEPT ![l] = slot]
    PROVE  \A l \in Link : Serves(l, h) => Serves(l, h)'
BY DEF Typed, TypeOK, Serves, SpawnLink

\* Every step keeps the owner of every host, or leaves the host without one.
LEMMA OwnedStep ==
    ASSUME Typed, \A h \in Host : Owned(h), [Next]_vars, NEW g \in Host
    PROVE  Owned(g)'
<1>1. /\ peers \in [Host -> PeerState] /\ link \in [Link -> LinkState]
      /\ \A s \in Session : HostOf[s] \in Host
      /\ \A l \in Link : link[l].stage # "idle" => link[l].host \in Host
      /\ Owned(g) /\ peers[g] \in PeerState
      /\ {"probing", "dialing"} \subseteq Stage
  BY DEF Typed, TypeOK, LinksHaveHosts, Stage, Attempting
<1>2. ASSUME peers'[g] = peers[g], \A l \in Link : Serves(l, g) => Serves(l, g)'
      PROVE  Owned(g)'
  BY <1>1, <1>2, OwnedFrame
<1>3. ASSUME NEW s \in Session, HandleDisconnect(s) \/ WatcherFires(s)
      PROVE  Owned(g)'
  <2>1. /\ peers' = [peers EXCEPT ![HostOf[s]] = AfterPidExit(peers[HostOf[s]], s)]
        /\ UNCHANGED link
    BY <1>3 DEF HandleDisconnect, WatcherFires
  <2>2. \A l \in Link : Serves(l, g) => Serves(l, g)'
    BY <2>1 DEF Serves
  <2>3. CASE g # HostOf[s]
    BY <1>1, <1>2, <2>1, <2>2, <2>3
  <2>4. CASE g = HostOf[s]
    <3>1. peers'[g] = AfterPidExit(peers[g], s)
      BY <1>1, <2>1, <2>4
    <3>2. \/ peers'[g].connected = FALSE /\ peers'[g].close_tx = NoLink
          \/ /\ peers'[g].connected = peers[g].connected
             /\ peers'[g].close_tx = peers[g].close_tx
             /\ peers'[g].session_count > 0
      <4> DEFINE e == AfterPidExit(peers[g], s)
      <4>1. \/ e.connected = FALSE /\ e.close_tx = NoLink
            \/ /\ e.connected = peers[g].connected /\ e.close_tx = peers[g].close_tx
               /\ e.session_count > 0
        BY <1>1, AfterPidExitFields
      <4> HIDE DEF e
      <4>2. peers'[g] = e
        BY <3>1 DEF e
      <4> QED
        BY <4>1, <4>2
    <3>3. CASE peers'[g].connected = FALSE /\ peers'[g].close_tx = NoLink
      BY <3>3, OwnedNothing
    <3>4. CASE /\ peers'[g].connected = peers[g].connected
               /\ peers'[g].close_tx = peers[g].close_tx
               /\ peers'[g].session_count > 0
      BY <1>1, <2>2, <3>4, OwnedFrame
    <3> QED
      BY <3>2, <3>3, <3>4
  <2> QED
    BY <2>3, <2>4
<1>4. ASSUME NEW s \in Session,
             SshStarts(s) \/ SshExits(s) \/ Notify(s)
      PROVE  Owned(g)'
  BY <1>2, <1>4 DEF SshStarts, SshExits, Notify, Serves
<1>5. ASSUME NEW h \in Host, Outage(h) PROVE Owned(g)'
  <2>1. PICK broken \in SUBSET OpenLinks(h) :
          link' = [l \in Link |-> IF l \in broken THEN [link[l] EXCEPT !.eof = TRUE]
                                                 ELSE link[l]]
    BY <1>5 DEF Outage
  <2>2. \A l \in Link : link'[l].host = link[l].host /\ link'[l].stage = link[l].stage
    BY <1>1, <2>1 DEF LinkState
  <2> QED
    BY <1>2, <1>5, <2>2 DEF Outage, Serves
<1>6. CASE ScanProcesses \/ \E h \in Host : Recovery(h)
  BY <1>2, <1>6 DEF ScanProcesses, Recovery, Serves
<1>7. ASSUME NEW h \in Host, NEW pids \in SUBSET Session,
             \/ peers' = [peers EXCEPT ![h] = WithSessions(peers[h], pids)]
             \/ peers' = [peers EXCEPT ![h] = Claimed(WithSessions(peers[h], pids))],
             \A l \in Link : Serves(l, g) => Serves(l, g)'
      PROVE  Owned(g)'
  <2> DEFINE e == WithSessions(peers[h], pids)
  <2>1. /\ e \in PeerState /\ peers[h] \in PeerState
        /\ e.connected = peers[h].connected /\ e.close_tx = peers[h].close_tx
        /\ peers[h].session_count > 0 => e.session_count > 0
    <3>1. peers[h] \in PeerState
      BY <1>1
    <3>2. /\ e.connected = peers[h].connected /\ e.close_tx = peers[h].close_tx
          /\ e.session_count >= peers[h].session_count
      BY <3>1, WithSessionsFields
    <3>3. e \in PeerState
      BY <3>1, WithSessionsType
    <3>4. e.session_count \in Nat /\ peers[h].session_count \in Nat
      BY <3>1, <3>3 DEF PeerState
    <3> QED
      BY <3>1, <3>2, <3>3, <3>4
  <2> HIDE DEF e
  <2>2. /\ Claimed(e).connected = e.connected /\ Claimed(e).close_tx = e.close_tx
        /\ Claimed(e).session_count = e.session_count
    BY <2>1 DEF Claimed, PeerState
  <2>3. peers' = [peers EXCEPT ![h] = e] \/ peers' = [peers EXCEPT ![h] = Claimed(e)]
    BY <1>7 DEF e
  <2>4. /\ peers'[g].connected = peers[g].connected
        /\ peers'[g].close_tx = peers[g].close_tx
        /\ peers[g].session_count > 0 => peers'[g].session_count > 0
    BY <1>1, <2>1, <2>2, <2>3
  <2> QED
    BY <1>1, <1>7, <2>4, OwnedFrame
<1>8. ASSUME NEW s \in Session, HandleConnect(s) PROVE Owned(g)'
  <2>1. \A l \in Link : Serves(l, g) => Serves(l, g)'
    BY <1>8 DEF HandleConnect, Serves
  <2>2. \/ UNCHANGED peers
        \/ peers' = [peers EXCEPT ![HostOf[s]] = WithSessions(peers[HostOf[s]], {s})]
    BY <1>8 DEF HandleConnect
  <2> QED
    BY <1>1, <1>2, <1>7, <2>1, <2>2
<1>9. ASSUME NEW h \in Host, DiscoverHost(h) PROVE Owned(g)'
  <2>1. \/ UNCHANGED link
        \/ \E l \in Link : SpawnLink(l, h, "probing")
    BY <1>9 DEF DiscoverHost
  <2>2. \A l \in Link : Serves(l, g) => Serves(l, g)'
    BY <1>1, <2>1, ServesKept
  <2> DEFINE new == {s \in discovered : HostOf[s] = h} \ peers[h].watched_pids
  <2>3. new \in SUBSET Session
    BY DEF Typed, TypeOK
  <2>4. \/ peers' = [peers EXCEPT ![h] = WithSessions(peers[h], new)]
        \/ peers' = [peers EXCEPT ![h] = Claimed(WithSessions(peers[h], new))]
    BY <1>9 DEF DiscoverHost
  <2> QED
    BY <1>7, <2>2, <2>3, <2>4
<1>10. ASSUME NEW s \in Session, ConnectIfUnlinked(s) PROVE Owned(g)'
  <2>1. \/ UNCHANGED link
        \/ \E l \in Link : SpawnLink(l, HostOf[s], "probing")
    BY <1>10 DEF ConnectIfUnlinked
  <2>2. \A l \in Link : Serves(l, g) => Serves(l, g)'
    BY <1>1, <2>1, ServesKept
  <2>3. \/ UNCHANGED peers
        \/ peers' = [peers EXCEPT ![HostOf[s]] = Claimed(peers[HostOf[s]])]
    BY <1>10 DEF ConnectIfUnlinked
  <2>4. /\ Claimed(peers[g]).connected = peers[g].connected
        /\ Claimed(peers[g]).close_tx = peers[g].close_tx
        /\ Claimed(peers[g]).session_count = peers[g].session_count
    BY <1>1 DEF Claimed, PeerState
  <2>5. /\ peers'[g].connected = peers[g].connected
        /\ peers'[g].close_tx = peers[g].close_tx
        /\ peers'[g].session_count = peers[g].session_count
    BY <1>1, <2>3, <2>4
  <2> QED
    BY <1>1, <2>2, <2>5, OwnedFrame
<1>11. ASSUME NEW r \in Refresher, RefreshStart(r) PROVE Owned(g)'
  <2>1. g \notin IdleConnected
    BY <1>1 DEF IdleConnected, Owned, PeerState
  <2>2. peers'[g] = peers[g] /\ UNCHANGED link
    BY <1>1, <1>11, <2>1 DEF RefreshStart
  <2> QED
    BY <1>2, <2>2 DEF Serves
<1>12. ASSUME NEW r \in Refresher, NEW h \in Host, RefreshVisit(r, h) \/ RefreshProbed(r, h)
       PROVE  Owned(g)'
  BY <1>2, <1>12 DEF RefreshVisit, RefreshProbed, Serves
<1>13. ASSUME NEW r \in Refresher, NEW h \in Host, RefreshReachable(r, h) PROVE Owned(g)'
  <2>1. \/ UNCHANGED link
        \/ \E l \in Link : SpawnLink(l, h, "dialing")
    BY <1>13 DEF RefreshReachable
  <2>2. \A l \in Link : Serves(l, g) => Serves(l, g)'
    BY <1>1, <2>1, ServesKept
  <2> DEFINE e == Claimed(peers[h])
  <2>3. UNCHANGED peers \/ peers' = [peers EXCEPT ![h] = e]
    BY <1>13 DEF RefreshReachable
  <2>4. /\ e.connected = peers[h].connected /\ e.close_tx = peers[h].close_tx
        /\ e.session_count = peers[h].session_count
    <3>1. peers[h] \in PeerState
      BY <1>1
    <3> QED
      BY <3>1 DEF Claimed, PeerState
  <2> HIDE DEF e
  <2>5. /\ peers'[g].connected = peers[g].connected
        /\ peers'[g].close_tx = peers[g].close_tx
        /\ peers'[g].session_count = peers[g].session_count
    BY <1>1, <2>3, <2>4
  <2> QED
    BY <1>1, <2>2, <2>5, OwnedFrame
<1>14. ASSUME NEW r \in Refresher, NEW h \in Host, RefreshUnreachable(r, h)
       PROVE  Owned(g)'
  <2> DEFINE e == Unreachable(peers[h], job[r][h].connected)
  <2>1. peers' = [peers EXCEPT ![h] = e] /\ UNCHANGED link
    BY <1>14 DEF RefreshUnreachable
  <2>2. \/ e.connected = FALSE /\ e.close_tx = NoLink
        \/ /\ e.connected = peers[h].connected /\ e.close_tx = peers[h].close_tx
           /\ e.session_count = peers[h].session_count
    <3>1. peers[h] \in PeerState
      BY <1>1
    <3>2. CASE job[r][h].connected
      BY <3>1, <3>2 DEF Unreachable, NoDaemon, PeerState
    <3>3. CASE ~job[r][h].connected
      BY <3>1, <3>3 DEF Unreachable, NoDaemon, PeerState
    <3> QED
      BY <3>2, <3>3
  <2> HIDE DEF e
  <2>3. CASE g # h
    BY <1>1, <1>2, <2>1, <2>3 DEF Serves
  <2>4. CASE g = h
    <3>1. peers'[g] = e
      BY <1>1, <2>1, <2>4
    <3> QED
      BY <1>1, <2>1, <2>2, <2>4, <3>1, OwnedNothing, OwnedFrame DEF Serves
  <2> QED
    BY <2>3, <2>4
<1>15. ASSUME NEW l \in Link, ProbeRemote(l) \/ Dial(l) \/ LeaveLoop(l) PROVE Owned(g)'
  <2>1. UNCHANGED peers
    BY <1>15 DEF ProbeRemote, Dial, LeaveLoop
  <2>2. \A m \in Link : Serves(m, g) => Serves(m, g)'
    BY <1>1, <1>15 DEF ProbeRemote, Dial, LeaveLoop, Serves, LinkState
  <2> QED
    BY <1>2, <2>1, <2>2
<1>16. ASSUME NEW l \in Link, NoDaemonFound(l) \/ DialRefused(l) PROVE Owned(g)'
  <2>1. ~Serves(l, g) /\ link' = [link EXCEPT ![l] = IdleLink]
    BY <1>16 DEF NoDaemonFound, DialRefused, Serves
  <2>2. \A m \in Link : Serves(m, g) => Serves(m, g)'
    BY <2>1, ServesKept
  <2>3. /\ peers'[g].connected = peers[g].connected
        /\ peers'[g].close_tx = peers[g].close_tx
        /\ peers'[g].session_count = peers[g].session_count
    <3>1. PICK e : /\ peers' = [peers EXCEPT ![link[l].host] = e]
                   /\ e = NoDaemon(peers[link[l].host]) \/ e = AttemptOver(peers[link[l].host])
      BY <1>16 DEF NoDaemonFound, DialRefused
    <3>2. CASE link[l].host # g
      BY <1>1, <3>1, <3>2
    <3>3. CASE link[l].host = g
      BY <1>1, <3>1, <3>3 DEF NoDaemon, AttemptOver, PeerState
    <3> QED
      BY <3>2, <3>3
  <2> QED
    BY <1>1, <2>2, <2>3, OwnedFrame
<1>17. ASSUME NEW l \in Link, KeepConnection(l) PROVE Owned(g)'
  <2> DEFINE h == link[l].host
  <2>1. h \in Host /\ link[l].stage = "opened" /\ peers[h] \in PeerState /\ Owned(h)
    BY <1>1, <1>17 DEF KeepConnection
  <2>2. CASE /\ peers[h].session_count = 0
             /\ peers' = [peers EXCEPT ![h] = [AttemptOver(@) EXCEPT !.close_tx = NoLink]]
             /\ link' = [link EXCEPT ![l] = IdleLink]
    <3>1. ~Serves(l, g)
      BY <2>1 DEF Serves
    <3>2. \A m \in Link : Serves(m, g) => Serves(m, g)'
      BY <2>2, <3>1, ServesKept
    <3>3. CASE g # h
      BY <1>1, <1>2, <2>1, <2>2, <3>2, <3>3
    <3>4. CASE g = h
      <4>1. peers[g].connected = FALSE
        BY <1>1, <2>1, <2>2, <3>4 DEF Owned, PeerState
      <4>2. peers'[g].connected = FALSE /\ peers'[g].close_tx = NoLink
        BY <1>1, <2>1, <2>2, <3>4, <4>1 DEF AttemptOver, PeerState
      <4> QED
        BY <4>2, OwnedNothing
    <3> QED
      BY <3>3, <3>4
  <2>3. CASE /\ peers[h].session_count > 0
             /\ peers' = [peers EXCEPT ![h] = Connected(@, l)]
             /\ link' = [link EXCEPT ![l].stage = "stream"]
    <3>1. \A m \in Link : Serves(m, g) => Serves(m, g)'
      BY <1>1, <2>3 DEF Serves, LinkState
    <3>2. CASE g # h
      BY <1>1, <1>2, <2>1, <2>3, <3>1, <3>2
    <3>3. CASE g = h
      <4>1. peers'[g] = Connected(peers[g], l)
        BY <1>1, <2>3, <3>3
      <4>2. /\ peers'[g].connected = TRUE /\ peers'[g].close_tx = l
            /\ peers'[g].session_count > 0
        BY <1>1, <2>3, <3>3, <4>1 DEF Connected, PeerState
      <4>3. Serves(l, g)'
        BY <1>1, <2>3, <3>3 DEF Serves, LinkState
      <4> QED
        BY <4>2, <4>3 DEF Owned
    <3> QED
      BY <3>2, <3>3
  <2> QED
    BY <1>17, <2>2, <2>3 DEF KeepConnection
<1>18. ASSUME NEW l \in Link, CleanUp(l) PROVE Owned(g)'
  <2>1. /\ peers' = [peers EXCEPT ![link[l].host] = Closed(@)]
        /\ link' = [link EXCEPT ![l] = IdleLink]
    BY <1>18 DEF CleanUp
  <2>2. CASE link[l].host = g
    <3>1. peers'[g].connected = FALSE /\ peers'[g].close_tx = NoLink
      BY <1>1, <2>1, <2>2 DEF Closed, PeerState
    <3> QED
      BY <3>1, OwnedNothing
  <2>3. CASE link[l].host # g
    <3>1. ~Serves(l, g)
      BY <2>3 DEF Serves
    <3>2. \A m \in Link : Serves(m, g) => Serves(m, g)'
      BY <2>1, <3>1, ServesKept
    <3> QED
      BY <1>1, <1>2, <2>1, <2>3, <3>2
  <2> QED
    BY <2>2, <2>3
<1>19. CASE UNCHANGED vars
  BY <1>2, <1>19 DEF vars, Serves
<1> QED
  BY <1>3, <1>4, <1>5, <1>6, <1>8, <1>9, <1>10, <1>11, <1>12, <1>13, <1>14, <1>15,
     <1>16, <1>17, <1>18, <1>19
  DEF Next, Environment, SessionStep, RefreshStep, LinkStep

\* The invariant that carries the owner through every interleaving.
LEMMA OwnedAlways == Spec => [](Typed /\ \A h \in Host : Owned(h))
<1>1. Init => Typed /\ \A h \in Host : Owned(h)
  <2>1. Init => \A h \in Host : Owned(h)
    BY DEF Init, NewPeer, Owned
  <2> QED
    BY <2>1, TypedInit
<1>2. (Typed /\ \A h \in Host : Owned(h)) /\ [Next]_vars
        => (Typed /\ \A h \in Host : Owned(h))'
  BY TypedStep, OwnedStep
<1> QED
  BY <1>1, <1>2, PTL DEF Spec

\* A connected host always has a session that needs the connection.
THEOREM ConnectionNeedsSession == Spec => []ConnectedHasSession
<1>1. (Typed /\ \A h \in Host : Owned(h)) => ConnectedHasSession
  BY OwnedMeans
<1> QED
  BY <1>1, OwnedAlways, PTL

\* The flag, the close handle and the connection task of a host agree.
THEOREM OwnerIsThere == Spec => []ConnectionOwned
<1>1. (Typed /\ \A h \in Host : Owned(h)) => ConnectionOwned
  BY OwnedMeans
<1> QED
  BY <1>1, OwnedAlways, PTL

\* The sweep that opens refresh_peer_liveness never finds a connection to close.
THEOREM NoIdleConnection == Spec => [](IdleConnected = {})
<1>1. (Typed /\ \A h \in Host : Owned(h)) => IdleConnected = {}
  BY DEF Typed, TypeOK, PeerState, Owned, IdleConnected
<1> QED
  BY <1>1, OwnedAlways, PTL

-----------------------------------------------------------------------------
(* The connecting flag *)

Attempt(l, h) == link[l].host = h /\ link[l].stage \in Attempting

Attempted(h) == peers[h].connecting => \E l \in Link : Attempt(l, h)

\* A host keeps its attempt when neither its flag nor its tasks are disturbed.
LEMMA AttemptFrame ==
    ASSUME NEW h \in Host, Attempted(h),
           peers'[h].connecting = peers[h].connecting,
           \A l \in Link : Attempt(l, h) => Attempt(l, h)'
    PROVE  Attempted(h)'
BY DEF Attempted

\* A task that ends, clearing the flag of its host, is nobody else's attempt.
LEMMA AttemptEnds ==
    ASSUME Typed, NEW h \in Host, Attempted(h), NEW l \in Link, NEW slot \in LinkState,
           NEW e \in PeerState, e.connecting = FALSE,
           link' = [link EXCEPT ![l] = slot],
           peers' = [peers EXCEPT ![link[l].host] = e]
    PROVE  Attempted(h)'
<1>1. peers \in [Host -> PeerState] /\ link \in [Link -> LinkState]
  BY DEF Typed, TypeOK
<1>2. CASE h = link[l].host
  BY <1>1, <1>2 DEF Attempted
<1>3. CASE h # link[l].host
  <2>1. peers'[h] = peers[h]
    BY <1>1, <1>3
  <2>2. \A m \in Link : Attempt(m, h) => Attempt(m, h)'
    BY <1>1, <1>3 DEF Attempt
  <2> QED
    BY <2>1, <2>2, AttemptFrame
<1> QED
  BY <1>2, <1>3

\* A task that claims the flag of a host is its attempt, and disturbs no other.
LEMMA AttemptStarts ==
    ASSUME Typed, NEW g \in Host, NEW h \in Host, Attempted(g), NEW l \in Link,
           NEW stage \in {"probing", "dialing"}, SpawnLink(l, h, stage),
           \A f \in Host : f # h => peers'[f] = peers[f]
    PROVE  Attempted(g)'
<1>1. peers \in [Host -> PeerState] /\ link \in [Link -> LinkState]
  BY DEF Typed, TypeOK
<1>2. CASE g = h
  <2>1. Attempt(l, h)'
    BY <1>1 DEF SpawnLink, Attempt, Attempting
  <2> QED
    BY <1>2, <2>1 DEF Attempted
<1>3. CASE g # h
  <2>1. \A m \in Link : Attempt(m, g) => Attempt(m, g)'
    BY <1>1 DEF SpawnLink, Attempt, Attempting
  <2> QED
    BY <1>3, <2>1, AttemptFrame
<1> QED
  BY <1>2, <1>3

\* Every step keeps the attempt of every host that is `connecting`.
LEMMA AttemptedStep ==
    ASSUME Typed, \A h \in Host : Attempted(h), [Next]_vars, NEW g \in Host
    PROVE  Attempted(g)'
<1>1. /\ peers \in [Host -> PeerState] /\ link \in [Link -> LinkState]
      /\ \A s \in Session : HostOf[s] \in Host
      /\ \A l \in Link : link[l].stage # "idle" => link[l].host \in Host
      /\ Attempted(g) /\ peers[g] \in PeerState
      /\ \A r \in Refresher, h \in Host : job[r][h].connected \in BOOLEAN
      /\ discovered \subseteq Session
  BY DEF Typed, TypeOK, LinksHaveHosts, JobState
<1>2. ASSUME UNCHANGED peers, \A l \in Link : Attempt(l, g) => Attempt(l, g)'
      PROVE  Attempted(g)'
  BY <1>1, <1>2, AttemptFrame
<1>3. ASSUME UNCHANGED link, NEW h \in Host, NEW e \in PeerState,
             peers' = [peers EXCEPT ![h] = e],
             e.connecting = FALSE \/ e.connecting = peers[h].connecting
      PROVE  Attempted(g)'
  BY <1>1, <1>3 DEF Attempted, Attempt
<1>4. ASSUME NEW s \in Session, HandleDisconnect(s) \/ WatcherFires(s) PROVE Attempted(g)'
  <2> DEFINE h == HostOf[s]
             e == AfterPidExit(peers[h], s)
  <2>1. peers' = [peers EXCEPT ![h] = e] /\ UNCHANGED link
    BY <1>4 DEF HandleDisconnect, WatcherFires
  <2>2. h \in Host /\ e \in PeerState /\ e.connecting = peers[h].connecting
    <3>1. h \in Host /\ peers[h] \in PeerState
      BY <1>1
    <3>2. e.connecting = peers[h].connecting
      BY <3>1 DEF AfterPidExit, PeerState
    <3> QED
      BY <3>1, <3>2, AfterPidExitType
  <2> HIDE DEF h, e
  <2> QED
    BY <1>3, <2>1, <2>2
<1>5. ASSUME NEW s \in Session, SshStarts(s) \/ SshExits(s) \/ Notify(s) PROVE Attempted(g)'
  BY <1>2, <1>5 DEF SshStarts, SshExits, Notify, Attempt
<1>6. ASSUME NEW h \in Host, Outage(h) PROVE Attempted(g)'
  <2>1. PICK broken \in SUBSET OpenLinks(h) :
          link' = [l \in Link |-> IF l \in broken THEN [link[l] EXCEPT !.eof = TRUE]
                                                 ELSE link[l]]
    BY <1>6 DEF Outage
  <2>2. \A l \in Link : link'[l].host = link[l].host /\ link'[l].stage = link[l].stage
    BY <1>1, <2>1 DEF LinkState
  <2> QED
    BY <1>2, <1>6, <2>2 DEF Outage, Attempt
<1>7. CASE ScanProcesses \/ \E h \in Host : Recovery(h)
  BY <1>2, <1>7 DEF ScanProcesses, Recovery, Attempt
<1>8. ASSUME NEW s \in Session, HandleConnect(s) PROVE Attempted(g)'
  <2> DEFINE h == HostOf[s]
             e == WithSessions(peers[h], {s})
  <2>1. UNCHANGED link /\ (UNCHANGED peers \/ peers' = [peers EXCEPT ![h] = e])
    BY <1>8 DEF HandleConnect
  <2>2. h \in Host /\ e \in PeerState /\ e.connecting = peers[h].connecting
    <3>1. h \in Host /\ peers[h] \in PeerState
      BY <1>1
    <3>2. e.connecting = peers[h].connecting
      BY <3>1 DEF WithSessions, PeerState
    <3> QED
      BY <3>1, <3>2, WithSessionsType
  <2> HIDE DEF h, e
  <2> QED
    BY <1>2, <1>3, <2>1, <2>2 DEF Attempt
<1>9. ASSUME NEW h \in Host, DiscoverHost(h) PROVE Attempted(g)'
  <2> DEFINE new == {s \in discovered : HostOf[s] = h} \ peers[h].watched_pids
             e == WithSessions(peers[h], new)
  <2>1. e \in PeerState /\ e.connecting = peers[h].connecting
    <3>1. peers[h] \in PeerState /\ new \in SUBSET Session
      BY <1>1
    <3> HIDE DEF new
    <3>2. e.connecting = peers[h].connecting
      BY <3>1 DEF WithSessions, PeerState
    <3> QED
      BY <3>1, <3>2, WithSessionsType
  <2>2. \/ peers' = [peers EXCEPT ![h] = e] /\ UNCHANGED link
        \/ /\ peers' = [peers EXCEPT ![h] = Claimed(e)]
           /\ \E l \in Link : SpawnLink(l, h, "probing")
    BY <1>9 DEF DiscoverHost
  <2> HIDE DEF e
  <2>3. CASE peers' = [peers EXCEPT ![h] = e] /\ UNCHANGED link
    BY <1>3, <2>1, <2>3
  <2>4. CASE /\ peers' = [peers EXCEPT ![h] = Claimed(e)]
             /\ \E l \in Link : SpawnLink(l, h, "probing")
    <3>1. \A f \in Host : f # h => peers'[f] = peers[f]
      BY <1>1, <2>4
    <3> QED
      BY <1>1, <2>4, <3>1, AttemptStarts
  <2> QED
    BY <2>2, <2>3, <2>4
<1>10. ASSUME NEW s \in Session, ConnectIfUnlinked(s) PROVE Attempted(g)'
  <2>1. CASE UNCHANGED <<peers, link>>
    BY <1>2, <2>1 DEF Attempt
  <2>2. CASE /\ peers' = [peers EXCEPT ![HostOf[s]] = Claimed(@)]
             /\ \E l \in Link : SpawnLink(l, HostOf[s], "probing")
    <3>1. HostOf[s] \in Host /\ \A f \in Host : f # HostOf[s] => peers'[f] = peers[f]
      BY <1>1, <2>2
    <3> QED
      BY <1>1, <2>2, <3>1, AttemptStarts
  <2> QED
    BY <1>10, <2>1, <2>2 DEF ConnectIfUnlinked
<1>11. ASSUME NEW r \in Refresher, RefreshStart(r) PROVE Attempted(g)'
  <2>1. \/ peers'[g] = peers[g]
        \/ peers'[g] = Closed(peers[g])
    BY <1>11 DEF RefreshStart
  <2>2. Closed(peers[g]).connecting = FALSE
    BY <1>1 DEF Closed, PeerState
  <2>3. UNCHANGED link
    BY <1>11 DEF RefreshStart
  <2> QED
    BY <1>1, <2>1, <2>2, <2>3 DEF Attempted, Attempt
<1>12. ASSUME NEW r \in Refresher, NEW h \in Host, RefreshVisit(r, h) \/ RefreshProbed(r, h)
       PROVE  Attempted(g)'
  BY <1>2, <1>12 DEF RefreshVisit, RefreshProbed, Attempt
<1>13. ASSUME NEW r \in Refresher, NEW h \in Host, RefreshReachable(r, h) PROVE Attempted(g)'
  <2>1. CASE UNCHANGED <<peers, link>>
    BY <1>2, <2>1 DEF Attempt
  <2>2. CASE /\ peers' = [peers EXCEPT ![h] = Claimed(@)]
             /\ \E l \in Link : SpawnLink(l, h, "dialing")
    <3>1. \A f \in Host : f # h => peers'[f] = peers[f]
      BY <1>1, <2>2
    <3> QED
      BY <1>1, <2>2, <3>1, AttemptStarts
  <2> QED
    BY <1>13, <2>1, <2>2 DEF RefreshReachable
<1>14. ASSUME NEW r \in Refresher, NEW h \in Host, RefreshUnreachable(r, h)
       PROVE  Attempted(g)'
  <2> DEFINE e == Unreachable(peers[h], job[r][h].connected)
  <2>1. peers' = [peers EXCEPT ![h] = e] /\ UNCHANGED link
    BY <1>14 DEF RefreshUnreachable
  <2>2. e \in PeerState /\ e.connecting = FALSE
    <3>1. peers[h] \in PeerState /\ job[r][h].connected \in BOOLEAN
      BY <1>1
    <3>2. e.connecting = FALSE
      BY <3>1 DEF Unreachable, NoDaemon, PeerState
    <3> QED
      BY <3>1, <3>2, UnreachableType
  <2> HIDE DEF e
  <2> QED
    BY <1>3, <2>1, <2>2
<1>15. ASSUME NEW l \in Link, ProbeRemote(l) \/ Dial(l) \/ LeaveLoop(l) PROVE Attempted(g)'
  <2>1. \A m \in Link : Attempt(m, g) => Attempt(m, g)'
    BY <1>1, <1>15 DEF ProbeRemote, Dial, LeaveLoop, Attempt, Attempting, LinkState
  <2> QED
    BY <1>2, <1>15, <2>1 DEF ProbeRemote, Dial, LeaveLoop
<1>16. ASSUME NEW l \in Link, NoDaemonFound(l) \/ DialRefused(l) \/ CleanUp(l) \/ KeepConnection(l)
       PROVE  Attempted(g)'
  <2> DEFINE h == link[l].host
  <2>1. h \in Host
    BY <1>1, <1>16 DEF NoDaemonFound, DialRefused, CleanUp, KeepConnection
  <2>2. peers[h] \in PeerState
    BY <1>1, <2>1
  <2>3. \E e \in PeerState : e.connecting = FALSE /\ peers' = [peers EXCEPT ![h] = e]
    <3>1. /\ NoDaemon(peers[h]).connecting = FALSE /\ AttemptOver(peers[h]).connecting = FALSE
          /\ Closed(peers[h]).connecting = FALSE /\ Connected(peers[h], l).connecting = FALSE
          /\ [AttemptOver(peers[h]) EXCEPT !.close_tx = NoLink].connecting = FALSE
      BY <2>2 DEF NoDaemon, AttemptOver, Closed, Connected, PeerState
    <3>2. \/ peers' = [peers EXCEPT ![h] = NoDaemon(peers[h])]
          \/ peers' = [peers EXCEPT ![h] = AttemptOver(peers[h])]
          \/ peers' = [peers EXCEPT ![h] = Closed(peers[h])]
          \/ peers' = [peers EXCEPT ![h] = Connected(peers[h], l)]
          \/ peers' = [peers EXCEPT ![h] = [AttemptOver(peers[h]) EXCEPT !.close_tx = NoLink]]
      BY <1>16 DEF NoDaemonFound, DialRefused, CleanUp, KeepConnection
    <3> HIDE DEF h
    <3> QED
      BY <2>2, <3>1, <3>2, EntryTypes, ConnectedType
  <2>4. \E slot \in LinkState : link' = [link EXCEPT ![l] = slot]
    <3>1. IdleLink \in LinkState /\ [link[l] EXCEPT !.stage = "stream"] \in LinkState
      BY <1>1, NewSlotTypes, SlotTypes, "stream" \in Stage DEF Stage
    <3>2. \/ link' = [link EXCEPT ![l] = IdleLink]
          \/ link' = [link EXCEPT ![l] = [link[l] EXCEPT !.stage = "stream"]]
      BY <1>1, <1>16 DEF NoDaemonFound, DialRefused, CleanUp, KeepConnection
    <3> QED
      BY <3>1, <3>2
  <2> QED
    BY <1>1, <2>3, <2>4, AttemptEnds
<1>17. CASE UNCHANGED vars
  BY <1>2, <1>17 DEF vars, Attempt
<1> QED
  BY <1>4, <1>5, <1>6, <1>7, <1>8, <1>9, <1>10, <1>11, <1>12, <1>13, <1>14, <1>15,
     <1>16, <1>17
  DEF Next, Environment, SessionStep, RefreshStep, LinkStep

\* A host is never left `connecting` by attempts that are all over.
THEOREM FlagHasAttempt == Spec => []ConnectingHasAttempt
<1>1. Init => Typed /\ \A h \in Host : Attempted(h)
  <2>1. Init => \A h \in Host : Attempted(h)
    BY DEF Init, NewPeer, Attempted
  <2> QED
    BY <2>1, TypedInit
<1>2. (Typed /\ \A h \in Host : Attempted(h)) /\ [Next]_vars
        => (Typed /\ \A h \in Host : Attempted(h))'
  BY TypedStep, AttemptedStep
<1>3. (Typed /\ \A h \in Host : Attempted(h)) => ConnectingHasAttempt
  BY DEF Attempted, Attempt, ConnectingHasAttempt
<1> QED
  BY <1>1, <1>2, <1>3, PTL DEF Spec

-----------------------------------------------------------------------------
(* Why a connection ends *)

\* What a step does to a connection task.
LEMMA TaskSteps ==
    ASSUME Typed, [Next]_vars, NEW l \in Link
    PROVE  \/ link'[l] \in {link[l], [link[l] EXCEPT !.eof = TRUE]}
           \/ link[l].stage = "idle" /\ ~link'[l].eof /\ link'[l].stage \in {"probing", "dialing"}
           \/ link'[l] = IdleLink /\ (NoDaemonFound(l) \/ DialRefused(l) \/ KeepConnection(l) \/ CleanUp(l))
           \/ ProbeRemote(l) \/ Dial(l) \/ LeaveLoop(l)
           \/ KeepConnection(l) /\ link'[l] = [link[l] EXCEPT !.stage = "stream"]
<1>1. link \in [Link -> LinkState]
  BY DEF Typed, TypeOK
<1>2. CASE UNCHANGED link
  BY <1>2
<1>3. ASSUME NEW m \in Link, NEW h \in Host, NEW stage \in {"probing", "dialing"},
             SpawnLink(m, h, stage), link'[l] # link[l]
      PROVE  link[l].stage = "idle" /\ ~link'[l].eof /\ link'[l].stage \in {"probing", "dialing"}
  BY <1>1, <1>3 DEF SpawnLink
<1>4. \/ UNCHANGED link
      \/ \E m \in Link, h \in Host, stage \in {"probing", "dialing"} : SpawnLink(m, h, stage)
      \/ \E m \in Link : ProbeRemote(m) \/ Dial(m) \/ LeaveLoop(m)
      \/ \E h \in Host : Outage(h)
      \/ \E m \in Link : NoDaemonFound(m) \/ DialRefused(m) \/ CleanUp(m) \/ KeepConnection(m)
  <2>1. ASSUME NEW s \in Session, ConnectIfUnlinked(s)
        PROVE  \/ UNCHANGED link
               \/ \E m \in Link, h \in Host, stage \in {"probing", "dialing"} : SpawnLink(m, h, stage)
    BY <2>1 DEF ConnectIfUnlinked
  <2>2. ASSUME NEW h \in Host, DiscoverHost(h)
        PROVE  \/ UNCHANGED link
               \/ \E m \in Link, stage \in {"probing", "dialing"} : SpawnLink(m, h, stage)
    BY <2>2 DEF DiscoverHost
  <2>3. ASSUME NEW r \in Refresher, NEW h \in Host, RefreshReachable(r, h)
        PROVE  \/ UNCHANGED link
               \/ \E m \in Link, stage \in {"probing", "dialing"} : SpawnLink(m, h, stage)
    BY <2>3 DEF RefreshReachable
  <2>4. CASE \/ \E s \in Session : SshStarts(s) \/ SshExits(s) \/ Notify(s) \/ HandleDisconnect(s)
                                   \/ HandleConnect(s) \/ WatcherFires(s)
             \/ \E h \in Host : Recovery(h)
             \/ ScanProcesses
             \/ \E r \in Refresher : RefreshStart(r)
             \/ \E r \in Refresher, h \in Host : RefreshVisit(r, h) \/ RefreshProbed(r, h)
                                                 \/ RefreshUnreachable(r, h)
             \/ UNCHANGED vars
    BY <2>4 DEF SshStarts, SshExits, Notify, HandleDisconnect, HandleConnect, WatcherFires, Recovery,
       ScanProcesses, RefreshStart, RefreshVisit, RefreshProbed, RefreshUnreachable, vars
  <2>5. \A s \in Session : HostOf[s] \in Host
    OBVIOUS
  <2> QED
    BY <2>1, <2>2, <2>3, <2>4, <2>5 DEF Next, Environment, SessionStep, RefreshStep, LinkStep
<1>5. ASSUME NEW m \in Link, ProbeRemote(m) \/ Dial(m) \/ LeaveLoop(m)
      PROVE  link'[l] = link[l] \/ ProbeRemote(l) \/ Dial(l) \/ LeaveLoop(l)
  BY <1>1, <1>5 DEF ProbeRemote, Dial, LeaveLoop
<1>6. ASSUME NEW m \in Link, NoDaemonFound(m) \/ DialRefused(m) \/ CleanUp(m) \/ KeepConnection(m)
      PROVE  \/ link'[l] \in {link[l], [link[l] EXCEPT !.eof = TRUE]}
             \/ link'[l] = IdleLink /\ (NoDaemonFound(l) \/ DialRefused(l) \/ KeepConnection(l) \/ CleanUp(l))
             \/ KeepConnection(l) /\ link'[l] = [link[l] EXCEPT !.stage = "stream"]
  <2>1. CASE m # l
    BY <1>1, <1>6, <2>1 DEF NoDaemonFound, DialRefused, CleanUp, KeepConnection
  <2>2. CASE m = l
    BY <1>1, <1>6, <2>2 DEF NoDaemonFound, DialRefused, CleanUp, KeepConnection
  <2> QED
    BY <2>1, <2>2
<1>7. ASSUME NEW h \in Host, Outage(h)
      PROVE  link'[l] \in {link[l], [link[l] EXCEPT !.eof = TRUE]}
  BY <1>1, <1>7 DEF Outage
<1> QED
  BY <1>2, <1>3, <1>4, <1>5, <1>6, <1>7

\* The owner streams, unless its stream has ended.
OwnerStreams(h) ==
    peers[h].connected => \/ link[peers[h].close_tx].stage = "stream"
                          \/ link[peers[h].close_tx].eof

\* Only a status request reads, and remembers, that a host is connected.
JobsVisited == \A r \in Refresher, h \in Host : job[r][h].connected => r \in CheckConnected

\* A task of h cleans up: the owner because its stream ended, or another.
CleanedUp(h) ==
    \E l \in Link : link[l].host = h /\ CleanUp(l) /\ (l = peers[h].close_tx => link[l].eof)

\* The failed probe of a status request that had read h as connected.
ProbedDown(h) ==
    \E r \in CheckConnected : job[r][h] = [result |-> "down", connected |-> TRUE]
                                  /\ RefreshUnreachable(r, h)

\* What a step may do to the connection of a host: nothing, close it for lack of
\* sessions, in a clean-up or after a status request's probe, or make a new one.
LEMMA ConnectionFates ==
    ASSUME Typed, (\A h \in Host : Owned(h)), (\A h \in Host : OwnerStreams(h)), JobsVisited,
           [Next]_vars, NEW g \in Host
    PROVE  \/ /\ peers'[g].connected = peers[g].connected
              /\ peers'[g].connected => peers'[g].close_tx = peers[g].close_tx
           \/ /\ ~peers'[g].connected
              /\ peers'[g].session_count = 0 \/ CleanedUp(g) \/ ProbedDown(g)
           \/ \E l \in Link : KeepConnection(l) /\ link[l].host = g /\ peers'[g].close_tx = l
                              /\ link'[l].stage = "stream"
<1> DEFINE Kept == /\ peers'[g].connected = peers[g].connected
                   /\ peers'[g].connected => peers'[g].close_tx = peers[g].close_tx
<1>1. /\ peers \in [Host -> PeerState] /\ link \in [Link -> LinkState]
      /\ \A s \in Session : HostOf[s] \in Host
      /\ \A l \in Link : link[l].stage # "idle" => link[l].host \in Host
      /\ Owned(g) /\ peers[g] \in PeerState
      /\ \A r \in Refresher, h \in Host : job[r][h] \in JobState
      /\ discovered \subseteq Session
  BY DEF Typed, TypeOK, LinksHaveHosts
<1> DEFINE Lost == peers'[g].connected = FALSE
<1>3. (peers'[g] = peers[g]) => Kept
  OBVIOUS
<1>4. ASSUME NEW h \in Host, NEW e \in PeerState, peers' = [peers EXCEPT ![h] = e],
             /\ e.connected = peers[h].connected
             /\ e.connected => e.close_tx = peers[h].close_tx
      PROVE  Kept
  BY <1>1, <1>4
<1>5. ASSUME NEW s \in Session, HandleDisconnect(s) \/ WatcherFires(s)
      PROVE  Kept \/ (Lost /\ peers'[g].session_count = 0)
  <2> DEFINE h == HostOf[s]
             e == AfterPidExit(peers[h], s)
  <2>1. peers' = [peers EXCEPT ![h] = e] /\ h \in Host /\ peers[h] \in PeerState
    BY <1>1, <1>5 DEF HandleDisconnect, WatcherFires
  <2>2. /\ e \in PeerState
        /\ \/ e.connected = FALSE /\ e.session_count = 0
           \/ e.connected = peers[h].connected /\ e.close_tx = peers[h].close_tx
    <3> HIDE DEF h
    <3>1. e \in PeerState
      BY <2>1, AfterPidExitType
    <3>2. \/ e.connected = FALSE /\ e.session_count = 0
          \/ e.connected = peers[h].connected /\ e.close_tx = peers[h].close_tx
      <4> DEFINE left == IF peers[h].session_count = 0 THEN 0 ELSE peers[h].session_count - 1
      <4>1. CASE left = 0
        BY <2>1, <4>1 DEF AfterPidExit, PeerState
      <4>2. CASE left # 0
        BY <2>1, <4>2 DEF AfterPidExit, PeerState
      <4> QED
        BY <4>1, <4>2
    <3> QED
      BY <3>1, <3>2
  <2> HIDE DEF h, e
  <2>3. CASE g = h
    <3>1. peers'[g] = e
      BY <1>1, <2>1, <2>3
    <3> HIDE <2>1
    <3> HIDE DEF Kept, Lost
    <3>2. CASE e.connected = FALSE /\ e.session_count = 0
      BY <3>1, <3>2 DEF Lost
    <3>3. CASE e.connected = peers[h].connected /\ e.close_tx = peers[h].close_tx
      BY <2>3, <3>1, <3>3 DEF Kept
    <3> QED
      BY <2>2, <3>2, <3>3
  <2>4. CASE g # h
    <3>1. peers'[g] = peers[g]
      BY <1>1, <2>1, <2>4
    <3> QED
      BY <1>3, <3>1
  <2> QED
    BY <2>3, <2>4
<1>6. ASSUME NEW s \in Session, HandleConnect(s) PROVE Kept
  <2> DEFINE h == HostOf[s]
             e == WithSessions(peers[h], {s})
  <2>1. UNCHANGED peers \/ peers' = [peers EXCEPT ![h] = e]
    BY <1>6 DEF HandleConnect
  <2>2. h \in Host /\ e \in PeerState /\ e.connected = peers[h].connected
        /\ e.close_tx = peers[h].close_tx
    <3>1. h \in Host /\ peers[h] \in PeerState
      BY <1>1
    <3> QED
      BY <3>1, WithSessionsType, WithSessionsFields
  <2> HIDE DEF h, e
  <2> QED
    BY <1>3, <1>4, <2>1, <2>2
<1>7. ASSUME NEW h \in Host, DiscoverHost(h) PROVE Kept
  <2> DEFINE new == {s \in discovered : HostOf[s] = h} \ peers[h].watched_pids
             e == WithSessions(peers[h], new)
  <2>1. e \in PeerState /\ e.connected = peers[h].connected /\ e.close_tx = peers[h].close_tx
    <3>1. peers[h] \in PeerState /\ new \in SUBSET Session
      BY <1>1
    <3> HIDE DEF new
    <3> QED
      BY <3>1, WithSessionsType, WithSessionsFields
  <2>2. \/ peers' = [peers EXCEPT ![h] = e]
        \/ peers' = [peers EXCEPT ![h] = Claimed(e)]
    BY <1>7 DEF DiscoverHost
  <2> HIDE DEF e
  <2>3. /\ Claimed(e) \in PeerState /\ Claimed(e).connected = e.connected
        /\ Claimed(e).close_tx = e.close_tx
    BY <2>1 DEF Claimed, PeerState
  <2> QED
    BY <1>4, <2>1, <2>2, <2>3
<1>8. ASSUME NEW h \in Host,
             \/ peers' = [peers EXCEPT ![h] = Claimed(peers[h])]
             \/ peers' = [peers EXCEPT ![h] = AttemptOver(peers[h])]
             \/ peers' = [peers EXCEPT ![h] = NoDaemon(peers[h])]
      PROVE  Kept
  <2>1. peers[h] \in PeerState
    BY <1>1
  <2>2. \A e \in {Claimed(peers[h]), AttemptOver(peers[h]), NoDaemon(peers[h])} :
          e.connected = peers[h].connected /\ e.close_tx = peers[h].close_tx
    BY <2>1 DEF Claimed, AttemptOver, NoDaemon, PeerState
  <2> QED
    BY <1>4, <1>8, <2>1, <2>2, EntryTypes
<1>9. ASSUME NEW s \in Session, ConnectIfUnlinked(s) PROVE Kept
  BY <1>1, <1>3, <1>8, <1>9 DEF ConnectIfUnlinked
<1>10. ASSUME NEW r \in Refresher, RefreshStart(r) PROVE Kept
  <2>1. IdleConnected = {}
    BY <1>1 DEF IdleConnected, Owned, PeerState
  <2>2. peers' = peers
    BY <1>1, <1>10, <2>1 DEF RefreshStart
  <2> QED
    BY <1>3, <2>2
<1>11. ASSUME NEW r \in Refresher, NEW h \in Host, RefreshReachable(r, h) PROVE Kept
  BY <1>3, <1>8, <1>11 DEF RefreshReachable
<1>12. ASSUME NEW r \in Refresher, NEW h \in Host, RefreshUnreachable(r, h)
       PROVE  Kept \/ (Lost /\ ProbedDown(g))
  <2>1. peers' = [peers EXCEPT ![h] = Unreachable(peers[h], job[r][h].connected)]
        /\ job[r][h].result = "down"
    BY <1>12 DEF RefreshUnreachable
  <2>2. CASE ~job[r][h].connected
    <3>1. peers' = [peers EXCEPT ![h] = NoDaemon(peers[h])]
      BY <2>1, <2>2 DEF Unreachable
    <3> QED
      BY <1>8, <3>1
  <2>3. CASE job[r][h].connected /\ h = g
    <3>1. r \in CheckConnected /\ job[r][g] = [result |-> "down", connected |-> TRUE]
      BY <1>1, <2>1, <2>3 DEF JobsVisited, JobState
    <3>2. ProbedDown(g)
      BY <1>12, <2>3, <3>1 DEF ProbedDown
    <3>3. Lost
      BY <1>1, <2>1, <2>3 DEF Unreachable, NoDaemon, PeerState
    <3> QED
      BY <3>2, <3>3
  <2>4. CASE h # g
    <3>1. peers'[g] = peers[g]
      BY <1>1, <2>1, <2>4
    <3> QED
      BY <1>3, <3>1
  <2> QED
    BY <2>2, <2>3, <2>4
<1>13. ASSUME NEW l \in Link, NoDaemonFound(l) \/ DialRefused(l) PROVE Kept
  <2>1. link[l].host \in Host
    BY <1>1, <1>13 DEF NoDaemonFound, DialRefused
  <2> QED
    BY <1>8, <1>13, <2>1 DEF NoDaemonFound, DialRefused
<1>14. ASSUME NEW l \in Link, CleanUp(l)
       PROVE  Kept \/ (Lost /\ CleanedUp(g))
  <2>1. /\ link[l].host \in Host /\ link[l].stage = "ended"
        /\ peers' = [peers EXCEPT ![link[l].host] = Closed(@)]
    BY <1>1, <1>14 DEF CleanUp
  <2>2. CASE link[l].host # g
    <3>1. peers'[g] = peers[g]
      BY <1>1, <2>1, <2>2
    <3> QED
      BY <1>3, <3>1
  <2>3. CASE link[l].host = g
    <3>1. Lost
      BY <1>1, <2>1, <2>3 DEF Closed, PeerState
    <3>2. CASE peers[g].connected
      <4>1. peers[g].close_tx = l => link[l].eof
        BY <2>1, <3>2 DEF OwnerStreams
      <4> QED
        BY <1>14, <2>3, <3>1, <4>1 DEF CleanedUp
    <3>3. CASE ~peers[g].connected
      <4>1. peers[g].connected = FALSE
        BY <1>1, <3>3 DEF PeerState
      <4> QED
        BY <3>1, <4>1
    <3> QED
      BY <3>2, <3>3
  <2> QED
    BY <2>2, <2>3
<1>15. ASSUME NEW l \in Link, KeepConnection(l)
       PROVE  \/ Kept
              \/ link[l].host = g /\ peers'[g].close_tx = l /\ link'[l].stage = "stream"
  <2> DEFINE h == link[l].host
  <2>1. h \in Host /\ peers[h] \in PeerState /\ Owned(h) /\ link[l] \in LinkState
    BY <1>1, <1>15 DEF KeepConnection
  <2>2. CASE /\ peers[h].session_count = 0
             /\ peers' = [peers EXCEPT ![h] = [AttemptOver(peers[h]) EXCEPT !.close_tx = NoLink]]
    <3> HIDE DEF h
    <3> DEFINE e == [AttemptOver(peers[h]) EXCEPT !.close_tx = NoLink]
    <3>1. e.connected = peers[h].connected /\ e \in PeerState
      <4>1. AttemptOver(peers[h]) \in PeerState /\ AttemptOver(peers[h]).connected = peers[h].connected
        BY <2>1, EntryTypes DEF AttemptOver, PeerState
      <4> QED
        BY <2>1, <4>1, EntryTypes DEF PeerState
    <3>2. ~peers[h].connected
      BY <2>1, <2>2 DEF Owned, PeerState
    <3>3. peers' = [peers EXCEPT ![h] = e]
      BY <2>2
    <3> HIDE DEF e
    <3> QED
      BY <1>4, <2>1, <3>1, <3>2, <3>3
  <2>3. CASE /\ peers' = [peers EXCEPT ![h] = Connected(peers[h], l)]
             /\ link' = [link EXCEPT ![l].stage = "stream"]
    <3>1. link'[l].stage = "stream"
      BY <1>1, <2>1, <2>3 DEF LinkState
    <3>2. CASE h = g
      <4>1. peers'[g] = Connected(peers[g], l)
        BY <1>1, <2>1, <2>3, <3>2
      <4>2. Connected(peers[g], l).close_tx = l
        BY <1>1 DEF Connected, PeerState
      <4> QED
        BY <3>1, <3>2, <4>1, <4>2
    <3>3. CASE h # g
      BY <1>1, <2>1, <2>3, <3>3
    <3> QED
      BY <3>2, <3>3
  <2> QED
    BY <1>15, <2>2, <2>3 DEF KeepConnection
<1>16. ASSUME \/ \E s \in Session : SshStarts(s) \/ SshExits(s) \/ Notify(s)
              \/ \E h \in Host : Outage(h) \/ Recovery(h)
              \/ ScanProcesses
              \/ \E r \in Refresher, h \in Host : RefreshVisit(r, h) \/ RefreshProbed(r, h)
              \/ \E l \in Link : ProbeRemote(l) \/ Dial(l) \/ LeaveLoop(l)
              \/ UNCHANGED vars
       PROVE  Kept
  <2>1. peers' = peers
    BY <1>16 DEF SshStarts, SshExits, Notify, Outage, Recovery, ScanProcesses, RefreshVisit,
       RefreshProbed, ProbeRemote, Dial, LeaveLoop, vars
  <2> QED
    BY <1>3, <2>1
<1> DEFINE Fate == \/ Kept
                   \/ Lost /\ (peers'[g].session_count = 0 \/ CleanedUp(g) \/ ProbedDown(g))
                   \/ \E l \in Link : KeepConnection(l) /\ link[l].host = g
                                      /\ peers'[g].close_tx = l /\ link'[l].stage = "stream"
<1>18. Kept => Fate
  OBVIOUS
<1>19. ASSUME NEW l \in Link, KeepConnection(l) PROVE Fate
  <2> HIDE DEF Kept
  <2> QED
    BY <1>15, <1>19
<1> HIDE DEF Kept, Lost
<1>20. ASSUME NEW l \in Link, CleanUp(l) PROVE Fate
  BY <1>14, <1>20
<1>21. ASSUME NEW s \in Session, HandleDisconnect(s) \/ WatcherFires(s) PROVE Fate
  BY <1>5, <1>21
<1>17. ASSUME NEW r \in Refresher, NEW h \in Host, RefreshUnreachable(r, h) PROVE Fate
  BY <1>12, <1>17
<1> HIDE DEF Fate
<1>22. ASSUME Environment \/ UNCHANGED vars \/ ScanProcesses
       PROVE  Fate
  BY <1>16, <1>18, <1>21, <1>22 DEF Environment
<1>23. ASSUME \E s \in Session : SessionStep(s)
       PROVE  Fate
  BY <1>6, <1>9, <1>18, <1>21, <1>23 DEF SessionStep
<1>24. ASSUME \E h \in Host : DiscoverHost(h)
       PROVE  Fate
  BY <1>7, <1>18, <1>24
<1>25. ASSUME \E r \in Refresher : RefreshStart(r) \/ RefreshStep(r)
       PROVE  Fate
  BY <1>10, <1>11, <1>16, <1>17, <1>18, <1>25 DEF RefreshStep
<1>26. ASSUME \E l \in Link : LinkStep(l)
       PROVE  Fate
  BY <1>13, <1>16, <1>18, <1>19, <1>20, <1>26 DEF LinkStep
<1>27. Fate
  <2>1. CASE UNCHANGED vars
    BY <1>22, <2>1
  <2>2. CASE Next
    BY <1>22, <1>23, <1>24, <1>25, <1>26, <2>2 DEF Next
  <2> QED
    BY <2>1, <2>2
<1> QED
  BY <1>27 DEF Fate, Kept, Lost

\* Leaving the loop takes the end of the stream or another owner.
LEMMA OwnerStreamsStep ==
    ASSUME Typed, (\A h \in Host : Owned(h)), (\A h \in Host : OwnerStreams(h)), JobsVisited,
           [Next]_vars
    PROVE  (\A h \in Host : OwnerStreams(h))'
<1> SUFFICES ASSUME NEW h \in Host, peers'[h].connected
             PROVE  link'[peers'[h].close_tx].stage = "stream" \/ link'[peers'[h].close_tx].eof
  BY DEF OwnerStreams
<1>1. CASE peers[h].connected /\ peers'[h].close_tx = peers[h].close_tx
  <2> DEFINE l == peers[h].close_tx
  <2>1. /\ l \in Link /\ link[l].host = h /\ link[l].stage \in {"stream", "ended"}
        /\ h \in Host /\ peers'[h].close_tx = l /\ link[l] \in LinkState
        /\ link[l].stage = "stream" \/ link[l].eof
    BY <1>1 DEF Owned, Serves, OwnerStreams, Typed, TypeOK
  <2>2. ~CloseSignalled(l)
    BY <2>1 DEF CloseSignalled
  <2> HIDE DEF l
  <2>3. CASE link'[l] \in {link[l], [link[l] EXCEPT !.eof = TRUE]}
    BY <2>1, <2>3 DEF LinkState
  <2>4. CASE ProbeRemote(l) \/ Dial(l) \/ KeepConnection(l)
    BY <2>1, <2>4 DEF ProbeRemote, Dial, KeepConnection
  <2>5. CASE LeaveLoop(l)
    BY <2>1, <2>2, <2>5 DEF LeaveLoop, LinkState, Typed, TypeOK
  <2>6. CASE NoDaemonFound(l) \/ DialRefused(l) \/ CleanUp(l)
    <3>1. CleanUp(l)
      BY <2>1, <2>6 DEF NoDaemonFound, DialRefused
    <3> QED
      BY <2>1, <3>1 DEF CleanUp, Closed, Typed, TypeOK, PeerState
  <2>7. link[l].stage # "idle"
    BY <2>1
  <2>8. link'[l].stage = "stream" \/ link'[l].eof
    BY <2>1, <2>3, <2>4, <2>5, <2>6, <2>7, TaskSteps, Zenon
  <2> QED
    BY <1>1, <2>8 DEF l
<1>2. CASE \E l \in Link : peers'[h].close_tx = l /\ link'[l].stage = "stream"
  BY <1>2
<1>3. \/ peers[h].connected /\ peers'[h].close_tx = peers[h].close_tx
      \/ \E l \in Link : peers'[h].close_tx = l /\ link'[l].stage = "stream"
  BY ConnectionFates
<1> QED
  BY <1>1, <1>2, <1>3

\* A probe remembers a connected host only in a call that checks those.
LEMMA JobsVisitedStep ==
    ASSUME Typed, JobsVisited, [Next]_vars
    PROVE  JobsVisited'
<1>1. job \in [Refresher -> [Host -> JobState]] /\ peers \in [Host -> PeerState]
  BY DEF Typed, TypeOK
<1>2. ASSUME NEW q \in Refresher, NEW g \in Host, NEW e \in JobState, job' = [job EXCEPT ![q][g] = e],
             e.connected => q \in CheckConnected
      PROVE  JobsVisited'
  <2> SUFFICES ASSUME NEW r \in Refresher, NEW h \in Host, job'[r][h].connected
               PROVE  r \in CheckConnected
    BY DEF JobsVisited
  <2>1. job'[r][h] = IF r = q /\ h = g THEN e ELSE job[r][h]
    BY <1>2, <1>1
  <2> QED
    BY <1>2, <2>1 DEF JobsVisited
<1>3. ASSUME NEW q \in Refresher, NEW g \in Host, RefreshVisit(q, g) PROVE JobsVisited'
  <2>1. CASE UNCHANGED job
    BY <2>1 DEF JobsVisited
  <2>2. CASE /\ peers[g].connected => q \in CheckConnected
             /\ job' = [job EXCEPT ![q][g] = [result |-> "waiting", connected |-> peers[g].connected]]
    <3>1. [result |-> "waiting", connected |-> peers[g].connected] \in JobState
      BY <1>1 DEF JobState, PeerState
    <3> QED
      BY <1>2, <2>2, <3>1
  <2> QED
    BY <1>3, <2>1, <2>2 DEF RefreshVisit
<1>4. ASSUME NEW q \in Refresher, NEW g \in Host, RefreshProbed(q, g) PROVE JobsVisited'
  BY <1>1, <1>4 DEF RefreshProbed, JobsVisited, JobState
<1>5. ASSUME NEW q \in Refresher, NEW g \in Host,
             RefreshReachable(q, g) \/ RefreshUnreachable(q, g)
      PROVE  JobsVisited'
  <2>1. NoJob \in JobState /\ ~NoJob.connected
    BY DEF NoJob, JobState
  <2> QED
    BY <1>2, <1>5, <2>1 DEF RefreshReachable, RefreshUnreachable
<1>6. ASSUME UNCHANGED job PROVE JobsVisited'
  BY <1>6 DEF JobsVisited
<1>7. \/ UNCHANGED job
      \/ \E q \in Refresher, g \in Host :
           \/ RefreshVisit(q, g) \/ RefreshProbed(q, g)
           \/ RefreshReachable(q, g) \/ RefreshUnreachable(q, g)
  BY DEF Next, Environment, SessionStep, RefreshStep, LinkStep, SshStarts, SshExits, Notify,
     HandleDisconnect, HandleConnect, ConnectIfUnlinked, WatcherFires, ScanProcesses, DiscoverHost,
     RefreshStart, ProbeRemote, NoDaemonFound, Dial, DialRefused, KeepConnection, LeaveLoop,
     CleanUp, Outage, Recovery, vars, refreshVars
<1> QED
  BY <1>3, <1>4, <1>5, <1>6, <1>7
=============================================================================
