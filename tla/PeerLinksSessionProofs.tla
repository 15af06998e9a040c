----------------------- MODULE PeerLinksSessionProofs -----------------------
(***************************************************************************)
(* Proofs about the sessions PeerLinks tracks, and that it implements      *)
(* SyncPromise.  Both rest on a classification of the steps by what they   *)
(* do to the registry: sessions join a host, a process leaves, or the step *)
(* is quiet, touching no session and at most the owner of one host.        *)
(***************************************************************************)
EXTENDS PeerLinksProofs

USE HostsAssumption, SessionsAssumption, RefreshersAssumption, BoundsAssumption

-----------------------------------------------------------------------------
(* What a step does to the registry *)

\* Entry e may replace h's in a step that is not about sessions.
QuietEntry(h, e) ==
    /\ e.session_count = peers[h].session_count
    /\ e.watched_pids = peers[h].watched_pids
    /\ \/ e.close_tx = peers[h].close_tx
       \/ e.close_tx = NoLink
       \/ e.close_tx \in Link /\ peers[h].session_count > 0

Quiet ==
    /\ UNCHANGED <<watcher, disconnects>>
    /\ \/ UNCHANGED peers
       \/ \E h \in Host : \E e \in PeerState :
            peers' = [peers EXCEPT ![h] = e] /\ QuietEntry(h, e)

\* Processes not tracked before are counted and watched.
Joined(h, new) ==
    /\ new \in SUBSET Session
    /\ new \cap peers[h].watched_pids = {}
    /\ \A s \in new : HostOf[s] = h
    /\ watcher' = [s \in Session |-> IF s \in new THEN watcher[s] + 1 ELSE watcher[s]]
    /\ UNCHANGED disconnects
    /\ \E e \in PeerState :
         /\ peers' = [peers EXCEPT ![h] = e]
         /\ e.session_count = peers[h].session_count + Cardinality(new)
         /\ e.watched_pids = peers[h].watched_pids \cup new
         /\ e.close_tx = peers[h].close_tx

\* The exit of a process is handled, reported by its watcher or by a message.
Left(s) ==
    /\ peers' = [peers EXCEPT ![HostOf[s]] = AfterPidExit(peers[HostOf[s]], s)]
    /\ \/ /\ watcher[s] > 0
          /\ watcher' = [watcher EXCEPT ![s] = watcher[s] - 1]
          /\ UNCHANGED disconnects
       \/ /\ disconnects' = disconnects + 1
          /\ UNCHANGED watcher

\* The operators that are not about sessions.
LEMMA QuietOperators ==
    ASSUME NEW peer \in PeerState, NEW w \in BOOLEAN
    PROVE  \A e \in {Claimed(peer), AttemptOver(peer),
                     [AttemptOver(peer) EXCEPT !.close_tx = NoLink],
                     NoDaemon(peer), Closed(peer), Unreachable(peer, w)} :
             /\ e \in PeerState
             /\ e.session_count = peer.session_count
             /\ e.watched_pids = peer.watched_pids
             /\ e.close_tx \in {peer.close_tx, NoLink}
<1>1. /\ Claimed(peer) \in PeerState
      /\ Claimed(peer).session_count = peer.session_count
      /\ Claimed(peer).watched_pids = peer.watched_pids
      /\ Claimed(peer).close_tx = peer.close_tx
  BY DEF Claimed, PeerState
<1>2. /\ AttemptOver(peer) \in PeerState
      /\ AttemptOver(peer).session_count = peer.session_count
      /\ AttemptOver(peer).watched_pids = peer.watched_pids
      /\ AttemptOver(peer).close_tx = peer.close_tx
  BY DEF AttemptOver, PeerState
<1>3. LET e == [AttemptOver(peer) EXCEPT !.close_tx = NoLink] IN
      /\ e \in PeerState /\ e.session_count = peer.session_count
      /\ e.watched_pids = peer.watched_pids /\ e.close_tx = NoLink
  BY <1>2 DEF PeerState
<1>4. /\ NoDaemon(peer) \in PeerState
      /\ NoDaemon(peer).session_count = peer.session_count
      /\ NoDaemon(peer).watched_pids = peer.watched_pids
      /\ NoDaemon(peer).close_tx = peer.close_tx
  BY DEF NoDaemon, PeerState
<1>5. /\ Closed(peer) \in PeerState
      /\ Closed(peer).session_count = peer.session_count
      /\ Closed(peer).watched_pids = peer.watched_pids
      /\ Closed(peer).close_tx = NoLink
  BY DEF Closed, PeerState
<1>6. LET e == Unreachable(peer, w) IN
      /\ e \in PeerState /\ e.session_count = peer.session_count
      /\ e.watched_pids = peer.watched_pids /\ e.close_tx \in {peer.close_tx, NoLink}
  <2>1. CASE w
    BY <1>4, <2>1 DEF Unreachable, PeerState
  <2>2. CASE ~w
    BY <1>4, <2>2 DEF Unreachable
  <2> QED
    BY <2>1, <2>2
<1> QED
  BY <1>1, <1>2, <1>3, <1>4, <1>5, <1>6

\* One of those operators is applied to the entry of one host.
LEMMA QuietUpdate ==
    ASSUME Typed, NEW h \in Host, NEW w \in BOOLEAN,
           UNCHANGED <<watcher, disconnects>>,
           NEW e \in {Claimed(peers[h]), AttemptOver(peers[h]),
                      [AttemptOver(peers[h]) EXCEPT !.close_tx = NoLink],
                      NoDaemon(peers[h]), Closed(peers[h]), Unreachable(peers[h], w)},
           peers' = [peers EXCEPT ![h] = e]
    PROVE  Quiet
<1>1. peers[h] \in PeerState
  BY DEF Typed, TypeOK
<1>2. /\ e \in PeerState
      /\ e.session_count = peers[h].session_count
      /\ e.watched_pids = peers[h].watched_pids
      /\ e.close_tx \in {peers[h].close_tx, NoLink}
  BY <1>1, QuietOperators
<1> QED
  BY <1>2 DEF Quiet, QuietEntry

\* A step of a task belongs to one of the three classes.
LEMMA StepClasses ==
    ASSUME Typed, \A h \in Host : Owned(h), [Next]_vars
    PROVE  \/ Quiet
           \/ \E h \in Host : \E new \in SUBSET Session : Joined(h, new)
           \/ \E s \in Session : Left(s)
<1>1. /\ peers \in [Host -> PeerState] /\ link \in [Link -> LinkState]
      /\ watcher \in [Session -> Nat]
      /\ \A s \in Session : HostOf[s] \in Host
      /\ \A l \in Link : link[l].stage # "idle" => link[l].host \in Host
      /\ \A r \in Refresher, h \in Host : job[r][h].connected \in BOOLEAN
      /\ discovered \subseteq Session
  BY DEF Typed, TypeOK, LinksHaveHosts, JobState
<1>2. ASSUME UNCHANGED <<watcher, disconnects>>, UNCHANGED peers PROVE Quiet
  BY <1>2 DEF Quiet
<1>3. ASSUME NEW s \in Session, HandleDisconnect(s) \/ WatcherFires(s) PROVE Left(s)
  BY <1>3 DEF HandleDisconnect, WatcherFires, Left
<1>4. ASSUME NEW h \in Host, NEW new \in SUBSET Session,
             new \cap peers[h].watched_pids = {},
             \A s \in new : HostOf[s] = h,
             watcher' = [s \in Session |-> IF s \in new THEN watcher[s] + 1 ELSE watcher[s]],
             UNCHANGED disconnects,
             \/ peers' = [peers EXCEPT ![h] = WithSessions(peers[h], new)]
             \/ peers' = [peers EXCEPT ![h] = Claimed(WithSessions(peers[h], new))]
      PROVE  Joined(h, new)
  <2> DEFINE e == WithSessions(peers[h], new)
  <2>1. e \in PeerState
    BY <1>1, WithSessionsType
  <2>2. /\ e.session_count = peers[h].session_count + Cardinality(new)
        /\ e.watched_pids = peers[h].watched_pids \cup new
        /\ e.close_tx = peers[h].close_tx
    <3>1. peers[h] \in PeerState
      BY <1>1
    <3> QED
      BY <3>1 DEF WithSessions, PeerState
  <2>3. peers' = [peers EXCEPT ![h] = e] \/ peers' = [peers EXCEPT ![h] = Claimed(e)]
    BY <1>4
  <2> HIDE DEF e
  <2>4. /\ Claimed(e) \in PeerState
        /\ Claimed(e).session_count = e.session_count
        /\ Claimed(e).watched_pids = e.watched_pids
        /\ Claimed(e).close_tx = e.close_tx
    BY <2>1 DEF Claimed, PeerState
  <2>5. \E f \in PeerState :
          /\ peers' = [peers EXCEPT ![h] = f]
          /\ f.session_count = peers[h].session_count + Cardinality(new)
          /\ f.watched_pids = peers[h].watched_pids \cup new
          /\ f.close_tx = peers[h].close_tx
    BY <2>1, <2>2, <2>3, <2>4
  <2> QED
    BY <1>4, <2>5 DEF Joined
<1>5. ASSUME NEW s \in Session, HandleConnect(s)
      PROVE  Quiet \/ Joined(HostOf[s], {s})
  <2>1. CASE s \in peers[HostOf[s]].watched_pids
    BY <1>2, <1>5, <2>1 DEF HandleConnect
  <2>2. CASE s \notin peers[HostOf[s]].watched_pids
    <3>1. watcher' = [t \in Session |-> IF t \in {s} THEN watcher[t] + 1 ELSE watcher[t]]
      BY <1>1, <1>5, <2>2 DEF HandleConnect
    <3>2. /\ peers' = [peers EXCEPT ![HostOf[s]] = WithSessions(peers[HostOf[s]], {s})]
          /\ UNCHANGED disconnects
      BY <1>5, <2>2 DEF HandleConnect
    <3>3. /\ HostOf[s] \in Host /\ {s} \in SUBSET Session
          /\ {s} \cap peers[HostOf[s]].watched_pids = {}
          /\ \A t \in {s} : HostOf[t] = HostOf[s]
      BY <1>1, <2>2
    <3>4. Joined(HostOf[s], {s})
      BY <1>4, <3>1, <3>2, <3>3
    <3> QED
      BY <3>4
  <2> QED
    BY <2>1, <2>2
<1>6. ASSUME NEW h \in Host, DiscoverHost(h)
      PROVE  \E new \in SUBSET Session : Joined(h, new)
  <2> DEFINE new == {s \in discovered : HostOf[s] = h} \ peers[h].watched_pids
  <2>1. /\ new \in SUBSET Session /\ new \cap peers[h].watched_pids = {}
        /\ \A s \in new : HostOf[s] = h
    BY <1>1
  <2>2. /\ watcher' = [s \in Session |-> IF s \in new THEN watcher[s] + 1 ELSE watcher[s]]
        /\ UNCHANGED disconnects
        /\ \/ peers' = [peers EXCEPT ![h] = WithSessions(peers[h], new)]
           \/ peers' = [peers EXCEPT ![h] = Claimed(WithSessions(peers[h], new))]
    BY <1>6 DEF DiscoverHost
  <2> HIDE DEF new
  <2> QED
    BY <1>4, <2>1, <2>2
<1>7. ASSUME NEW s \in Session, ConnectIfUnlinked(s) PROVE Quiet
  BY <1>1, <1>2, <1>7, QuietUpdate DEF ConnectIfUnlinked
<1>8. ASSUME NEW r \in Refresher, RefreshStart(r) PROVE Quiet
  <2>1. IdleConnected = {}
    BY <1>1 DEF IdleConnected, Owned, PeerState
  <2>2. UNCHANGED peers
    BY <1>1, <1>8, <2>1 DEF RefreshStart
  <2> QED
    BY <1>2, <1>8, <2>2 DEF RefreshStart, sessionVars
<1>9. ASSUME NEW r \in Refresher, NEW h \in Host, RefreshReachable(r, h) PROVE Quiet
  <2>1. \/ UNCHANGED peers
        \/ peers' = [peers EXCEPT ![h] = Claimed(peers[h])]
    BY <1>9 DEF RefreshReachable
  <2>2. UNCHANGED <<watcher, disconnects>>
    BY <1>9 DEF RefreshReachable, sessionVars
  <2> QED
    BY <1>2, <2>1, <2>2, QuietUpdate
<1>10. ASSUME NEW r \in Refresher, NEW h \in Host, RefreshUnreachable(r, h) PROVE Quiet
  <2>1. /\ peers' = [peers EXCEPT ![h] = Unreachable(peers[h], job[r][h].connected)]
        /\ UNCHANGED <<watcher, disconnects>>
    BY <1>10 DEF RefreshUnreachable, sessionVars
  <2> QED
    BY <1>1, <2>1, QuietUpdate
<1>11. ASSUME NEW l \in Link, NoDaemonFound(l) \/ DialRefused(l) \/ CleanUp(l) PROVE Quiet
  <2> DEFINE h == link[l].host
  <2>1. h \in Host
    <3>1. CASE NoDaemonFound(l)
      BY <1>1, <3>1 DEF NoDaemonFound
    <3>2. CASE DialRefused(l)
      BY <1>1, <3>2 DEF DialRefused
    <3>3. CASE CleanUp(l)
      BY <1>1, <3>3 DEF CleanUp
    <3> QED
      BY <1>11, <3>1, <3>2, <3>3
  <2>2. /\ UNCHANGED <<watcher, disconnects>>
        /\ \/ peers' = [peers EXCEPT ![h] = NoDaemon(peers[h])]
           \/ peers' = [peers EXCEPT ![h] = AttemptOver(peers[h])]
           \/ peers' = [peers EXCEPT ![h] = Closed(peers[h])]
    BY <1>11 DEF NoDaemonFound, DialRefused, CleanUp, sessionVars
  <2> HIDE DEF h
  <2> QED
    BY <2>1, <2>2, QuietUpdate
<1>12. ASSUME NEW l \in Link, KeepConnection(l) PROVE Quiet
  <2> DEFINE h == link[l].host
  <2>1. h \in Host /\ peers[h] \in PeerState /\ UNCHANGED <<watcher, disconnects>>
    BY <1>1, <1>12 DEF KeepConnection, sessionVars
  <2>2. CASE peers' = [peers EXCEPT ![h] = [AttemptOver(peers[h]) EXCEPT !.close_tx = NoLink]]
    <3> HIDE DEF h
    <3> QED
      BY <2>1, <2>2, QuietUpdate
  <2>3. CASE /\ peers[h].session_count > 0
             /\ peers' = [peers EXCEPT ![h] = Connected(peers[h], l)]
    <3>1. /\ Connected(peers[h], l) \in PeerState
          /\ QuietEntry(h, Connected(peers[h], l))
      BY <2>1, <2>3 DEF Connected, PeerState, QuietEntry
    <3> QED
      BY <2>1, <2>3, <3>1 DEF Quiet
  <2> QED
    BY <1>12, <2>2, <2>3 DEF KeepConnection
<1>13. ASSUME NEW s \in Session, SshStarts(s) \/ SshExits(s) \/ Notify(s) PROVE Quiet
  BY <1>2, <1>13 DEF SshStarts, SshExits, Notify
<1>14. ASSUME NEW h \in Host, Outage(h) \/ Recovery(h) PROVE Quiet
  BY <1>2, <1>14 DEF Outage, Recovery, sessionVars
<1>15. CASE ScanProcesses
  BY <1>2, <1>15 DEF ScanProcesses
<1>16. ASSUME NEW r \in Refresher, NEW h \in Host, RefreshVisit(r, h) \/ RefreshProbed(r, h)
       PROVE  Quiet
  BY <1>2, <1>16 DEF RefreshVisit, RefreshProbed, sessionVars
<1>17. ASSUME NEW l \in Link, ProbeRemote(l) \/ Dial(l) \/ LeaveLoop(l) PROVE Quiet
  BY <1>2, <1>17 DEF ProbeRemote, Dial, LeaveLoop, sessionVars
<1>18. CASE UNCHANGED vars
  BY <1>2, <1>18 DEF vars, sessionVars
<1>19. CASE \E s \in Session : HandleConnect(s)
  <2>1. PICK s \in Session : HandleConnect(s)
    BY <1>19
  <2> QED
    BY <1>1, <1>5, <2>1
<1>20. CASE \E h \in Host : DiscoverHost(h)
  BY <1>6, <1>20
<1>21. CASE \E s \in Session : HandleDisconnect(s) \/ WatcherFires(s)
  BY <1>3, <1>21
<1> QED
  BY <1>7, <1>8, <1>9, <1>10, <1>11, <1>12, <1>13, <1>14, <1>15, <1>16, <1>17, <1>18,
     <1>19, <1>20, <1>21
  DEF Next, Environment, SessionStep, RefreshStep, LinkStep

-----------------------------------------------------------------------------
(* The sessions the registry tracks *)

TrackedWell == TrackedIsWatched /\ CountMatchesPids

\* What the exit of a process does to its host's entry.
LEMMA LeftFields ==
    ASSUME NEW peer \in PeerState, NEW s \in Session
    PROVE  LET e    == AfterPidExit(peer, s)
               left == IF peer.session_count = 0 THEN 0 ELSE peer.session_count - 1
           IN  /\ e \in PeerState
               /\ e.session_count = left
               /\ e.watched_pids = peer.watched_pids \ {s}
               /\ e.close_tx = IF left = 0 THEN NoLink ELSE peer.close_tx
<1> DEFINE left == IF peer.session_count = 0 THEN 0 ELSE peer.session_count - 1
           counted == [peer EXCEPT !.watched_pids = @ \ {s}, !.session_count = left]
           last == [counted EXCEPT !.connected = FALSE, !.close_tx = NoLink]
<1>1. AfterPidExit(peer, s) = IF left = 0 THEN last ELSE counted
  BY DEF AfterPidExit
<1>2. left \in Nat
  BY DEF PeerState
<1> HIDE DEF left
<1>3. /\ counted \in PeerState /\ counted.session_count = left
      /\ counted.watched_pids = peer.watched_pids \ {s}
      /\ counted.close_tx = peer.close_tx
  BY <1>2 DEF PeerState
<1> HIDE DEF counted
<1>4. /\ last.session_count = left
      /\ last.watched_pids = peer.watched_pids \ {s}
      /\ last.close_tx = NoLink
  BY <1>3 DEF PeerState
<1> HIDE DEF last
<1>5. LET e == AfterPidExit(peer, s) IN
      /\ e.session_count = left
      /\ e.watched_pids = peer.watched_pids \ {s}
      /\ e.close_tx = IF left = 0 THEN NoLink ELSE peer.close_tx
  BY <1>1, <1>3, <1>4
<1> QED
  BY <1>5, AfterPidExitType DEF left

\* Sets of processes are finite, and so are what joining and leaving make of them.
LEMMA PidCounts ==
    ASSUME NEW pids \in SUBSET Session
    PROVE  /\ Cardinality(pids) \in Nat
           /\ Cardinality(pids) = 0 <=> pids = {}
           /\ \A s : Cardinality(pids \ {s}) =
                       IF s \in pids THEN Cardinality(pids) - 1 ELSE Cardinality(pids)
           /\ \A new \in SUBSET Session : new \cap pids = {} =>
                Cardinality(pids \cup new) = Cardinality(pids) + Cardinality(new)
<1>1. IsFiniteSet(pids)
  BY FS_Subset
<1>2. ASSUME NEW new \in SUBSET Session, new \cap pids = {}
      PROVE  Cardinality(pids \cup new) = Cardinality(pids) + Cardinality(new)
  <2>1. IsFiniteSet(new)
    BY FS_Subset
  <2>2. Cardinality(pids \cup new) =
          Cardinality(pids) + Cardinality(new) - Cardinality(pids \cap new)
    BY <1>1, <2>1, FS_Union
  <2>3. Cardinality(pids \cap new) = 0
    <3>1. pids \cap new = {}
      BY <1>2
    <3> QED
      BY <3>1, FS_EmptySet
  <2>4. Cardinality(pids) \in Nat /\ Cardinality(new) \in Nat
    BY <1>1, <2>1, FS_CardinalityType
  <2> QED
    BY <2>2, <2>3, <2>4
<1>3. /\ Cardinality(pids) \in Nat
      /\ Cardinality(pids) = 0 <=> pids = {}
  BY <1>1, FS_CardinalityType, FS_EmptySet
<1>4. \A s : Cardinality(pids \ {s}) =
               IF s \in pids THEN Cardinality(pids) - 1 ELSE Cardinality(pids)
  BY <1>1, FS_RemoveElement
<1> QED
  BY <1>2, <1>3, <1>4

\* A quiet step leaves every count, every tracked process and every watcher alone.
LEMMA QuietKeeps ==
    ASSUME Typed, TrackedWell, Quiet
    PROVE  TrackedWell'
<1>1. \A h \in Host : /\ peers'[h].session_count = peers[h].session_count
                      /\ peers'[h].watched_pids = peers[h].watched_pids
  BY DEF Quiet, QuietEntry, Typed, TypeOK
<1>2. watcher' = watcher /\ disconnects' = disconnects
  BY DEF Quiet
<1>3. TrackedIsWatched'
  BY <1>1, <1>2 DEF TrackedWell, TrackedIsWatched
<1>4. CountMatchesPids'
  <2>1. \A s \in Session : HostOf[s] \in Host
    OBVIOUS
  <2> QED
    BY <1>1, <1>2, <2>1 DEF TrackedWell, CountMatchesPids
<1> QED
  BY <1>3, <1>4 DEF TrackedWell

\* Joining sessions are counted once each and get a watcher each.
LEMMA JoinedKeeps ==
    ASSUME Typed, TrackedWell, NEW h \in Host, NEW new \in SUBSET Session, Joined(h, new)
    PROVE  TrackedWell'
<1>1. /\ watcher \in [Session -> Nat] /\ peers \in [Host -> PeerState]
      /\ \A g \in Host : peers[g].watched_pids \in SUBSET Session
      /\ \A g \in Host : peers[g].session_count \in Nat
      /\ \A s \in Session : HostOf[s] \in Host
  BY DEF Typed, TypeOK, PeerState
<1>2. /\ peers'[h].session_count = peers[h].session_count + Cardinality(new)
      /\ peers'[h].watched_pids = peers[h].watched_pids \cup new
      /\ \A g \in Host : g # h => peers'[g] = peers[g]
  BY <1>1 DEF Joined
<1>3. /\ new \cap peers[h].watched_pids = {}
      /\ \A s \in new : HostOf[s] = h
      /\ \A s \in Session : watcher'[s] = IF s \in new THEN watcher[s] + 1 ELSE watcher[s]
      /\ disconnects' = disconnects
  BY DEF Joined
<1>4. TrackedIsWatched'
  <2> SUFFICES ASSUME NEW g \in Host, NEW s \in peers'[g].watched_pids
               PROVE  HostOf[s] = g /\ watcher'[s] > 0
    BY DEF TrackedIsWatched
  <2>1. s \in peers[g].watched_pids \/ (g = h /\ s \in new)
    BY <1>2
  <2>2. s \in Session
    BY <1>1, <2>1
  <2>3. watcher[s] \in Nat
    BY <1>1, <2>2
  <2>4. CASE s \in peers[g].watched_pids
    BY <1>3, <2>2, <2>3, <2>4 DEF TrackedWell, TrackedIsWatched
  <2>5. CASE g = h /\ s \in new
    BY <1>3, <2>2, <2>3, <2>5
  <2> QED
    BY <2>1, <2>4, <2>5
<1>5. Cardinality(peers'[h].watched_pids) =
        Cardinality(peers[h].watched_pids) + Cardinality(new)
  BY <1>1, <1>2, <1>3, PidCounts
<1>6. /\ Cardinality(new) \in Nat
      /\ \A g \in Host : Cardinality(peers[g].watched_pids) \in Nat
  BY <1>1, PidCounts
<1>7. ASSUME NEW g \in Host
      PROVE  peers'[g].session_count <= Cardinality(peers'[g].watched_pids)
  <2>1. peers[g].session_count <= Cardinality(peers[g].watched_pids)
    BY DEF TrackedWell, CountMatchesPids
  <2>2. CASE g = h
    <3>1. /\ peers[h].session_count \in Nat /\ Cardinality(peers[h].watched_pids) \in Nat
          /\ peers[h].session_count <= Cardinality(peers[h].watched_pids)
      BY <1>1, <1>6, <2>1, <2>2
    <3>2. peers'[h].session_count <= Cardinality(peers'[h].watched_pids)
      BY <1>2, <1>5, <1>6, <3>1
    <3> QED
      BY <2>2, <3>2
  <2>3. CASE g # h
    BY <1>2, <2>1, <2>3
  <2> QED
    BY <2>2, <2>3
<1>8. disconnects' = 0 =>
        \A g \in Host : peers'[g].session_count = Cardinality(peers'[g].watched_pids)
  BY <1>1, <1>2, <1>3, <1>5, <1>6 DEF TrackedWell, CountMatchesPids
<1>9. ASSUME disconnects' = 0, NEW s \in Session
      PROVE  watcher'[s] = IF s \in peers'[HostOf[s]].watched_pids THEN 1 ELSE 0
  <2>1. watcher[s] = IF s \in peers[HostOf[s]].watched_pids THEN 1 ELSE 0
    BY <1>3, <1>9 DEF TrackedWell, CountMatchesPids
  <2>2. CASE HostOf[s] # h
    BY <1>1, <1>2, <1>3, <2>1, <2>2
  <2>3. CASE HostOf[s] = h
    BY <1>2, <1>3, <2>1, <2>3
  <2> QED
    BY <2>2, <2>3
<1> QED
  BY <1>4, <1>7, <1>8, <1>9 DEF TrackedWell, CountMatchesPids

\* A process that leaves is subtracted no more often than it was counted.
LEMMA LeftKeeps ==
    ASSUME Typed, TrackedWell, NEW s \in Session, Left(s)
    PROVE  TrackedWell'
<1> DEFINE h == HostOf[s]
<1>1. /\ watcher \in [Session -> Nat] /\ peers \in [Host -> PeerState]
      /\ h \in Host /\ peers[h] \in PeerState
      /\ \A g \in Host : peers[g].watched_pids \in SUBSET Session
      /\ \A g \in Host : peers[g].session_count \in Nat
      /\ \A t \in Session : HostOf[t] \in Host
      /\ disconnects \in Nat
  BY DEF Typed, TypeOK, PeerState
<1>2. /\ peers'[h].session_count =
           IF peers[h].session_count = 0 THEN 0 ELSE peers[h].session_count - 1
      /\ peers'[h].watched_pids = peers[h].watched_pids \ {s}
      /\ \A g \in Host : g # h => peers'[g] = peers[g]
  <2>1. peers' = [peers EXCEPT ![h] = AfterPidExit(peers[h], s)]
    BY DEF Left
  <2>2. peers'[h] = AfterPidExit(peers[h], s) /\ \A g \in Host : g # h => peers'[g] = peers[g]
    BY <1>1, <2>1
  <2> HIDE DEF h
  <2> QED
    BY <1>1, <2>2, LeftFields
<1>3. /\ \A t \in Session : t # s => watcher'[t] = watcher[t]
      /\ \/ disconnects' = disconnects + 1
         \/ disconnects' = disconnects /\ watcher[s] > 0 /\ watcher'[s] = watcher[s] - 1
  BY <1>1 DEF Left
<1>4. TrackedIsWatched'
  <2> SUFFICES ASSUME NEW g \in Host, NEW t \in peers'[g].watched_pids
               PROVE  HostOf[t] = g /\ watcher'[t] > 0
    BY DEF TrackedIsWatched
  <2>1. t \in peers[g].watched_pids
    BY <1>2
  <2>2. t \in Session /\ HostOf[t] = g /\ watcher[t] > 0
    BY <1>1, <2>1 DEF TrackedWell, TrackedIsWatched
  <2>3. t # s
    BY <1>2, <2>2
  <2> QED
    BY <1>3, <2>2, <2>3
<1>5. /\ Cardinality(peers'[h].watched_pids) =
           IF s \in peers[h].watched_pids THEN Cardinality(peers[h].watched_pids) - 1
                                          ELSE Cardinality(peers[h].watched_pids)
      /\ \A g \in Host : Cardinality(peers[g].watched_pids) \in Nat
      /\ s \in peers[h].watched_pids => Cardinality(peers[h].watched_pids) > 0
  <2>1. peers[h].watched_pids \in SUBSET Session
    BY <1>1
  <2> HIDE DEF h
  <2> QED
    BY <1>1, <1>2, <2>1, PidCounts
<1>6. ASSUME NEW g \in Host
      PROVE  peers'[g].session_count <= Cardinality(peers'[g].watched_pids)
  <2>1. peers[g].session_count <= Cardinality(peers[g].watched_pids)
    BY DEF TrackedWell, CountMatchesPids
  <2> HIDE DEF h
  <2>2. CASE g = h
    <3>1. /\ peers[h].session_count \in Nat /\ Cardinality(peers[h].watched_pids) \in Nat
          /\ peers[h].session_count <= Cardinality(peers[h].watched_pids)
      BY <1>1, <1>5, <2>1, <2>2
    <3>2. peers'[h].session_count <= Cardinality(peers'[h].watched_pids)
      BY <1>2, <1>5, <3>1
    <3> QED
      BY <2>2, <3>2
  <2>3. CASE g # h
    BY <1>2, <2>1, <2>3
  <2> QED
    BY <2>2, <2>3
<1>7. CASE disconnects' = 0
  <2>1. disconnects = 0 /\ watcher[s] > 0 /\ watcher'[s] = watcher[s] - 1
    BY <1>1, <1>3, <1>7
  <2>2. /\ \A g \in Host : peers[g].session_count = Cardinality(peers[g].watched_pids)
        /\ \A t \in Session :
             watcher[t] = IF t \in peers[HostOf[t]].watched_pids THEN 1 ELSE 0
    BY <2>1 DEF TrackedWell, CountMatchesPids
  <2>3. s \in peers[h].watched_pids /\ watcher'[s] = 0
    BY <2>1, <2>2
  <2>4. ASSUME NEW g \in Host
        PROVE  peers'[g].session_count = Cardinality(peers'[g].watched_pids)
    <3> HIDE DEF h
    <3>1. CASE g = h
      <4>1. /\ peers[h].session_count \in Nat
            /\ peers[h].session_count = Cardinality(peers[h].watched_pids)
        BY <1>1, <2>2
      <4>2. peers'[h].session_count = Cardinality(peers'[h].watched_pids)
        BY <1>2, <1>5, <2>3, <4>1
      <4> QED
        BY <3>1, <4>2
    <3>2. CASE g # h
      BY <1>2, <2>2, <3>2
    <3> QED
      BY <3>1, <3>2
  <2>5. ASSUME NEW t \in Session
        PROVE  watcher'[t] = IF t \in peers'[HostOf[t]].watched_pids THEN 1 ELSE 0
    <3>1. CASE t = s
      BY <1>2, <2>3, <3>1
    <3>2. CASE t # s
      <4>1. t \in peers'[HostOf[t]].watched_pids <=> t \in peers[HostOf[t]].watched_pids
        <5>1. CASE HostOf[t] = h
          BY <1>2, <3>2, <5>1
        <5>2. CASE HostOf[t] # h
          BY <1>1, <1>2, <5>2
        <5> QED
          BY <5>1, <5>2
      <4> QED
        BY <1>3, <2>2, <3>2, <4>1
    <3> QED
      BY <3>1, <3>2
  <2> QED
    BY <1>4, <1>6, <2>4, <2>5 DEF TrackedWell, CountMatchesPids
<1>8. CASE disconnects' # 0
  BY <1>4, <1>6, <1>8 DEF TrackedWell, CountMatchesPids
<1> QED
  BY <1>7, <1>8

Sound == Typed /\ (\A h \in Host : Owned(h)) /\ TrackedWell

\* The invariant that carries the sessions through every interleaving.
LEMMA SoundAlways == Spec => []Sound
<1>1. Init => Sound
  <2> SUFFICES ASSUME Init PROVE Sound
    OBVIOUS
  <2>1. \A h \in Host : peers[h] = NewPeer
    BY DEF Init
  <2>2. (\A h \in Host : Owned(h)) /\ TrackedIsWatched
    BY <2>1 DEF NewPeer, Owned, TrackedIsWatched
  <2>3. CountMatchesPids
    <3>1. \A h \in Host : /\ peers[h].session_count = 0
                          /\ peers[h].watched_pids = {}
      BY <2>1 DEF NewPeer
    <3>2. \A s \in Session : watcher[s] = 0 /\ HostOf[s] \in Host
      BY DEF Init
    <3>3. Cardinality({}) = 0
      BY FS_EmptySet
    <3>4. \A h \in Host : Cardinality(peers[h].watched_pids) = 0
      BY <3>1, <3>3, Zenon
    <3> QED
      BY <3>1, <3>2, <3>4 DEF CountMatchesPids
  <2> QED
    BY <2>2, <2>3, TypedInit DEF Sound, TrackedWell
<1>2. Sound /\ [Next]_vars => Sound'
  <2> SUFFICES ASSUME Sound, [Next]_vars PROVE Sound'
    OBVIOUS
  <2>1. Typed' /\ (\A h \in Host : Owned(h))'
    BY TypedStep, OwnedStep DEF Sound
  <2>2. TrackedWell'
    BY StepClasses, QuietKeeps, JoinedKeeps, LeftKeeps DEF Sound
  <2> QED
    BY <2>1, <2>2 DEF Sound
<1> QED
  BY <1>1, <1>2, PTL DEF Spec

\* Every session that is counted has a watcher that will report its exit.
THEOREM SessionsAreWatched == Spec => []TrackedIsWatched
<1>1. Sound => TrackedIsWatched
  BY DEF Sound, TrackedWell
<1> QED
  BY <1>1, SoundAlways, PTL

\* The count never exceeds the tracked processes, and without Disconnect messages
\* it is exact: no process is counted, or watched, twice.
THEOREM CountIsExact == Spec => []CountMatchesPids
<1>1. Sound => CountMatchesPids
  BY DEF Sound, TrackedWell
<1> QED
  BY <1>1, SoundAlways, PTL

-----------------------------------------------------------------------------
(* Why a connection ends *)

\* What the owner of a connection and the probes in flight have seen.
Accounted == Sound /\ (\A h \in Host : OwnerStreams(h)) /\ JobsVisited

LEMMA AccountedAlways == Spec => []Accounted
<1>1. Init => (\A h \in Host : OwnerStreams(h)) /\ JobsVisited
  BY DEF Init, OwnerStreams, JobsVisited, NewPeer, NoJob
<1>2. Sound /\ Accounted /\ [Next]_vars => ((\A h \in Host : OwnerStreams(h)) /\ JobsVisited)'
  BY OwnerStreamsStep, JobsVisitedStep DEF Accounted, Sound
<1>3. Sound /\ (\A h \in Host : OwnerStreams(h)) /\ JobsVisited <=> Accounted
  BY DEF Accounted
<1> QED
  BY <1>1, <1>2, <1>3, SoundAlways, PTL DEF Spec

\* Before any Disconnect message, a host with tracked sessions loses its connection
\* to a clean-up (the owner's only after its stream ended) or to the failed probe
\* of a status request that had found it connected, and to nothing else.
THEOREM DisconnectionsHaveCauses == Spec => DisconnectHasCause
<1>1. Accounted /\ Accounted' /\ [Next]_vars
        => [\A h \in Host :
              (peers[h].connected /\ ~peers'[h].connected /\ disconnects' = 0)
                => \/ peers'[h].watched_pids = {}
                   \/ \E l \in Link : /\ link[l].host = h
                                      /\ CleanUp(l)
                                      /\ l = peers[h].close_tx => link[l].eof
                   \/ \E r \in CheckConnected :
                         job[r][h] = [result |-> "down", connected |-> TRUE]
                           /\ RefreshUnreachable(r, h)]_vars
  <2> SUFFICES ASSUME Accounted, Accounted', Next, NEW h \in Host,
                      peers[h].connected, ~peers'[h].connected, disconnects' = 0
               PROVE  peers'[h].watched_pids = {} \/ CleanedUp(h) \/ ProbedDown(h)
    BY DEF CleanedUp, ProbedDown
  <2>1. ASSUME peers'[h].session_count = 0
        PROVE  peers'[h].watched_pids = {}
    <3>1. peers'[h].watched_pids \in SUBSET Session /\ Cardinality(peers'[h].watched_pids) = 0
      BY <2>1 DEF Accounted, Sound, TrackedWell, CountMatchesPids, Typed, TypeOK, PeerState
    <3>2. IsFiniteSet(peers'[h].watched_pids)
      BY <3>1, FS_Subset
    <3> QED
      BY <3>1, <3>2, FS_EmptySet
  <2>2. Owned(h)'
    BY DEF Accounted, Sound
  <2>3. peers'[h].close_tx \notin Link
    BY <2>2 DEF Owned
  <2>4. \/ peers'[h].session_count = 0 \/ CleanedUp(h) \/ ProbedDown(h)
        \/ \E l \in Link : peers'[h].close_tx = l
    BY ConnectionFates DEF Accounted, Sound
  <2> QED
    BY <2>1, <2>3, <2>4
<1> QED
  BY <1>1, AccountedAlways, PTL DEF Spec, DisconnectHasCause

-----------------------------------------------------------------------------
(* PeerLinks implements SyncPromise *)

Pids == [h \in Host |-> peers[h].watched_pids]
Owners == [h \in Host |-> peers[h].close_tx]

\* Only the entry of one host changes, and with it only that host's pids and owner.
LEMMA OneEntryChanges ==
    ASSUME Typed, NEW h \in Host, NEW e \in PeerState, peers' = [peers EXCEPT ![h] = e]
    PROVE  /\ Pids' = [Pids EXCEPT ![h] = e.watched_pids]
           /\ Owners' = [Owners EXCEPT ![h] = e.close_tx]
BY DEF Typed, TypeOK, Pids, Owners

\* A quiet step claims or releases the connection of a host, or stutters.
LEMMA QuietPromise ==
    ASSUME Sound, Quiet
    PROVE  Promise!Next \/ UNCHANGED <<Pids, Owners>>
<1>1. CASE UNCHANGED peers
  BY <1>1 DEF Pids, Owners
<1>2. CASE \E h \in Host : \E e \in PeerState :
             peers' = [peers EXCEPT ![h] = e] /\ QuietEntry(h, e)
  <2>1. PICK h \in Host, e \in PeerState :
           peers' = [peers EXCEPT ![h] = e] /\ QuietEntry(h, e)
    BY <1>2
  <2>2. /\ Pids' = [Pids EXCEPT ![h] = peers[h].watched_pids]
        /\ Owners' = [Owners EXCEPT ![h] = e.close_tx]
    <3>1. /\ Pids' = [Pids EXCEPT ![h] = e.watched_pids]
          /\ Owners' = [Owners EXCEPT ![h] = e.close_tx]
      BY <2>1, OneEntryChanges DEF Sound
    <3>2. e.watched_pids = peers[h].watched_pids
      BY <2>1 DEF QuietEntry
    <3> QED
      BY <3>1, <3>2, Zenon
  <2>3. Pids' = Pids
    BY <2>2 DEF Pids
  <2>4. CASE e.close_tx = peers[h].close_tx
    BY <2>2, <2>3, <2>4 DEF Owners
  <2>5. CASE e.close_tx = NoLink
    <3>1. Promise!Release(h)
      BY <2>2, <2>3, <2>5 DEF Promise!Release, Pids, Owners
    <3> QED
      BY <3>1 DEF Promise!Next
  <2>6. CASE e.close_tx \in Link /\ peers[h].session_count > 0
    <3>1. Pids[h] # {}
      <4>1. /\ peers[h].watched_pids \in SUBSET Session
            /\ peers[h].session_count \in Nat
            /\ peers[h].session_count <= Cardinality(peers[h].watched_pids)
        BY DEF Sound, Typed, TypeOK, PeerState, TrackedWell, CountMatchesPids
      <4>2. Cardinality(peers[h].watched_pids) # 0
        BY <2>6, <4>1
      <4>3. peers[h].watched_pids # {}
        BY <4>2, FS_EmptySet, Zenon
      <4> QED
        BY <4>3 DEF Pids
    <3>2. Promise!Claim(h, e.close_tx)
      BY <2>2, <2>3, <3>1 DEF Promise!Claim, Pids, Owners
    <3> QED
      BY <2>6, <3>2 DEF Promise!Next
  <2> QED
    BY <2>1, <2>4, <2>5, <2>6 DEF QuietEntry
<1> QED
  BY <1>1, <1>2 DEF Quiet

\* Sessions that join the registry join the promise; none is a stutter.
LEMMA JoinedPromise ==
    ASSUME Sound, NEW h \in Host, NEW new \in SUBSET Session, Joined(h, new)
    PROVE  Promise!Next \/ UNCHANGED <<Pids, Owners>>
<1>1. PICK e \in PeerState :
        /\ peers' = [peers EXCEPT ![h] = e]
        /\ e.watched_pids = peers[h].watched_pids \cup new
        /\ e.close_tx = peers[h].close_tx
  BY DEF Joined
<1>2. /\ Pids' = [Pids EXCEPT ![h] = peers[h].watched_pids \cup new]
      /\ Owners' = [Owners EXCEPT ![h] = peers[h].close_tx]
  <2>1. /\ Pids' = [Pids EXCEPT ![h] = e.watched_pids]
        /\ Owners' = [Owners EXCEPT ![h] = e.close_tx]
    BY <1>1, OneEntryChanges DEF Sound
  <2> QED
    BY <1>1, <2>1, Zenon
<1>3. Owners' = Owners
  BY <1>2 DEF Owners
<1>4. CASE new = {}
  <2>1. Pids' = Pids
    BY <1>2, <1>4 DEF Pids
  <2> QED
    BY <1>3, <2>1
<1>5. CASE new # {}
  <2>1. Promise!Join(h, new)
    BY <1>2, <1>3, <1>5 DEF Promise!Join, Pids, Owners, Joined
  <2> QED
    BY <2>1 DEF Promise!Next
<1> QED
  BY <1>4, <1>5

\* A process that leaves is a session that leaves: the last one takes the owner
\* along, because the count is then at most one.
LEMMA LeftPromise ==
    ASSUME Sound, NEW s \in Session, Left(s)
    PROVE  Promise!Next \/ UNCHANGED <<Pids, Owners>>
<1> DEFINE h == HostOf[s]
           e == AfterPidExit(peers[h], s)
<1>1. /\ h \in Host /\ peers[h] \in PeerState
      /\ peers[h].session_count \in Nat
      /\ peers[h].watched_pids \in SUBSET Session
      /\ peers[h].session_count <= Cardinality(peers[h].watched_pids)
  BY DEF Sound, Typed, TypeOK, PeerState, TrackedWell, CountMatchesPids
<1>2. /\ e \in PeerState
      /\ e.watched_pids = peers[h].watched_pids \ {s}
      /\ e.close_tx = NoLink \/ (peers[h].session_count > 1 /\ e.close_tx = peers[h].close_tx)
  <2> DEFINE left == IF peers[h].session_count = 0 THEN 0 ELSE peers[h].session_count - 1
  <2>1. left # 0 => peers[h].session_count > 1
    BY <1>1
  <2>2. /\ e \in PeerState
        /\ e.watched_pids = peers[h].watched_pids \ {s}
        /\ e.close_tx = IF left = 0 THEN NoLink ELSE peers[h].close_tx
    BY <1>1, LeftFields, Zenon
  <2> HIDE DEF left
  <2> QED
    BY <2>1, <2>2
<1>3. peers' = [peers EXCEPT ![h] = e]
  BY DEF Left
<1> HIDE DEF h, e
<1>4. /\ Pids' = [Pids EXCEPT ![h] = peers[h].watched_pids \ {s}]
      /\ Owners' = [Owners EXCEPT ![h] = e.close_tx]
  <2>1. /\ Pids' = [Pids EXCEPT ![h] = e.watched_pids]
        /\ Owners' = [Owners EXCEPT ![h] = e.close_tx]
    BY <1>1, <1>2, <1>3, OneEntryChanges DEF Sound
  <2> QED
    BY <1>2, <2>1, Zenon
<1>5. CASE s \in peers[h].watched_pids
  <2>1. peers[h].session_count > 1 => Pids[h] # {s}
    <3>1. Cardinality({s}) = 1
      BY FS_Singleton
    <3>2. ASSUME peers[h].watched_pids = {s} PROVE ~(peers[h].session_count > 1)
      <4>1. Cardinality(peers[h].watched_pids) = 1
        BY <3>1, <3>2, Zenon
      <4> QED
        BY <1>1, <4>1
    <3> QED
      BY <1>1, <3>2 DEF Pids
  <2>2. Promise!Leave(h, s)
    <3>1. /\ s \in Pids[h] /\ Pids' = [Pids EXCEPT ![h] = Pids[h] \ {s}]
      BY <1>1, <1>4, <1>5 DEF Pids
    <3>2. \/ Owners' = [Owners EXCEPT ![h] = NoLink]
          \/ Pids[h] # {s} /\ Owners' = Owners
      <4>1. CASE e.close_tx = NoLink
        BY <1>4, <4>1
      <4>2. CASE peers[h].session_count > 1 /\ e.close_tx = peers[h].close_tx
        <5>1. Owners' = Owners
          BY <1>1, <1>4, <4>2 DEF Owners
        <5> QED
          BY <2>1, <4>2, <5>1
      <4> QED
        BY <1>2, <4>1, <4>2
    <3> QED
      BY <3>1, <3>2 DEF Promise!Leave, Pids, Owners
  <2> QED
    BY <1>1, <2>2 DEF Promise!Next
<1>6. CASE s \notin peers[h].watched_pids
  <2>1. Pids' = Pids
    BY <1>1, <1>4, <1>6 DEF Pids
  <2>2. CASE e.close_tx = NoLink
    <3>1. Promise!Release(h)
      BY <1>4, <2>1, <2>2 DEF Promise!Release, Pids, Owners
    <3> QED
      BY <1>1, <3>1 DEF Promise!Next
  <2>3. CASE e.close_tx = peers[h].close_tx
    BY <1>1, <1>4, <2>1, <2>3 DEF Owners
  <2> QED
    BY <1>2, <2>2, <2>3
<1> QED
  BY <1>5, <1>6

\* The registry keeps the promise: its pids are the tracked sessions, and close_tx
\* is claimed only while there are some and given up with the last of them.
THEOREM RegistryKeepsPromise == Spec => PromiseKept
<1>1. Init => Promise!Init
  BY DEF Init, Promise!Init, NewPeer
<1>2. Sound /\ [Next]_vars => [Promise!Next]_<<Pids, Owners>>
  <2> SUFFICES ASSUME Sound, [Next]_vars
               PROVE  Promise!Next \/ UNCHANGED <<Pids, Owners>>
    OBVIOUS
  <2>1. CASE Quiet
    BY <2>1, QuietPromise
  <2>2. CASE \E h \in Host : \E new \in SUBSET Session : Joined(h, new)
    BY <2>2, JoinedPromise
  <2>3. CASE \E s \in Session : Left(s)
    BY <2>3, LeftPromise
  <2> QED
    BY <2>1, <2>2, <2>3, StepClasses DEF Sound
<1>3. Sound /\ [Next]_vars
        => [Promise!Next]_<<[h \in Host |-> peers[h].watched_pids],
                            [h \in Host |-> peers[h].close_tx]>>
  BY <1>2 DEF Pids, Owners
<1> QED
  BY <1>1, <1>3, SoundAlways, PTL DEF Spec, PromiseKept, Promise!Spec
=============================================================================
