------------------------------ MODULE PeerLinks ------------------------------
(***************************************************************************)
(* The sending half of one tassh daemon: the peer registry, and every      *)
(* asynchronous task that reads or writes it on behalf of SSH sessions and *)
(* outbound clipboard connections (daemon.rs, peer.rs, pid_watcher.rs).    *)
(*                                                                         *)
(* The registry sits behind one tokio mutex, so one action is one critical *)
(* section: a handler that locks twice is two actions, and everything that *)
(* happens between two of its critical sections (a probe, a TCP dial, the  *)
(* exit of a process) is a step of its own that other tasks interleave     *)
(* with.                                                                   *)
(***************************************************************************)
EXTENDS Naturals, FiniteSets

CONSTANTS
    Host,            \* registry keys: the hostnames SSH sessions go to
    NoHost,          \* the host of a task that does not exist
    Session,         \* SSH client processes, one per pid
    HostOf,          \* [Session -> Host]: the host a process is connected to
    Link,            \* identities of outbound-connection tasks
    NoLink,          \* close_tx = None
    Refresher,       \* concurrent callers of refresh_peer_liveness
    CheckConnected,  \* those that pass check_connected = true (`tassh status`)
    MaxDisconnects,  \* bound: Disconnect messages a run may contain
    MaxOutages,      \* bound: times a remote may become unreachable
    MaxLateProbes    \* bound: probes that give up on a host that answers

ASSUME HostsAssumption == NoHost \notin Host /\ NoLink \notin Link
ASSUME SessionsAssumption == IsFiniteSet(Session) /\ HostOf \in [Session -> Host]
ASSUME RefreshersAssumption == CheckConnected \subseteq Refresher
ASSUME BoundsAssumption ==
    MaxDisconnects \in Nat /\ MaxOutages \in Nat /\ MaxLateProbes \in Nat

VARIABLES
    \* The registry (PeerState of every host; all fields protected by one lock)
    peers,
    \* SSH processes and the IPC messages about them
    alive,        \* SSH processes that are running
    ipc,          \* Connect messages accepted and not handled yet
    pending,      \* handle_connect calls between their two critical sections
    watcher,      \* watcher[s]: watch_pid tasks running for process s
    scanned,      \* discover_existing_ssh_sessions has run pgrep
    discovered,   \* processes pgrep returned whose host's task has not run yet
    disconnects,  \* Disconnect messages handled so far
    \* Outbound connection tasks
    link,
    \* refresh_peer_liveness calls
    todo,         \* hosts the loop over hosts_with_sessions has still to visit
    job,          \* job[r][h]: the probe r spawned for h
    \* The network
    reachable,    \* hosts whose daemon would accept a connection now
    outages,      \* times a host has become unreachable
    late          \* probes whose deadline passed before the answer of their host

sessionVars == <<alive, ipc, pending, watcher, scanned, discovered, disconnects>>
refreshVars == <<todo, job>>
networkVars == <<reachable, outages, late>>
vars == <<peers, sessionVars, link, refreshVars, networkVars>>

-----------------------------------------------------------------------------
(* Data *)

\* A peer as PeerRegistry::get_or_create makes it.  Entries are never removed,
\* and every handler treats an absent entry as this one.
NewPeer == [session_count |-> 0, connected |-> FALSE, connecting |-> FALSE,
            watched_pids |-> {}, close_tx |-> NoLink]

\* The life of one outbound-connection task.  "absent", "refused", "opened" and
\* "ended" are the points where it has an answer and waits for the lock.
Attempting == {"probing", "absent", "dialing", "refused", "opened"}
Stage == Attempting \cup {"idle", "stream", "ended"}

IdleLink == [stage |-> "idle", host |-> NoHost, eof |-> FALSE]

NoJob == [result |-> "none", connected |-> FALSE]

PeerState == [session_count : Nat, connected : BOOLEAN, connecting : BOOLEAN,
              watched_pids : SUBSET Session, close_tx : Link \cup {NoLink}]

LinkState == [stage : Stage, host : Host \cup {NoHost}, eof : BOOLEAN]

JobState == [result : {"none", "waiting", "up", "down"}, connected : BOOLEAN]

TypeOK ==
    /\ peers \in [Host -> PeerState]
    /\ alive \subseteq Session
    /\ ipc \subseteq Session
    /\ pending \subseteq Session
    /\ watcher \in [Session -> Nat]
    /\ scanned \in BOOLEAN
    /\ discovered \subseteq Session
    /\ disconnects \in 0 .. MaxDisconnects
    /\ link \in [Link -> LinkState]
    /\ todo \in [Refresher -> SUBSET Host]
    /\ job \in [Refresher -> [Host -> JobState]]
    /\ reachable \subseteq Host
    /\ outages \in 0 .. MaxOutages
    /\ late \in 0 .. MaxLateProbes

-----------------------------------------------------------------------------
(* Helpers *)

\* No connection and no attempt: the condition under which a task may start one.
Unlinked(h) == ~peers[h].connecting /\ ~peers[h].connected

\* What the critical sections do to one entry of the registry.

\* Sessions with these pids are counted and tracked.
WithSessions(peer, pids) ==
    [peer EXCEPT !.session_count = @ + Cardinality(pids), !.watched_pids = @ \cup pids]

\* A task claims the right to connect.
Claimed(peer) == [peer EXCEPT !.connecting = TRUE]

AttemptOver(peer) == [peer EXCEPT !.connecting = FALSE]

\* A probe found no daemon; that the status shows it so is left to Inbound.
NoDaemon(peer) == [peer EXCEPT !.connecting = FALSE]

Connected(peer, l) ==
    [peer EXCEPT !.connected = TRUE, !.connecting = FALSE, !.close_tx = l]

\* Variant: shown as not connected, but the handle stays.
ClosedKeepsHandle(peer) == [peer EXCEPT !.connected = FALSE, !.connecting = FALSE]

\* Dropping the sender stored in close_tx is the signal to the task.
Closed(peer) ==
    [peer EXCEPT !.connected = FALSE, !.connecting = FALSE, !.close_tx = NoLink]

\* tokio::spawn of a task that ends up in start_peer_connection for h.
SpawnLink(l, h, stage) ==
    /\ link[l].stage = "idle"
    /\ link' = [link EXCEPT ![l] = [stage |-> stage, host |-> h, eof |-> FALSE]]

\* close_rx.recv() returns None once the only sender is gone from the registry.
CloseSignalled(l) == peers[link[l].host].close_tx # l

\* The process is known to no handler, task or message of the daemon.
Forgotten(s) ==
    /\ s \notin ipc \cup pending \cup discovered
    /\ s \notin peers[HostOf[s]].watched_pids
    /\ watcher[s] = 0

-----------------------------------------------------------------------------
(* SSH processes and the network *)

\* ssh starts.  A pid is used again only after the daemon has forgotten it.
SshStarts(s) ==
    /\ s \notin alive
    /\ Forgotten(s)
    /\ alive' = alive \cup {s}
    /\ UNCHANGED <<peers, ipc, pending, watcher, scanned, discovered,
                   disconnects, link, refreshVars, networkVars>>

SshExits(s) ==
    /\ s \in alive
    /\ alive' = alive \ {s}
    /\ UNCHANGED <<peers, ipc, pending, watcher, scanned, discovered,
                   disconnects, link, refreshVars, networkVars>>

\* `tassh notify` run by LocalCommand; a ControlMaster may run it again for the
\* same pid.  A lost notification is a process for which this never happens.
Notify(s) ==
    /\ s \in alive
    /\ s \notin ipc
    /\ ipc' = ipc \cup {s}
    /\ UNCHANGED <<peers, alive, pending, watcher, scanned, discovered,
                   disconnects, link, refreshVars, networkVars>>

OpenLinks(h) == {l \in Link : link[l].host = h /\ link[l].stage \in {"opened", "stream"}}

\* h stops answering new connections; some of the open ones break as well (all
\* when its daemon died, none when it is merely slow to accept).
Outage(h) ==
    /\ h \in reachable
    /\ outages < MaxOutages
    /\ outages' = outages + 1
    /\ reachable' = reachable \ {h}
    /\ \E broken \in SUBSET OpenLinks(h) :
         link' = [l \in Link |-> IF l \in broken THEN [link[l] EXCEPT !.eof = TRUE]
                                                ELSE link[l]]
    /\ UNCHANGED <<peers, sessionVars, refreshVars, late>>

Recovery(h) ==
    /\ h \notin reachable
    /\ reachable' = reachable \cup {h}
    /\ UNCHANGED <<peers, sessionVars, link, refreshVars, outages, late>>

\* A probe of h ends by its deadline, and the answer of h may come after it.
Probed(h, found) ==
    \/ found /\ h \in reachable /\ UNCHANGED late
    \/ ~found /\ h \notin reachable /\ UNCHANGED late
    \/ ~found /\ h \in reachable /\ late < MaxLateProbes /\ late' = late + 1

-----------------------------------------------------------------------------
(* handle_connect *)

\* Variant: a session that finds the host connected is not watched.
HandleConnectUnwatched(s) ==
    LET h == HostOf[s] IN
    /\ s \in ipc \ peers[h].watched_pids
    /\ ipc' = ipc \ {s}
    /\ peers' = [peers EXCEPT ![h] = WithSessions(@, {s})]
    /\ watcher' = IF peers[h].connected THEN watcher ELSE [watcher EXCEPT ![s] = @ + 1]
    /\ pending' = IF peers[h].connected THEN pending ELSE pending \cup {s}
    /\ UNCHANGED <<alive, scanned, discovered, disconnects, link, refreshVars,
                   networkVars>>

\* First critical section: count and watch a session not seen before.
HandleConnect(s) ==
    LET h == HostOf[s] IN
    /\ s \in ipc
    /\ ipc' = ipc \ {s}
    /\ \/ /\ s \in peers[h].watched_pids
          /\ UNCHANGED <<peers, watcher, pending>>
       \/ /\ s \notin peers[h].watched_pids
          /\ peers' = [peers EXCEPT ![h] = WithSessions(@, {s})]
          /\ watcher' = [watcher EXCEPT ![s] = @ + 1]
          /\ pending' = IF peers[h].connected THEN pending ELSE pending \cup {s}
    /\ UNCHANGED <<alive, scanned, discovered, disconnects, link, refreshVars,
                   networkVars>>

\* Second critical section: claim the connecting flag and spawn the probe.
ConnectIfUnlinked(s) ==
    LET h == HostOf[s] IN
    /\ s \in pending
    /\ pending' = pending \ {s}
    /\ \/ /\ ~Unlinked(h)
          /\ UNCHANGED <<peers, link>>
       \/ /\ Unlinked(h)
          /\ peers' = [peers EXCEPT ![h] = Claimed(@)]
          /\ \E l \in Link : SpawnLink(l, h, "probing")
    /\ UNCHANGED <<alive, ipc, watcher, scanned, discovered, disconnects,
                   refreshVars, networkVars>>

-----------------------------------------------------------------------------
(* discover_existing_ssh_sessions *)

\* pgrep: some of the running processes parse as ssh clients of a remote host.
ScanProcesses ==
    /\ ~scanned
    /\ scanned' = TRUE
    /\ discovered' \in SUBSET alive
    /\ UNCHANGED <<peers, alive, ipc, pending, watcher, disconnects, link,
                   refreshVars, networkVars>>

\* Variant: counts the processes notify has announced already once more.
DiscoverHostRecounts(h) ==
    LET pids == {s \in discovered : HostOf[s] = h} IN
    /\ pids # {}
    /\ discovered' = discovered \ pids
    /\ watcher' = [s \in Session |-> IF s \in pids THEN watcher[s] + 1 ELSE watcher[s]]
    /\ peers' = [peers EXCEPT ![h] = WithSessions(@, pids)]
    /\ UNCHANGED <<alive, ipc, pending, scanned, disconnects, link, refreshVars,
                   networkVars>>

\* The task spawned for one host: one critical section for all of its pids.
DiscoverHost(h) ==
    LET pids == {s \in discovered : HostOf[s] = h}
        new  == pids \ peers[h].watched_pids
    IN
    /\ pids # {}
    /\ discovered' = discovered \ pids
    /\ watcher' = [s \in Session |-> IF s \in new THEN watcher[s] + 1 ELSE watcher[s]]
    /\ \/ /\ ~Unlinked(h)
          /\ peers' = [peers EXCEPT ![h] = WithSessions(@, new)]
          /\ UNCHANGED link
       \/ /\ Unlinked(h)
          /\ peers' = [peers EXCEPT ![h] = Claimed(WithSessions(@, new))]
          /\ \E l \in Link : SpawnLink(l, h, "probing")
    /\ UNCHANGED <<alive, ipc, pending, scanned, disconnects, refreshVars,
                   networkVars>>

-----------------------------------------------------------------------------
(* handle_pid_exit *)

\* Variant: plain subtraction.
AfterPidExitUnsaturated(peer, s) ==
    LET left == peer.session_count - 1
        counted == [peer EXCEPT !.watched_pids = @ \ {s}, !.session_count = left]
    IN  IF left = 0 THEN [counted EXCEPT !.connected = FALSE, !.close_tx = NoLink]
                    ELSE counted

\* Variant: the last session leaves and close_tx stays.
AfterPidExitKeepsOwner(peer, s) ==
    LET left == IF peer.session_count = 0 THEN 0 ELSE peer.session_count - 1 IN
    [peer EXCEPT !.watched_pids = @ \ {s}, !.session_count = left,
                 !.connected = IF left = 0 THEN FALSE ELSE @]

\* saturating_sub on the session count; the last session takes the connection
\* down (dropping close_tx is the signal to its task).
AfterPidExit(peer, s) ==
    LET left == IF peer.session_count = 0 THEN 0 ELSE peer.session_count - 1
        counted == [peer EXCEPT !.watched_pids = @ \ {s}, !.session_count = left]
    IN  IF left = 0 THEN [counted EXCEPT !.connected = FALSE, !.close_tx = NoLink]
                    ELSE counted

WatcherFires(s) ==
    /\ watcher[s] > 0
    /\ s \notin alive
    /\ watcher' = [watcher EXCEPT ![s] = @ - 1]
    /\ peers' = [peers EXCEPT ![HostOf[s]] = AfterPidExit(@, s)]
    /\ UNCHANGED <<alive, ipc, pending, scanned, discovered, disconnects, link,
                   refreshVars, networkVars>>

\* The Disconnect IPC message, about a process the daemon has heard of, runs the
\* same code and leaves the watcher be.
HandleDisconnect(s) ==
    /\ disconnects < MaxDisconnects
    /\ ~Forgotten(s)
    /\ disconnects' = disconnects + 1
    /\ peers' = [peers EXCEPT ![HostOf[s]] = AfterPidExit(@, s)]
    /\ UNCHANGED <<alive, ipc, pending, watcher, scanned, discovered, link,
                   refreshVars, networkVars>>

-----------------------------------------------------------------------------
(* refresh_peer_liveness: the 2 s reconciler, and one call per status request *)

IdleConnected == {h \in Host : peers[h].connected /\ peers[h].session_count = 0}

HostsWithSessions == {h \in Host : peers[h].session_count > 0}

\* The call has hosts to visit or probes to wait for.
InProgress(r) == todo[r] # {} \/ \E h \in Host : job[r][h] # NoJob

\* Closes connections no session needs, then lists the hosts to visit.  The code
\* takes the lock once per closed host; IdleConnected is always empty (theorem
\* NoIdleConnection), so there is nothing to interleave with.
RefreshStart(r) ==
    /\ ~InProgress(r)
    /\ peers' = [h \in Host |->
                   IF h \in IdleConnected THEN Closed(peers[h]) ELSE peers[h]]
    /\ todo' = [todo EXCEPT ![r] = HostsWithSessions]
    /\ UNCHANGED <<sessionVars, link, job, networkVars>>

\* One iteration of the loop: read the flags, skip the host or spawn a probe that
\* remembers whether the host was connected.
RefreshVisit(r, h) ==
    /\ h \in todo[r]
    /\ todo' = [todo EXCEPT ![r] = @ \ {h}]
    /\ \/ /\ peers[h].connecting \/ (peers[h].connected /\ r \notin CheckConnected)
          /\ UNCHANGED job
       \/ /\ ~peers[h].connecting
          /\ peers[h].connected => r \in CheckConnected
          /\ job' = [job EXCEPT ![r][h] =
                       [result |-> "waiting", connected |-> peers[h].connected]]
    /\ UNCHANGED <<peers, sessionVars, link, networkVars>>

\* probe_remote_with_timeout (400 ms) returns.
RefreshProbed(r, h) ==
    /\ job[r][h].result = "waiting"
    /\ \E found \in BOOLEAN :
         /\ Probed(h, found)
         /\ job' = [job EXCEPT ![r][h].result = IF found THEN "up" ELSE "down"]
    /\ UNCHANGED <<peers, sessionVars, link, todo, reachable, outages>>

\* join_next() of a probe that found the daemon.
RefreshReachable(r, h) ==
    /\ todo[r] = {}
    /\ job[r][h].result = "up"
    /\ job' = [job EXCEPT ![r][h] = NoJob]
    /\ \/ /\ job[r][h].connected \/ ~Unlinked(h) \/ peers[h].session_count = 0
          /\ UNCHANGED <<peers, link>>
       \/ /\ ~job[r][h].connected
          /\ Unlinked(h)
          /\ peers[h].session_count > 0
          /\ peers' = [peers EXCEPT ![h] = Claimed(@)]
          /\ \E l \in Link : SpawnLink(l, h, "dialing")
    /\ UNCHANGED <<sessionVars, todo, networkVars>>

\* Variant: takes the host down whatever the visit had read.
UnreachableNow(peer, wasConnected) ==
    [NoDaemon(peer) EXCEPT !.connected = FALSE, !.close_tx = NoLink]

\* The probe failed; a host the visit had read as connected is disconnected too.
Unreachable(peer, wasConnected) ==
    IF wasConnected
    THEN [NoDaemon(peer) EXCEPT !.connected = FALSE, !.close_tx = NoLink]
    ELSE NoDaemon(peer)

\* join_next() of a probe that did not; `connected` is what the visit read.
RefreshUnreachable(r, h) ==
    /\ todo[r] = {}
    /\ job[r][h].result = "down"
    /\ job' = [job EXCEPT ![r][h] = NoJob]
    /\ peers' = [peers EXCEPT ![h] = Unreachable(@, job[r][h].connected)]
    /\ UNCHANGED <<sessionVars, link, todo, networkVars>>

-----------------------------------------------------------------------------
(* probe_remote, start_peer_connection and the task it spawns *)

\* probe_remote (3 s) returns.
ProbeRemote(l) ==
    /\ link[l].stage = "probing"
    /\ \E found \in BOOLEAN :
         /\ Probed(link[l].host, found)
         /\ link' = [link EXCEPT ![l].stage = IF found THEN "dialing" ELSE "absent"]
    /\ UNCHANGED <<peers, sessionVars, refreshVars, reachable, outages>>

\* Variant: leaves `connecting` set.
NoDaemonFoundKeepsFlag(l) ==
    /\ link[l].stage = "absent"
    /\ link' = [link EXCEPT ![l] = IdleLink]
    /\ UNCHANGED <<peers, sessionVars, refreshVars, networkVars>>

NoDaemonFound(l) ==
    /\ link[l].stage = "absent"
    /\ peers' = [peers EXCEPT ![link[l].host] = NoDaemon(@)]
    /\ link' = [link EXCEPT ![l] = IdleLink]
    /\ UNCHANGED <<sessionVars, refreshVars, networkVars>>

\* TcpStream::connect returns (no timeout of its own: the system's).
Dial(l) ==
    /\ link[l].stage = "dialing"
    /\ link' = [link EXCEPT ![l].stage =
                  IF link[l].host \in reachable THEN "opened" ELSE "refused"]
    /\ UNCHANGED <<peers, sessionVars, refreshVars, networkVars>>

\* Variant: the failed dial leaves the registry alone.
DialRefusedKeepsFlag(l) ==
    /\ link[l].stage = "refused"
    /\ link' = [link EXCEPT ![l] = IdleLink]
    /\ UNCHANGED <<peers, sessionVars, refreshVars, networkVars>>

DialRefused(l) ==
    /\ link[l].stage = "refused"
    /\ peers' = [peers EXCEPT ![link[l].host] = AttemptOver(@)]
    /\ link' = [link EXCEPT ![l] = IdleLink]
    /\ UNCHANGED <<sessionVars, refreshVars, networkVars>>

\* Variant: keeps the connection without asking whether a session needs it.
KeepConnectionAlways(l) ==
    /\ link[l].stage = "opened"
    /\ peers' = [peers EXCEPT ![link[l].host] = Connected(@, l)]
    /\ link' = [link EXCEPT ![l].stage = "stream"]
    /\ UNCHANGED <<sessionVars, refreshVars, networkVars>>

\* The connection is kept only if a session still needs it.  Storing close_tx
\* drops, and so signals, the one that was there.
KeepConnection(l) ==
    LET h == link[l].host IN
    /\ link[l].stage = "opened"
    /\ \/ /\ peers[h].session_count = 0
          /\ peers' = [peers EXCEPT ![h] = [AttemptOver(@) EXCEPT !.close_tx = NoLink]]
          /\ link' = [link EXCEPT ![l] = IdleLink]
       \/ /\ peers[h].session_count > 0
          /\ peers' = [peers EXCEPT ![h] = Connected(@, l)]
          /\ link' = [link EXCEPT ![l].stage = "stream"]
    /\ UNCHANGED <<sessionVars, refreshVars, networkVars>>

\* The select! loop breaks: end of stream, failed send, or close signal.
LeaveLoop(l) ==
    /\ link[l].stage = "stream"
    /\ link[l].eof \/ CloseSignalled(l)
    /\ link' = [link EXCEPT ![l].stage = "ended"]
    /\ UNCHANGED <<peers, sessionVars, refreshVars, networkVars>>

\* "Connection ended - update registry": whatever the registry holds by now.
CleanUp(l) ==
    /\ link[l].stage = "ended"
    /\ peers' = [peers EXCEPT ![link[l].host] = Closed(@)]
    /\ link' = [link EXCEPT ![l] = IdleLink]
    /\ UNCHANGED <<sessionVars, refreshVars, networkVars>>

-----------------------------------------------------------------------------
(* Specification *)

\* The daemon starts with an empty registry while ssh processes may be running.
Init ==
    /\ peers = [h \in Host |-> NewPeer]
    /\ alive \in SUBSET Session
    /\ ipc = {}
    /\ pending = {}
    /\ watcher = [s \in Session |-> 0]
    /\ scanned = FALSE
    /\ discovered = {}
    /\ disconnects = 0
    /\ link = [l \in Link |-> IdleLink]
    /\ todo = [r \in Refresher |-> {}]
    /\ job = [r \in Refresher |-> [h \in Host |-> NoJob]]
    /\ reachable \in SUBSET Host
    /\ outages = 0
    /\ late = 0

SessionStep(s) ==
    \/ HandleConnect(s)
    \/ ConnectIfUnlinked(s)
    \/ WatcherFires(s)

RefreshStep(r) ==
    \/ \E h \in Host : RefreshVisit(r, h)
    \/ \E h \in Host : RefreshProbed(r, h)
    \/ \E h \in Host : RefreshReachable(r, h)
    \/ \E h \in Host : RefreshUnreachable(r, h)

LinkStep(l) ==
    \/ ProbeRemote(l)
    \/ NoDaemonFound(l)
    \/ Dial(l)
    \/ DialRefused(l)
    \/ KeepConnection(l)
    \/ LeaveLoop(l)
    \/ CleanUp(l)

Environment ==
    \/ \E s \in Session : SshStarts(s)
    \/ \E s \in Session : SshExits(s)
    \/ \E s \in Session : Notify(s)
    \/ \E s \in Session : HandleDisconnect(s)
    \/ \E h \in Host : Outage(h)
    \/ \E h \in Host : Recovery(h)

Next ==
    \/ Environment
    \/ \E s \in Session : SessionStep(s)
    \/ ScanProcesses
    \/ \E h \in Host : DiscoverHost(h)
    \/ \E r \in Refresher : RefreshStart(r)
    \/ \E r \in Refresher : RefreshStep(r)
    \/ \E l \in Link : LinkStep(l)

Spec == Init /\ [][Next]_vars

\* The runtime polls every task that is ready, pidfd readiness and the interval
\* of the reconciler included.  Nothing obliges users, ssh or the network.
Fairness ==
    /\ \A s \in Session : WF_vars(SessionStep(s))
    /\ WF_vars(ScanProcesses)
    /\ \A h \in Host : WF_vars(DiscoverHost(h))
    /\ \A r \in Refresher \ CheckConnected : WF_vars(RefreshStart(r))
    /\ \A r \in Refresher : WF_vars(RefreshStep(r))
    /\ \A l \in Link : WF_vars(LinkStep(l))

FairSpec == Spec /\ Fairness
-----------------------------------------------------------------------------
(* Safety *)

\* An SSH session the registry counts has a watcher that will report its exit:
\* no session can keep a connection alive after it is gone (daemon.rs, the
\* watchers of handle_connect and discover_existing_ssh_sessions).
TrackedIsWatched ==
    \A h \in Host : \A s \in peers[h].watched_pids : HostOf[s] = h /\ watcher[s] > 0

\* The session count never exceeds the processes tracked, whatever duplicate
\* notifications, scans and Disconnect messages do; without Disconnect messages
\* the two agree and every process has exactly one watcher.
CountMatchesPids ==
    /\ \A h \in Host : peers[h].session_count <= Cardinality(peers[h].watched_pids)
    /\ disconnects = 0 =>
         /\ \A h \in Host :
              peers[h].session_count = Cardinality(peers[h].watched_pids)
         /\ \A s \in Session :
              watcher[s] = IF s \in peers[HostOf[s]].watched_pids THEN 1 ELSE 0

\* A host shown as connected has a session that needs the connection: a dial that
\* completes after the last session left never revives it (start_peer_connection).
ConnectedHasSession ==
    \A h \in Host : peers[h].connected => peers[h].session_count > 0

\* The connected flag and the close handle agree, and the handle closes a
\* connection task of this very host that is still there to hear it.
ConnectionOwned ==
    \A h \in Host :
        /\ peers[h].connected <=> peers[h].close_tx # NoLink
        /\ peers[h].connected =>
             /\ link[peers[h].close_tx].host = h
             /\ link[peers[h].close_tx].stage \in {"stream", "ended"}

\* `connecting` is never left set by an attempt that is over: a stuck flag would
\* keep the reconciler away from the host for good.
ConnectingHasAttempt ==
    \A h \in Host : peers[h].connecting =>
        \E l \in Link : link[l].host = h /\ link[l].stage \in Attempting

\* Before any Disconnect message, a host that still has tracked sessions loses its
\* connection in three ways only: a task's clean-up (the owner's, after its stream
\* ended, or that of a task that is not the owner any more), and a failed probe of
\* a status request that had read the host as connected.  The exit of another
\* session, a late dial, a failed attempt and the reconciler never do it.
DisconnectHasCause ==
    [][\A h \in Host :
         (peers[h].connected /\ ~peers'[h].connected /\ disconnects' = 0)
           => \/ peers'[h].watched_pids = {}
              \/ \E l \in Link : /\ link[l].host = h
                                 /\ CleanUp(l)
                                 /\ l = peers[h].close_tx => link[l].eof
              \/ \E r \in CheckConnected :
                    job[r][h] = [result |-> "down", connected |-> TRUE]
                      /\ RefreshUnreachable(r, h)]_vars

\* PeerLinks implements SyncPromise: the registry's pids are the tracked sessions
\* and close_tx the owner, under every interleaving of handlers and tasks.
Promise == INSTANCE SyncPromise WITH
    tracked <- [h \in Host |-> peers[h].watched_pids],
    owner   <- [h \in Host |-> peers[h].close_tx]

PromiseKept == Promise!Spec

-----------------------------------------------------------------------------
(* Liveness, under FairSpec *)

\* As long as the registry counts a session of a host and the host's daemon
\* answers, the connection is made, and made again whenever it is lost (the
\* reconciler of run_daemon): to an end of stream, a stale clean-up or a status
\* request whose probe came back late.  Without Disconnect messages a session that
\* is alive and tracked is counted (CountMatchesPids).
Resyncs ==
    \A h \in Host :
        <>[](peers[h].session_count > 0 /\ h \in reachable) => []<>peers[h].connected

\* Once no SSH process to a host is left, its sessions are forgotten and every
\* connection and attempt to it ends, those an older owner left behind included.
LeavesNothingOpen ==
    \A h \in Host :
        <>[](\A s \in alive : HostOf[s] # h)
          => <>[](/\ peers[h].session_count = 0
                  /\ \A l \in Link : link[l].host # h)

-----------------------------------------------------------------------------
(* What the documents say and the code does not do *)

\* "Disconnect from host only when ALL SSH sessions to that host are closed":
\* in a network where nothing has failed, a connected host stays connected while
\* it has sessions.
DisconnectsOnlyWhenAllClosed ==
    [][\A h \in Host :
         (peers[h].connected /\ ~peers'[h].connected /\ outages = 0)
           => peers'[h].session_count = 0]_vars
==============================================================================
