-------------------------------- MODULE Inbound --------------------------------
(***************************************************************************)
(* The receiving half of a daemon's peer registry (daemon.rs, peer.rs):    *)
(* the TCP server, the resolution of an inbound connection's registry key, *)
(* the count of inbound connections, and the status made of it all.        *)
(*                                                                         *)
(* The accept loop resolves the key of one connection at a time, without   *)
(* the registry's lock across DNS lookups; sessions come and go meanwhile. *)
(* Of the outbound half (PeerLinks) there is what the status shows, and    *)
(* the keys it brings: as ssh passes them to notify, or as discovery reads *)
(* them from a command line (HostNames), perhaps wrongly.                  *)
(***************************************************************************)
EXTENDS HostNames, FiniteSets

CONSTANTS
    Machine,      \* the machines that connect to this one
    Ip,           \* [Machine -> the address as a string]
    Names,        \* [Machine -> the strings that name it, its address included]
    Ptr,          \* [Machine -> what reverse DNS says, if it answers]
    SelfNames,    \* discover_local_aliases
    CommandLine,  \* ssh command lines: [options, dashes, quote, user, typed, command]
    Connection,   \* inbound connections
    NoMachine, NoConnection,
    MaxSessions   \* bound: sessions that notify announces or discovery finds

ASSUME NobodyAssumption == NoMachine \notin Machine /\ NoConnection \notin Connection
ASSUME ConnectionAssumption == IsFiniteSet(Connection)
ASSUME BoundAssumption == MaxSessions \in Nat
ASSUME NamesAssumption ==
    /\ \A m \in Machine : /\ Names[m] \subseteq Strings
                          /\ Ip[m] \in Names[m] /\ normalize_peer_hostname(Ptr[m]) \in Names[m]
    /\ SelfNames \subseteq Strings

ASSUME CommandLineAssumption == \A c \in CommandLine : IsCommandLine(c)

NoKey == <<>>

\* What pgrep lists: where a process goes to, and what its command line says.
Listing ==
    {[host |-> Lower(c.typed), key |-> extract_ssh_destination_host(Args(c)),
      legible |-> Legible(c)] : c \in CommandLine}

\* How the machines and this one are called, and what is read in command lines.
Name == SelfNames \cup UNION {Names[m] : m \in Machine}
Key == Name \cup ({p.key : p \in Listing} \ {NoKey})

VARIABLES
    peers,     \* the registry: a function whose domain is the keys it holds
    server,    \* "starting", "accepting" or "ended"
    backlog,   \* connections the kernel has accepted, in order
    job,       \* the connection the accept loop is resolving
    conn,      \* inbound connections
    announced, \* the keys of the sessions that notify announced
    found      \* the sessions that discovery found in the list of processes

vars == <<peers, server, backlog, job, conn, announced, found>>

-----------------------------------------------------------------------------
(* The registry *)

NewPeer == [session_count |-> 0, inbound_connections |-> 0, connected |-> FALSE,
            probe_failed |-> FALSE]

Known == DOMAIN peers

\* get_or_create, and the registry with an entry changed or created.
Entry(k) == IF k \in Known THEN peers[k] ELSE NewPeer
WithPeer(k, peer) == [x \in Known \cup {k} |-> IF x = k THEN peer ELSE peers[x]]

\* Variant: shows the outbound connection only.
ListPeersOutbound ==
    {[hostname |-> k, connected |-> peers[k].connected, no_daemon |-> peers[k].probe_failed,
      session_count |-> peers[k].session_count + peers[k].inbound_connections] :
        k \in {x \in Known : peers[x].session_count + peers[x].inbound_connections > 0}}

\* PeerRegistry::list_peers
ListPeers ==
    {[hostname |-> k,
      connected |-> peers[k].connected \/ peers[k].inbound_connections > 0,
      no_daemon |-> peers[k].probe_failed /\ peers[k].inbound_connections = 0,
      session_count |-> peers[k].session_count + peers[k].inbound_connections] :
        k \in {x \in Known : peers[x].session_count + peers[x].inbound_connections > 0}}

\* What `tassh status` prints of a peer.
StatusWord(p) ==
    IF p.connected THEN "syncing" ELSE IF p.no_daemon THEN "no daemon" ELSE "probing"

IdleJob == [stage |-> "idle", conn |-> NoConnection, todo |-> {}, known |-> {}, key |-> NoKey]
Closed == [stage |-> "closed", from |-> NoMachine, key |-> NoKey]

JobState == [stage : {"idle", "forward", "match", "resolved"},
             conn : Connection \cup {NoConnection}, todo : SUBSET Key, known : SUBSET Key, key : Key \cup {NoKey}]
ConnState == [stage : {"closed", "queued", "resolving", "receiving", "cleaning"},
              from : Machine \cup {NoMachine}, key : Key \cup {NoKey}]

\* Keys are names as they are normalized, but for those that ssh gives notify.
TypeOK ==
    /\ Known \subseteq Key
    /\ \A k \in Known : peers[k] \in [session_count : Nat, inbound_connections : Nat,
                                      connected : BOOLEAN, probe_failed : BOOLEAN]
    /\ server \in {"starting", "accepting", "ended"}
    /\ backlog \in Seq(Connection)
    /\ job \in JobState
    /\ conn \in [Connection -> ConnState]
    /\ announced \in Seq(Name) /\ found \in Seq(Listing)
    /\ Len(announced) + Len(found) <= MaxSessions

-----------------------------------------------------------------------------
(* Sessions and outbound connections, as far as the status shows them *)

Joined(p) == [p EXCEPT !.session_count = @ + 1]

\* notify passes the name as ssh has it, and handle_connect takes it as it is.
NotifySession(k) ==
    /\ Len(announced) + Len(found) < MaxSessions
    /\ announced' = Append(announced, k)
    /\ peers' = WithPeer(k, Joined(Entry(k)))
    /\ UNCHANGED <<server, backlog, job, conn, found>>

\* discover_existing_ssh_sessions finds one process.
Discover(p) ==
    /\ Len(announced) + Len(found) < MaxSessions
    /\ found' = Append(found, p)
    /\ peers' = IF p.key \in SelfNames \cup {NoKey} THEN peers ELSE WithPeer(p.key, Joined(Entry(p.key)))
    /\ UNCHANGED <<server, backlog, job, conn, announced>>

\* A session exits; the last one takes the connection with it.
Left(p) == [p EXCEPT !.session_count = @ - 1, !.connected = @ /\ p.session_count > 1]

\* A probe or a connection of the outbound half has an outcome.
Probed(p, up, refused) == [p EXCEPT !.connected = up, !.probe_failed = refused]

\* What PeerLinks may do to an entry: a session exits, or a probe or connection
\* that a session has caused ends, perhaps when the session is gone.
Outbound(k) ==
    /\ k \in Known
    /\ \/ /\ peers[k].session_count > 0
          /\ peers' = [peers EXCEPT ![k] = Left(@)]
       \/ \E up, refused \in BOOLEAN :
              /\ k \in ToSet(announced) \cup {found[i].key : i \in DOMAIN found}
              /\ up => peers[k].session_count > 0
              /\ peers' = [peers EXCEPT ![k] = Probed(@, up, refused)]
    /\ UNCHANGED <<server, backlog, job, conn, announced, found>>

-----------------------------------------------------------------------------
(* run_tcp_server *)

\* `tailscale ip -4` and bind: a failure ends the server for good, and the
\* daemon goes on without.
ServerStarts ==
    /\ server = "starting"
    /\ server' \in {"accepting", "ended"}
    /\ UNCHANGED <<peers, backlog, job, conn, announced, found>>

\* A daemon connects; the kernel accepts while the server listens.
PeerConnects(c, m) ==
    /\ server = "accepting"
    /\ conn[c].stage = "closed"
    /\ conn' = [conn EXCEPT ![c] = [stage |-> "queued", from |-> m, key |-> NoKey]]
    /\ backlog' = Append(backlog, c)
    /\ UNCHANGED <<peers, server, job, announced, found>>

\* accept() returns a connection; existing_peer_key_for_ip reads the known keys.
Accept ==
    /\ server = "accepting" /\ job.stage = "idle"
    /\ backlog # <<>>
    /\ backlog' = Tail(backlog)
    /\ conn' = [conn EXCEPT ![Head(backlog)].stage = "resolving"]
    /\ job' = [IdleJob EXCEPT !.stage = "forward", !.conn = Head(backlog),
                              !.todo = Known, !.known = Known]
    /\ UNCHANGED <<peers, server, announced, found>>

\* accept() fails: the error ends the server and what was queued is reset.
AcceptFails ==
    /\ server = "accepting" /\ job.stage = "idle"
    /\ server' = "ended"
    /\ backlog' = <<>>
    /\ conn' = [c \in Connection |-> IF conn[c].stage = "queued" THEN Closed ELSE conn[c]]
    /\ UNCHANGED <<peers, job, announced, found>>

\* The machine behind the connection being resolved.
Caller == conn[job.conn].from

\* Variant: asks again until there is an answer.
LookupRetries(k) ==
    /\ job.stage = "forward" /\ k \in job.todo \cap Names[Caller]
    /\ job' = [job EXCEPT !.stage = "resolved", !.key = k, !.todo = {}]
    /\ UNCHANGED <<peers, server, backlog, conn, announced, found>>

\* host_resolves_to_ip of one known key: the address itself needs no lookup, any
\* other name one that may fail.
Lookup(k) ==
    /\ job.stage = "forward" /\ k \in job.todo
    /\ \/ /\ k \in Names[Caller]
          /\ job' = [job EXCEPT !.stage = "resolved", !.key = k, !.todo = {}]
       \/ /\ k # Ip[Caller]
          /\ job' = [job EXCEPT !.todo = @ \ {k}]
    /\ UNCHANGED <<peers, server, backlog, conn, announced, found>>

\* No known key resolves to the address: reverse DNS answers, or the address
\* becomes the key.
ReverseLookup ==
    /\ job.stage = "forward" /\ job.todo = {}
    /\ \/ job' = [job EXCEPT !.stage = "match"]
       \/ job' = [job EXCEPT !.stage = "resolved", !.key = Ip[Caller]]
    /\ UNCHANGED <<peers, server, backlog, conn, announced, found>>

\* What reverse DNS says of a machine, normalized, and the keys that match it.
PtrName == [m \in Machine |-> normalize_peer_hostname(Ptr[m])]
MatchingKeys == [m \in Machine |-> {k \in Key : SameHost(k, PtrName[m])}]

\* Variant: takes the name as reverse DNS gives it.
MatchKnownRaw ==
    /\ job.stage = "match"
    /\ \E k \in IF Known \cap MatchingKeys[Caller] = {} THEN {Ptr[Caller]}
             ELSE Known \cap MatchingKeys[Caller] :
          job' = [job EXCEPT !.stage = "resolved", !.key = k]
    /\ UNCHANGED <<peers, server, backlog, conn, announced, found>>

\* Under the lock again: a known key in another form of the name is reused.
MatchKnown ==
    /\ job.stage = "match"
    /\ \E k \in IF Known \cap MatchingKeys[Caller] = {} THEN {PtrName[Caller]}
             ELSE Known \cap MatchingKeys[Caller] :
          job' = [job EXCEPT !.stage = "resolved", !.key = k]
    /\ UNCHANGED <<peers, server, backlog, conn, announced, found>>

Entered(p) == [p EXCEPT !.inbound_connections = @ + 1, !.probe_failed = FALSE]

\* The connection is counted and its receiving task spawned.
RegisterInbound ==
    /\ job.stage = "resolved"
    /\ peers' = WithPeer(job.key, Entered(Entry(job.key)))
    /\ conn' = [conn EXCEPT ![job.conn] = [@ EXCEPT !.stage = "receiving", !.key = job.key]]
    /\ job' = IdleJob
    /\ UNCHANGED <<server, backlog, announced, found>>

\* recv_frame reports the end of the stream or an error.
ReceiveEnds(c) ==
    /\ conn[c].stage = "receiving"
    /\ conn' = [conn EXCEPT ![c].stage = "cleaning"]
    /\ UNCHANGED <<peers, server, backlog, job, announced, found>>

Exited(p) == [p EXCEPT !.inbound_connections = IF @ > 0 THEN @ - 1 ELSE 0]

\* Variant: uncounts the connection under the machine's address.
CleanUpByIp(c) ==
    /\ conn[c].stage = "cleaning"
    /\ peers' = [k \in Known |-> IF k = Ip[conn[c].from] THEN Exited(peers[k]) ELSE peers[k]]
    /\ conn' = [conn EXCEPT ![c] = Closed]
    /\ UNCHANGED <<server, backlog, job, announced, found>>

\* Clean-up of the receiving task, under the key it was registered with.
CleanUp(c) ==
    /\ conn[c].stage = "cleaning"
    /\ peers' = [peers EXCEPT ![conn[c].key] = Exited(@)]
    /\ conn' = [conn EXCEPT ![c] = Closed]
    /\ UNCHANGED <<server, backlog, job, announced, found>>

-----------------------------------------------------------------------------
(* Specification *)

Init ==
    /\ peers = [k \in {} |-> NewPeer]
    /\ server = "starting"
    /\ backlog = <<>>
    /\ job = IdleJob
    /\ conn = [c \in Connection |-> Closed]
    /\ announced = <<>> /\ found = <<>>

AcceptLoop ==
    \/ Accept \/ ReverseLookup \/ MatchKnown \/ RegisterInbound
    \/ \E k \in Key : Lookup(k)

Next ==
    \/ \E k \in Name : NotifySession(k)
    \/ \E k \in Key : Outbound(k)
    \/ \E p \in Listing : Discover(p)
    \/ ServerStarts \/ AcceptLoop \/ AcceptFails
    \/ \E c \in Connection, m \in Machine : PeerConnects(c, m)
    \/ \E c \in Connection : ReceiveEnds(c) \/ CleanUp(c)

Spec == Init /\ [][Next]_vars

\* The accept loop is polled and DNS lookups end, with or without an answer.
FairSpec == Spec /\ WF_vars(AcceptLoop) /\ \A c \in Connection : WF_vars(CleanUp(c))

-----------------------------------------------------------------------------
(* Properties *)

Live(k) == {c \in Connection : conn[c].stage \in {"receiving", "cleaning"} /\ conn[c].key = k}

\* An entry counts exactly the receiving tasks registered under its key.
InboundIsCounted ==
    /\ \A k \in Known : peers[k].inbound_connections = Cardinality(Live(k))
    /\ \A c \in Connection : conn[c].stage \in {"receiving", "cleaning"} => conn[c].key \in Known

\* A name of the machine, or one with the same first label.
Fits(k, m) == k \in Names[m] \/ Label(k) = Label(Ptr[m])

\* A connection is counted under a name of its machine, or under a known host
\* with the machine's first label: whatever DNS answers and whichever sessions
\* are registered while it is resolved, never under any other.  (Two machines in
\* different domains may share a first label, and then an entry.)
AttributedByLabel ==
    \A c \in Connection :
        conn[c].stage \in {"receiving", "cleaning"} =>
            Fits(conn[c].key, conn[c].from)

\* "Preferring existing host keys": a machine known when its connection was
\* accepted, by its address or by a variant of what reverse DNS says, gets no
\* second entry, unless neither direction of DNS answers.
KnownHostKeepsItsEntry ==
    (/\ job.stage = "resolved"
     /\ \E k \in job.known \cap Names[Caller] :
            k = Ip[Caller] \/ Label(k) = Label(Ptr[Caller]))
    => job.key \in Known \/ job.key = Ip[Caller]

\* The status shows a machine that is sending to this one as syncing, and a
\* session is always shown.
StatusShowsPeers ==
    /\ \A c \in Connection : conn[c].stage = "receiving" =>
           \E p \in ListPeers : p.hostname = conn[c].key /\ StatusWord(p) = "syncing"
    /\ \A k \in Known : peers[k].session_count > 0 => \E p \in ListPeers : p.hostname = k

Destinations == {found[i].host : i \in DOMAIN found} \ SelfNames

\* From legible command lines discovery registers the hosts the processes go to:
\* all of them, and no option's value, no word of a remote command and not this
\* machine.
DiscoveryFindsHosts ==
    (\A i \in DOMAIN found : found[i].legible) =>
        /\ Destinations \subseteq Known
        /\ Known \subseteq Destinations \cup ToSet(announced) \cup UNION {Names[m] : m \in Machine}

\* A connection the kernel has accepted is registered, or reset because the
\* server has ended: failing lookups, of others too, do not hold it up for good.
QueuedIsServed ==
    \A c \in Connection :
        conn[c].stage = "queued" ~> conn[c].stage \in {"receiving", "closed"}
=============================================================================
