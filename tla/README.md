# tassh, in TLA+

`tassh` forwards PNG screenshots between the machines a user is logged in to. On every machine one
daemon runs. `ssh` tells it about each session (`tassh notify` as `LocalCommand`), it opens a TCP
connection to the daemon of the machine the session goes to, and sends it every image copied locally;
the receiving daemon writes the image to the clipboard of an Xvfb display that SSH sessions there use.

This directory models the daemon's concurrent parts, model-checks small instances with TLC and proves
invariants for all instances with TLAPS. Paths are relative to the repository; `daemon.rs` and the like
stand for `src/daemon.rs`.

## 1. Inventory

| Component | State | Operations | Shared with, hard because |
|---|---|---|---|
| Session registry and outbound links (`daemon.rs`, `peer.rs`, `pid_watcher.rs`) | per host: `session_count`, `watched_pids`, `connected`, `connecting`, `close_tx`, `probe_failed`; one task per SSH process (watcher), per attempt or connection, per refresh | `handle_connect`, `handle_disconnect`, `handle_pid_exit`, `discover_existing_ssh_sessions`, `refresh_peer_liveness`, `start_peer_connection` | one mutex, released across every probe and dial; tasks act later on what they read before; a task that ends does not know whether the entry is still its own |
| IPC dispatch (`daemon.rs`, `ipc.rs`) | none (one message per connection, one task each) | Connect, Disconnect, StatusRequest, InjectFrame | messages run concurrently and may be repeated |
| `notify`, `status`, `inject` (`main.rs`) | none | one IPC message, 200 ms timeout | a lost notification is never repeated |
| Display manager (`display.rs`) | child handle behind a mutex, retry counter, `~/.tassh/display` | spawn, publish, monitor, shut down | the monitor holds the mutex while it waits for the child |
| Start-up and shutdown (`run_daemon`) | socket file, display file | single-instance check, cleaning, bind, shutdown | several processes, no lock, crashes between any two steps |
| Inbound server, status view (`run_tcp_server`, `list_peers`) | `inbound_connections` per host | accept, resolve the peer's key, receive, clean up | key resolved without the lock; hosts known under several names |
| Frame relay (`transport.rs`, broadcast channel) | 16 frames, one cursor per connection | `send_frame`, `recv_frame`, lag | slow receivers, subscription after connection |
| Clipboard watcher and writer (`clipboard.rs`) | hash of the last image; the process holding the clipboard | poll every 500 ms; kill and replace the holder | watcher and writer may look at the same display |
| Host names (`extract_ssh_destination_host`, `normalize_ssh_host`, ...) | none | parsing | the same host under two names is two peers |
| Frame codec (`protocol.rs`), transport client and server, set-up (`setup.rs`) | | | pure code; not used by the daemon; one-shot installation |

What makes each correct:

* **Registry and links**: every session is counted once and watched until it exits; a host is connected
  only while a session needs it; flags and close handle never outlive the task they stand for; a live
  session whose host answers gets its connection again after any failure; nothing stays open after the
  last session.
* **Display**: one Xvfb at a time; the published display is the one that runs; a dead server is
  replaced; the daemon gives up only after failures in a row; shutdown leaves nothing behind.
* **Start-up**: one daemon at a time; a daemon that runs stays reachable; a restart after any crash works.
* **Inbound**: every connection is counted once, under the name its machine is already known by; the
  status shows who is sending; failing name lookups hold nobody up for good.
* **Relay**: what reaches a clipboard writer is whole and in order; a slow peer misses only what the
  channel has overwritten and still gets the newest image; a close signal ends the task.
* **Clipboards**: an image of before the start is not sent; images do not travel in circles; the last
  image copied is the one that stays.

`PROJECT.json` lists the hazards of the code line by line with the properties that guard against them.

## 2. Modules

| Module | Models | Instances |
|---|---|---|
| `PeerLinks` | registry, sessions, discovery, refresh, outbound connection tasks | `MCPeerLinks` |
| `SyncPromise` | what `PeerLinks` promises, abstractly: which sessions are tracked, which connection serves them | refined by `PeerLinks` (`PromiseKept`) |
| `PeerLinksProofs` | theorems about `PeerLinks`: types, owners, the connecting flag | |
| `PeerLinksSessionProofs` | theorems about `PeerLinks`: sessions, what disconnects a host, and that it implements `SyncPromise` | |
| `XvfbLifecycle` | `DisplayManager`, `monitor_xvfb`, `shutdown` | its own `.cfg` files |
| `XvfbLifecycleProofs` | theorems about `XvfbLifecycle` | |
| `DaemonStartup` | `run_daemon` in several processes sharing two files | its own `.cfg` files |
| `DaemonStartupProofs` | theorems about `DaemonStartup` | |
| `FrameRelay` | the way of an image from the watcher's queue to the clipboard writers of the peers | its own `.cfg` file |
| `OrderedDelivery` | what the relay promises, abstractly: later frames after earlier ones, each once | refined by `FrameRelay` (`InOrderAndWhole`) |
| `FrameRelayProofs` | theorems about `FrameRelay`: types, capacities, the way to the broadcast channel | |
| `FrameRelayOrderProofs` | theorems about `FrameRelay`: that it implements `OrderedDelivery`, what is skipped, and that a quiet connection is up to date | |
| `ClipboardMesh` | watchers, writers and clipboards of several machines; connections as the queues `FrameRelay` provides | `MCClipboardMesh` |
| `ClipboardMeshProofs` | theorems about `ClipboardMesh`: types, that nothing is sent unprompted, and that the image sent last is the one shown | |
| `HostNames` | command lines and host names, parsing and comparison, as operators | used by `Inbound` |
| `Inbound` | the TCP server, key resolution, inbound counts, the status view | `MCInbound` |
| `InboundProofs` | theorems about `Inbound`: attribution, counting, the status, and what discovery reads in a command line | |

### PeerLinks

One action is one critical section of the registry's mutex, or one thing that happens between two of
them. `handle_connect` is therefore `HandleConnect(s)` followed by `ConnectIfUnlinked(s)`, with the
process in `pending` in between. An outbound task is a `Link` that walks through the stages

    probing -> absent                    (NoDaemonFound)
            -> dialing -> refused        (DialRefused)
                       -> opened         (KeepConnection: dropped, or ...)
                              -> stream -> ended (LeaveLoop) -> idle (CleanUp)

where `absent`, `refused`, `opened` and `ended` mean that the task has an answer and waits for the lock.
A refresh is a set of hosts still to visit (`todo`) and one probe per host (`job`) that remembers the
`connected` flag the visit read. Connect messages are a set: repeating one that is still queued adds
nothing, repeating it later is a new `Notify`.

`close_tx` is the identity of the task holding the receiver: storing another value drops the sender, and
dropping the sender is the close signal (`CloseSignalled`). The close channel has capacity one but
nothing is ever sent on it.

An absent registry entry is the entry `NewPeer`: entries are never removed, and no handler tells the two
apart. `pid_watcher_handles` is left out because nothing is ever pushed to it, so that the loop that
aborts the handles (`daemon.rs:459`) does nothing. `inbound_connections` and `probe_failed` are left out: no
handler of this part reads them, only the status prints them, and `Inbound` has both. `NoDaemon` and
`AttemptOver` thereby do the same to an entry, but are different places of the code.

A probe fails because its host does not answer, or because the answer comes after the deadline (400 ms in a
refresh, 3 s before a dial): `Probed` allows the second for any probe, `MaxLateProbes` times.

Assumptions: an SSH process has one registry key (`HostOf`); its pid is used again only after the
daemon has forgotten it (`SshStarts`); a Disconnect message names a process the daemon has heard of
(`tassh` itself never sends one).

### SyncPromise

Two variables: the tracked sessions and the owner of each host's connection. A connection may be claimed
only while sessions are tracked, and goes with the last of them. `PeerLinks` implements it with
`tracked <- watched_pids`, `owner <- close_tx`: probes, flags, refreshes and clean-ups are stutters or
releases, and what a late task does can be explained as a release at worst.

### XvfbLifecycle

`monitor = "waiting"` is "the mutex is held". `handle` is the child behind the mutex, `fresh` a child
`spawn_xvfb` has returned and nobody has stored. The daemon passes `force_xvfb = true`, so the desktop
branches of `detect_and_init` are not reached. The pipe Xvfb writes its display number to is abstracted
to the outcome of the spawn.

### DaemonStartup

Each step of `run_daemon` that touches the socket or the display file is an action; a process may be
killed at any of them. `display` is the process that published the file. `Overlap` says whether a
process may start while another one is starting: with `Overlap = FALSE` the promises hold, with
`Overlap = TRUE` they do not (run `startup_overlap`).

### FrameRelay and OrderedDelivery

`log` is everything ever sent on the broadcast channel; of it the last `BroadcastCapacity` frames can
still be read, and each connection task has a `cursor`. The `select!` loop is `TakeFrame`, `SkipLagged`,
`NoticeClose`, `NoticePeerGone`; while the task is in `send_frame` it is in stage `sending` and does
nothing else but write chunk after chunk (`WriteChunk`) until the deadline (`SendTimesOut`). A frame on
the wire is a header chunk and `PayloadChunks` more; a socket holds `SocketCapacity`. The receiving task
collects chunks as `read_exact` does and hands a frame to its clipboard writer, which may hang
(`WriteDone` carries no fairness). When a connection is made and when its handle is dropped belongs to
`PeerLinks`: here `Register`, `DropCloseHandle` and `Break` happen at any time. `since` is history: the
length of the log at subscription.

`OrderedDelivery` keeps the number of frames published, which connections have subscribed and where, and for
each the sequence of the frames it has delivered. It lets this sequence grow by one frame that was published
later than its last. The mapping takes the whole sequence from the payloads received (`Places`): a frame
delivered twice in a row, an overtaking, or a payload that is no frame's make it longer by something the
abstract specification does not allow.

### ClipboardMesh

Every machine has the Xvfb display its daemon started, and writes there; a machine with a desktop watches
the desktop, a headless one its Xvfb display, which is the one it writes to (`daemon.rs:67-84`). `Poll` is
one round of the watcher that finds a new image, from the read to the broadcast: a broadcast that comes
later than the read cannot be told from receivers that are slower. A write is two steps, as in the code:
the previous child is killed (which empties the clipboard if that child still holds it, unless `xclip` has
forked a server of its own), then the next one takes the clipboard. `XvfbMoves` is what a respawn on
another display number (`XvfbLifecycle`) means here: nobody looks at the new display.

### HostNames and Inbound

A string is a sequence of punctuation characters and whole words. The code reads the output of `pgrep -a`,
where blanks stand between arguments and inside them alike, and cuts it at every blank; so `Args` is the
sequence of *words* of a command line, and an option's value is as many words as it has. `IsCommandLine` says
which command lines `ssh` takes, by its own table of options that have a value (`SshTakesValue`, from OpenSSH,
with `-B` and `-P`), which is not the code's (`ssh_option_takes_value`): option groups (letters in one
argument, the last perhaps with a value there or in the words that follow), `--` or not, a destination
(`user@`, `ssh://`, quoted or not, any capitals) and any remote command.

`Legible` names the command lines that the code reads rightly; the theorems and `DiscoveryFindsHosts` are about
these. Not legible are a value of several words (`-o "ProxyCommand ssh -W x jump"`), `-B` or `-P` with a
separate value, an option that takes the next argument bundled behind flags (`-vp 22`), `ssh://` addresses
and destinations with other characters than letters, digits, `.` and `-` (IPv6, `_`). Discovery runs on
them all the same, with the key the code finds: the other properties of the `inbound` run hold then
too (two of its command lines are not legible), only that the right host is registered does not.

`Inbound` walks through `run_tcp_server`: the accept loop resolves one connection at a time, `Lookup` per
known key, then `ReverseLookup`, then `MatchKnown`; each DNS query may fail, and sessions come and go
between the steps. The result is registered in `RegisterInbound`. `NotifySession` takes any name, this
machine's own included, as `handle_connect` does. `Outbound` is all that `PeerLinks` may do to an entry as
far as the status shows it: a session exits, or a probe or connection caused by a session (whose key is in
`announced` or `found`) has any outcome, also after the session is gone. `known` in `job` is the list of keys
the code reads before the lookups.

Assumptions: an address resolves to a name of its own machine, and the name reverse DNS gives is among its
machine's `Names` (`NamesAssumption`). Two machines may well share a first label: then the code may count one
under the other's key, as the `inbound` run does with `web.ts` and `web.lan`. `AttributedByLabel` says how far
this goes: no further than the first label.

## 3. Runs

| Run | Shows | Instance |
|---|---|---|
| `registry` | counting, watching, need and owner of a connection, what disconnects a host, refinement of `SyncPromise` | 2 sessions to one host, 2 tasks, status request, 1 Disconnect, 1 late probe |
| `links_liveness` | `Resyncs`, `LeavesNothingOpen`; no `connecting` flag without an attempt | 1 session that may end and start again, 2 tasks, reconciler, status request, 1 outage |
| `stale_cleanup` | *violated*: disconnection only when all sessions are closed | 2 sessions, reconciler, no outage |
| `xvfb` | the life of the server, retries and shutdown | 2 displays, `MAX_ATTEMPTS` = 5 as in the code |
| `xvfb_shutdown` | *violated*: clean shutdown | 1 display |
| `startup` | single instance, reachability, restart after a crash | 3 processes, start-ups do not overlap |
| `startup_display` | *violated*: only a stale display file is dropped | 2 processes |
| `startup_overlap` | *violated*: single instance when start-ups overlap | 2 processes |
| `relay` | `InOrderAndWhole` (refinement), nothing lost before the channel, skips only for lag, a quiet connection is up to date, the newest frame arrives, the close signal is noticed | 1 connection, channel of 2, queue of 1, socket of 2 chunks, frames of 3 chunks, 4 captured and 1 injected frame |
| `mesh` | nothing is sent unprompted, the image sent last is shown, images settle, the last image wins | 1 desktop and 2 headless machines, 4 connections of capacity 2, 3 copies, 1 fault |
| `mesh_echo` | *violated*: images settle | 2 headless machines connected both ways, 2 copies |
| `inbound` | counting, attribution, reuse of known keys, status, discovery, service of queued connections | 2 machines with 4 and 3 names, 2 connections, 1 session, 158 ssh command lines |

**Bounds.** Hosts share nothing but the refresh loop, which visits them one by one, so one host shows
every interleaving on an entry; the theorems hold for any number. Two sessions give "one leaves, one
stays" and "one comes while one goes"; two tasks give an old and a new owner. Processes are model
values and exit and start without bound, so histories are unbounded. `MaxDisconnects`, `MaxOutages` and
`MaxLateProbes` bound messages and failures. An outage can hit a probe, a dial or a stream, may break any
subset of the open connections (or none: then a probe fails and the stream works on, as with a late probe),
and a recovery may follow; a late probe can be any. In `registry` a status probe that is late finds a
connected host down (`daemon.rs:358-365`) and takes it down while a session stays or another one comes; in
`links_liveness` an outage does, and the reconciler brings the host back. `links_liveness` starts with an
answering host (`AnsweringSpec`): an outage may be its first step. It has one session and no Disconnect
message: `Resyncs` is about a host whose sessions are *counted*, which after a Disconnect need not be all
that are tracked. A third task
is never needed for the violations; where TLC has no free task, `SpawnLink` is disabled, so a behaviour
that would need three at once is not explored (the theorems again hold for any number). Session and task
identities are symmetric in the passing safety runs; the liveness runs use no symmetry.
`XvfbLifecycle.cfg` switches the deadlock check off because the process ends.

`relay`: connections share only the log, which none of them changes, so one shows all that can happen to
one; five frames against a channel of two let a task be overtaken twice, and a socket smaller than a
frame lets the deadline strike inside one. A frame of the code is one header and up to 4 GiB; what
matters is that there is more than one cut. `mesh`: the topology has a loop (desktop and headless machine
both ways) and two ways to the same machine, one through another's watcher; three copies are needed for
A, B, A; capacity 2 for losing the oldest. `inbound`: two connections give "same machine twice" and "two
machines at once"; the session may come before, during or after the resolution, under the name of
either machine or of this one. The command lines combine up to two options (plain, with a separate and with an inline value), `--`,
three destinations (user, quotes, capitals, this machine) and a remote command; two are not legible.
These three switch the deadlock check off: users may stop, and a server that ended stays ended. `MaxCaptured`, `MaxInjected`,
`MaxCopies`, `MaxFaults` and `MaxSessions` are the only bounds on histories.

**Fairness.** `PeerLinks`: weak fairness for each task (per session, per host of the scan, per refresh,
per connection), for the scan and for the start of the reconciler's refresh: the tokio runtime polls
every task that is ready, the mutex is fair, probes have timeouts, and the dial ends with the system's.
None for users, `ssh`, notifications or the network. `LeaveLoop` counts as ready once the stream
has ended or the sender is gone: a frame being sent delays it by at most the 10 s of `send_frame`.
`XvfbLifecycle`: both tasks are polled and sleeps end; Xvfb itself is under no obligation, and neither
is `wait()` to fail. `DaemonStartup`: a running process gets on with `run_daemon`. `FrameRelay`: tasks that
are ready are polled, and the deadline of `send_frame` is a timer (`WF` of `SendTimesOut`); `select!` picks
among ready branches at random, so a close signal that stays is picked in the end (`WF` of `NoticeClose`);
none for the watcher's user, the network, the clipboard writer. `ClipboardMesh`: watchers poll for ever and
connections deliver; none for users and faults. `Inbound`: the accept loop is polled and DNS queries end,
with or without an answer.

`Resyncs` needs the premise that from some point on a session of the host is counted and its host answers. It
does not need that notifications arrive, and it holds with status probes that take a working connection down. `NewestArrives` is about
connections that stay up with a writer that returns again and again; `Converges` about runs without
faults, since a failed write is not repeated and an Xvfb that has moved is not found again.

## 4. Theorems

All are checked by TLAPS for every value of the constants under the named assumptions of the modules.

* **`TypeCorrect`** (`Spec => []TypeOK`). `TypeOK` is not inductive: `KeepConnection`, `CleanUp` and the
  like index `peers` with the task's host, which `TypeOK` allows to be `NoHost`. `Typed` adds that only
  idle tasks have no host. Lemmas give the type of each registry update once.
* **`ConnectionNeedsSession`, `OwnerIsThere`, `NoIdleConnection`**. The inductive invariant is `Owned(h)`:
  a connected host has a session and its `close_tx` names a task of this host that is in its loop or
  about to clean up; a host that is not connected has no `close_tx`. The two run invariants need each
  other: `CleanUp` clears any entry, so `connected` and `close_tx` must go together, and the task an entry
  names leaves `ended` only by clearing that entry. `NoIdleConnection` justifies modelling the idle sweep
  of `refresh_peer_liveness` as one step.
* **`FlagHasAttempt`**. `ConnectingHasAttempt` is inductive once types are known: a step that ends a task
  clears the flag of its host, and one that sets the flag spawns a task for it.
* **`SessionsAreWatched`, `CountIsExact`**. The lemma `StepClasses` sorts every step by what it does to the
  registry: processes not tracked before join (`Joined`), the exit of one is handled (`Left`), or the step
  is `Quiet`: it touches no session and at most the owner of one host. The two properties are then
  inductive together: a watcher that fires belongs to a tracked process (so the subtraction is exact)
  because the watchers and the pids agree as long as there was no Disconnect message.
* **`RegistryKeepsPromise`** (`Spec => PromiseKept`). `Joined` maps to `Join`, `Left` to `Leave` (or, for a
  process already removed, to `Release`), `Quiet` to `Claim`, `Release` or a stutter. `Leave` may keep the
  owner only if another session stays: the count is at most the number of tracked processes, so the last
  process to leave takes the count to zero. `Claim` needs a tracked session: the same inequality.
* **`DisconnectionsHaveCauses`** (`Spec => DisconnectHasCause`), the exact extent of the first finding below,
  with any outages and late probes: before any Disconnect message, a connected host with tracked sessions is
  disconnected by the clean-up of its owner after the owner's stream ended, by the clean-up of a task that is not
  its owner any more, or by a status request whose probe failed and which had read the host as connected;
  never by an exit, a late dial, a failed attempt or the reconciler. It needs the exact count (an exit that takes
  the count to zero leaves no tracked process), that the reconciler's probes remember a host that was not
  connected, and that an owner leaves its loop only for an end of stream. After a Disconnect message it is
  false: see the end of section 5.
* **`SingleInstance`, `SocketIsKept`** (for `~Overlap`). The strengthening is `Exclusive`: one process at
  a time is starting, and whoever is past the check knows that nobody listens. **`StartupTyped`** is the
  type invariant, overlap or not.
* **`NeverTwoServers`, `FileNamesServer`, `GivesUpLate`, `LifecycleTyped`**. One invariant says, for each
  point of the monitor, which handles hold a child, what the file names (`FileFollows`) and how the
  counter relates to the failed respawns (`Counts`: equal, or one ahead during the backoff).

* **`RelayTyped`, `CapturesKept`**. `Typed` adds to the types that the log is as long as what the sources
  have published (`Counted`), which bounds the cursors, and that a task is sending exactly while there are
  chunks to write (`Writing`). `NoCaptureLost` is inductive together with the numbering of injected frames.
* **`RelayInOrder`** (`Spec => InOrderAndWhole`), **`RelaySkipsOverwritten`**. The argument is about the
  stream of a connection: the chunks the receiver has collected, those on the wire and those still to be
  written, as one sequence. `Streaming` says that it starts with the header of a frame that may come after
  the newest delivered, that each chunk follows the one before it in the same frame or starts a later one,
  and that it ends at a frame boundary while both ends are in use. Reading and writing move the cuts in the
  stream and leave it as it is, `TakeFrame` appends a frame later than all in it, a timeout or a loss keeps a prefix and uses the
  connection no more, `RecvFrame` takes the first frame off. "May come after" (`Leads`) requires what lies
  between to be overwritten, so both theorems come from one invariant. A delivery appends to the sequence of
  delivered frames one later than its last, which is the step of `OrderedDelivery`. The lemmas on sequences are stated
  for any log and stream; none needs induction, since a step changes a stream at one place.
* **`QuietUpToDate`** (`Spec => []QuietIsUpToDate`), the safety heart of `NewestArrives`: fairness is needed
  only for a connection to go quiet. It joins the invariant above as `CaughtUp`: when the cursor stands at the
  end of the log, the last frame of the stream (or, if the stream is empty, the newest delivered) is the
  last of the log. A lagging task is put on the oldest frame there is, which is never past the end.
* **`MeshTyped`, `ShownAtStartIsNotSent`**. As long as nobody has copied and nothing has failed, every
  watcher that polls has seen what its display shows and no connection carries anything (`Quiet`): a first
  sample keeps that, a poll finds nothing new, a writer has nothing to write to a watched display.
* **`LastSentShown`** (`Spec => []LastSentIsShown`), the safety heart of `Converges`, for any topology, cyclic
  or not: what a connection brings is in order and the queue drops the oldest, never the newest. The invariant
  `Newest` follows the image a machine sent last: it is the last of the queue (`NewestOfQueue`), else with
  the writer (`NewestOfWriter`), else on the clipboard if the writer's child holds it. A watcher that polls
  records and sends in one step; a connection not yet used (`NotYetUsed`) covers the first sample, which is
  recorded and not sent.
* **`InboundCounted`, `InboundAttributed`, `KnownHostReused`, `StatusSound`**. The invariant `Sound` joins
  them. `Owned`: the accept loop owns the connection it resolves, and the backlog holds each queued one
  once, so no other step touches it. `Attributed`: a key is a name of the machine, or matches its reverse name
  by the first label, from the moment it is resolved until the connection is cleaned up. `AddressFound`: a
  machine known by its address cannot be missed by the forward lookups; a known variant of its reverse name is
  then matched by `SameHost`. Counting needs that entries are never removed, so that a new entry has no live
  connection and a clean-up finds its entry. Nothing is assumed of the names that discovery reads or of other
  machines' names.

* **`DestinationIsRead`, `DiscoverySound`, `InboundTypeCorrect`**. For every legible command line
  `extract_ssh_destination_host` returns the destination, in lower case. The walk over the words is a
  recursive function, and the claim is proved by induction over the position. The library's induction theorems
  take an operator and cannot be used, so the lemma `Induction` is about a set instead: its complement would
  have a least element (`WFMin`). `Place` and `Flatten` show that the recursive functions of the walk and of the
  flattened option groups satisfy their equations, `FlattenPrefixes` where a group lies in the flattened
  list, `Destination` follows the walk over the groups, skipping values, to the destination; `AfterUser`,
  `NoPort`, `Trim` and `LowerOfHost` say what each part of `normalize_ssh_host` leaves of a destination.
  `InboundTypeCorrect` holds for illegible lines too: whatever is read there is a key, if it is a host name
  at all. `DiscoverySound` joins `Registered` to it: every destination found legibly is in the registry,
  and every key there is one, or a name that notify or an inbound connection brought.

All invariants, action properties and refinements the passing runs check are thereby stated by a theorem.
Checked by TLC only: liveness (`Resyncs`, `LeavesNothingOpen`, `ServerComesBack`, `RestartServes`,
`NewestArrives`, `CloseIsNoticed`, `Settles`, `Converges`, `QueuedIsServed`), which is out of the prover's reach.

## 5. What the documents say and the code does not do

1. *Disconnect only when all sessions are closed* (`05-CONTEXT.md`): an ended task cleans up whatever
   the entry holds by then. Last session leaves, next one connects, the old task cleans up: the new
   connection is closed under a live session. Otherwise only the end of the stream or a failed status probe
   does that (`DisconnectionsHaveCauses`), and the reconciler repairs it (`Resyncs`).
2. *Content hashing avoids re-sending duplicate images* (`.planning/PROJECT.md:28`): the hash is that of
   the last image this watcher sent. A headless machine's watcher sees what its own writer wrote, so
   between headless machines connected in a cycle two images circle for ever (run `mesh_echo`); with a
   single image, or without a cycle of headless machines, they settle (`Settles`, run `mesh`).
3. *Shut down cleanly* (`display.rs:109`): the monitor holds the mutex across `wait()`. Shutdown times
   out, Xvfb and the display file stay (systemd kills the rest of the unit; a daemon started by hand
   leaves both).
4. *Drop stale exported display* (`daemon.rs:48`): a second start drops the live daemon's file.
5. *Single-instance check* (`daemon.rs:52`): start-ups that overlap by less than the seconds Xvfb needs
   both succeed.

Seen while modelling, without a run of their own: `peer.rs:24` says of `connecting` that it "prevents
races", but clean-ups and failed liveness probes clear the flag of other tasks' attempts, so two attempts
may run at once; they end in one owner (`OwnerIsThere`). `clipboard.rs:29` says that the image of start-up
is not sent; if the first sample takes longer than two seconds it counts as empty, and the first poll sends
that image (so `NothingSentUnprompted` has the premise that nothing failed). An error in the first sample
ends the watcher for good, later ones are only logged. A session registered while an inbound connection is
resolved, or DNS that answers in neither direction, gives a machine a second entry. Discovery lower-cases names
that notify passes on as they are. If Xvfb comes back on another display and the file cannot be written, the
file names a display nobody serves (so `PublishedIsLive` has the premise that it was written).

* The comment at `display.rs:266` announces pauses of 2 to 32 s and five failed attempts. The first exit is
  counted before the first attempt and the count is compared before the pause: there are four attempts and
  the longest pause is 16 s. `GivesUpInARow` states the four.
* An explicit Disconnect and the exit of the same process both decrement `session_count`. With another session
  tracked, the count can so reach zero; the connection is then closed under that session (against
  `05-CONTEXT.md:26`) and stays closed, since the reconciler passes over a host with count zero.
  `CountMatchesPids` allows this after a Disconnect only, `DisconnectHasCause` is stated before any, and
  `tassh` itself sends no such message.
* Discovery cuts the line of `pgrep` at every blank and its table of options is incomplete (`daemon.rs:843` says
  "PID ssh [options] destination"): of `ssh -o "ProxyCommand ssh -W x jump" host` it registers `ssh`, and of
  `ssh -vp 22 host` a host named `22`; `-B`, `-P` and `ssh://` are misread likewise.
* Names with the same first label in different domains are no "variants" of each other (`daemon.rs:671`) but
  share an entry.

## 6. Not modelled

The transport client and server (`transport.rs:100-211`) are not used by the daemon, nor is the watcher
through `arboard`. Set-up is installation I/O. Lock-file cleaning only removes files of dead servers; Xvfb
picks a free display in any case. `spawn_xvfb` reads the pipe to its end, and its write end is inheritable:
a child process started at that moment can delay the read. The header's numbers (`protocol.rs`): both ends
are the same code. Argument parsing and printing.

## 7. Plan

1. A composition of two overlapping connections to one machine with its clipboard (`daemon.rs:643`).
2. The set-up's append without a lock (`setup.rs:244`).
