----------------------------- MODULE ClipboardMesh -----------------------------
(***************************************************************************)
(* The clipboards of several machines whose daemons are connected          *)
(* (clipboard.rs, and daemon.rs where it wires watcher and writers).       *)
(*                                                                         *)
(* Every machine has an Xvfb display, which its daemon writes received     *)
(* images to.  A desktop machine watches its desktop's clipboard; a        *)
(* headless one has no other display to watch than that Xvfb display, so   *)
(* it sees what it has written itself.                                     *)
(*                                                                         *)
(* The connections are given.  Each is a queue that keeps the newest       *)
(* QueueCapacity images in order and drops older ones: what FrameRelay     *)
(* promises (OrderedDelivery), with the broadcast channel's lag.  Images   *)
(* stand for their SHA-256 hashes.                                         *)
(***************************************************************************)
EXTENDS Naturals, Sequences

CONSTANTS
    Node,           \* machines running the daemon
    Headless,       \* those without a desktop
    Edge,           \* <<a, b>>: a is connected to b and sends it its images
    Image,
    NoImage,        \* an empty clipboard, or last_hash = None
    Nobody,         \* no writer's child holds the clipboard
    Copier,         \* machines on whose watched display a user copies images
    QueueCapacity,  \* images on their way on one connection
    MaxCopies,      \* bound: images copied
    MaxFaults       \* bound: failed reads and writes, displays lost

ASSUME NodesAssumption ==
    /\ Headless \subseteq Node /\ Copier \subseteq Node
    /\ Edge \subseteq {e \in Node \X Node : e[1] # e[2]}
ASSUME ImagesAssumption == NoImage \notin Image /\ Nobody \notin Edge
ASSUME BoundsAssumption ==
    QueueCapacity \in Nat \ {0} /\ MaxCopies \in Nat /\ MaxFaults \in Nat

VARIABLES
    clip,     \* the image on each display's clipboard
    holder,   \* the connection whose writer's child holds that clipboard
    gone,     \* displays whose server is gone
    watcher,  \* "starting", "polling" or "ended", per machine
    last,     \* last_hash of each watcher
    flight,   \* images on their way, per connection
    writing,  \* the image a connection's ClipboardWriter is writing
    copies,   \* images copied so far
    faults    \* failures so far

displayVars == <<clip, holder, gone>>
watcherVars == <<watcher, last>>
boundVars == <<copies, faults>>
vars == <<displayVars, watcherVars, flight, writing, boundVars>>

-----------------------------------------------------------------------------
(* Data *)

Display == Node \X {"desktop", "xvfb"}

\* run_daemon: the display found in the environment, or else the daemon's own.
Watched(n) == IF n \in Headless THEN <<n, "xvfb">> ELSE <<n, "desktop">>

\* Variant: received images go to the display that is watched.
WrittenToWatched(n) == Watched(n)

\* run_daemon starts its own Xvfb everywhere (force_xvfb).
Written(n) == <<n, "xvfb">>

Source(e) == e[1]
Target(e) == e[2]

\* Variant: a queue without a bound.
PushedUnbounded(queue, image) == Append(queue, image)

\* Variant: a queue that turns away what it cannot hold.
PushedIfRoom(queue, image) ==
    IF Len(queue) < QueueCapacity THEN Append(queue, image) ELSE queue

\* A queue of bounded length that forgets its oldest element.
Pushed(queue, image) ==
    LET longer == Append(queue, image)
    IN IF Len(longer) > QueueCapacity THEN Tail(longer) ELSE longer

\* A broadcast to the peers n is connected to.
Broadcast(n, image) ==
    flight' = [e \in Edge |-> IF Source(e) = n THEN Pushed(flight[e], image) ELSE flight[e]]

TypeOK ==
    /\ clip \in [Display -> Image \cup {NoImage}]
    /\ holder \in [Display -> Edge \cup {Nobody}]
    /\ gone \in SUBSET Display
    /\ watcher \in [Node -> {"starting", "polling", "ended"}]
    /\ last \in [Node -> Image \cup {NoImage}]
    /\ flight \in [Edge -> Seq(Image)] /\ \A e \in Edge : Len(flight[e]) <= QueueCapacity
    /\ writing \in [Edge -> Image \cup {NoImage}]
    /\ copies \in 0..MaxCopies /\ faults \in 0..MaxFaults

-----------------------------------------------------------------------------
(* Users and displays *)

\* An application on the watched display copies an image; that takes the
\* clipboard from whoever holds it.
Copy(n, image) ==
    /\ copies < MaxCopies
    /\ Watched(n) \notin gone
    /\ clip' = [clip EXCEPT ![Watched(n)] = image]
    /\ holder' = [holder EXCEPT ![Watched(n)] = Nobody]
    /\ copies' = copies + 1
    /\ UNCHANGED <<gone, watcherVars, flight, writing, faults>>

\* Xvfb dies and comes back under another number: watcher and writers keep the
\* number of start-up.
XvfbMoves(n) ==
    /\ faults < MaxFaults
    /\ Written(n) \notin gone
    /\ gone' = gone \cup {Written(n)}
    /\ clip' = [clip EXCEPT ![Written(n)] = NoImage]
    /\ holder' = [holder EXCEPT ![Written(n)] = Nobody]
    /\ faults' = faults + 1
    /\ UNCHANGED <<watcherVars, flight, writing, copies>>

-----------------------------------------------------------------------------
(* watch_clipboard *)

\* Variant: the first sample is taken for information only.
SampleForgets(n) ==
    /\ watcher[n] = "starting"
    /\ watcher' = [watcher EXCEPT ![n] = "polling"]
    /\ UNCHANGED <<displayVars, last, flight, writing, boundVars>>

\* The first sample is recorded and not sent.
Sample(n) ==
    /\ watcher[n] = "starting"
    /\ watcher' = [watcher EXCEPT ![n] = "polling"]
    /\ last' = [last EXCEPT ![n] = clip[Watched(n)]]
    /\ UNCHANGED <<displayVars, flight, writing, boundVars>>

\* The first sample takes more than two seconds and counts as an empty clipboard.
SampleTimesOut(n) ==
    /\ watcher[n] = "starting"
    /\ faults < MaxFaults
    /\ watcher' = [watcher EXCEPT ![n] = "polling"]
    /\ faults' = faults + 1
    /\ UNCHANGED <<displayVars, last, flight, writing, copies>>

\* The first sample fails: the watcher returns the error, and the daemon goes on
\* without one.  A later read that fails is only logged.
SampleFails(n) ==
    /\ watcher[n] = "starting"
    /\ faults < MaxFaults
    /\ watcher' = [watcher EXCEPT ![n] = "ended"]
    /\ faults' = faults + 1
    /\ UNCHANGED <<displayVars, last, flight, writing, copies>>

\* A poll finds an image other than the last one.  An empty clipboard, a read
\* that fails or takes too long, and the image of last time change nothing.
Poll(n) ==
    /\ watcher[n] = "polling"
    /\ clip[Watched(n)] \notin {NoImage, last[n]}
    /\ Broadcast(n, clip[Watched(n)])
    /\ last' = [last EXCEPT ![n] = clip[Watched(n)]]
    /\ UNCHANGED <<displayVars, watcher, writing, boundVars>>

-----------------------------------------------------------------------------
(* The receiving task and its ClipboardWriter *)

\* A frame arrives; write first kills the child of the previous write.  If that
\* still holds the clipboard, the clipboard is empty afterwards, unless the child
\* has left a process of its own behind to serve it.
KillHolder(e) ==
    LET display == Written(Target(e)) IN
    /\ writing[e] = NoImage
    /\ flight[e] # <<>>
    /\ writing' = [writing EXCEPT ![e] = Head(flight[e])]
    /\ flight' = [flight EXCEPT ![e] = Tail(@)]
    /\ \/ UNCHANGED <<clip, holder>>
       \/ /\ holder[display] = e
          /\ clip' = [clip EXCEPT ![display] = NoImage]
          /\ holder' = [holder EXCEPT ![display] = Nobody]
    /\ UNCHANGED <<gone, watcherVars, boundVars>>

\* The new child takes the clipboard, from another connection's child too.  On a
\* display that is gone it exits without effect.
SpawnHolder(e) ==
    LET display == Written(Target(e)) IN
    /\ writing[e] # NoImage
    /\ IF display \in gone
       THEN UNCHANGED <<clip, holder>>
       ELSE /\ clip' = [clip EXCEPT ![display] = writing[e]]
            /\ holder' = [holder EXCEPT ![display] = e]
    /\ writing' = [writing EXCEPT ![e] = NoImage]
    /\ UNCHANGED <<gone, watcherVars, flight, boundVars>>

\* The child cannot be spawned or its stdin breaks: a warning, no second try.
SpawnFails(e) ==
    /\ writing[e] # NoImage
    /\ faults < MaxFaults
    /\ writing' = [writing EXCEPT ![e] = NoImage]
    /\ faults' = faults + 1
    /\ UNCHANGED <<displayVars, watcherVars, flight, copies>>

-----------------------------------------------------------------------------
(* Specification *)

\* Desktops may show an image from before the daemon started.
Init ==
    /\ clip \in {c \in [Display -> Image \cup {NoImage}] :
                    \A d \in Display : Head(d) \in Headless \/ d[2] = "xvfb" => c[d] = NoImage}
    /\ holder = [d \in Display |-> Nobody]
    /\ gone = {}
    /\ watcher = [n \in Node |-> "starting"]
    /\ last = [n \in Node |-> NoImage]
    /\ flight = [e \in Edge |-> <<>>]
    /\ writing = [e \in Edge |-> NoImage]
    /\ copies = 0
    /\ faults = 0

Watcher(n) == Sample(n) \/ Poll(n)
Receiver(e) == KillHolder(e) \/ SpawnHolder(e)

Fault ==
    \/ \E n \in Node : XvfbMoves(n) \/ SampleTimesOut(n) \/ SampleFails(n)
    \/ \E e \in Edge : SpawnFails(e)

Next ==
    \/ \E n \in Copier, i \in Image : Copy(n, i)
    \/ \E n \in Node : Watcher(n)
    \/ \E e \in Edge : Receiver(e)
    \/ Fault

Spec == Init /\ [][Next]_vars

\* Watchers poll for ever and connections deliver; users and faults are free.
FairSpec ==
    Spec /\ (\A n \in Node : WF_vars(Watcher(n))) /\ (\A e \in Edge : WF_vars(Receiver(e)))

-----------------------------------------------------------------------------
(* Properties *)

\* What is on a clipboard when a daemon starts is not sent ("only send newly
\* captured images"): nothing travels before a user copies something, unless a
\* first sample came late.
NothingSentUnprompted ==
    copies = 0 /\ faults = 0 => \A e \in Edge : flight[e] = <<>> /\ writing[e] = NoImage

\* Queues and writers keep the order in which a machine sends, and what a full
\* queue drops is never the newest image: a connection that has nothing under
\* way and whose child holds the peer's clipboard shows there what was sent last,
\* whichever other connections write to the same display.
LastSentIsShown ==
    \A e \in Edge :
        LET display == Written(Target(e)) IN
        faults = 0 /\ flight[e] = <<>> /\ writing[e] = NoImage /\ holder[display] = e
            => clip[display] = last[Source(e)]

\* Images do not travel in circles: once users stop copying, every watcher has
\* seen what its display shows and nothing is on its way, whatever has failed.
\* (Connections between headless machines must not form a cycle.)
Settles == <>[](\A e \in Edge : flight[e] = <<>> /\ writing[e] = NoImage)

\* Without failures, a machine ends up showing the image its peer with the user
\* sent last, although other machines pass older images on to it meanwhile and
\* the connection drops what it cannot hold.
Converges ==
    \A e \in {f \in Edge : Source(f) \in Copier} :
        ([](faults = 0) /\ <>(flight[e] # <<>>))
            => <>[](clip[Written(Target(e))] = last[Source(e)])
=============================================================================
