------------------------------ MODULE FrameRelay ------------------------------
(***************************************************************************)
(* The way of an image from the clipboard watcher of one daemon to the     *)
(* clipboard writers of the daemons it is connected to (daemon.rs,         *)
(* transport.rs, protocol.rs): the watcher's queue, the bridge into the    *)
(* broadcast channel, one connection task per peer with a cursor of its    *)
(* own, the byte stream, and the receiving task at the other end.          *)
(*                                                                         *)
(* The broadcast channel is the log of everything published, of which the  *)
(* last BroadcastCapacity frames can still be read.  A frame travels as    *)
(* chunks: the 8-byte header, then PayloadChunks pieces of the image.      *)
(* When a connection is opened and when its close handle is dropped is the *)
(* registry's business (PeerLinks): here both may happen at any time.      *)
(***************************************************************************)
EXTENDS Naturals, Sequences

CONSTANTS
    Link,               \* outbound connections, over the life of the daemon
    BroadcastCapacity,  \* broadcast::channel(16)
    WatchCapacity,      \* mpsc::channel(16) between watcher and bridge
    SocketCapacity,     \* chunks the kernel buffers of a connection hold
    PayloadChunks,      \* chunks of an image
    MaxCaptured,        \* bound: images the watcher captures
    MaxInjected         \* bound: images injected over IPC

ASSUME CapacityAssumption ==
    {BroadcastCapacity, WatchCapacity, SocketCapacity, PayloadChunks} \subseteq Nat \ {0}
ASSUME BoundsAssumption == MaxCaptured \in Nat /\ MaxInjected \in Nat

VARIABLES
    watcher,   \* "starting", "polling", "sending" (holds a frame), "ended"
    captured,  \* frames the watcher has made
    injected,  \* frames that came by IPC
    queue,     \* the mpsc channel from the watcher to the bridge
    log,       \* every frame sent on the broadcast channel
    sender,    \* the connection tasks of this daemon
    wire,      \* chunks written and not yet read, per connection
    broken,    \* connections the network has lost
    receiver,  \* the receiving tasks at the other ends
    received   \* the payloads each receiving task has passed to its writer

sourceVars == <<watcher, captured, injected, queue>>
vars == <<sourceVars, log, sender, wire, broken, receiver, received>>

-----------------------------------------------------------------------------
(* Data *)

Watched(n) == [from |-> "watcher", n |-> n]
Injected(n) == [from |-> "ipc", n |-> n]
Frame == {Watched(n) : n \in 1..MaxCaptured} \cup {Injected(n) : n \in 1..MaxInjected}

\* Chunk 0 is the header, which carries the payload's length.
Chunk == [frame : Frame, part : 0..PayloadChunks]

\* Frame::to_bytes
Bytes(f) == [i \in 1..(PayloadChunks + 1) |-> [frame |-> f, part |-> i - 1]]

\* The payload of f as the receiver of an intact frame has it.
Payload(f) == Tail(Bytes(f))

\* read_exact of the header, then of as many bytes as the header says.
IsComplete(buffer) == Len(buffer) = PayloadChunks + 1

\* Frame::from_bytes checks the magic; nothing checks the payload.
IsFrame(buffer) == IsComplete(buffer) /\ Head(buffer).part = 0

\* The oldest frame the broadcast channel still holds.
Oldest == IF Len(log) > BroadcastCapacity THEN Len(log) - BroadcastCapacity + 1 ELSE 1

IdleSender == [stage |-> "unused", cursor |-> 1, since |-> 0, out |-> <<>>, closing |-> FALSE]
IdleReceiver == [stage |-> "unused", buffer |-> <<>>]

SenderState == [stage : {"unused", "registered", "select", "sending", "ended"},
                cursor : 1..(MaxCaptured + MaxInjected + 1),
                since : 0..(MaxCaptured + MaxInjected),
                out : Seq(Chunk), closing : BOOLEAN]
ReceiverState == [stage : {"unused", "backlog", "reading", "writing", "ended"},
                  buffer : Seq(Chunk)]

\* The types, and the capacities nothing may exceed.  `since` records where the
\* subscription began; the program does not keep it.
TypeOK ==
    /\ watcher \in {"starting", "polling", "sending", "ended"}
    /\ captured \in 0..MaxCaptured /\ injected \in 0..MaxInjected
    /\ queue \in Seq(Frame) /\ Len(queue) <= WatchCapacity
    /\ log \in Seq(Frame)
    /\ sender \in [Link -> SenderState]
    /\ wire \in [Link -> Seq(Chunk)] /\ \A l \in Link : Len(wire[l]) <= SocketCapacity
    /\ broken \in SUBSET Link
    /\ receiver \in [Link -> ReceiverState]
    /\ received \in [Link -> Seq(Seq(Chunk))]

-----------------------------------------------------------------------------
(* The sources: clipboard watcher, bridge, IPC *)

\* watch_clipboard takes its first sample; an error there ends the watcher, and
\* the daemon goes on without.
WatcherStarts ==
    /\ watcher = "starting"
    /\ watcher' \in {"polling", "ended"}
    /\ UNCHANGED <<captured, injected, queue, log, sender, wire, broken, receiver, received>>

\* A poll finds an image it has not seen.
Capture ==
    /\ watcher = "polling"
    /\ captured < MaxCaptured
    /\ captured' = captured + 1
    /\ watcher' = "sending"
    /\ UNCHANGED <<injected, queue, log, sender, wire, broken, receiver, received>>

\* Variant: drops the frame when the queue is full.
EnqueueOrDrop ==
    /\ watcher = "sending"
    /\ queue' = IF Len(queue) < WatchCapacity THEN Append(queue, Watched(captured)) ELSE queue
    /\ watcher' = "polling"
    /\ UNCHANGED <<captured, injected, log, sender, wire, broken, receiver, received>>

\* Variant: a queue without a bound.
EnqueueUnbounded ==
    /\ watcher = "sending"
    /\ queue' = Append(queue, Watched(captured))
    /\ watcher' = "polling"
    /\ UNCHANGED <<captured, injected, log, sender, wire, broken, receiver, received>>

\* tx.send(frame).await: the watcher waits while the queue is full.
Enqueue ==
    /\ watcher = "sending"
    /\ Len(queue) < WatchCapacity
    /\ queue' = Append(queue, Watched(captured))
    /\ watcher' = "polling"
    /\ UNCHANGED <<captured, injected, log, sender, wire, broken, receiver, received>>

\* The bridge never waits: sending to the broadcast channel overwrites.
Bridge ==
    /\ queue # <<>>
    /\ queue' = Tail(queue)
    /\ log' = Append(log, Head(queue))
    /\ UNCHANGED <<watcher, captured, injected, sender, wire, broken, receiver, received>>

\* IpcMessage::InjectFrame publishes past the queue.
InjectFrame ==
    /\ injected < MaxInjected
    /\ injected' = injected + 1
    /\ log' = Append(log, Injected(injected'))
    /\ UNCHANGED <<watcher, captured, queue, sender, wire, broken, receiver, received>>

-----------------------------------------------------------------------------
(* The connection task: start_peer_connection after the dial *)

\* The host is shown as connected and the lock is released.
Register(l) ==
    /\ sender[l].stage = "unused"
    /\ sender' = [sender EXCEPT ![l].stage = "registered"]
    /\ receiver' = [receiver EXCEPT ![l].stage = "backlog"]
    /\ UNCHANGED <<sourceVars, log, wire, broken, received>>

\* clip_tx.subscribe(): what was published before is not for this connection.
Subscribe(l) ==
    /\ sender[l].stage = "registered"
    /\ sender' = [sender EXCEPT ![l].stage = "select", ![l].cursor = Len(log) + 1,
                                ![l].since = Len(log)]
    /\ UNCHANGED <<sourceVars, log, wire, broken, receiver, received>>

\* Variant: the cursor stays where it is.
TakeFrameAgain(l) ==
    /\ sender[l].stage = "select"
    /\ sender[l].cursor \in Oldest..Len(log)
    /\ sender' = [sender EXCEPT ![l].stage = "sending", ![l].out = Bytes(log[sender[l].cursor])]
    /\ UNCHANGED <<sourceVars, log, wire, broken, receiver, received>>

\* clip_rx.recv() returns a frame; send_frame starts to write it.
TakeFrame(l) ==
    /\ sender[l].stage = "select"
    /\ sender[l].cursor \in Oldest..Len(log)
    /\ sender' = [sender EXCEPT ![l].stage = "sending", ![l].cursor = @ + 1,
                                ![l].out = Bytes(log[sender[l].cursor])]
    /\ UNCHANGED <<sourceVars, log, wire, broken, receiver, received>>

\* Variant: goes on with frames published from now on.
SkipToNewest(l) ==
    /\ sender[l].stage = "select"
    /\ sender[l].cursor < Oldest
    /\ sender' = [sender EXCEPT ![l].cursor = Len(log) + 1]
    /\ UNCHANGED <<sourceVars, log, wire, broken, receiver, received>>

\* clip_rx.recv() returns Lagged: the cursor moves to the oldest frame there is.
SkipLagged(l) ==
    /\ sender[l].stage = "select"
    /\ sender[l].cursor < Oldest
    /\ sender' = [sender EXCEPT ![l].cursor = Oldest]
    /\ UNCHANGED <<sourceVars, log, wire, broken, receiver, received>>

\* write_all gets one more chunk into the socket; with the last one send_frame
\* returns.
WriteChunk(l) ==
    /\ sender[l].stage = "sending"
    /\ l \notin broken /\ receiver[l].stage # "ended"
    /\ Len(wire[l]) < SocketCapacity
    /\ wire' = [wire EXCEPT ![l] = Append(@, Head(sender[l].out))]
    /\ sender' = [sender EXCEPT ![l].out = Tail(@),
                                ![l].stage = IF Len(sender[l].out) = 1 THEN "select" ELSE @]
    /\ UNCHANGED <<sourceVars, log, broken, receiver, received>>

\* Variant: warns and returns to select! with the stream as it is.
SendTimesOutGoesOn(l) ==
    /\ sender[l].stage = "sending"
    /\ sender' = [sender EXCEPT ![l].stage = "select", ![l].out = <<>>]
    /\ UNCHANGED <<sourceVars, log, wire, broken, receiver, received>>

\* Variant: write_all without a deadline.
SendNeverTimesOut(l) == FALSE /\ UNCHANGED vars

\* The 10 s of send_frame are over, perhaps in the middle of a frame: the task
\* leaves its loop and drops the stream.
SendTimesOut(l) ==
    /\ sender[l].stage = "sending"
    /\ sender' = [sender EXCEPT ![l].stage = "ended", ![l].out = <<>>]
    /\ UNCHANGED <<sourceVars, log, wire, broken, receiver, received>>

\* The peer is gone: write error in send_frame, end of stream or error in select!.
NoticePeerGone(l) ==
    /\ sender[l].stage \in {"select", "sending"}
    /\ l \in broken \/ receiver[l].stage = "ended"
    /\ sender' = [sender EXCEPT ![l].stage = "ended", ![l].out = <<>>]
    /\ UNCHANGED <<sourceVars, log, wire, broken, receiver, received>>

\* Only select! looks at the close channel, and picks any branch that is ready.
NoticeClose(l) ==
    /\ sender[l].stage = "select"
    /\ sender[l].closing
    /\ sender' = [sender EXCEPT ![l].stage = "ended"]
    /\ UNCHANGED <<sourceVars, log, wire, broken, receiver, received>>

\* The registry drops close_tx.
DropCloseHandle(l) ==
    /\ sender[l].stage \in {"registered", "select", "sending"}
    /\ ~sender[l].closing
    /\ sender' = [sender EXCEPT ![l].closing = TRUE]
    /\ UNCHANGED <<sourceVars, log, wire, broken, receiver, received>>

\* The network loses the connection; keepalive tells both ends.
Break(l) ==
    /\ sender[l].stage # "unused" /\ receiver[l].stage # "ended"
    /\ l \notin broken
    /\ broken' = broken \cup {l}
    /\ wire' = [wire EXCEPT ![l] = <<>>]
    /\ UNCHANGED <<sourceVars, log, sender, receiver, received>>

-----------------------------------------------------------------------------
(* The receiving task: run_tcp_server at the other end *)

\* The accept loop gets to the connection.
Accept(l) ==
    /\ receiver[l].stage = "backlog"
    /\ receiver' = [receiver EXCEPT ![l].stage = "reading"]
    /\ UNCHANGED <<sourceVars, log, sender, wire, broken, received>>

\* read_exact gets one more chunk.
ReadChunk(l) ==
    /\ receiver[l].stage = "reading" /\ l \notin broken
    /\ ~IsComplete(receiver[l].buffer)
    /\ wire[l] # <<>>
    /\ receiver' = [receiver EXCEPT ![l].buffer = Append(@, Head(wire[l]))]
    /\ wire' = [wire EXCEPT ![l] = Tail(@)]
    /\ UNCHANGED <<sourceVars, log, sender, broken, received>>

\* recv_frame returns: a frame goes to the clipboard writer, anything else ends
\* the task.
RecvFrame(l) ==
    /\ receiver[l].stage = "reading"
    /\ IsComplete(receiver[l].buffer)
    /\ \/ /\ IsFrame(receiver[l].buffer)
          /\ received' = [received EXCEPT ![l] = Append(@, Tail(receiver[l].buffer))]
          /\ receiver' = [receiver EXCEPT ![l] = [stage |-> "writing", buffer |-> <<>>]]
          /\ UNCHANGED wire
       \/ /\ ~IsFrame(receiver[l].buffer)
          /\ receiver' = [receiver EXCEPT ![l] = [stage |-> "ended", buffer |-> <<>>]]
          /\ wire' = [wire EXCEPT ![l] = <<>>]
          /\ UNCHANGED received
    /\ UNCHANGED <<sourceVars, log, sender, broken>>

\* clip_writer.write returns; a failure is only logged.
WriteDone(l) ==
    /\ receiver[l].stage = "writing"
    /\ receiver' = [receiver EXCEPT ![l].stage = "reading"]
    /\ UNCHANGED <<sourceVars, log, sender, wire, broken, received>>

\* End of stream (once everything in flight is read) or a read error; what is
\* in the buffer is dropped.
ReadEnds(l) ==
    /\ receiver[l].stage = "reading"
    /\ ~IsComplete(receiver[l].buffer)
    /\ l \in broken \/ (sender[l].stage = "ended" /\ wire[l] = <<>>)
    /\ receiver' = [receiver EXCEPT ![l] = [stage |-> "ended", buffer |-> <<>>]]
    /\ UNCHANGED <<sourceVars, log, sender, wire, broken, received>>

-----------------------------------------------------------------------------
(* Specification *)

Init ==
    /\ watcher = "starting"
    /\ captured = 0 /\ injected = 0
    /\ queue = <<>> /\ log = <<>>
    /\ sender = [l \in Link |-> IdleSender]
    /\ wire = [l \in Link |-> <<>>]
    /\ broken = {}
    /\ receiver = [l \in Link |-> IdleReceiver]
    /\ received = [l \in Link |-> <<>>]

Select(l) == TakeFrame(l) \/ SkipLagged(l) \/ NoticeClose(l) \/ NoticePeerGone(l)
Sender(l) == Subscribe(l) \/ Select(l) \/ WriteChunk(l)
Receiver(l) == Accept(l) \/ ReadChunk(l) \/ RecvFrame(l) \/ ReadEnds(l)

Next ==
    \/ WatcherStarts \/ Capture \/ Enqueue \/ Bridge \/ InjectFrame
    \/ \E l \in Link : Sender(l) \/ SendTimesOut(l)
    \/ \E l \in Link : Receiver(l) \/ WriteDone(l)
    \/ \E l \in Link : Register(l) \/ DropCloseHandle(l) \/ Break(l)

Spec == Init /\ [][Next]_vars

\* The runtime polls every task that is ready, and the deadline of send_frame is
\* a timer.  Nothing is assumed of users, the registry, the network, or of how
\* long the clipboard writer takes.
Fairness ==
    /\ WF_vars(Enqueue) /\ WF_vars(Bridge)
    /\ \A l \in Link : WF_vars(Sender(l)) /\ WF_vars(SendTimesOut(l))
                       /\ WF_vars(NoticeClose(l)) /\ WF_vars(Receiver(l))

FairSpec == Spec /\ Fairness

-----------------------------------------------------------------------------
(* Properties *)

\* The place in the log of the frame a payload is, or 0 if it is none.
Place(payload) ==
    IF \E i \in 1..Len(log) : Payload(log[i]) = payload
    THEN CHOOSE i \in 1..Len(log) : Payload(log[i]) = payload
    ELSE 0

\* What l has delivered, in order, each payload by its place.
Places(l) == [i \in 1..Len(received[l]) |-> Place(received[l][i])]

Delivered(l) == {Place(received[l][i]) : i \in 1..Len(received[l])}

\* The newest frame l has delivered; before the first, where it subscribed.
Newest(l) == IF received[l] = <<>> THEN sender[l].since
             ELSE Place(received[l][Len(received[l])])

Subscribed == {l \in Link : sender[l].stage \notin {"unused", "registered"}}

Promise == INSTANCE OrderedDelivery
             WITH published <- Len(log), open <- Subscribed,
                  start <- [l \in Link |-> sender[l].since],
                  delivered <- [l \in Link |-> Places(l)]

\* Every frame handed to a clipboard writer is whole, was published after the
\* connection subscribed, and comes later in the log than the one before it,
\* whatever is lost, cut short by the write deadline, or skipped for lag.  A frame
\* delivered again, and a payload that is none, are steps OrderedDelivery has not.
InOrderAndWhole == Promise!Spec

\* Captures the watcher still holds, and those the bridge has passed on.
Held == IF watcher = "sending" THEN 1 ELSE 0
Bridged == captured - Len(queue) - Held

\* Between watcher and broadcast channel nothing is lost, doubled or overtaken,
\* full queue and injected frames included: what is not in the log yet is in the
\* queue, in order, or with the watcher.
NoCaptureLost ==
    /\ \A k \in 1..Len(queue) : queue[k] = Watched(Bridged + k)
    /\ \A n \in 1..Bridged : \E i \in 1..Len(log) : log[i] = Watched(n)
    /\ \A i \in 1..Len(log) : log[i].from = "watcher" => log[i].n <= Bridged
    /\ \A i, j \in 1..Len(log) : i < j /\ log[i].from = log[j].from => log[i].n < log[j].n

\* A connection leaves out a frame only if the channel has overwritten it: a
\* lagging task goes on with the oldest frame there is, not with the newest.
SkipsOnlyOverwritten ==
    \A l \in Link : \A i \in (sender[l].since + 1)..Newest(l) :
        i \in Delivered(l) \/ i < Oldest

\* The task waits for the next image, and nothing of its stream is under way.
Quiet(l) ==
    /\ sender[l].stage = "select" /\ sender[l].cursor = Len(log) + 1
    /\ l \notin broken /\ receiver[l].stage # "ended"
    /\ wire[l] = <<>> /\ receiver[l].buffer = <<>>

\* A connection that is up and has gone quiet is up to date: the newest image
\* published is the last one it delivered, whatever it skipped for lag before.
QuietIsUpToDate == \A l \in Link : Quiet(l) => Newest(l) = Len(log)

\* A peer whose connection stays up and whose clipboard writer does not hang
\* gets the newest image, however far it was behind.
NewestArrives ==
    \A l \in Link :
        (<>[](sender[l].stage \in {"select", "sending"}) /\ []<>(receiver[l].stage # "writing"))
            => <>[](Newest(l) = Len(log))

\* A dropped close handle ends the task, even while it is sending to a peer
\* that has stopped reading.
CloseIsNoticed ==
    \A l \in Link : sender[l].closing ~> (sender[l].stage = "ended")
=============================================================================
