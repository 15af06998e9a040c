---------------------------- MODULE FrameRelayProofs ----------------------------
(***************************************************************************)
(* For every number of connections, every capacity and every length of a   *)
(* frame: the types and capacities of FrameRelay hold, and nothing is lost *)
(* between the clipboard watcher and the broadcast channel.                *)
(***************************************************************************)
EXTENDS FrameRelay, TLAPS

MaxLog == MaxCaptured + MaxInjected

\* The log has grown by what the sources have published, and no cursor is past
\* its end.
Counted ==
    /\ Bridged \in Nat
    /\ Len(log) = Bridged + injected
    /\ \A l \in Link : sender[l].cursor <= Len(log) + 1 /\ sender[l].since <= Len(log)

\* A task is in send_frame as long as there are chunks to write.
Writing == \A l \in Link : sender[l].stage = "sending" <=> sender[l].out # <<>>

Typed == TypeOK /\ Counted /\ Writing

-----------------------------------------------------------------------------
(* Types *)

\* The chunks of a frame, and of its payload.
LEMMA FrameBytes ==
    ASSUME NEW f \in Frame
    PROVE  /\ Bytes(f) \in Seq(Chunk) /\ Len(Bytes(f)) = PayloadChunks + 1
           /\ Payload(f) \in Seq(Chunk) /\ Len(Payload(f)) = PayloadChunks
           /\ \A k \in 1..(PayloadChunks + 1) : Bytes(f)[k] = [frame |-> f, part |-> k - 1]
           /\ \A k \in 1..PayloadChunks : Payload(f)[k] = [frame |-> f, part |-> k]
<1>1. PayloadChunks \in Nat \ {0}
  BY CapacityAssumption
<1>2. \A k \in 1..(PayloadChunks + 1) : [frame |-> f, part |-> k - 1] \in Chunk
  BY <1>1 DEF Chunk
<1>3. Bytes(f) \in Seq(Chunk) /\ Len(Bytes(f)) = PayloadChunks + 1
  BY <1>1, <1>2 DEF Bytes
<1>4. \A k \in 1..(PayloadChunks + 1) : Bytes(f)[k] = [frame |-> f, part |-> k - 1]
  BY <1>1 DEF Bytes
<1>5. Payload(f) \in Seq(Chunk) /\ Len(Payload(f)) = PayloadChunks
  BY <1>1, <1>3 DEF Payload
<1>6. \A k \in 1..PayloadChunks : Payload(f)[k] = Bytes(f)[k + 1]
  BY <1>1, <1>3 DEF Payload
<1> QED
  BY <1>1, <1>3, <1>4, <1>5, <1>6

\* The fields of a connection's two ends.
LEMMA EndTypes ==
    ASSUME TypeOK, NEW l \in Link
    PROVE  /\ sender[l].stage \in {"unused", "registered", "select", "sending", "ended"}
           /\ sender[l].cursor \in 1..(MaxLog + 1)
           /\ sender[l].since \in 0..MaxLog
           /\ sender[l].out \in Seq(Chunk)
           /\ sender[l].closing \in BOOLEAN
           /\ receiver[l].stage \in {"unused", "backlog", "reading", "writing", "ended"}
           /\ receiver[l].buffer \in Seq(Chunk)
           /\ wire[l] \in Seq(Chunk)
           /\ received[l] \in Seq(Seq(Chunk))
BY DEF TypeOK, SenderState, ReceiverState, MaxLog

LEMMA TypedInit == Init => Typed
<1> SUFFICES ASSUME Init PROVE Typed
  OBVIOUS
<1>1. IdleSender \in SenderState /\ IdleReceiver \in ReceiverState
  BY BoundsAssumption DEF IdleSender, SenderState, IdleReceiver, ReceiverState
<1>2. TypeOK
  BY <1>1, BoundsAssumption, CapacityAssumption DEF Init, TypeOK
<1>3. Len(queue) = 0 /\ Len(log) = 0 /\ captured = 0 /\ injected = 0 /\ watcher # "sending"
  BY DEF Init
<1>4. \A l \in Link : sender[l].cursor = 1 /\ sender[l].since = 0
  BY DEF Init, IdleSender
<1>5. Bridged = 0
  <2>1. Held = 0
    BY <1>3 DEF Held
  <2> QED
    BY <1>3, <2>1 DEF Bridged
<1>6. Counted
  BY <1>3, <1>4, <1>5 DEF Counted
<1>7. Writing
  BY DEF Init, IdleSender, Writing
<1> QED
  BY <1>2, <1>6, <1>7 DEF Typed

\* The log is never longer than the bounds allow.
LEMMA LogBound == ASSUME Typed PROVE Len(log) \in 0..MaxLog
<1>1. captured \in Nat /\ injected \in Nat /\ Len(queue) \in Nat /\ Len(log) \in Nat
  BY BoundsAssumption DEF Typed, TypeOK
<1>2. Held \in {0, 1}
  BY DEF Held
<1>3. Bridged <= captured
  BY <1>1, <1>2 DEF Bridged
<1> QED
  BY <1>1, <1>3, BoundsAssumption DEF Typed, TypeOK, Counted, MaxLog

\* The sources keep types and count.
LEMMA SourceTyped ==
    ASSUME Typed, WatcherStarts \/ Capture \/ Enqueue \/ Bridge \/ InjectFrame
    PROVE  Typed'
<1> USE BoundsAssumption, CapacityAssumption DEF Typed
<1>0. /\ captured \in 0..MaxCaptured /\ injected \in 0..MaxInjected
      /\ queue \in Seq(Frame) /\ Len(queue) \in Nat /\ Len(queue) <= WatchCapacity
      /\ log \in Seq(Frame) /\ Len(log) \in Nat /\ Bridged \in Nat
      /\ Held \in {0, 1} /\ Held' \in {0, 1}
  BY DEF TypeOK, Counted, Held
<1>1. /\ watcher' \in {"starting", "polling", "sending", "ended"}
      /\ captured' \in 0..MaxCaptured /\ injected' \in 0..MaxInjected
  BY <1>0 DEF TypeOK, WatcherStarts, Capture, Enqueue, Bridge, InjectFrame
<1>2. UNCHANGED <<sender, wire, broken, receiver, received>>
  BY DEF WatcherStarts, Capture, Enqueue, Bridge, InjectFrame
<1>3. /\ queue' \in Seq(Frame) /\ Len(queue') <= WatchCapacity
      /\ log' \in Seq(Frame) /\ Len(log') >= Len(log)
      /\ Bridged' \in Nat /\ Len(log') = Bridged' + injected'
  <2>1. CASE WatcherStarts
    <3>1. Held' = Held
      BY <2>1 DEF WatcherStarts, Held
    <3> QED
      BY <2>1, <3>1, <1>0 DEF WatcherStarts, Bridged, Counted
  <2>2. CASE Capture
    <3>1. Held' = 1 /\ Held = 0
      BY <2>2 DEF Capture, Held
    <3>2. Bridged' = Bridged
      BY <2>2, <3>1, <1>0 DEF Capture, Bridged
    <3> QED
      BY <2>2, <3>2, <1>0 DEF Capture, Counted
  <2>3. CASE Enqueue
    <3>1. Held' = 0 /\ Held = 1
      BY <2>3 DEF Enqueue, Held
    <3>2. captured \in 1..MaxCaptured
      BY <3>1, <1>0 DEF Bridged
    <3>3. Watched(captured) \in Frame
      BY <3>2 DEF Frame
    <3>4. queue' \in Seq(Frame) /\ Len(queue') = Len(queue) + 1
      BY <2>3, <3>3, <1>0 DEF Enqueue
    <3>5. Bridged' = Bridged
      BY <2>3, <3>1, <3>4, <1>0 DEF Enqueue, Bridged
    <3> QED
      BY <2>3, <3>4, <3>5, <1>0 DEF Enqueue, Counted
  <2>4. CASE Bridge
    <3>1. Held' = Held
      BY <2>4 DEF Bridge, Held
    <3>2. queue' \in Seq(Frame) /\ Len(queue') = Len(queue) - 1 /\ Head(queue) \in Frame
      BY <2>4, <1>0 DEF Bridge
    <3>3. log' \in Seq(Frame) /\ Len(log') = Len(log) + 1
      BY <2>4, <3>2, <1>0 DEF Bridge
    <3>4. Bridged' = Bridged + 1
      BY <2>4, <3>1, <3>2, <1>0 DEF Bridge, Bridged
    <3> QED
      BY <2>4, <3>2, <3>3, <3>4, <1>0 DEF Bridge, Counted
  <2>5. CASE InjectFrame
    <3>1. Held' = Held
      BY <2>5 DEF InjectFrame, Held
    <3>2. injected' = injected + 1 /\ Injected(injected') \in Frame
      <4>1. injected' = injected + 1 /\ injected' \in 1..MaxInjected
        BY <2>5, <1>0 DEF InjectFrame
      <4> QED
        BY <4>1 DEF Frame
    <3>3. log' \in Seq(Frame) /\ Len(log') = Len(log) + 1
      BY <2>5, <3>2, <1>0 DEF InjectFrame
    <3>4. Bridged' = Bridged
      BY <2>5, <3>1, <1>0 DEF InjectFrame, Bridged
    <3> QED
      BY <2>5, <3>2, <3>3, <3>4, <1>0 DEF InjectFrame, Counted
  <2> QED
    BY <2>1, <2>2, <2>3, <2>4, <2>5
<1>4. TypeOK'
  BY <1>1, <1>2, <1>3 DEF TypeOK, SenderState, ReceiverState
<1>5. \A l \in Link : sender'[l].cursor <= Len(log') + 1 /\ sender'[l].since <= Len(log')
  <2> SUFFICES ASSUME NEW l \in Link
               PROVE  sender'[l].cursor <= Len(log') + 1 /\ sender'[l].since <= Len(log')
    OBVIOUS
  <2>1. sender[l].cursor \in Nat /\ sender[l].since \in Nat
    BY EndTypes DEF MaxLog
  <2>2. sender[l].cursor <= Len(log) + 1 /\ sender[l].since <= Len(log)
    BY DEF Counted
  <2>3. Len(log') \in Nat
    BY <1>3
  <2> QED
    BY <1>2, <1>3, <2>1, <2>2, <2>3, <1>0
<1>6. Writing'
  BY <1>2 DEF Writing
<1> QED
  BY <1>3, <1>4, <1>5, <1>6 DEF Counted

\* A step of one connection, at either of its ends.
SenderStep(l) ==
    \/ Register(l) \/ Subscribe(l) \/ TakeFrame(l) \/ SkipLagged(l) \/ WriteChunk(l)
    \/ SendTimesOut(l) \/ NoticePeerGone(l) \/ NoticeClose(l) \/ DropCloseHandle(l)

ReceiverStep(l) ==
    Break(l) \/ Accept(l) \/ ReadChunk(l) \/ RecvFrame(l) \/ WriteDone(l) \/ ReadEnds(l)

LEMMA LinkSteps ==
    ASSUME NEW l \in Link, SenderStep(l) \/ ReceiverStep(l)
    PROVE  UNCHANGED <<sourceVars, log>>
BY DEF SenderStep, ReceiverStep, Register, Subscribe, TakeFrame, SkipLagged, WriteChunk,
       SendTimesOut, NoticePeerGone, NoticeClose, DropCloseHandle, Break, Accept, ReadChunk,
       RecvFrame, WriteDone, ReadEnds

\* The places of the log a cursor can be moved to.
LEMMA OldestType == ASSUME Typed PROVE Oldest \in 1..(Len(log) + 1)
<1>1. Len(log) \in Nat /\ BroadcastCapacity \in Nat \ {0}
  BY LogBound, CapacityAssumption DEF MaxLog
<1> QED
  BY <1>1 DEF Oldest

\* The only empty sequence of chunks.
LEMMA EmptyIsShort ==
    ASSUME NEW s \in Seq(Chunk)
    PROVE  s = <<>> <=> Len(s) = 0
OBVIOUS

\* The sending end keeps types: the step gives the record of l a new value.
LEMMA SenderRecord ==
    ASSUME Typed, NEW l \in Link, SenderStep(l)
    PROVE  /\ sender' = [sender EXCEPT ![l] = sender'[l]]
           /\ sender'[l] \in SenderState
           /\ sender'[l].cursor <= Len(log) + 1 /\ sender'[l].since <= Len(log)
           /\ sender'[l].stage = "sending" <=> sender'[l].out # <<>>
<1>0. /\ sender \in [Link -> SenderState] /\ log \in Seq(Frame)
      /\ Len(log) \in 0..MaxLog /\ MaxLog \in Nat
      /\ Oldest \in 1..(Len(log) + 1)
  BY LogBound, OldestType, BoundsAssumption DEF Typed, TypeOK, MaxLog
<1>1. sender' = [sender EXCEPT ![l] = sender'[l]]
  BY <1>0 DEF SenderStep, Register, Subscribe, TakeFrame, SkipLagged, WriteChunk,
              SendTimesOut, NoticePeerGone, NoticeClose, DropCloseHandle
<1> DEFINE s == sender[l]
           t == sender'[l]
<1>2. /\ s \in SenderState /\ s.stage \in {"unused", "registered", "select", "sending", "ended"}
      /\ s.cursor \in 1..(MaxLog + 1) /\ s.since \in 0..MaxLog
      /\ s.out \in Seq(Chunk) /\ s.closing \in BOOLEAN
      /\ s.cursor <= Len(log) + 1 /\ s.since <= Len(log)
      /\ s.stage = "sending" <=> s.out # <<>>
  BY <1>0, EndTypes DEF Typed, Counted, Writing
<1> SUFFICES /\ t \in SenderState /\ t.cursor <= Len(log) + 1 /\ t.since <= Len(log)
             /\ t.stage = "sending" <=> t.out # <<>>
  BY <1>1
<1> HIDE DEF s, t
<1>3. CASE Register(l)
  <2>1. t = [s EXCEPT !.stage = "registered"] /\ s.stage = "unused"
    BY <1>0, <1>3 DEF Register, s, t
  <2> QED
    BY <1>0, <1>2, <2>1 DEF SenderState, MaxLog
<1>4. CASE Subscribe(l)
  <2>1. /\ t = [s EXCEPT !.stage = "select", !.cursor = Len(log) + 1, !.since = Len(log)]
        /\ s.stage = "registered"
    BY <1>0, <1>4 DEF Subscribe, s, t
  <2>2. /\ t.stage = "select" /\ t.cursor = Len(log) + 1 /\ t.since = Len(log)
        /\ t.out = s.out
    BY <1>2, <2>1 DEF SenderState
  <2>3. Len(log) + 1 \in 1..(MaxLog + 1) /\ Len(log) \in 0..MaxLog
    BY <1>0
  <2>4. t \in SenderState
    BY <1>2, <2>1, <2>3 DEF SenderState, MaxLog
  <2> QED
    BY <1>0, <1>2, <2>1, <2>2, <2>4
<1>5. CASE TakeFrame(l)
  <2> DEFINE b == Bytes(log[s.cursor])
  <2>1. s.cursor \in 1..Len(log)
    BY <1>0, <1>2, <1>5 DEF TakeFrame, s
  <2>2. log[s.cursor] \in Frame
    BY <1>0, <2>1
  <2>3. b \in Seq(Chunk) /\ Len(b) = PayloadChunks + 1
    BY <2>2, FrameBytes
  <2>4. b # <<>>
    BY <2>3, CapacityAssumption
  <2>5. t = [s EXCEPT !.stage = "sending", !.cursor = s.cursor + 1, !.out = b]
    BY <1>0, <1>5 DEF TakeFrame, s, t
  <2> HIDE DEF b
  <2>6. t.stage = "sending" /\ t.cursor = s.cursor + 1 /\ t.out = b /\ t.since = s.since
    BY <1>2, <2>5 DEF SenderState
  <2>7. s.cursor + 1 \in 1..(MaxLog + 1)
    BY <1>0, <2>1
  <2>8. t \in SenderState
    BY <1>2, <2>3, <2>5, <2>7 DEF SenderState, MaxLog
  <2> QED
    BY <1>0, <1>2, <2>1, <2>4, <2>6, <2>8
<1>6. CASE SkipLagged(l)
  <2>1. t = [s EXCEPT !.cursor = Oldest] /\ s.stage = "select"
    BY <1>0, <1>6 DEF SkipLagged, s, t
  <2>2. t.stage = "select" /\ t.cursor = Oldest /\ t.out = s.out /\ t.since = s.since
    BY <1>2, <2>1 DEF SenderState
  <2>3. Oldest \in 1..(MaxLog + 1)
    BY <1>0
  <2>4. t \in SenderState
    BY <1>2, <2>1, <2>3 DEF SenderState, MaxLog
  <2> QED
    BY <1>0, <1>2, <2>1, <2>2, <2>4
<1>7. CASE WriteChunk(l)
  <2>1. s.stage = "sending" /\ s.out # <<>>
    BY <1>2, <1>7 DEF WriteChunk, s
  <2>2. Tail(s.out) \in Seq(Chunk) /\ Len(Tail(s.out)) = Len(s.out) - 1 /\ Len(s.out) \in Nat
    BY <1>2, <2>1
  <2>3. t = [s EXCEPT !.out = Tail(s.out), !.stage = IF Len(s.out) = 1 THEN "select" ELSE s.stage]
    BY <1>0, <1>7 DEF WriteChunk, s, t
  <2>4. /\ t.stage = IF Len(s.out) = 1 THEN "select" ELSE "sending"
        /\ t.out = Tail(s.out) /\ t.cursor = s.cursor /\ t.since = s.since
    BY <1>2, <2>1, <2>3 DEF SenderState
  <2>5. t \in SenderState
    BY <1>2, <2>1, <2>2, <2>3 DEF SenderState
  <2>6. Tail(s.out) = <<>> <=> Len(s.out) = 1
    <3>1. Tail(s.out) = <<>> <=> Len(Tail(s.out)) = 0
      BY <2>2, EmptyIsShort
    <3> QED
      BY <2>2, <3>1
  <2>7. s.cursor <= Len(log) + 1 /\ s.since <= Len(log)
    BY <1>2
  <2>8. t.stage = "sending" <=> t.out # <<>>
    BY <2>4, <2>6
  <2> QED
    BY <2>4, <2>5, <2>7, <2>8
<1>8. CASE SendTimesOut(l) \/ NoticePeerGone(l)
  <2>1. t = [s EXCEPT !.stage = "ended", !.out = <<>>]
    BY <1>0, <1>8 DEF SendTimesOut, NoticePeerGone, s, t
  <2>2. t.stage = "ended" /\ t.out = <<>> /\ t.cursor = s.cursor /\ t.since = s.since
    BY <1>2, <2>1 DEF SenderState
  <2>3. <<>> \in Seq(Chunk)
    OBVIOUS
  <2>4. t \in SenderState
    BY <1>2, <2>1, <2>3 DEF SenderState
  <2> QED
    BY <1>2, <2>2, <2>4
<1>9. CASE NoticeClose(l)
  <2>1. t = [s EXCEPT !.stage = "ended"] /\ s.stage = "select"
    BY <1>0, <1>9 DEF NoticeClose, s, t
  <2> QED
    BY <1>2, <2>1 DEF SenderState
<1>10. CASE DropCloseHandle(l)
  <2>1. t = [s EXCEPT !.closing = TRUE]
    BY <1>0, <1>10 DEF DropCloseHandle, s, t
  <2> QED
    BY <1>2, <2>1 DEF SenderState
<1> QED
  BY <1>3, <1>4, <1>5, <1>6, <1>7, <1>8, <1>9, <1>10 DEF SenderStep

\* What a step of the sending end does to the other variables.
LEMMA SenderOther ==
    ASSUME Typed, NEW l \in Link, SenderStep(l)
    PROVE  /\ receiver' \in [Link -> ReceiverState]
           /\ wire' \in [Link -> Seq(Chunk)] /\ \A m \in Link : Len(wire'[m]) <= SocketCapacity
           /\ UNCHANGED <<broken, received>>
<1>0. /\ receiver \in [Link -> ReceiverState]
      /\ wire \in [Link -> Seq(Chunk)] /\ \A m \in Link : Len(wire[m]) <= SocketCapacity
      /\ SocketCapacity \in Nat
  BY CapacityAssumption DEF Typed, TypeOK
<1>1. UNCHANGED <<broken, received>>
  BY DEF SenderStep, Register, Subscribe, TakeFrame, SkipLagged, WriteChunk,
         SendTimesOut, NoticePeerGone, NoticeClose, DropCloseHandle
<1>2. receiver' \in [Link -> ReceiverState]
  BY <1>0 DEF SenderStep, Register, Subscribe, TakeFrame, SkipLagged, WriteChunk, ReceiverState,
              SendTimesOut, NoticePeerGone, NoticeClose, DropCloseHandle
<1>3. CASE WriteChunk(l)
  <2>1. sender[l].out \in Seq(Chunk) /\ sender[l].out # <<>>
    BY <1>3, EndTypes DEF WriteChunk, Typed, Writing
  <2>2. Head(sender[l].out) \in Chunk
    BY <2>1
  <2>3. wire' = [wire EXCEPT ![l] = Append(@, Head(sender[l].out))]
        /\ Len(wire[l]) < SocketCapacity
    BY <1>3 DEF WriteChunk
  <2> QED
    BY <1>0, <1>1, <1>2, <2>2, <2>3
<1>4. CASE ~WriteChunk(l)
  <2>1. wire' = wire
    BY <1>4 DEF SenderStep, Register, Subscribe, TakeFrame, SkipLagged,
              SendTimesOut, NoticePeerGone, NoticeClose, DropCloseHandle
  <2> QED
    BY <1>0, <1>1, <1>2, <2>1
<1> QED
  BY <1>3, <1>4

\* The receiving end keeps types.
LEMMA ReceiverTyped ==
    ASSUME Typed, NEW l \in Link, ReceiverStep(l)
    PROVE  /\ sender' = sender
           /\ receiver' \in [Link -> ReceiverState]
           /\ wire' \in [Link -> Seq(Chunk)] /\ \A m \in Link : Len(wire'[m]) <= SocketCapacity
           /\ broken' \in SUBSET Link
           /\ received' \in [Link -> Seq(Seq(Chunk))]
<1>0. /\ receiver \in [Link -> ReceiverState]
      /\ wire \in [Link -> Seq(Chunk)] /\ \A m \in Link : Len(wire[m]) <= SocketCapacity
      /\ SocketCapacity \in Nat /\ PayloadChunks \in Nat
      /\ broken \in SUBSET Link /\ received \in [Link -> Seq(Seq(Chunk))]
      /\ Len(<<>>) = 0 /\ <<>> \in Seq(Chunk)
  BY CapacityAssumption DEF Typed, TypeOK
<1>1. sender' = sender
  BY DEF ReceiverStep, Break, Accept, ReadChunk, RecvFrame, WriteDone, ReadEnds
<1>2. CASE Break(l)
  BY <1>0, <1>1, <1>2 DEF Break
<1>3. CASE Accept(l)
  BY <1>0, <1>1, <1>3 DEF Accept, ReceiverState
<1>4. CASE WriteDone(l)
  BY <1>0, <1>1, <1>4 DEF WriteDone, ReceiverState
<1>5. CASE ReadEnds(l)
  BY <1>0, <1>1, <1>5 DEF ReadEnds, ReceiverState
<1>6. CASE ReadChunk(l)
  <2>1. wire[l] \in Seq(Chunk) /\ wire[l] # <<>> /\ receiver[l].buffer \in Seq(Chunk)
    BY <1>6, EndTypes DEF ReadChunk, Typed
  <2>2. Head(wire[l]) \in Chunk /\ Tail(wire[l]) \in Seq(Chunk)
        /\ Len(Tail(wire[l])) = Len(wire[l]) - 1 /\ Len(wire[l]) \in Nat
    BY <2>1
  <2>3. Append(receiver[l].buffer, Head(wire[l])) \in Seq(Chunk)
    BY <2>1, <2>2
  <2>4. receiver' \in [Link -> ReceiverState]
    BY <1>0, <1>6, <2>3 DEF ReadChunk, ReceiverState
  <2>5. wire' = [wire EXCEPT ![l] = Tail(wire[l])]
    BY <1>6 DEF ReadChunk
  <2>6. wire' \in [Link -> Seq(Chunk)]
    BY <1>0, <2>2, <2>5
  <2>7. Len(Tail(wire[l])) <= SocketCapacity
    BY <1>0, <2>2
  <2>8. \A m \in Link : Len(wire'[m]) <= SocketCapacity
    BY <1>0, <2>5, <2>7
  <2> QED
    BY <1>0, <1>1, <1>6, <2>4, <2>6, <2>8 DEF ReadChunk
<1>7. CASE RecvFrame(l)
  <2>1. receiver[l].buffer \in Seq(Chunk) /\ receiver[l].buffer # <<>>
    <3>1. Len(receiver[l].buffer) = PayloadChunks + 1
      BY <1>7 DEF RecvFrame, IsComplete
    <3>2. receiver[l].buffer \in Seq(Chunk)
      BY EndTypes DEF Typed
    <3> QED
      BY <1>0, <3>1, <3>2
  <2>2. Tail(receiver[l].buffer) \in Seq(Chunk) /\ received[l] \in Seq(Seq(Chunk))
    BY <1>0, <2>1
  <2>3. Append(received[l], Tail(receiver[l].buffer)) \in Seq(Seq(Chunk))
    BY <2>2
  <2>4. [stage |-> "writing", buffer |-> <<>>] \in ReceiverState
        /\ [stage |-> "ended", buffer |-> <<>>] \in ReceiverState
    BY <1>0 DEF ReceiverState
  <2>5. CASE IsFrame(receiver[l].buffer)
    <3>1. /\ received' = [received EXCEPT ![l] = Append(received[l], Tail(receiver[l].buffer))]
          /\ receiver' = [receiver EXCEPT ![l] = [stage |-> "writing", buffer |-> <<>>]]
          /\ UNCHANGED <<wire, broken>>
      BY <1>7, <2>5 DEF RecvFrame
    <3> QED
      BY <1>0, <1>1, <2>3, <2>4, <3>1
  <2>6. CASE ~IsFrame(receiver[l].buffer)
    <3>1. /\ receiver' = [receiver EXCEPT ![l] = [stage |-> "ended", buffer |-> <<>>]]
          /\ wire' = [wire EXCEPT ![l] = <<>>] /\ UNCHANGED <<received, broken>>
      BY <1>7, <2>6 DEF RecvFrame
    <3> QED
      BY <1>0, <1>1, <2>4, <3>1
  <2> QED
    BY <2>5, <2>6
<1> QED
  BY <1>2, <1>3, <1>4, <1>5, <1>6, <1>7 DEF ReceiverStep

LEMMA SplitNext ==
    ASSUME [Next]_vars
    PROVE  \/ WatcherStarts \/ Capture \/ Enqueue \/ Bridge \/ InjectFrame
           \/ \E l \in Link : SenderStep(l) \/ ReceiverStep(l)
           \/ UNCHANGED vars
BY DEF Next, Sender, Select, Receiver, SenderStep, ReceiverStep

LEMMA TypedStep == Typed /\ [Next]_vars => Typed'
<1> SUFFICES ASSUME Typed, [Next]_vars PROVE Typed'
  OBVIOUS
<1>1. CASE WatcherStarts \/ Capture \/ Enqueue \/ Bridge \/ InjectFrame
  BY <1>1, SourceTyped
<1>2. ASSUME NEW l \in Link, SenderStep(l) \/ ReceiverStep(l) PROVE Typed'
  <2>1. UNCHANGED <<sourceVars, log>>
    BY <1>2, LinkSteps
  <2>2. Held' = Held /\ Bridged' = Bridged
    BY <2>1 DEF Held, Bridged, sourceVars
  <2>3. /\ sender' \in [Link -> SenderState]
        /\ \A m \in Link : sender'[m].cursor <= Len(log) + 1 /\ sender'[m].since <= Len(log)
        /\ Writing'
    <3>1. CASE SenderStep(l)
      <4>1. /\ sender' = [sender EXCEPT ![l] = sender'[l]]
            /\ sender'[l] \in SenderState
            /\ sender'[l].cursor <= Len(log) + 1 /\ sender'[l].since <= Len(log)
            /\ sender'[l].stage = "sending" <=> sender'[l].out # <<>>
        BY <3>1, SenderRecord
      <4>2. \A m \in Link \ {l} : sender'[m] = sender[m]
        BY <4>1 DEF Typed, TypeOK
      <4> QED
        BY <4>1, <4>2 DEF Typed, TypeOK, Counted, Writing
    <3>2. CASE ReceiverStep(l)
      BY <3>2, ReceiverTyped DEF Typed, TypeOK, Counted, Writing
    <3> QED
      BY <1>2, <3>1, <3>2
  <2>4. /\ receiver' \in [Link -> ReceiverState]
        /\ wire' \in [Link -> Seq(Chunk)] /\ \A m \in Link : Len(wire'[m]) <= SocketCapacity
        /\ broken' \in SUBSET Link
        /\ received' \in [Link -> Seq(Seq(Chunk))]
    BY <1>2, SenderOther, ReceiverTyped DEF Typed, TypeOK
  <2>5. TypeOK'
    BY <2>1, <2>3, <2>4 DEF Typed, TypeOK, sourceVars
  <2>6. Counted'
    BY <2>1, <2>2, <2>3 DEF Typed, Counted, sourceVars
  <2> QED
    BY <2>3, <2>5, <2>6 DEF Typed
<1>3. CASE UNCHANGED vars
  BY <1>3 DEF vars, sourceVars, Typed, TypeOK, Counted, Writing, Held, Bridged
<1> QED
  BY <1>1, <1>2, <1>3, SplitNext

\* The types and the capacities, for any number of connections: neither queue nor
\* socket ever holds more than it may, and no cursor leaves the log.
THEOREM RelayTyped == Spec => []TypeOK
<1>1. Spec => []Typed
  BY TypedInit, TypedStep, PTL DEF Spec
<1>2. Typed => TypeOK
  BY DEF Typed
<1> QED
  BY <1>1, <1>2, PTL

-----------------------------------------------------------------------------
(* Nothing is lost before the broadcast channel *)

\* Injected frames are numbered as they are published.
InjectedCounted == \A i \in 1..Len(log) : log[i].from = "ipc" => log[i].n <= injected

Kept == NoCaptureLost /\ InjectedCounted

\* Frames and their numbers.
LEMMA FrameFields ==
    ASSUME NEW f \in Frame
    PROVE  /\ f.from \in {"watcher", "ipc"} /\ f.n \in Nat
           /\ f = [from |-> f.from, n |-> f.n]
BY BoundsAssumption DEF Frame, Watched, Injected

\* A frame with the next number of its source keeps the log in order.
LEMMA LogGrows ==
    ASSUME Typed, Kept, NEW f \in Frame, log' = Append(log, f), f.n \in Nat,
           f.from = "watcher" => f.n = Bridged + 1,
           f.from = "ipc" => f.n = injected + 1
    PROVE  \A i, j \in 1..Len(log') :
             i < j /\ log'[i].from = log'[j].from => log'[i].n < log'[j].n
<1>0. log \in Seq(Frame) /\ Len(log) \in Nat /\ Bridged \in Nat /\ injected \in Nat
  BY BoundsAssumption DEF Typed, TypeOK, Counted
<1>1. Len(log') = Len(log) + 1 /\ \A i \in 1..Len(log) : log'[i] = log[i]
  BY <1>0
<1>2. log'[Len(log) + 1] = f
  BY <1>0
<1> SUFFICES ASSUME NEW i \in 1..Len(log'), NEW j \in 1..Len(log'), i < j,
                    log'[i].from = log'[j].from
             PROVE  log'[i].n < log'[j].n
  OBVIOUS
<1>3. i \in 1..Len(log) /\ log'[i] = log[i] /\ log[i] \in Frame
  BY <1>0, <1>1
<1>4. CASE j \in 1..Len(log)
  BY <1>1, <1>3, <1>4 DEF Kept, NoCaptureLost
<1>5. CASE j = Len(log) + 1
  <2>1. log[i].from = f.from /\ log'[j] = f
    BY <1>2, <1>3, <1>5
  <2>2. log[i].n \in Nat /\ f.from \in {"watcher", "ipc"}
    BY <1>3, FrameFields
  <2>3. log[i].from = "watcher" => log[i].n <= Bridged
    BY <1>3 DEF Kept, NoCaptureLost
  <2>4. log[i].from = "ipc" => log[i].n <= injected
    BY <1>3 DEF Kept, InjectedCounted
  <2> QED
    BY <1>0, <1>3, <2>1, <2>2, <2>3, <2>4
<1> QED
  BY <1>0, <1>1, <1>4, <1>5

LEMMA KeptStep == Typed /\ Kept /\ [Next]_vars => Kept'
<1> SUFFICES ASSUME Typed, Kept, [Next]_vars PROVE Kept'
  OBVIOUS
<1>0. /\ captured \in Nat /\ injected \in Nat /\ Bridged \in Nat
      /\ queue \in Seq(Frame) /\ Len(queue) \in Nat
      /\ log \in Seq(Frame) /\ Len(log) \in Nat
  BY BoundsAssumption DEF Typed, TypeOK, Counted
<1>1. CASE UNCHANGED <<queue, log, injected>> /\ Bridged' = Bridged
  BY <1>1 DEF Kept, NoCaptureLost, InjectedCounted
<1>2. CASE WatcherStarts
  <2>1. Held' = Held
    BY <1>2 DEF WatcherStarts, Held
  <2> QED
    BY <1>1, <1>2, <2>1 DEF WatcherStarts, Bridged
<1>3. CASE Capture
  <2>1. Held' = 1 /\ Held = 0
    BY <1>3 DEF Capture, Held
  <2>2. Bridged' = Bridged
    BY <1>0, <1>3, <2>1 DEF Capture, Bridged
  <2> QED
    BY <1>1, <1>3, <2>2 DEF Capture
<1>4. CASE Enqueue
  <2>1. Held' = 0 /\ Held = 1
    BY <1>4 DEF Enqueue, Held
  <2>2. /\ queue' = Append(queue, Watched(captured)) /\ Len(queue') = Len(queue) + 1
        /\ UNCHANGED <<captured, injected, log>>
    BY <1>0, <1>4 DEF Enqueue
  <2>3. Bridged' = Bridged /\ captured = Bridged + Len(queue) + 1
    <3>1. Bridged = captured - Len(queue) - 1
      BY <2>1 DEF Bridged
    <3>2. Bridged' = captured - (Len(queue) + 1) - 0
      BY <2>1, <2>2 DEF Bridged
    <3> QED
      BY <1>0, <3>1, <3>2
  <2>4. \A k \in 1..Len(queue) : queue'[k] = queue[k]
    BY <1>0, <2>2
  <2>5. queue'[Len(queue) + 1] = Watched(captured)
    BY <1>0, <2>2
  <2>6. \A k \in 1..Len(queue') : queue'[k] = Watched(Bridged + k)
    <3> SUFFICES ASSUME NEW k \in 1..Len(queue') PROVE queue'[k] = Watched(Bridged + k)
      OBVIOUS
    <3>1. CASE k \in 1..Len(queue)
      BY <2>4, <3>1 DEF Kept, NoCaptureLost
    <3>2. CASE k = Len(queue) + 1
      <4>1. Bridged + k = captured
        BY <1>0, <2>3, <3>2
      <4> QED
        BY <2>5, <3>2, <4>1
    <3> QED
      BY <1>0, <2>2, <3>1, <3>2
  <2> QED
    BY <2>2, <2>3, <2>6 DEF Kept, NoCaptureLost, InjectedCounted
<1>5. CASE Bridge
  <2>1. Held' = Held
    BY <1>5 DEF Bridge, Held
  <2>2. /\ queue # <<>> /\ queue' = Tail(queue) /\ log' = Append(log, Head(queue))
        /\ UNCHANGED <<captured, injected>>
    BY <1>5 DEF Bridge
  <2>3. /\ Len(queue) > 0 /\ Len(queue') = Len(queue) - 1 /\ Head(queue) = queue[1]
        /\ \A k \in 1..Len(queue') : queue'[k] = queue[k + 1]
    BY <1>0, <2>2
  <2>4. Head(queue) = Watched(Bridged + 1) /\ Head(queue) \in Frame
    BY <1>0, <2>2, <2>3 DEF Kept, NoCaptureLost
  <2>5. Bridged' = Bridged + 1
    <3>1. Bridged' = captured - (Len(queue) - 1) - Held
      BY <2>1, <2>2, <2>3 DEF Bridged
    <3>2. Bridged = captured - Len(queue) - Held /\ Held \in {0, 1}
      BY DEF Bridged, Held
    <3> QED
      BY <1>0, <3>1, <3>2
  <2>6. \A k \in 1..Len(queue') : queue'[k] = Watched(Bridged' + k)
    <3> SUFFICES ASSUME NEW k \in 1..Len(queue') PROVE queue'[k] = Watched(Bridged' + k)
      OBVIOUS
    <3>1. k + 1 \in 1..Len(queue) /\ Bridged' + k = Bridged + (k + 1)
      BY <1>0, <2>3, <2>5
    <3>2. queue[k + 1] = Watched(Bridged + (k + 1))
      BY <3>1 DEF Kept, NoCaptureLost
    <3> QED
      BY <2>3, <3>1, <3>2
  <2>7. /\ Len(log') = Len(log) + 1 /\ \A i \in 1..Len(log) : log'[i] = log[i]
        /\ log'[Len(log) + 1] = Watched(Bridged + 1)
    BY <1>0, <2>2, <2>4
  <2>8. \A n \in 1..Bridged' : \E i \in 1..Len(log') : log'[i] = Watched(n)
    <3> SUFFICES ASSUME NEW n \in 1..Bridged' PROVE \E i \in 1..Len(log') : log'[i] = Watched(n)
      OBVIOUS
    <3>1. CASE n \in 1..Bridged
      <4>1. PICK i \in 1..Len(log) : log[i] = Watched(n)
        BY <3>1 DEF Kept, NoCaptureLost
      <4> QED
        BY <1>0, <2>7, <4>1
    <3>2. CASE n = Bridged + 1
      BY <1>0, <2>7, <3>2
    <3> QED
      BY <1>0, <2>5, <3>1, <3>2
  <2>9. Watched(Bridged + 1).from = "watcher" /\ Watched(Bridged + 1).n = Bridged + 1
    BY DEF Watched
  <2>10. \A i \in 1..Len(log') : log'[i].from = "watcher" => log'[i].n <= Bridged'
    <3> SUFFICES ASSUME NEW i \in 1..Len(log'), log'[i].from = "watcher"
                 PROVE  log'[i].n <= Bridged'
      OBVIOUS
    <3>1. CASE i \in 1..Len(log)
      <4>1. log[i].n <= Bridged /\ log[i] \in Frame
        BY <1>0, <2>7, <3>1 DEF Kept, NoCaptureLost
      <4>2. log[i].n \in Nat
        BY <4>1, FrameFields
      <4> QED
        BY <1>0, <2>5, <2>7, <3>1, <4>1, <4>2
    <3>2. CASE i = Len(log) + 1
      BY <1>0, <2>5, <2>7, <2>9, <3>2
    <3> QED
      BY <1>0, <2>7, <3>1, <3>2
  <2>11. \A i, j \in 1..Len(log') :
           i < j /\ log'[i].from = log'[j].from => log'[i].n < log'[j].n
    <3>1. Head(queue).from = "watcher" /\ Head(queue).n = Bridged + 1 /\ Bridged + 1 \in Nat
      BY <1>0, <2>4, <2>9
    <3> QED
      BY <2>2, <2>4, <3>1, LogGrows
  <2>12. InjectedCounted'
    <3> SUFFICES ASSUME NEW i \in 1..Len(log'), log'[i].from = "ipc"
                 PROVE  log'[i].n <= injected'
      BY DEF InjectedCounted
    <3>1. i # Len(log) + 1
      BY <2>7, <2>9
    <3>2. i \in 1..Len(log)
      BY <1>0, <2>7, <3>1
    <3> QED
      BY <2>2, <2>7, <3>2 DEF Kept, InjectedCounted
  <2> QED
    BY <2>6, <2>8, <2>10, <2>11, <2>12 DEF Kept, NoCaptureLost
<1>6. CASE InjectFrame
  <2>1. Held' = Held
    BY <1>6 DEF InjectFrame, Held
  <2>2. /\ injected' = injected + 1 /\ injected' \in 1..MaxInjected
        /\ log' = Append(log, Injected(injected')) /\ UNCHANGED <<captured, queue>>
    BY <1>0, <1>6, BoundsAssumption DEF InjectFrame
  <2>3. Bridged' = Bridged
    BY <2>1, <2>2 DEF Bridged
  <2>4. Injected(injected').from = "ipc" /\ Injected(injected').n = injected'
        /\ Injected(injected') \in Frame
    BY <2>2 DEF Injected, Frame
  <2>5. /\ Len(log') = Len(log) + 1 /\ \A i \in 1..Len(log) : log'[i] = log[i]
        /\ log'[Len(log) + 1] = Injected(injected')
    BY <1>0, <2>2, <2>4
  <2>6. \A n \in 1..Bridged' : \E i \in 1..Len(log') : log'[i] = Watched(n)
    <3> SUFFICES ASSUME NEW n \in 1..Bridged PROVE \E i \in 1..Len(log') : log'[i] = Watched(n)
      BY <2>3
    <3>1. PICK i \in 1..Len(log) : log[i] = Watched(n)
      BY DEF Kept, NoCaptureLost
    <3> QED
      BY <1>0, <2>5, <3>1
  <2>7. \A i \in 1..Len(log') : log'[i].from = "watcher" => log'[i].n <= Bridged'
    <3> SUFFICES ASSUME NEW i \in 1..Len(log'), log'[i].from = "watcher"
                 PROVE  log'[i].n <= Bridged'
      OBVIOUS
    <3>1. i # Len(log) + 1
      BY <2>4, <2>5
    <3>2. i \in 1..Len(log)
      BY <1>0, <2>5, <3>1
    <3> QED
      BY <2>3, <2>5, <3>2 DEF Kept, NoCaptureLost
  <2>8. \A i, j \in 1..Len(log') :
           i < j /\ log'[i].from = log'[j].from => log'[i].n < log'[j].n
    BY <1>0, <2>2, <2>4, LogGrows
  <2>9. InjectedCounted'
    <3> SUFFICES ASSUME NEW i \in 1..Len(log'), log'[i].from = "ipc"
                 PROVE  log'[i].n <= injected'
      BY DEF InjectedCounted
    <3>1. CASE i \in 1..Len(log)
      <4>1. log[i].n <= injected /\ log[i] \in Frame
        BY <1>0, <2>5, <3>1 DEF Kept, InjectedCounted
      <4>2. log[i].n \in Nat
        BY <4>1, FrameFields
      <4> QED
        BY <1>0, <2>2, <2>5, <3>1, <4>1, <4>2
    <3>2. CASE i = Len(log) + 1
      BY <1>0, <2>2, <2>4, <2>5, <3>2
    <3> QED
      BY <1>0, <2>5, <3>1, <3>2
  <2>10. \A k \in 1..Len(queue') : queue'[k] = Watched(Bridged' + k)
    BY <2>2, <2>3 DEF Kept, NoCaptureLost
  <2> QED
    BY <2>6, <2>7, <2>8, <2>9, <2>10 DEF Kept, NoCaptureLost
<1>7. ASSUME NEW l \in Link, SenderStep(l) \/ ReceiverStep(l) PROVE Kept'
  <2>1. UNCHANGED <<sourceVars, log>>
    BY <1>7, LinkSteps
  <2>2. Held' = Held /\ Bridged' = Bridged
    BY <2>1 DEF Held, Bridged, sourceVars
  <2> QED
    BY <1>1, <2>1, <2>2 DEF sourceVars
<1>8. CASE UNCHANGED vars
  <2>1. Held' = Held /\ Bridged' = Bridged
    BY <1>8 DEF Held, Bridged, vars, sourceVars
  <2> QED
    BY <1>1, <1>8, <2>1 DEF vars, sourceVars
<1> QED
  BY <1>2, <1>3, <1>4, <1>5, <1>6, <1>7, <1>8, SplitNext

LEMMA KeptInit == Init => Kept
<1> SUFFICES ASSUME Init PROVE Kept
  OBVIOUS
<1>1. Held = 0
  BY DEF Init, Held
<1>2. Len(queue) = 0 /\ Len(log) = 0 /\ captured = 0
  BY DEF Init
<1>3. Bridged = 0
  BY <1>1, <1>2 DEF Bridged
<1> QED
  BY <1>2, <1>3 DEF Kept, NoCaptureLost, InjectedCounted

\* Between watcher and broadcast channel no image is lost, doubled or overtaken,
\* whatever the capacity of the queue and however many images are injected.
THEOREM CapturesKept == Spec => []NoCaptureLost
<1>1. Spec => [](Typed /\ Kept)
  <2>1. Init => Typed /\ Kept
    BY TypedInit, KeptInit
  <2>2. (Typed /\ Kept) /\ [Next]_vars => (Typed /\ Kept)'
    BY TypedStep, KeptStep
  <2> QED
    BY <2>1, <2>2, PTL DEF Spec
<1>2. Typed /\ Kept => NoCaptureLost
  BY DEF Kept
<1> QED
  BY <1>1, <1>2, PTL
=============================================================================
