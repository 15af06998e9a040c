-------------------------- MODULE ClipboardMeshProofs --------------------------
(***************************************************************************)
(* For every set of machines and connections, cyclic or not: the types and *)
(* queue bounds of ClipboardMesh hold, what the clipboards show when the   *)
(* daemons start is not sent, and a connection with nothing under way has  *)
(* brought the image that was sent last.                                   *)
(***************************************************************************)
EXTENDS ClipboardMesh, SequenceTheorems, TLAPS

\* As long as nobody has copied and nothing has failed, every watcher that polls
\* has seen what its display shows, and nothing is on its way that could change
\* a display.
Quiet ==
    /\ \A e \in Edge : flight[e] = <<>> /\ writing[e] = NoImage
    /\ \A n \in Node : watcher[n] = "polling" => last[n] = clip[Watched(n)]

Unprompted == copies = 0 /\ faults = 0 => Quiet

-----------------------------------------------------------------------------
(* Data *)

\* A queue takes an image and keeps its bound.
LEMMA PushedBounded ==
    ASSUME NEW queue \in Seq(Image), Len(queue) <= QueueCapacity, NEW image \in Image
    PROVE  Pushed(queue, image) \in Seq(Image) /\ Len(Pushed(queue, image)) <= QueueCapacity
<1>1. QueueCapacity \in Nat \ {0}
  BY BoundsAssumption
<1>2. Append(queue, image) \in Seq(Image) /\ Len(Append(queue, image)) = Len(queue) + 1
  OBVIOUS
<1>3. Append(queue, image) # <<>>
  BY <1>2
<1> QED
  BY <1>1, <1>2, <1>3 DEF Pushed

\* A machine watches a display and has one to write to; connections join machines.
LEMMA Displays ==
    /\ \A n \in Node : Watched(n) \in Display /\ Written(n) \in Display
    /\ \A e \in Edge : Source(e) \in Node /\ Target(e) \in Node
BY NodesAssumption DEF Watched, Written, Display, Source, Target

-----------------------------------------------------------------------------
(* Types *)

LEMMA InitTypes == Init => TypeOK
<1> SUFFICES ASSUME Init PROVE TypeOK
  OBVIOUS
<1>1. copies \in 0..MaxCopies /\ faults \in 0..MaxFaults
  BY BoundsAssumption DEF Init
<1>2. flight \in [Edge -> Seq(Image)] /\ \A e \in Edge : Len(flight[e]) <= QueueCapacity
  BY BoundsAssumption DEF Init
<1> QED
  BY <1>1, <1>2 DEF Init, TypeOK

LEMMA StepTypes == TypeOK /\ [Next]_vars => TypeOK'
<1> SUFFICES ASSUME TypeOK, [Next]_vars PROVE TypeOK'
  OBVIOUS
<1> USE Displays
<1>1. ASSUME NEW n \in Copier, NEW i \in Image, Copy(n, i) PROVE TypeOK'
  <2>1. n \in Node
    BY NodesAssumption
  <2>2. copies' \in 0..MaxCopies
    BY <1>1, BoundsAssumption DEF TypeOK, Copy
  <2> QED
    BY <1>1, <2>1, <2>2 DEF TypeOK, Copy, watcherVars
<1>2. ASSUME NEW n \in Node, Sample(n) PROVE TypeOK'
  BY <1>2 DEF TypeOK, Sample, displayVars, boundVars
<1>3. ASSUME NEW n \in Node, Poll(n) PROVE TypeOK'
  <2>1. clip[Watched(n)] \in Image
    BY <1>3 DEF TypeOK, Poll
  <2>2. flight' \in [Edge -> Seq(Image)] /\ \A e \in Edge : Len(flight'[e]) <= QueueCapacity
    BY <1>3, <2>1, PushedBounded DEF TypeOK, Poll, Broadcast
  <2> QED
    BY <1>3, <2>1, <2>2 DEF TypeOK, Poll, displayVars, boundVars
<1>4. ASSUME NEW e \in Edge, KillHolder(e) PROVE TypeOK'
  <2>1. Head(flight[e]) \in Image /\ Tail(flight[e]) \in Seq(Image)
        /\ Len(Tail(flight[e])) <= QueueCapacity
    BY <1>4, BoundsAssumption DEF TypeOK, KillHolder
  <2>2. flight' \in [Edge -> Seq(Image)] /\ \A f \in Edge : Len(flight'[f]) <= QueueCapacity
    BY <1>4, <2>1 DEF TypeOK, KillHolder
  <2>3. writing' \in [Edge -> Image \cup {NoImage}]
    BY <1>4, <2>1 DEF TypeOK, KillHolder
  <2>4. clip' \in [Display -> Image \cup {NoImage}] /\ holder' \in [Display -> Edge \cup {Nobody}]
    BY <1>4 DEF TypeOK, KillHolder
  <2> QED
    BY <1>4, <2>2, <2>3, <2>4 DEF TypeOK, KillHolder, watcherVars, boundVars
<1>5. ASSUME NEW e \in Edge, SpawnHolder(e) PROVE TypeOK'
  <2>1. clip' \in [Display -> Image \cup {NoImage}] /\ holder' \in [Display -> Edge \cup {Nobody}]
    BY <1>5 DEF TypeOK, SpawnHolder
  <2> QED
    BY <1>5, <2>1 DEF TypeOK, SpawnHolder, watcherVars, boundVars
<1>6. ASSUME Fault PROVE TypeOK'
  <2>1. faults < MaxFaults => faults + 1 \in 0..MaxFaults
    BY BoundsAssumption DEF TypeOK
  <2>2. ASSUME NEW n \in Node, XvfbMoves(n) PROVE TypeOK'
    BY <2>1, <2>2 DEF TypeOK, XvfbMoves, watcherVars
  <2>3. ASSUME NEW n \in Node, SampleTimesOut(n) \/ SampleFails(n) PROVE TypeOK'
    BY <2>1, <2>3 DEF TypeOK, SampleTimesOut, SampleFails, displayVars
  <2>4. ASSUME NEW e \in Edge, SpawnFails(e) PROVE TypeOK'
    BY <2>1, <2>4 DEF TypeOK, SpawnFails, displayVars, watcherVars
  <2> QED
    BY <1>6, <2>2, <2>3, <2>4 DEF Fault
<1>7. CASE UNCHANGED vars
  BY <1>7 DEF TypeOK, vars, displayVars, watcherVars, boundVars
<1> QED
  BY <1>1, <1>2, <1>3, <1>4, <1>5, <1>6, <1>7 DEF Next, Watcher, Receiver

\* Types hold, and no connection holds more than QueueCapacity images however
\* many machines pass images on.
THEOREM MeshTyped == Spec => []TypeOK
<1>1. TypeOK /\ [Next]_vars => TypeOK'
  BY StepTypes
<1> QED
  BY InitTypes, <1>1, PTL DEF Spec

-----------------------------------------------------------------------------
(* Nothing is sent unprompted *)

LEMMA StepUnprompted == TypeOK /\ Unprompted /\ [Next]_vars => Unprompted'
<1> SUFFICES ASSUME TypeOK, Unprompted, [Next]_vars, copies' = 0, faults' = 0 PROVE Quiet'
  BY DEF Unprompted
<1> USE Displays
<1>1. copies \in Nat /\ faults \in Nat
  BY BoundsAssumption DEF TypeOK
<1>2. ASSUME NEW n \in Copier, NEW i \in Image, Copy(n, i) PROVE FALSE
  BY <1>1, <1>2 DEF Copy
<1>3. ASSUME Fault PROVE FALSE
  BY <1>1, <1>3 DEF Fault, XvfbMoves, SampleTimesOut, SampleFails, SpawnFails
\* No other step counts: the machines were quiet before.
<1>4. ASSUME NEW n \in Node, Sample(n) PROVE Quiet'
  <2>1. Quiet
    BY <1>4 DEF Unprompted, Sample, boundVars
  <2> QED
    BY <1>4, <2>1 DEF Quiet, TypeOK, Sample, displayVars
<1>5. ASSUME NEW n \in Node, Poll(n) PROVE FALSE
  <2>1. Quiet
    BY <1>5 DEF Unprompted, Poll, boundVars
  <2> QED
    BY <1>5, <2>1 DEF Quiet, Poll
<1>6. ASSUME NEW e \in Edge, Receiver(e) PROVE FALSE
  <2>1. Quiet
    BY <1>6 DEF Unprompted, Receiver, KillHolder, SpawnHolder, boundVars
  <2> QED
    BY <1>6, <2>1 DEF Quiet, Receiver, KillHolder, SpawnHolder
<1>7. CASE UNCHANGED vars
  BY <1>7 DEF Unprompted, Quiet, vars, displayVars, watcherVars, boundVars
<1> QED
  BY <1>2, <1>3, <1>4, <1>5, <1>6, <1>7 DEF Next, Watcher

\* Before a user copies something, no image travels or is written anywhere,
\* whatever the desktops show and in whichever order the daemons start.
THEOREM ShownAtStartIsNotSent == Spec => []NothingSentUnprompted
<1>1. Init => Unprompted
  BY DEF Init, Unprompted, Quiet
<1>2. TypeOK /\ Unprompted /\ [Next]_vars => Unprompted'
  BY StepUnprompted
<1>3. Unprompted => NothingSentUnprompted
  BY DEF Unprompted, Quiet, NothingSentUnprompted
<1> QED
  BY MeshTyped, <1>1, <1>2, <1>3, PTL DEF Spec

-----------------------------------------------------------------------------
(* What was sent last is shown *)

\* What a connection does not yet carry, write or show: nothing before its
\* sender's watcher has its first sample.
NotYetUsed ==
    \A e \in Edge : watcher[Source(e)] = "starting" =>
        flight[e] = <<>> /\ writing[e] = NoImage /\ \A d \in Display : holder[d] # e

\* The newest image that is on its way, being written or shown is the last one
\* its sender sent.
NewestOfQueue ==
    \A e \in Edge : flight[e] # <<>> => flight[e][Len(flight[e])] = last[Source(e)]

NewestOfWriter ==
    \A e \in Edge : flight[e] = <<>> /\ writing[e] # NoImage => writing[e] = last[Source(e)]

NoneGone == faults = 0 => gone = {}

Newest == NotYetUsed /\ NewestOfQueue /\ NewestOfWriter /\ NoneGone /\ LastSentIsShown

\* The newest element of a queue is the one that was pushed last.
LEMMA PushedLast ==
    ASSUME NEW queue \in Seq(Image), NEW image \in Image
    PROVE  /\ Pushed(queue, image) # <<>>
           /\ Pushed(queue, image)[Len(Pushed(queue, image))] = image
<1> DEFINE longer == Append(queue, image)
<1>1. QueueCapacity \in Nat \ {0}
  BY BoundsAssumption
<1>2. longer \in Seq(Image) /\ Len(longer) = Len(queue) + 1 /\ longer[Len(longer)] = image /\ Len(queue) \in Nat
  OBVIOUS
<1>3. Pushed(queue, image) = IF Len(longer) > QueueCapacity THEN Tail(longer) ELSE longer
  BY DEF Pushed
<1> HIDE DEF longer
<1>4. CASE Len(longer) > QueueCapacity
  <2>1. Len(longer) > 1 /\ longer # <<>>
    BY <1>1, <1>2, <1>4
  <2>2. Tail(longer) \in Seq(Image) /\ Len(Tail(longer)) = Len(longer) - 1
    BY <1>2, <2>1
  <2>3. Tail(longer)[Len(longer) - 1] = longer[Len(longer)]
    BY <1>2, <2>1
  <2> QED
    BY <1>2, <1>3, <1>4, <2>1, <2>2, <2>3
<1>5. CASE ~(Len(longer) > QueueCapacity)
  BY <1>2, <1>3, <1>5
<1> QED
  BY <1>4, <1>5

\* Taking the oldest element leaves the newest one, or takes it.
LEMMA TakenLast ==
    ASSUME NEW q \in Seq(Image), q # <<>>
    PROVE  /\ Tail(q) # <<>> => Tail(q)[Len(Tail(q))] = q[Len(q)]
           /\ Tail(q) = <<>> => Head(q) = q[Len(q)]
<1>1. Tail(q) \in Seq(Image) /\ Len(Tail(q)) = Len(q) - 1 /\ Len(q) \in Nat \ {0} /\ Head(q) = q[1]
  OBVIOUS
<1>2. \A i \in 1..(Len(q) - 1) : Tail(q)[i] = q[i + 1]
  OBVIOUS
<1>3. CASE Len(q) = 1
  <2>1. Len(Tail(q)) = 0
    BY <1>1, <1>3
  <2>2. Tail(q) = <<>>
    BY <1>1, <2>1, EmptySeq
  <2> QED
    BY <1>1, <1>3, <2>2
<1>4. CASE Len(q) # 1
  <2>1. Len(Tail(q)) \in 1..(Len(q) - 1) /\ Len(Tail(q)) + 1 = Len(q)
    BY <1>1, <1>4
  <2>2. Tail(q)[Len(Tail(q))] = q[Len(q)]
    BY <1>2, <2>1
  <2>3. Tail(q) # <<>>
    <3>1. Len(Tail(q)) # 0
      BY <2>1
    <3> QED
      BY <3>1
  <2> QED
    BY <2>2, <2>3
<1> QED
  BY <1>3, <1>4

LEMMA StepNewest == TypeOK /\ Newest /\ [Next]_vars => Newest'
<1> SUFFICES ASSUME TypeOK, Newest, [Next]_vars PROVE Newest'
  OBVIOUS
<1> USE Displays DEF Newest
<1>1. copies \in Nat /\ faults \in Nat
  BY BoundsAssumption DEF TypeOK
\* The connections are as they were, and a display that one of them holds shows
\* what it did.
<1>2. ASSUME UNCHANGED <<watcher, last, flight, writing>>, faults' = 0 => faults = 0 /\ gone' = gone,
             \A d \in Display : holder'[d] \in {holder[d], Nobody},
             \A d \in Display : holder'[d] # Nobody => clip'[d] = clip[d]
      PROVE  Newest'
  <2>1. \A e \in Edge, d \in Display : holder'[d] = e => holder[d] = e /\ clip'[d] = clip[d]
    BY <1>2, ImagesAssumption
  <2>2. NotYetUsed'
    BY <1>2, <2>1 DEF NotYetUsed
  <2>3. NewestOfQueue' /\ NewestOfWriter'
    BY <1>2 DEF NewestOfQueue, NewestOfWriter
  <2>4. LastSentIsShown'
    BY <1>2, <2>1 DEF LastSentIsShown
  <2>5. NoneGone'
    BY <1>2 DEF NoneGone
  <2> QED
    BY <2>2, <2>3, <2>4, <2>5
<1>3. ASSUME NEW n \in Copier, NEW i \in Image, Copy(n, i) PROVE Newest'
  BY <1>2, <1>3 DEF TypeOK, Copy, watcherVars
<1>4. ASSUME NEW n \in Node, XvfbMoves(n) PROVE Newest'
  <2>1. faults' # 0
    BY <1>1, <1>4 DEF XvfbMoves
  <2> QED
    BY <1>2, <1>4, <2>1 DEF TypeOK, XvfbMoves, watcherVars
\* A watcher takes its first sample, or none, before its connections are used.
<1>5. ASSUME NEW n \in Node, Sample(n) \/ SampleTimesOut(n) \/ SampleFails(n) PROVE Newest'
  <2>1. /\ watcher[n] = "starting" /\ \A m \in Node : m # n => last'[m] = last[m] /\ watcher'[m] = watcher[m]
        /\ watcher'[n] # "starting" /\ UNCHANGED <<displayVars, flight, writing>>
    BY <1>5 DEF TypeOK, Sample, SampleTimesOut, SampleFails
  <2>2. faults' = 0 => faults = 0
    BY <1>1, <1>5 DEF Sample, SampleTimesOut, SampleFails, boundVars
  <2>3. ASSUME NEW e \in Edge, Source(e) = n
        PROVE  flight[e] = <<>> /\ writing[e] = NoImage /\ \A d \in Display : holder[d] # e
    BY <2>1, <2>3 DEF NotYetUsed
  <2>4. NotYetUsed'
    BY <2>1 DEF NotYetUsed, displayVars
  <2>5. NewestOfQueue' /\ NewestOfWriter'
    BY <2>1, <2>3 DEF NewestOfQueue, NewestOfWriter
  <2>6. LastSentIsShown'
    BY <2>1, <2>2, <2>3 DEF LastSentIsShown, displayVars
  <2>7. NoneGone'
    BY <2>1, <2>2 DEF NoneGone, displayVars
  <2> QED
    BY <2>4, <2>5, <2>6, <2>7
<1>6. ASSUME NEW n \in Node, Poll(n) PROVE Newest'
  <2> DEFINE image == clip[Watched(n)]
  <2>1. image \in Image /\ watcher[n] = "polling"
    BY <1>6 DEF TypeOK, Poll
  <2>2. UNCHANGED <<clip, holder, gone, watcher, writing, faults>>
    BY <1>6 DEF Poll, displayVars, boundVars
  <2>3. \A m \in Node : last'[m] = IF m = n THEN image ELSE last[m]
    BY <1>6 DEF TypeOK, Poll
  <2>4. \A e \in Edge : flight'[e] = IF Source(e) = n THEN Pushed(flight[e], image) ELSE flight[e]
    BY <1>6 DEF Poll, Broadcast
  <2> HIDE DEF image
  <2>5. ASSUME NEW e \in Edge, Source(e) = n
        PROVE  flight'[e] # <<>> /\ flight'[e][Len(flight'[e])] = last'[n]
    <3>1. flight[e] \in Seq(Image)
      BY DEF TypeOK
    <3> QED
      BY <2>1, <2>3, <2>4, <2>5, <3>1, PushedLast
  <2>6. NotYetUsed'
    BY <2>1, <2>2, <2>4 DEF NotYetUsed
  <2>7. NewestOfQueue' /\ NewestOfWriter'
    BY <2>2, <2>3, <2>4, <2>5 DEF NewestOfQueue, NewestOfWriter
  <2>8. LastSentIsShown'
    BY <2>2, <2>3, <2>4, <2>5 DEF LastSentIsShown
  <2> QED
    BY <2>2, <2>6, <2>7, <2>8 DEF NoneGone
<1>7. ASSUME NEW e \in Edge, KillHolder(e) PROVE Newest'
  <2> DEFINE q == flight[e]
  <2>1. q \in Seq(Image) /\ q # <<>> /\ q[Len(q)] = last[Source(e)]
    BY <1>7 DEF TypeOK, KillHolder, NewestOfQueue
  <2>2. /\ UNCHANGED <<watcher, last, faults, gone>>
        /\ flight'[e] = Tail(q) /\ writing'[e] = Head(q)
        /\ \A f \in Edge : f # e => flight'[f] = flight[f] /\ writing'[f] = writing[f]
    BY <1>7 DEF TypeOK, KillHolder, watcherVars, boundVars
  <2>3. \A d \in Display, f \in Edge : holder'[d] = f => holder[d] = f /\ clip'[d] = clip[d]
    BY <1>7, ImagesAssumption DEF TypeOK, KillHolder
  <2> HIDE DEF q
  <2>4. Head(q) \in Image /\ Head(q) # NoImage
    BY <2>1, ImagesAssumption
  <2>5. Tail(q) # <<>> => Tail(q)[Len(Tail(q))] = q[Len(q)]
    BY <2>1, TakenLast
  <2>6. Tail(q) = <<>> => Head(q) = q[Len(q)]
    BY <2>1, TakenLast
  <2>7. watcher[Source(e)] # "starting"
    BY <2>1 DEF NotYetUsed, q
  <2>8. NotYetUsed'
    BY <2>2, <2>3, <2>7 DEF NotYetUsed
  <2>9. NewestOfQueue'
    BY <2>1, <2>2, <2>5 DEF NewestOfQueue
  <2>10. NewestOfWriter'
    BY <2>1, <2>2, <2>6 DEF NewestOfWriter
  <2>11. LastSentIsShown'
    BY <2>2, <2>3, <2>4 DEF LastSentIsShown
  <2> QED
    BY <2>2, <2>8, <2>9, <2>10, <2>11 DEF NoneGone
<1>8. ASSUME NEW e \in Edge, SpawnHolder(e) PROVE Newest'
  <2> DEFINE display == Written(Target(e))
  <2>1. /\ UNCHANGED <<watcher, last, flight, faults, gone>>
        /\ writing[e] # NoImage /\ writing'[e] = NoImage
        /\ \A f \in Edge : f # e => writing'[f] = writing[f]
    BY <1>8 DEF TypeOK, SpawnHolder, watcherVars, boundVars
  <2>2. watcher[Source(e)] # "starting"
    BY <2>1 DEF NotYetUsed
  <2>3. \A d \in Display, f \in Edge : f # e /\ holder'[d] = f => holder[d] = f /\ clip'[d] = clip[d]
    BY <1>8 DEF TypeOK, SpawnHolder
  <2>4. display \notin gone => clip'[display] = writing[e]
    BY <1>8 DEF TypeOK, SpawnHolder
  <2>5. NotYetUsed'
    BY <2>1, <2>2, <2>3 DEF NotYetUsed
  <2>6. NewestOfQueue' /\ NewestOfWriter'
    BY <2>1 DEF NewestOfQueue, NewestOfWriter
  <2>7. LastSentIsShown'
    <3> SUFFICES ASSUME NEW f \in Edge, faults = 0, flight[f] = <<>>, writing'[f] = NoImage,
                        holder'[Written(Target(f))] = f
                 PROVE  clip'[Written(Target(f))] = last[Source(f)]
      BY <2>1 DEF LastSentIsShown
    <3>1. CASE f = e
      BY <2>1, <2>4, <3>1 DEF NewestOfWriter, NoneGone
    <3>2. CASE f # e
      BY <2>1, <2>3, <3>2 DEF LastSentIsShown
    <3> QED
      BY <3>1, <3>2
  <2> QED
    BY <2>1, <2>5, <2>6, <2>7 DEF NoneGone
<1>9. ASSUME NEW e \in Edge, SpawnFails(e) PROVE Newest'
  <2>1. faults' # 0 /\ UNCHANGED <<displayVars, watcher, last, flight>>
        /\ \A f \in Edge : writing'[f] \in {writing[f], NoImage}
    BY <1>1, <1>9 DEF TypeOK, SpawnFails, watcherVars
  <2>2. NotYetUsed' /\ NewestOfQueue' /\ NewestOfWriter'
    BY <2>1 DEF NotYetUsed, NewestOfQueue, NewestOfWriter, displayVars
  <2> QED
    BY <2>1, <2>2 DEF LastSentIsShown, NoneGone
<1>10. CASE UNCHANGED vars
  BY <1>2, <1>10 DEF vars, displayVars, watcherVars, boundVars
<1> QED
  BY <1>3, <1>4, <1>5, <1>6, <1>7, <1>8, <1>9, <1>10 DEF Next, Watcher, Receiver, Fault

\* For every set of machines and connections, cyclic or not, and every capacity:
\* without failures a connection with nothing under way, whose child holds the
\* peer's clipboard, shows there the image that was sent last.
THEOREM LastSentShown == Spec => []LastSentIsShown
<1>1. Init => Newest
  <2> SUFFICES ASSUME Init PROVE Newest
    OBVIOUS
  <2>1. \A e \in Edge, d \in Display : flight[e] = <<>> /\ writing[e] = NoImage /\ holder[d] # e
    BY ImagesAssumption DEF Init
  <2> QED
    BY <2>1, Displays DEF Init, Newest, NotYetUsed, NewestOfQueue, NewestOfWriter, NoneGone,
                          LastSentIsShown
<1>2. TypeOK /\ Newest /\ [Next]_vars => Newest'
  BY StepNewest
<1>3. Newest => LastSentIsShown
  BY DEF Newest
<1> QED
  BY MeshTyped, <1>1, <1>2, <1>3, PTL DEF Spec
=============================================================================
