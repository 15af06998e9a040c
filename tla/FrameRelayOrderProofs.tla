------------------------- MODULE FrameRelayOrderProofs -------------------------
(***************************************************************************)
(* For every number of connections, every capacity and every length of a   *)
(* frame: what a connection delivers is whole, in the order of the log,    *)
(* and leaves out only what the broadcast channel has overwritten.         *)
(* FrameRelay thereby implements OrderedDelivery.                          *)
(*                                                                         *)
(* The argument is about the stream of a connection: the chunks the        *)
(* receiver has collected, those on the wire and those still to be         *)
(* written, one sequence.  It starts with a header, each chunk follows the *)
(* one before it in the same frame or starts a later frame, and reading,   *)
(* writing and delivering only move the cuts in it.                        *)
(* Its end, where the cursor of the sending task is, tells which image a   *)
(* connection has last taken: once nothing is under way, the newest one.   *)
(***************************************************************************)
EXTENDS FrameRelayProofs, SequenceTheorems

(* The log and streams, as sequences.  L is a log, s a stream. *)

Distinct(L) == \A i, j \in 1..Len(L) : L[i] = L[j] => i = j

Logged(L, f) == \E i \in 1..Len(L) : L[i] = f

\* The place of frame f in the log.
At(L, f) == CHOOSE i \in 1..Len(L) : L[i] = f

\* After the frame at place i comes the one at place j, whatever lies between
\* being overwritten.
Leads(L, i, j) == i < j /\ \A m \in (i + 1)..(j - 1) : m + BroadcastCapacity <= Len(L)

\* Chunk b may come right after chunk a.
Follows(L, a, b) ==
    \/ b.frame = a.frame /\ b.part = a.part + 1
    \/ a.part = PayloadChunks /\ b.part = 0 /\ Leads(L, At(L, a.frame), At(L, b.frame))

\* The frames of s are in the log before the cursor; its chunks follow each other.
Chained(L, s, cursor) ==
    /\ \A k \in 1..Len(s) : Logged(L, s[k].frame) /\ At(L, s[k].frame) < cursor
    /\ \A k \in 1..(Len(s) - 1) : Follows(L, s[k], s[k + 1])

\* s starts with a header, of a frame that may come after the newest delivered.
Begins(L, s, newest) ==
    s # <<>> => s[1].part = 0 /\ Leads(L, newest, At(L, s[1].frame))

\* s ends with the end of a frame, after which the one at the cursor may come.
Ends(L, s, newest, cursor) ==
    /\ s = <<>> => Leads(L, newest, cursor)
    /\ s # <<>> => s[Len(s)].part = PayloadChunks /\ Leads(L, At(L, s[Len(s)].frame), cursor)

-----------------------------------------------------------------------------
(* Places in the log *)

LEMMA AtLogged ==
    ASSUME NEW L \in Seq(Frame), NEW f, Logged(L, f)
    PROVE  At(L, f) \in 1..Len(L) /\ L[At(L, f)] = f
BY DEF At, Logged

LEMMA AtPlace ==
    ASSUME NEW L \in Seq(Frame), Distinct(L), NEW i \in 1..Len(L)
    PROVE  Logged(L, L[i]) /\ At(L, L[i]) = i
<1>1. Logged(L, L[i])
  BY DEF Logged
<1> QED
  BY <1>1, AtLogged DEF Distinct

LEMMA AtGrows ==
    ASSUME NEW L \in Seq(Frame), NEW g \in Frame, Distinct(Append(L, g)),
           NEW f, Logged(L, f)
    PROVE  Logged(Append(L, g), f) /\ At(Append(L, g), f) = At(L, f)
<1>1. At(L, f) \in 1..Len(L) /\ L[At(L, f)] = f
  BY AtLogged
<1> DEFINE M == Append(L, g)
<1>2. M \in Seq(Frame) /\ Len(M) = Len(L) + 1 /\ M[At(L, f)] = f /\ At(L, f) \in 1..Len(M)
  BY <1>1
<1> HIDE DEF M
<1>3. Logged(M, f) /\ At(M, f) = At(L, f)
  BY <1>2, AtPlace DEF M
<1> QED
  BY <1>3 DEF M

LEMMA LeadsGrows ==
    ASSUME NEW L \in Seq(Frame), NEW g \in Frame, NEW i, NEW j, Leads(L, i, j)
    PROVE  Leads(Append(L, g), i, j)
<1>1. Len(Append(L, g)) = Len(L) + 1 /\ Len(L) \in Nat
  OBVIOUS
<1>2. BroadcastCapacity \in Nat
  BY CapacityAssumption
<1> QED
  BY <1>1, <1>2 DEF Leads

LEMMA LeadsNext == ASSUME NEW L, NEW i \in Nat PROVE Leads(L, i, i + 1)
BY DEF Leads

LEMMA LeadsSkips ==
    ASSUME NEW L \in Seq(Frame), NEW i \in Nat, NEW c \in Nat, NEW d \in Nat,
           Leads(L, i, c), c < d, \A m \in c..(d - 1) : m + BroadcastCapacity <= Len(L)
    PROVE  Leads(L, i, d)
BY DEF Leads

-----------------------------------------------------------------------------
(* Cutting and joining streams *)

LEMMA Joined ==
    ASSUME NEW s \in Seq(Chunk), NEW t \in Seq(Chunk)
    PROVE  /\ s \o t \in Seq(Chunk) /\ Len(s \o t) = Len(s) + Len(t)
           /\ \A k \in 1..Len(s) : (s \o t)[k] = s[k]
           /\ \A k \in 1..Len(t) : (s \o t)[Len(s) + k] = t[k]
           /\ s = <<>> <=> Len(s) = 0
<1>1. Len(s) \in Nat /\ Len(t) \in Nat
  OBVIOUS
<1>2. s \o t \in Seq(Chunk) /\ Len(s \o t) = Len(s) + Len(t)
      /\ \A i \in 1..(Len(s) + Len(t)) :
           (s \o t)[i] = IF i <= Len(s) THEN s[i] ELSE t[i - Len(s)]
  BY ConcatProperties
<1>3. \A k \in 1..Len(s) : (s \o t)[k] = s[k]
  BY <1>1, <1>2
<1>4. ASSUME NEW k \in 1..Len(t) PROVE (s \o t)[Len(s) + k] = t[k]
  <2>1. Len(s) + k \in 1..(Len(s) + Len(t)) /\ ~(Len(s) + k <= Len(s)) /\ Len(s) + k - Len(s) = k
    BY <1>1
  <2> QED
    BY <1>2, <2>1
<1> QED
  BY <1>2, <1>3, <1>4, EmptyIsShort

LEMMA Regrouped ==
    ASSUME NEW s \in Seq(Chunk), NEW t \in Seq(Chunk), NEW u \in Seq(Chunk)
    PROVE  (s \o t) \o u = s \o (t \o u)
BY ConcatAssociative

\* Moving the first chunk of t to the end of s.
LEMMA Shifted ==
    ASSUME NEW s \in Seq(Chunk), NEW t \in Seq(Chunk), t # <<>>
    PROVE  Append(s, Head(t)) \o Tail(t) = s \o t
<1> DEFINE u == Append(s, Head(t))
           v == Tail(t)
<1>1. /\ Len(s) \in Nat /\ Len(t) \in Nat /\ Len(t) > 0
      /\ u \in Seq(Chunk) /\ Len(u) = Len(s) + 1 /\ u[Len(s) + 1] = t[1]
      /\ \A k \in 1..Len(s) : u[k] = s[k]
      /\ v \in Seq(Chunk) /\ Len(v) = Len(t) - 1 /\ \A k \in 1..Len(v) : v[k] = t[k + 1]
  OBVIOUS
<1> HIDE DEF u, v
<1>2. u \o v \in Seq(Chunk) /\ Len(u \o v) = Len(s) + Len(t)
  <2>1. u \o v \in Seq(Chunk) /\ Len(u \o v) = Len(u) + Len(v)
    BY <1>1, Joined
  <2> QED
    BY <1>1, <2>1
<1>3. s \o t \in Seq(Chunk) /\ Len(s \o t) = Len(s) + Len(t)
  BY Joined
<1>4. ASSUME NEW i \in 1..(Len(s) + Len(t)) PROVE (u \o v)[i] = (s \o t)[i]
  <2>1. CASE i \in 1..Len(s)
    <3>1. i \in 1..Len(u)
      BY <1>1, <2>1
    <3> QED
      BY <1>1, <2>1, <3>1, Joined
  <2>2. CASE i = Len(s) + 1
    <3>1. i \in 1..Len(u) /\ 1 \in 1..Len(t)
      BY <1>1, <2>2
    <3>2. (u \o v)[i] = u[i]
      BY <1>1, <3>1, Joined
    <3>3. (s \o t)[Len(s) + 1] = t[1]
      BY <3>1, Joined
    <3> QED
      BY <1>1, <2>2, <3>2, <3>3
  <2>3. CASE i > Len(s) + 1
    <3> DEFINE k == i - Len(u)
    <3>1. k \in 1..Len(v) /\ k + 1 \in 1..Len(t) /\ i = Len(u) + k /\ i = Len(s) + (k + 1)
      BY <1>1, <2>3
    <3> HIDE DEF k
    <3>2. (u \o v)[Len(u) + k] = v[k]
      BY <1>1, <3>1, Joined
    <3>3. (s \o t)[Len(s) + (k + 1)] = t[k + 1]
      BY <3>1, Joined
    <3> QED
      BY <1>1, <3>1, <3>2, <3>3
  <2> QED
    BY <1>1, <2>1, <2>2, <2>3
<1>5. u \o v = s \o t
  BY <1>2, <1>3, <1>4, SeqEqual
<1> QED
  BY <1>5 DEF u, v

LEMMA ChainedGrows ==
    ASSUME NEW L \in Seq(Frame), NEW g \in Frame, Distinct(Append(L, g)),
           NEW s \in Seq(Chunk), NEW cursor \in Nat, Chained(L, s, cursor)
    PROVE  Chained(Append(L, g), s, cursor)
<1> DEFINE M == Append(L, g)
<1>1. \A f : Logged(L, f) => Logged(M, f) /\ At(M, f) = At(L, f)
  BY AtGrows
<1>2. \A i, j : Leads(L, i, j) => Leads(M, i, j)
  BY LeadsGrows
<1>3. Len(s) \in Nat
  OBVIOUS
<1> HIDE DEF M
<1>4. ASSUME NEW k \in 1..(Len(s) - 1) PROVE Follows(M, s[k], s[k + 1])
  <2>1. k \in 1..Len(s) /\ k + 1 \in 1..Len(s)
    BY <1>3
  <2>2. Logged(L, s[k].frame) /\ Logged(L, s[k + 1].frame) /\ Follows(L, s[k], s[k + 1])
    BY <2>1 DEF Chained
  <2> QED
    BY <1>1, <1>2, <2>2 DEF Follows
<1>5. Chained(M, s, cursor)
  BY <1>1, <1>4 DEF Chained
<1> QED
  BY <1>5 DEF M

LEMMA ChainedLater ==
    ASSUME NEW L \in Seq(Frame), NEW s \in Seq(Chunk), NEW c \in Nat, NEW d \in Nat, c <= d,
           Chained(L, s, c)
    PROVE  Chained(L, s, d)
<1>1. ASSUME NEW k \in 1..Len(s) PROVE At(L, s[k].frame) < d
  <2>1. Logged(L, s[k].frame) /\ At(L, s[k].frame) < c
    BY DEF Chained
  <2>2. At(L, s[k].frame) \in 1..Len(L)
    BY <2>1, AtLogged
  <2> QED
    BY <2>1, <2>2
<1> QED
  BY <1>1 DEF Chained

\* A stream that is cut off.
LEMMA ChainedPrefix ==
    ASSUME NEW L, NEW s \in Seq(Chunk), NEW t \in Seq(Chunk), NEW c,
           NEW newest, Chained(L, s \o t, c), Begins(L, s \o t, newest)
    PROVE  Chained(L, s, c) /\ Begins(L, s, newest)
<1>1. /\ Len(s) \in Nat /\ Len(t) \in Nat /\ Len(s \o t) = Len(s) + Len(t)
      /\ \A k \in 1..Len(s) : (s \o t)[k] = s[k]
      /\ (s = <<>> <=> Len(s) = 0)
      /\ s \o t \in Seq(Chunk)
  BY Joined
<1>2. ASSUME NEW k \in 1..Len(s) PROVE Logged(L, s[k].frame) /\ At(L, s[k].frame) < c
  <2>1. k \in 1..Len(s \o t) /\ (s \o t)[k] = s[k]
    BY <1>1
  <2> QED
    BY <2>1 DEF Chained
<1>3. ASSUME NEW k \in 1..(Len(s) - 1) PROVE Follows(L, s[k], s[k + 1])
  <2>1. k \in 1..(Len(s \o t) - 1) /\ (s \o t)[k] = s[k] /\ (s \o t)[k + 1] = s[k + 1]
    BY <1>1
  <2> QED
    BY <2>1 DEF Chained
<1>4. Begins(L, s, newest)
  <2>1. SUFFICES ASSUME s # <<>> PROVE s[1].part = 0 /\ Leads(L, newest, At(L, s[1].frame))
    BY DEF Begins
  <2>2. 1 \in 1..Len(s)
    BY <1>1, <2>1
  <2>3. (s \o t)[1] = s[1] /\ s \o t # <<>>
    <3>1. Len(s \o t) # 0
      BY <1>1, <2>2
    <3> QED
      BY <1>1, <2>2, <3>1
  <2> QED
    BY <2>3 DEF Begins
<1> QED
  BY <1>2, <1>3, <1>4 DEF Chained

\* A stream whose first frame has been taken off.
LEMMA ChainedSuffix ==
    ASSUME NEW L, NEW s \in Seq(Chunk), NEW t \in Seq(Chunk), NEW c, Chained(L, s \o t, c)
    PROVE  /\ Chained(L, t, c)
           /\ s # <<>> /\ t # <<>> => Follows(L, s[Len(s)], t[1])
<1>1. /\ Len(s) \in Nat /\ Len(t) \in Nat /\ Len(s \o t) = Len(s) + Len(t)
      /\ \A k \in 1..Len(s) : (s \o t)[k] = s[k]
      /\ \A k \in 1..Len(t) : (s \o t)[Len(s) + k] = t[k]
      /\ (s = <<>> <=> Len(s) = 0) /\ (t = <<>> <=> Len(t) = 0)
  BY Joined, EmptyIsShort
<1>2. ASSUME NEW k \in 1..Len(t) PROVE Logged(L, t[k].frame) /\ At(L, t[k].frame) < c
  <2>1. Len(s) + k \in 1..Len(s \o t) /\ (s \o t)[Len(s) + k] = t[k]
    BY <1>1
  <2> QED
    BY <2>1 DEF Chained
<1>3. ASSUME NEW k \in 1..(Len(t) - 1) PROVE Follows(L, t[k], t[k + 1])
  <2>1. /\ Len(s) + k \in 1..(Len(s \o t) - 1)
        /\ (s \o t)[Len(s) + k] = t[k] /\ (s \o t)[Len(s) + (k + 1)] = t[k + 1]
        /\ Len(s) + (k + 1) = (Len(s) + k) + 1
    BY <1>1
  <2> QED
    BY <2>1 DEF Chained
<1>4. ASSUME s # <<>>, t # <<>> PROVE Follows(L, s[Len(s)], t[1])
  <2>1. /\ Len(s) \in 1..(Len(s \o t) - 1) /\ Len(s) \in 1..Len(s) /\ 1 \in 1..Len(t)
    BY <1>1, <1>4
  <2>2. (s \o t)[Len(s)] = s[Len(s)] /\ (s \o t)[Len(s) + 1] = t[1]
    BY <1>1, <2>1
  <2> QED
    BY <2>1, <2>2 DEF Chained
<1> QED
  BY <1>2, <1>3, <1>4 DEF Chained

\* A stream to which the frame at the cursor is added.
LEMMA ChainedExtends ==
    ASSUME NEW L \in Seq(Frame), Distinct(L), NEW s \in Seq(Chunk), NEW newest \in Nat,
           NEW c \in 1..Len(L),
           Chained(L, s, c), Begins(L, s, newest), Ends(L, s, newest, c)
    PROVE  /\ s \o Bytes(L[c]) \in Seq(Chunk)
           /\ Chained(L, s \o Bytes(L[c]), c + 1)
           /\ Begins(L, s \o Bytes(L[c]), newest)
           /\ Ends(L, s \o Bytes(L[c]), newest, c + 1)
<1> DEFINE f == L[c]
           b == Bytes(f)
           t == s \o b
<1>0. PayloadChunks \in Nat \ {0} /\ Len(L) \in Nat /\ c \in Nat
  BY CapacityAssumption
<1>1. f \in Frame /\ Logged(L, f) /\ At(L, f) = c /\ Leads(L, c, c + 1)
  BY AtPlace, LeadsNext
<1>2. /\ b \in Seq(Chunk) /\ Len(b) = PayloadChunks + 1
      /\ \A k \in 1..(PayloadChunks + 1) : b[k] = [frame |-> f, part |-> k - 1]
  BY <1>1, FrameBytes
<1> HIDE DEF f, b
<1>3. /\ Len(s) \in Nat /\ t \in Seq(Chunk) /\ Len(t) = Len(s) + PayloadChunks + 1
      /\ \A k \in 1..Len(s) : t[k] = s[k]
      /\ \A k \in 1..(PayloadChunks + 1) : t[Len(s) + k] = b[k]
      /\ s = <<>> <=> Len(s) = 0
  <2>1. /\ t \in Seq(Chunk) /\ Len(t) = Len(s) + Len(b)
        /\ \A k \in 1..Len(s) : t[k] = s[k]
        /\ \A k \in 1..Len(b) : t[Len(s) + k] = b[k]
        /\ s = <<>> <=> Len(s) = 0
    BY <1>2, Joined
  <2>2. Len(s) \in Nat
    OBVIOUS
  <2> QED
    BY <1>0, <1>2, <2>1, <2>2
<1> HIDE DEF t
<1>4. \A k \in 1..(PayloadChunks + 1) : t[Len(s) + k] = [frame |-> f, part |-> k - 1]
  BY <1>2, <1>3
<1>5. ASSUME NEW k \in 1..Len(t) PROVE Logged(L, t[k].frame) /\ At(L, t[k].frame) < c + 1
  <2>1. CASE k \in 1..Len(s)
    <3>1. t[k] = s[k] /\ Logged(L, s[k].frame) /\ At(L, s[k].frame) < c
      BY <1>3, <2>1 DEF Chained
    <3>2. At(L, s[k].frame) \in 1..Len(L)
      BY <3>1, AtLogged
    <3> QED
      BY <1>0, <3>1, <3>2
  <2>2. CASE k > Len(s)
    <3> DEFINE j == k - Len(s)
    <3>1. j \in 1..(PayloadChunks + 1) /\ k = Len(s) + j
      BY <1>0, <1>3, <2>2
    <3> HIDE DEF j
    <3>2. t[Len(s) + j] = [frame |-> f, part |-> j - 1]
      BY <1>4, <3>1
    <3>3. t[k].frame = f
      BY <3>1, <3>2
    <3> QED
      BY <1>0, <1>1, <3>3
  <2> QED
    BY <1>3, <2>1, <2>2
<1>6. ASSUME NEW k \in 1..(Len(t) - 1) PROVE Follows(L, t[k], t[k + 1])
  <2>1. CASE k < Len(s)
    <3>1. k \in 1..(Len(s) - 1) /\ k \in 1..Len(s) /\ k + 1 \in 1..Len(s)
      BY <1>3, <2>1
    <3>2. Follows(L, s[k], s[k + 1]) /\ t[k] = s[k] /\ t[k + 1] = s[k + 1]
      BY <1>3, <3>1 DEF Chained
    <3> QED
      BY <3>2
  <2>2. CASE k = Len(s)
    <3>1. Len(s) \in 1..Len(s) /\ 1 \in 1..(PayloadChunks + 1) /\ s # <<>>
      BY <1>0, <1>3, <2>2
    <3>2. s[Len(s)].part = PayloadChunks /\ Leads(L, At(L, s[Len(s)].frame), c)
      BY <3>1 DEF Ends
    <3>3. t[Len(s) + 1].frame = f /\ t[Len(s) + 1].part = 0
      <4>1. t[Len(s) + 1] = [frame |-> f, part |-> 1 - 1]
        BY <1>4, <3>1
      <4> QED
        BY <4>1
    <3>4. t[Len(s)] = s[Len(s)]
      BY <1>3, <3>1
    <3> QED
      BY <1>1, <2>2, <3>2, <3>3, <3>4 DEF Follows
  <2>3. CASE k > Len(s)
    <3> DEFINE j == k - Len(s)
    <3>1. /\ j \in 1..(PayloadChunks + 1) /\ k = Len(s) + j
          /\ j + 1 \in 1..(PayloadChunks + 1) /\ k + 1 = Len(s) + (j + 1)
      BY <1>0, <1>3, <2>3
    <3> HIDE DEF j
    <3>2. t[k] = [frame |-> f, part |-> j - 1] /\ t[k + 1] = [frame |-> f, part |-> j + 1 - 1]
      BY <1>4, <3>1
    <3>3. t[k].frame = f /\ t[k + 1].frame = f /\ t[k].part = j - 1 /\ t[k + 1].part = j
      BY <3>1, <3>2
    <3> QED
      BY <3>1, <3>3 DEF Follows
  <2> QED
    BY <1>3, <2>1, <2>2, <2>3
<1>7. Chained(L, t, c + 1)
  BY <1>5, <1>6 DEF Chained
<1>8. t # <<>>
  BY <1>0, <1>3, EmptyIsShort
<1>9. Begins(L, t, newest)
  <2>1. CASE s = <<>>
    <3>1. 1 \in 1..(PayloadChunks + 1) /\ Len(s) + 1 = 1
      BY <1>0, <1>3, <2>1
    <3>2. t[1].part = 0 /\ t[1].frame = f
      <4>1. t[Len(s) + 1] = [frame |-> f, part |-> 1 - 1]
        BY <1>4, <3>1
      <4> QED
        BY <3>1, <4>1
    <3>3. Leads(L, newest, c)
      BY <2>1 DEF Ends
    <3> QED
      BY <1>1, <3>2, <3>3 DEF Begins
  <2>2. CASE s # <<>>
    <3>1. 1 \in 1..Len(s)
      BY <1>3, <2>2
    <3> QED
      BY <1>3, <2>2, <3>1 DEF Begins
  <2> QED
    BY <2>1, <2>2
<1>10. Ends(L, t, newest, c + 1)
  <2>1. PayloadChunks + 1 \in 1..(PayloadChunks + 1) /\ Len(t) = Len(s) + (PayloadChunks + 1)
    BY <1>0, <1>3
  <2>2. PICK j \in 1..(PayloadChunks + 1) : j = PayloadChunks + 1
    BY <2>1
  <2>3. t[Len(s) + j] = [frame |-> f, part |-> j - 1]
    BY <1>4
  <2>4. Len(t) = Len(s) + j
    BY <2>1, <2>2
  <2>5. t[Len(t)].frame = f /\ t[Len(t)].part = j - 1
    BY <2>3, <2>4
  <2>6. j - 1 = PayloadChunks
    BY <1>0, <2>2
  <2> QED
    BY <1>1, <1>8, <2>5, <2>6 DEF Ends
<1> QED
  BY <1>3, <1>7, <1>9, <1>10 DEF t, b, f

\* The place of the last frame of a stream; before the first, the newest delivered.
LastPlace(L, s, newest) == IF s = <<>> THEN newest ELSE At(L, s[Len(s)].frame)

\* The frame at the cursor becomes the last of the stream.
LEMMA LastTaken ==
    ASSUME NEW L \in Seq(Frame), Distinct(L), NEW s \in Seq(Chunk), NEW c \in 1..Len(L), NEW newest
    PROVE  LastPlace(L, s \o Bytes(L[c]), newest) = c
<1> DEFINE b == Bytes(L[c])
           t == s \o b
<1>1. /\ L[c] \in Frame /\ b \in Seq(Chunk) /\ Len(b) = PayloadChunks + 1
      /\ \A k \in 1..(PayloadChunks + 1) : b[k] = [frame |-> L[c], part |-> k - 1]
      /\ PayloadChunks \in Nat /\ Len(s) \in Nat
  BY FrameBytes, CapacityAssumption
<1>2. PICK k \in 1..(PayloadChunks + 1) : k = PayloadChunks + 1
  BY <1>1
<1> HIDE DEF b
<1>3. t \in Seq(Chunk) /\ Len(t) = Len(s) + k /\ t[Len(s) + k] = b[k]
  BY <1>1, <1>2, Joined
<1>4. t # <<>>
  <2>1. Len(t) # 0
    BY <1>1, <1>3
  <2> QED
    BY <1>3, <2>1, EmptyIsShort
<1>5. t[Len(t)].frame = L[c]
  <2>1. b[k] = [frame |-> L[c], part |-> k - 1]
    BY <1>1
  <2> QED
    BY <1>3, <2>1
<1> HIDE DEF t
<1>6. LastPlace(L, t, newest) = c
  BY <1>4, <1>5, AtPlace DEF LastPlace
<1> QED
  BY <1>6 DEF t, b

\* Taking the first frame off a stream leaves its last place where it was.
LEMMA LastKept ==
    ASSUME NEW L, NEW b \in Seq(Chunk), b # <<>>, NEW t \in Seq(Chunk), NEW newest
    PROVE  LastPlace(L, b \o t, newest) = LastPlace(L, t, At(L, b[Len(b)].frame))
<1>1. /\ Len(b) \in Nat /\ Len(t) \in Nat /\ Len(b \o t) = Len(b) + Len(t)
      /\ b \o t \in Seq(Chunk)
      /\ \A k \in 1..Len(t) : (b \o t)[Len(b) + k] = t[k]
  BY Joined
<1>2. Len(b) > 0 /\ Len(b \o t) # 0
  BY <1>1
<1>3. b \o t # <<>>
  BY <1>1, <1>2, EmptyIsShort
<1>4. CASE t = <<>>
  <2>1. b \o t = b
    BY <1>4
  <2> QED
    BY <1>4, <2>1 DEF LastPlace
<1>5. CASE t # <<>>
  <2>1. Len(t) \in 1..Len(t)
    BY <1>5
  <2>2. (b \o t)[Len(b \o t)] = t[Len(t)]
    BY <1>1, <2>1
  <2> QED
    BY <1>3, <1>5, <2>2 DEF LastPlace
<1> QED
  BY <1>4, <1>5

\* A reader that has collected one frame from the front of a stream.
FirstFrame(s) == \A k \in 1..Len(s) : s[k] = [frame |-> s[1].frame, part |-> k - 1]

\* The next chunk of the stream belongs to the frame that is being collected.
LEMMA CollectsOne ==
    ASSUME NEW L, NEW s \in Seq(Chunk), NEW c \in Chunk, NEW newest, NEW cursor,
           Len(s) < PayloadChunks + 1, FirstFrame(s),
           Chained(L, Append(s, c), cursor), Begins(L, Append(s, c), newest)
    PROVE  FirstFrame(Append(s, c)) /\ Len(Append(s, c)) <= PayloadChunks + 1
<1> DEFINE t == Append(s, c)
<1>0. PayloadChunks \in Nat \ {0} /\ Len(s) \in Nat
  BY CapacityAssumption
<1>1. /\ t \in Seq(Chunk) /\ Len(t) = Len(s) + 1 /\ t[Len(s) + 1] = c
      /\ \A k \in 1..Len(s) : t[k] = s[k]
  BY <1>0
<1> HIDE DEF t
<1>2. c = [frame |-> t[1].frame, part |-> Len(s)]
  <2>1. c = [frame |-> c.frame, part |-> c.part]
    BY DEF Chunk
  <2>2. CASE Len(s) = 0
    <3>1. t # <<>> /\ t[1] = c
      <4>1. Len(t) = 1 /\ Len(s) + 1 = 1
        BY <1>1, <2>2
      <4> QED
        BY <1>1, <4>1, EmptyIsShort
    <3>2. c.part = 0
      BY <3>1 DEF Begins, t
    <3> QED
      BY <2>1, <2>2, <3>1, <3>2
  <2>3. CASE Len(s) > 0
    <3>1. Len(s) \in 1..(Len(t) - 1) /\ Len(s) \in 1..Len(s) /\ 1 \in 1..Len(s)
      BY <1>0, <1>1, <2>3
    <3>2. Follows(L, t[Len(s)], t[Len(s) + 1])
      BY <3>1 DEF Chained, t
    <3>3. t[Len(s)] = [frame |-> t[1].frame, part |-> Len(s) - 1]
      BY <1>1, <3>1 DEF FirstFrame
    <3>4. t[Len(s)].part = Len(s) - 1 /\ t[Len(s)].frame = t[1].frame
      BY <3>3
    <3>5. t[Len(s)].part # PayloadChunks
      BY <1>0, <3>4
    <3>6. c.frame = t[1].frame /\ c.part = Len(s) - 1 + 1
      BY <1>1, <3>2, <3>4, <3>5 DEF Follows
    <3> QED
      BY <1>0, <2>1, <3>6
  <2> QED
    BY <1>0, <2>2, <2>3
<1>3. ASSUME NEW k \in 1..Len(t) PROVE t[k] = [frame |-> t[1].frame, part |-> k - 1]
  <2>1. CASE k \in 1..Len(s)
    <3>1. 1 \in 1..Len(s)
      BY <1>0, <2>1
    <3>2. t[k] = s[k] /\ t[1] = s[1]
      BY <1>1, <2>1, <3>1
    <3> QED
      BY <2>1, <3>2 DEF FirstFrame
  <2>2. CASE k = Len(s) + 1
    <3>1. k - 1 = Len(s)
      BY <1>0, <2>2
    <3> QED
      BY <1>1, <1>2, <2>2, <3>1
  <2> QED
    BY <1>0, <1>1, <2>1, <2>2
<1> QED
  BY <1>0, <1>1, <1>3 DEF FirstFrame, t

\* A frame that is complete: what RecvFrame finds and passes on.
LEMMA FrameComplete ==
    ASSUME NEW s \in Seq(Chunk), IsComplete(s), FirstFrame(s)
    PROVE  /\ s # <<>> /\ s[1].frame \in Frame /\ IsFrame(s)
           /\ s[Len(s)].frame = s[1].frame /\ s[Len(s)].part = PayloadChunks
           /\ Tail(s) = Payload(s[1].frame)
<1>0. PayloadChunks \in Nat \ {0} /\ Len(s) = PayloadChunks + 1
  BY CapacityAssumption DEF IsComplete
<1>1. 1 \in 1..Len(s) /\ Len(s) \in 1..Len(s) /\ s # <<>>
  BY <1>0, EmptyIsShort
<1>2. s[1].frame \in Frame
  <2>1. s[1] \in Chunk
    BY <1>1
  <2> QED
    BY <2>1 DEF Chunk
<1>3. s[1] = [frame |-> s[1].frame, part |-> 1 - 1]
      /\ s[Len(s)] = [frame |-> s[1].frame, part |-> PayloadChunks + 1 - 1]
  BY <1>0, <1>1 DEF FirstFrame
<1>4. s[Len(s)].frame = s[1].frame /\ s[Len(s)].part = PayloadChunks /\ s[1].part = 0
  BY <1>0, <1>3
<1>5. Head(s) = s[1]
  BY <1>1
<1>6. IsFrame(s)
  BY <1>4, <1>5 DEF IsFrame
<1>7. s = Bytes(s[1].frame)
  <2> DEFINE f == s[1].frame
  <2>1. /\ Bytes(f) \in Seq(Chunk) /\ Len(Bytes(f)) = PayloadChunks + 1
        /\ \A k \in 1..(PayloadChunks + 1) : Bytes(f)[k] = [frame |-> f, part |-> k - 1]
    BY <1>2, FrameBytes
  <2>2. \A k \in 1..Len(s) : s[k] = Bytes(f)[k]
    BY <1>0, <2>1 DEF FirstFrame
  <2> HIDE DEF f
  <2>3. s = Bytes(f)
    BY <1>0, <2>1, <2>2, SeqEqual
  <2> QED
    BY <2>3 DEF f
<1> QED
  BY <1>1, <1>2, <1>4, <1>6, <1>7 DEF Payload

-----------------------------------------------------------------------------
(* Places of payloads *)

PlaceIn(L, payload) ==
    IF \E i \in 1..Len(L) : Payload(L[i]) = payload
    THEN CHOOSE i \in 1..Len(L) : Payload(L[i]) = payload
    ELSE 0

NewestIn(L, r, since) == IF r = <<>> THEN since ELSE PlaceIn(L, r[Len(r)])

DeliveredIn(L, r) == {PlaceIn(L, r[i]) : i \in 1..Len(r)}

\* Payloads of frames that are in the log.
FromLog(L, r) == \A k \in 1..Len(r) : \E i \in 1..Len(L) : r[k] = Payload(L[i])

LEMMA DistinctLog ==
    ASSUME NEW L \in Seq(Frame),
           \A i, j \in 1..Len(L) : i < j /\ L[i].from = L[j].from => L[i].n < L[j].n
    PROVE  Distinct(L)
<1> SUFFICES ASSUME NEW i \in 1..Len(L), NEW j \in 1..Len(L), L[i] = L[j], i # j
             PROVE  FALSE
  BY DEF Distinct
<1>1. L[i].n \in Nat
  BY FrameFields
<1>2. i < j \/ j < i
  OBVIOUS
<1> QED
  BY <1>1, <1>2

LEMMA PlaceIs ==
    ASSUME NEW L \in Seq(Frame), Distinct(L), NEW i \in 1..Len(L)
    PROVE  PlaceIn(L, Payload(L[i])) = i
<1>1. ASSUME NEW j \in 1..Len(L), Payload(L[j]) = Payload(L[i]) PROVE j = i
  <2>1. L[i] \in Frame /\ L[j] \in Frame /\ 1 \in 1..PayloadChunks
    BY CapacityAssumption
  <2>2. Payload(L[i])[1] = [frame |-> L[i], part |-> 1]
        /\ Payload(L[j])[1] = [frame |-> L[j], part |-> 1]
    BY <2>1, FrameBytes
  <2>3. Payload(L[i])[1].frame = L[i] /\ Payload(L[j])[1].frame = L[j]
    BY <2>2
  <2>4. L[i] = L[j]
    BY <1>1, <2>3
  <2> QED
    BY <2>4 DEF Distinct
<1> DEFINE P(j) == Payload(L[j]) = Payload(L[i])
<1>2. \E j \in 1..Len(L) : P(j)
  OBVIOUS
<1>3. \A j \in 1..Len(L) : P(j) => j = i
  BY <1>1
<1> HIDE DEF P
<1>4. (CHOOSE j \in 1..Len(L) : P(j)) = i
  BY <1>2, <1>3
<1> QED
  BY <1>2, <1>4 DEF PlaceIn, P

LEMMA PlaceGrows ==
    ASSUME NEW L \in Seq(Frame), NEW g \in Frame, Distinct(L), Distinct(Append(L, g)),
           NEW p, \E i \in 1..Len(L) : p = Payload(L[i])
    PROVE  PlaceIn(Append(L, g), p) = PlaceIn(L, p)
<1>1. PICK i \in 1..Len(L) : p = Payload(L[i])
  OBVIOUS
<1> DEFINE M == Append(L, g)
<1>2. M \in Seq(Frame) /\ i \in 1..Len(M) /\ M[i] = L[i]
  OBVIOUS
<1>3. PlaceIn(L, Payload(L[i])) = i
  BY PlaceIs
<1> HIDE DEF M
<1>4. PlaceIn(M, Payload(M[i])) = i
  BY <1>2, PlaceIs DEF M
<1> QED
  BY <1>1, <1>2, <1>3, <1>4 DEF M

LEMMA PlaceBound ==
    ASSUME NEW L \in Seq(Frame), NEW p
    PROVE  PlaceIn(L, p) \in 0..Len(L)
<1> DEFINE P(i) == Payload(L[i]) = p
<1>1. CASE \E i \in 1..Len(L) : P(i)
  <2> HIDE DEF P
  <2>1. (CHOOSE i \in 1..Len(L) : P(i)) \in 1..Len(L)
    BY <1>1
  <2> QED
    BY <1>1, <2>1 DEF PlaceIn, P
<1>2. CASE ~\E i \in 1..Len(L) : P(i)
  BY <1>2 DEF PlaceIn
<1> QED
  BY <1>1, <1>2

LEMMA NewestBound ==
    ASSUME NEW L \in Seq(Frame), NEW r, NEW since \in 0..Len(L)
    PROVE  NewestIn(L, r, since) \in 0..Len(L)
BY PlaceBound DEF NewestIn

LEMMA DeliveredGrows ==
    ASSUME NEW L \in Seq(Frame), NEW g \in Frame, Distinct(L), Distinct(Append(L, g)),
           NEW r \in Seq(Seq(Chunk)), FromLog(L, r), NEW since
    PROVE  /\ FromLog(Append(L, g), r)
           /\ NewestIn(Append(L, g), r, since) = NewestIn(L, r, since)
           /\ DeliveredIn(Append(L, g), r) = DeliveredIn(L, r)
<1> DEFINE M == Append(L, g)
<1>1. \A k \in 1..Len(r) : PlaceIn(M, r[k]) = PlaceIn(L, r[k])
  BY PlaceGrows DEF FromLog
<1>2. \A i \in 1..Len(L) : i \in 1..Len(M) /\ M[i] = L[i]
  OBVIOUS
<1>3. r # <<>> => Len(r) \in 1..Len(r)
  OBVIOUS
<1> HIDE DEF M
<1>4. FromLog(M, r)
  <2> SUFFICES ASSUME NEW k \in 1..Len(r) PROVE \E i \in 1..Len(M) : r[k] = Payload(M[i])
    BY DEF FromLog
  <2>1. PICK i \in 1..Len(L) : r[k] = Payload(L[i])
    BY DEF FromLog
  <2> QED
    BY <1>2, <2>1
<1>5. NewestIn(M, r, since) = NewestIn(L, r, since)
  BY <1>1, <1>3 DEF NewestIn
<1>6. DeliveredIn(M, r) = DeliveredIn(L, r)
  BY <1>1 DEF DeliveredIn
<1> QED
  BY <1>4, <1>5, <1>6 DEF M

\* One more frame is delivered.
LEMMA AppendPayload ==
    ASSUME NEW L \in Seq(Frame), NEW r \in Seq(Seq(Chunk)), NEW i \in 1..Len(L)
    PROVE  LET q == Append(r, Payload(L[i])) IN
           /\ Len(q) = Len(r) + 1 /\ Len(r) \in Nat /\ q # <<>>
           /\ q[Len(r) + 1] = Payload(L[i]) /\ \A k \in 1..Len(r) : q[k] = r[k]
<1> DEFINE S == Seq(Chunk)
           e == Payload(L[i])
<1>1. r \in Seq(S) /\ e \in S
  BY FrameBytes
<1> HIDE DEF S, e
<1>2. /\ Append(r, e) \in Seq(S) /\ Len(Append(r, e)) = Len(r) + 1 /\ Len(r) \in Nat
      /\ Append(r, e)[Len(r) + 1] = e
      /\ \A k \in 1..Len(r) : Append(r, e)[k] = r[k]
  BY <1>1
<1>3. Append(r, e) # <<>>
  BY <1>1
<1> QED
  BY <1>2, <1>3 DEF S, e

LEMMA LogsOneMore ==
    ASSUME NEW L \in Seq(Frame), NEW r \in Seq(Seq(Chunk)), FromLog(L, r), NEW i \in 1..Len(L)
    PROVE  FromLog(L, Append(r, Payload(L[i])))
<1> DEFINE q == Append(r, Payload(L[i]))
<1>1. /\ Len(q) = Len(r) + 1 /\ Len(r) \in Nat
      /\ q[Len(r) + 1] = Payload(L[i]) /\ \A k \in 1..Len(r) : q[k] = r[k]
  BY AppendPayload
<1> HIDE DEF q
<1>2. ASSUME NEW k \in 1..Len(q) PROVE \E j \in 1..Len(L) : q[k] = Payload(L[j])
  <2>1. CASE k \in 1..Len(r)
    BY <1>1, <2>1 DEF FromLog
  <2>2. CASE k = Len(r) + 1
    BY <1>1, <2>2
  <2> QED
    BY <1>1, <2>1, <2>2
<1>3. FromLog(L, q)
  BY <1>2 DEF FromLog
<1> QED
  BY <1>3 DEF q

LEMMA NewestOneMore ==
    ASSUME NEW L \in Seq(Frame), Distinct(L), NEW r \in Seq(Seq(Chunk)), NEW i \in 1..Len(L),
           NEW since
    PROVE  NewestIn(L, Append(r, Payload(L[i])), since) = i
<1> DEFINE q == Append(r, Payload(L[i]))
<1>1. q # <<>> /\ q[Len(q)] = Payload(L[i])
  BY AppendPayload
<1> HIDE DEF q
<1>2. NewestIn(L, q, since) = i
  BY <1>1, PlaceIs DEF NewestIn
<1> QED
  BY <1>2 DEF q

LEMMA DeliversOneMore ==
    ASSUME NEW L \in Seq(Frame), Distinct(L), NEW r \in Seq(Seq(Chunk)), NEW i \in 1..Len(L)
    PROVE  /\ i \in DeliveredIn(L, Append(r, Payload(L[i])))
           /\ \A x \in DeliveredIn(L, r) : x \in DeliveredIn(L, Append(r, Payload(L[i])))
<1> DEFINE q == Append(r, Payload(L[i]))
<1>1. /\ Len(q) = Len(r) + 1 /\ Len(r) \in Nat
      /\ q[Len(r) + 1] = Payload(L[i]) /\ \A k \in 1..Len(r) : q[k] = r[k]
  BY AppendPayload
<1> HIDE DEF q
<1>2. i \in DeliveredIn(L, q)
  <2>1. Len(r) + 1 \in 1..Len(q)
    BY <1>1
  <2>2. PlaceIn(L, Payload(L[i])) = i
    BY PlaceIs
  <2> QED
    BY <1>1, <2>1, <2>2 DEF DeliveredIn
<1>3. ASSUME NEW x \in DeliveredIn(L, r) PROVE x \in DeliveredIn(L, q)
  <2>1. PICK k \in 1..Len(r) : x = PlaceIn(L, r[k])
    BY <1>3 DEF DeliveredIn
  <2>2. k \in 1..Len(q) /\ q[k] = r[k]
    BY <1>1
  <2> QED
    BY <2>1, <2>2 DEF DeliveredIn
<1> QED
  BY <1>2, <1>3 DEF q

-----------------------------------------------------------------------------
(* The invariant of a connection *)

\* Both ends can still use the connection.
Usable(l) == l \notin broken /\ receiver[l].stage # "ended"

InFlight(l) == IF Usable(l) THEN wire[l] \o sender[l].out ELSE <<>>

\* What has been collected or will be, if nothing more is lost.
Stream(l) == receiver[l].buffer \o InFlight(l)

Streaming(l) ==
    /\ Chained(log, Stream(l), sender[l].cursor)
    /\ Begins(log, Stream(l), Newest(l))
    /\ Usable(l) /\ sender[l].stage \in {"select", "sending"}
         => Ends(log, Stream(l), Newest(l), sender[l].cursor)

\* Nothing is sent before the task has subscribed.
Fresh(l) ==
    l \notin Subscribed => received[l] = <<>> /\ wire[l] = <<>> /\ receiver[l].buffer = <<>>

\* The buffer holds the beginning of one frame; what was delivered is in the log.
Reading(l) ==
    /\ FirstFrame(receiver[l].buffer) /\ Len(receiver[l].buffer) <= PayloadChunks + 1
    /\ FromLog(log, received[l])

\* SkipsOnlyOverwritten, for one connection.
Skips(l) ==
    \A i \in (sender[l].since + 1)..Newest(l) :
        i \in Delivered(l) \/ i + BroadcastCapacity <= Len(log)

\* A task that has taken every frame there is has taken the newest one last.
CaughtUp(l) ==
    Usable(l) /\ sender[l].stage \in {"select", "sending"} /\ sender[l].cursor = Len(log) + 1
        => LastPlace(log, Stream(l), Newest(l)) = Len(log)

ConnInv(l) == Streaming(l) /\ Fresh(l) /\ Reading(l) /\ Skips(l) /\ CaughtUp(l)

LEMMA NewestDef ==
    ASSUME NEW l \in Link
    PROVE  /\ Newest(l) = NewestIn(log, received[l], sender[l].since)
           /\ Newest(l)' = NewestIn(log', received'[l], sender'[l].since)
           /\ Delivered(l) = DeliveredIn(log, received[l])
           /\ Delivered(l)' = DeliveredIn(log', received'[l])
BY DEF Newest, NewestIn, Place, PlaceIn, Delivered, DeliveredIn

LEMMA Context ==
    ASSUME Typed, Kept, NEW l \in Link
    PROVE  /\ log \in Seq(Frame) /\ Len(log) \in Nat /\ Distinct(log)
           /\ sender[l].cursor \in 1..(Len(log) + 1) /\ sender[l].since \in 0..Len(log)
           /\ receiver[l].buffer \in Seq(Chunk) /\ wire[l] \in Seq(Chunk)
           /\ sender[l].out \in Seq(Chunk) /\ received[l] \in Seq(Seq(Chunk))
           /\ sender[l].stage # "sending" <=> sender[l].out = <<>>
           /\ InFlight(l) \in Seq(Chunk) /\ Stream(l) \in Seq(Chunk)
           /\ Newest(l) \in 0..Len(log)
<1>1. log \in Seq(Frame) /\ Len(log) \in Nat
  BY DEF Typed, TypeOK
<1>2. Distinct(log)
  BY <1>1, DistinctLog DEF Kept, NoCaptureLost
<1>3. /\ sender[l].cursor \in 1..(MaxLog + 1) /\ sender[l].since \in 0..MaxLog
      /\ receiver[l].buffer \in Seq(Chunk) /\ wire[l] \in Seq(Chunk)
      /\ sender[l].out \in Seq(Chunk) /\ received[l] \in Seq(Seq(Chunk))
  BY EndTypes DEF Typed
<1>4. sender[l].cursor <= Len(log) + 1 /\ sender[l].since <= Len(log)
  BY DEF Typed, Counted
<1>5. sender[l].cursor \in 1..(Len(log) + 1) /\ sender[l].since \in 0..Len(log)
  BY <1>1, <1>3, <1>4
<1>6. InFlight(l) \in Seq(Chunk)
  <2>1. wire[l] \o sender[l].out \in Seq(Chunk) /\ <<>> \in Seq(Chunk)
    BY <1>3, Joined
  <2> QED
    BY <2>1 DEF InFlight
<1>7. Stream(l) \in Seq(Chunk)
  BY <1>3, <1>6, Joined DEF Stream
<1>8. Newest(l) \in 0..Len(log)
  BY <1>1, <1>5, NewestBound, NewestDef
<1> QED
  BY <1>1, <1>2, <1>3, <1>5, <1>6, <1>7, <1>8 DEF Typed, Writing

\* Steps that change neither the stream nor what was delivered.
LEMMA Carried ==
    ASSUME NEW l \in Link, Streaming(l), Skips(l), CaughtUp(l),
           log' = log, Stream(l)' = Stream(l), received'[l] = received[l],
           sender'[l].cursor = sender[l].cursor, sender'[l].since = sender[l].since,
           Usable(l)' /\ sender'[l].stage \in {"select", "sending"}
             => Usable(l) /\ sender[l].stage \in {"select", "sending"}
    PROVE  Streaming(l)' /\ Skips(l)' /\ CaughtUp(l)' /\ Newest(l)' = Newest(l)
<1>1. Newest(l)' = Newest(l) /\ Delivered(l)' = Delivered(l)
  BY NewestDef
<1>2. Streaming(l)'
  BY <1>1 DEF Streaming
<1>3. Skips(l)'
  BY <1>1 DEF Skips
<1>4. CaughtUp(l)'
  BY <1>1 DEF CaughtUp
<1> QED
  BY <1>1, <1>2, <1>3, <1>4

\* Steps that cut the stream off.
LEMMA Cut ==
    ASSUME Typed, Kept, NEW l \in Link, Streaming(l), Skips(l),
           NEW t \in Seq(Chunk), Stream(l)' \in Seq(Chunk), Stream(l) = Stream(l)' \o t,
           log' = log, received'[l] = received[l],
           sender'[l].cursor = sender[l].cursor, sender'[l].since = sender[l].since,
           ~(Usable(l)' /\ sender'[l].stage \in {"select", "sending"})
    PROVE  Streaming(l)' /\ Skips(l)' /\ CaughtUp(l)' /\ Newest(l)' = Newest(l)
<1>1. Newest(l)' = Newest(l) /\ Delivered(l)' = Delivered(l)
  BY NewestDef
<1>2. Chained(log, Stream(l)', sender[l].cursor) /\ Begins(log, Stream(l)', Newest(l))
  BY ChainedPrefix DEF Streaming
<1>3. Streaming(l)'
  BY <1>1, <1>2 DEF Streaming
<1>4. Skips(l)'
  BY <1>1 DEF Skips
<1>5. CaughtUp(l)'
  BY DEF CaughtUp
<1> QED
  BY <1>1, <1>3, <1>4, <1>5

\* A step of another connection.
LEMMA Unaffected ==
    ASSUME NEW l \in Link, ConnInv(l), log' = log,
           sender'[l] = sender[l], receiver'[l] = receiver[l], wire'[l] = wire[l],
           received'[l] = received[l], l \in broken' <=> l \in broken
    PROVE  ConnInv(l)' /\ Newest(l)' = Newest(l)
<1>1. Usable(l)' <=> Usable(l)
  BY DEF Usable
<1>2. InFlight(l)' = InFlight(l)
  BY <1>1 DEF InFlight
<1>3. Stream(l)' = Stream(l)
  BY <1>2 DEF Stream
<1>4. Streaming(l)' /\ Skips(l)' /\ CaughtUp(l)' /\ Newest(l)' = Newest(l)
  BY <1>1, <1>3, Carried DEF ConnInv
<1> QED
  BY <1>4 DEF ConnInv, Fresh, Reading, Subscribed

\* Only the connection that takes the step is touched by it.
LEMMA Others ==
    ASSUME Typed, NEW l \in Link, SenderStep(l) \/ ReceiverStep(l), NEW m \in Link, m # l
    PROVE  /\ sender'[m] = sender[m] /\ receiver'[m] = receiver[m] /\ wire'[m] = wire[m]
           /\ received'[m] = received[m] /\ (m \in broken' <=> m \in broken)
<1>1. /\ sender \in [Link -> SenderState] /\ receiver \in [Link -> ReceiverState]
      /\ wire \in [Link -> Seq(Chunk)] /\ received \in [Link -> Seq(Seq(Chunk))]
  BY DEF Typed, TypeOK
<1>2. CASE SenderStep(l)
  BY <1>1, <1>2 DEF SenderStep, Register, Subscribe, TakeFrame, SkipLagged, WriteChunk,
       SendTimesOut, NoticePeerGone, NoticeClose, DropCloseHandle
<1>3. CASE ReceiverStep(l)
  BY <1>1, <1>3 DEF ReceiverStep, Break, Accept, ReadChunk, RecvFrame, WriteDone, ReadEnds
<1> QED
  BY <1>2, <1>3

-----------------------------------------------------------------------------
(* Steps of a connection *)

LEMMA QuietSteps ==
    ASSUME Typed, Kept, NEW l \in Link, ConnInv(l),
           Register(l) \/ NoticeClose(l) \/ DropCloseHandle(l) \/ Accept(l) \/ WriteDone(l)
    PROVE  ConnInv(l)' /\ Newest(l)' = Newest(l)
<1>1. /\ sender \in [Link -> SenderState] /\ receiver \in [Link -> ReceiverState]
      /\ sender[l] \in SenderState /\ receiver[l] \in ReceiverState
  BY DEF Typed, TypeOK
<1>2. /\ UNCHANGED <<log, wire, broken, received>>
      /\ sender'[l].out = sender[l].out /\ sender'[l].cursor = sender[l].cursor
      /\ sender'[l].since = sender[l].since
      /\ receiver'[l].buffer = receiver[l].buffer
  BY <1>1 DEF Register, NoticeClose, DropCloseHandle, Accept, WriteDone, SenderState, ReceiverState
<1>3. /\ sender'[l].stage \in {"select", "sending"} => sender[l].stage \in {"select", "sending"}
      /\ \/ receiver'[l].stage = receiver[l].stage
         \/ receiver'[l].stage # "ended" /\ receiver[l].stage # "ended"
         \/ sender[l].stage = "unused" /\ sender'[l].stage = "registered"
  <2>1. CASE Register(l)
    BY <1>1, <2>1 DEF Register, SenderState
  <2>2. CASE NoticeClose(l)
    BY <1>1, <2>2 DEF NoticeClose, SenderState
  <2>3. CASE DropCloseHandle(l)
    BY <1>1, <2>3 DEF DropCloseHandle, SenderState
  <2>4. CASE Accept(l)
    BY <1>1, <2>4 DEF Accept, ReceiverState
  <2>5. CASE WriteDone(l)
    BY <1>1, <2>5 DEF WriteDone, ReceiverState
  <2> QED
    BY <2>1, <2>2, <2>3, <2>4, <2>5
<1>5. l \in Subscribed <=> l \in Subscribed'
  BY <1>1 DEF Register, NoticeClose, DropCloseHandle, Accept, WriteDone, Subscribed, SenderState
<1>6. Stream(l)' = Stream(l)
  <2>1. CASE \/ receiver'[l].stage = receiver[l].stage
             \/ receiver'[l].stage # "ended" /\ receiver[l].stage # "ended"
    <3>1. Usable(l)' <=> Usable(l)
      BY <1>2, <2>1 DEF Usable
    <3>2. InFlight(l)' = InFlight(l)
      BY <1>2, <3>1 DEF InFlight
    <3> QED
      BY <1>2, <3>2 DEF Stream
  <2>2. CASE sender[l].stage = "unused"
    <3>1. wire[l] = <<>> /\ sender[l].out = <<>>
      BY <2>2, Context DEF ConnInv, Fresh, Subscribed
    <3>2. wire[l] \o sender[l].out = <<>>
      BY <3>1
    <3>3. InFlight(l)' = <<>> /\ InFlight(l) = <<>>
      BY <1>2, <3>1, <3>2 DEF InFlight
    <3> QED
      BY <1>2, <3>3 DEF Stream
  <2> QED
    BY <1>3, <2>1, <2>2
<1>7. Usable(l)' /\ sender'[l].stage \in {"select", "sending"}
        => Usable(l) /\ sender[l].stage \in {"select", "sending"}
  BY <1>2, <1>3 DEF Usable
<1>8. Streaming(l)' /\ Skips(l)' /\ CaughtUp(l)' /\ Newest(l)' = Newest(l)
  BY <1>2, <1>6, <1>7, Carried DEF ConnInv
<1>9. Fresh(l)' /\ Reading(l)'
  BY <1>2, <1>5 DEF ConnInv, Fresh, Reading
<1> QED
  BY <1>8, <1>9 DEF ConnInv

\* The stream is dropped by the sending end, the network or the receiving end.
LEMMA LossSteps ==
    ASSUME Typed, Kept, NEW l \in Link, ConnInv(l),
           SendTimesOut(l) \/ NoticePeerGone(l) \/ Break(l) \/ ReadEnds(l)
    PROVE  ConnInv(l)' /\ Newest(l)' = Newest(l)
<1>1. /\ sender \in [Link -> SenderState] /\ receiver \in [Link -> ReceiverState]
      /\ sender[l] \in SenderState /\ receiver[l] \in ReceiverState
      /\ wire \in [Link -> Seq(Chunk)]
  BY DEF Typed, TypeOK
<1> DEFINE b == receiver[l].buffer
           w == wire[l]
           o == sender[l].out
<1>2. b \in Seq(Chunk) /\ w \in Seq(Chunk) /\ o \in Seq(Chunk) /\ InFlight(l) \in Seq(Chunk)
      /\ Stream(l) \in Seq(Chunk) /\ <<>> \in Seq(Chunk) /\ w \o o \in Seq(Chunk)
  BY Context, Joined
<1>3. /\ log' = log /\ received'[l] = received[l]
      /\ sender'[l].cursor = sender[l].cursor /\ sender'[l].since = sender[l].since
  BY <1>1 DEF SendTimesOut, NoticePeerGone, Break, ReadEnds, SenderState
<1>4. ~(Usable(l)' /\ sender'[l].stage \in {"select", "sending"})
  BY <1>1 DEF SendTimesOut, NoticePeerGone, Break, ReadEnds, SenderState, ReceiverState, Usable
<1>5. \E t \in Seq(Chunk) : Stream(l)' \in Seq(Chunk) /\ Stream(l) = Stream(l)' \o t
  <2>1. CASE SendTimesOut(l) \/ NoticePeerGone(l)
    <3>1. sender'[l].out = <<>> /\ UNCHANGED <<receiver, wire, broken>>
      <4>1. /\ sender' = [sender EXCEPT ![l].stage = "ended", ![l].out = <<>>]
            /\ UNCHANGED <<receiver, wire, broken>>
        BY <2>1 DEF SendTimesOut, NoticePeerGone
      <4> QED
        BY <1>1, <4>1 DEF SenderState
    <3>2. Usable(l)' <=> Usable(l)
      BY <3>1 DEF Usable
    <3>3. CASE Usable(l)
      <4>1. w \o <<>> = w
        BY <1>2
      <4>2. Stream(l)' = b \o w /\ Stream(l) = b \o (w \o o)
        BY <3>1, <3>2, <3>3, <4>1 DEF Stream, InFlight
      <4>3. b \o (w \o o) = (b \o w) \o o
        <5>1. b \in Seq(Chunk) /\ w \in Seq(Chunk) /\ o \in Seq(Chunk)
          BY <1>2
        <5> HIDE DEF b, w, o
        <5> QED
          BY <5>1, Regrouped
      <4>4. b \o w \in Seq(Chunk)
        BY <1>2, Joined
      <4> QED
        BY <1>2, <4>2, <4>3, <4>4
    <3>4. CASE ~Usable(l)
      <4>1. Stream(l)' = Stream(l)
        BY <3>1, <3>2, <3>4 DEF Stream, InFlight
      <4>2. Stream(l) \o <<>> = Stream(l)
        BY <1>2
      <4> QED
        BY <1>2, <4>1, <4>2
    <3> QED
      BY <3>3, <3>4
  <2>2. CASE Break(l)
    <3>1. l \in broken' /\ receiver' = receiver
      BY <2>2 DEF Break
    <3>2. InFlight(l)' = <<>>
      BY <3>1 DEF InFlight, Usable
    <3>3. Stream(l)' = b
      <4>1. b \o <<>> = b
        BY <1>2
      <4> QED
        BY <3>1, <3>2, <4>1 DEF Stream
    <3> QED
      BY <1>2, <3>3 DEF Stream
  <2>3. CASE ReadEnds(l)
    <3>1. receiver'[l].stage = "ended" /\ receiver'[l].buffer = <<>>
      BY <1>1, <2>3 DEF ReadEnds
    <3>2. InFlight(l)' = <<>>
      BY <3>1 DEF InFlight, Usable
    <3>3. Stream(l)' = <<>>
      BY <3>1, <3>2 DEF Stream
    <3>4. <<>> \o Stream(l) = Stream(l)
      BY <1>2
    <3> QED
      BY <1>2, <3>3, <3>4
  <2> QED
    BY <2>1, <2>2, <2>3
<1>6. Streaming(l)' /\ Skips(l)' /\ CaughtUp(l)' /\ Newest(l)' = Newest(l)
  <2> PICK t \in Seq(Chunk) : Stream(l)' \in Seq(Chunk) /\ Stream(l) = Stream(l)' \o t
    BY <1>5
  <2> QED
    BY <1>3, <1>4, Cut DEF ConnInv
<1>7. Fresh(l)'
  <2>1. l \in Subscribed => l \in Subscribed'
    BY <1>1 DEF SendTimesOut, NoticePeerGone, Break, ReadEnds, Subscribed, SenderState
  <2>2. /\ receiver'[l].buffer \in {receiver[l].buffer, <<>>}
        /\ wire'[l] \in {wire[l], <<>>}
    BY <1>1 DEF SendTimesOut, NoticePeerGone, Break, ReadEnds
  <2> QED
    BY <1>3, <2>1, <2>2 DEF ConnInv, Fresh
<1>8. Reading(l)'
  <2>1. receiver'[l].buffer = receiver[l].buffer \/ receiver'[l].buffer = <<>>
    BY <1>1 DEF SendTimesOut, NoticePeerGone, Break, ReadEnds
  <2>2. FirstFrame(<<>>) /\ Len(<<>>) <= PayloadChunks + 1
    BY CapacityAssumption DEF FirstFrame
  <2> QED
    BY <1>3, <2>1, <2>2 DEF ConnInv, Reading
<1> QED
  BY <1>6, <1>7, <1>8 DEF ConnInv

LEMMA SubscribeStep ==
    ASSUME Typed, Kept, NEW l \in Link, ConnInv(l), Subscribe(l)
    PROVE  ConnInv(l)' /\ Newest(l)' = Len(log)
<1>1. sender \in [Link -> SenderState] /\ sender[l] \in SenderState
  BY DEF Typed, TypeOK
<1>2. /\ UNCHANGED <<log, wire, broken, receiver, received>>
      /\ sender'[l].out = sender[l].out /\ sender'[l].cursor = Len(log) + 1
      /\ sender'[l].since = Len(log) /\ sender[l].stage = "registered"
      /\ sender'[l].stage = "select"
  BY <1>1 DEF Subscribe, SenderState
<1>3. l \notin Subscribed /\ l \in Subscribed'
  BY <1>2 DEF Subscribed
<1>4. received[l] = <<>> /\ wire[l] = <<>> /\ receiver[l].buffer = <<>>
  BY <1>3 DEF ConnInv, Fresh
<1>5. sender[l].out = <<>> /\ Len(log) \in Nat /\ log \in Seq(Frame)
  BY <1>2, Context
<1>6. Newest(l)' = Len(log)
  BY <1>2, <1>4, NewestDef DEF NewestIn
<1>7. Stream(l)' = <<>>
  <2>1. <<>> \o <<>> = <<>>
    OBVIOUS
  <2>2. InFlight(l)' = <<>>
    BY <1>2, <1>4, <1>5, <2>1 DEF InFlight
  <2> QED
    BY <1>2, <1>4, <2>1, <2>2 DEF Stream
<1>8. Streaming(l)'
  <2>1. Len(<<>>) = 0
    OBVIOUS
  <2>2. Chained(log, <<>>, Len(log) + 1) /\ Begins(log, <<>>, Len(log))
    BY <2>1 DEF Chained, Begins
  <2>3. Ends(log, <<>>, Len(log), Len(log) + 1)
    BY <1>5, LeadsNext DEF Ends
  <2> QED
    BY <1>2, <1>6, <1>7, <2>2, <2>3 DEF Streaming
<1>9. Skips(l)'
  BY <1>2, <1>5, <1>6 DEF Skips
<1>10. Fresh(l)' /\ Reading(l)'
  BY <1>2, <1>3 DEF ConnInv, Fresh, Reading
<1>11. CaughtUp(l)'
  BY <1>2, <1>6, <1>7 DEF CaughtUp, LastPlace
<1> QED
  BY <1>6, <1>8, <1>9, <1>10, <1>11 DEF ConnInv

\* A cursor that moves on over frames that are overwritten.
LEMMA SkipLaggedStep ==
    ASSUME Typed, Kept, NEW l \in Link, ConnInv(l), SkipLagged(l)
    PROVE  ConnInv(l)' /\ Newest(l)' = Newest(l)
<1>1. sender \in [Link -> SenderState] /\ sender[l] \in SenderState
  BY DEF Typed, TypeOK
<1>2. /\ UNCHANGED <<log, wire, broken, receiver, received>>
      /\ sender'[l].out = sender[l].out /\ sender'[l].cursor = Oldest
      /\ sender'[l].since = sender[l].since /\ sender[l].stage = "select"
      /\ sender'[l].stage = "select" /\ sender[l].cursor < Oldest
  BY <1>1 DEF SkipLagged, SenderState
<1> DEFINE s == Stream(l)
           n == Newest(l)
           c == sender[l].cursor
<1>3. /\ log \in Seq(Frame) /\ Len(log) \in Nat /\ s \in Seq(Chunk)
      /\ c \in Nat /\ n \in Nat /\ Oldest \in Nat /\ BroadcastCapacity \in Nat
  BY Context, OldestType, CapacityAssumption
<1>4. \A m \in c..(Oldest - 1) : m + BroadcastCapacity <= Len(log)
  <2>1. CASE Len(log) > BroadcastCapacity
    <3>1. Oldest = Len(log) - BroadcastCapacity + 1
      BY <2>1 DEF Oldest
    <3> QED
      BY <1>3, <3>1
  <2>2. CASE ~(Len(log) > BroadcastCapacity)
    <3>1. Oldest = 1 /\ c \in 1..(Len(log) + 1)
      BY <2>2, Context DEF Oldest
    <3> QED
      BY <1>2, <1>3, <3>1
  <2> QED
    BY <2>1, <2>2
<1>5. Stream(l)' = Stream(l) /\ (Usable(l)' <=> Usable(l))
  BY <1>2 DEF Stream, InFlight, Usable
<1>6. Newest(l)' = Newest(l) /\ Delivered(l)' = Delivered(l)
  BY <1>2, NewestDef
<1>7. Chained(log, s, Oldest)
  BY <1>2, <1>3, ChainedLater DEF ConnInv, Streaming
<1>8. Usable(l) => Ends(log, s, n, Oldest)
  <2> SUFFICES ASSUME Usable(l) PROVE Ends(log, s, n, Oldest)
    OBVIOUS
  <2>1. Ends(log, s, n, c)
    BY <1>2 DEF ConnInv, Streaming
  <2>2. \A i \in Nat : Leads(log, i, c) => Leads(log, i, Oldest)
    BY <1>2, <1>3, <1>4, LeadsSkips
  <2>3. s # <<>> => At(log, s[Len(s)].frame) \in Nat
    <3> SUFFICES ASSUME s # <<>> PROVE At(log, s[Len(s)].frame) \in Nat
      OBVIOUS
    <3>1. Len(s) \in 1..Len(s)
      BY <1>3
    <3>2. Logged(log, s[Len(s)].frame)
      BY <1>7, <3>1 DEF Chained
    <3> QED
      BY <1>3, <3>2, AtLogged
  <2> QED
    BY <1>3, <2>1, <2>2, <2>3 DEF Ends
<1>9. Streaming(l)'
  BY <1>2, <1>5, <1>6, <1>7, <1>8 DEF ConnInv, Streaming
<1>10. Skips(l)'
  BY <1>2, <1>6 DEF ConnInv, Skips
<1>11. Fresh(l)' /\ Reading(l)'
  BY <1>2 DEF ConnInv, Fresh, Reading, Subscribed
<1>12. CaughtUp(l)'
  <2>1. Oldest # Len(log) + 1
    <3>1. c >= 1 /\ BroadcastCapacity \in Nat \ {0}
      BY Context, CapacityAssumption
    <3> QED
      BY <1>2, <1>3, <3>1 DEF Oldest
  <2> QED
    BY <1>2, <2>1 DEF CaughtUp
<1> QED
  BY <1>6, <1>9, <1>10, <1>11, <1>12 DEF ConnInv

\* A frame joins the stream.
LEMMA TakeFrameStep ==
    ASSUME Typed, Kept, NEW l \in Link, ConnInv(l), TakeFrame(l)
    PROVE  ConnInv(l)' /\ Newest(l)' = Newest(l)
<1>1. sender \in [Link -> SenderState] /\ sender[l] \in SenderState
  BY DEF Typed, TypeOK
<1> DEFINE c == sender[l].cursor
           s == Stream(l)
           n == Newest(l)
<1>2. /\ UNCHANGED <<log, wire, broken, receiver, received>>
      /\ sender'[l].out = Bytes(log[c]) /\ sender'[l].cursor = c + 1
      /\ sender'[l].since = sender[l].since /\ sender[l].stage = "select"
      /\ sender'[l].stage = "sending" /\ c \in Oldest..Len(log)
  BY <1>1 DEF TakeFrame, SenderState
<1>3. /\ log \in Seq(Frame) /\ Distinct(log) /\ s \in Seq(Chunk) /\ n \in Nat
      /\ c \in 1..Len(log) /\ sender[l].out = <<>>
      /\ receiver[l].buffer \in Seq(Chunk) /\ wire[l] \in Seq(Chunk)
  <2>1. c \in 1..(Len(log) + 1) /\ Len(log) \in Nat /\ c <= Len(log)
    BY <1>2, Context, OldestType
  <2> QED
    BY <1>2, <2>1, Context
<1>4. Bytes(log[c]) \in Seq(Chunk)
  BY <1>3, FrameBytes
<1>5. (Usable(l)' <=> Usable(l)) /\ Newest(l)' = Newest(l) /\ Delivered(l)' = Delivered(l)
  BY <1>2, NewestDef DEF Usable
<1>6. Chained(log, s, c) /\ Begins(log, s, n)
  BY DEF ConnInv, Streaming
<1>7. Usable(l) => Stream(l)' = s \o Bytes(log[c])
  <2> SUFFICES ASSUME Usable(l) PROVE Stream(l)' = s \o Bytes(log[c])
    OBVIOUS
  <2>1. wire[l] \o <<>> = wire[l]
    BY <1>3
  <2>2. s = receiver[l].buffer \o wire[l]
    BY <1>3, <2>1 DEF Stream, InFlight
  <2>3. Stream(l)' = receiver[l].buffer \o (wire[l] \o Bytes(log[c]))
    BY <1>2, <1>5 DEF Stream, InFlight
  <2>4. (receiver[l].buffer \o wire[l]) \o Bytes(log[c])
          = receiver[l].buffer \o (wire[l] \o Bytes(log[c]))
    <3> DEFINE b == receiver[l].buffer
               w == wire[l]
               f == Bytes(log[c])
    <3>1. b \in Seq(Chunk) /\ w \in Seq(Chunk) /\ f \in Seq(Chunk)
      BY <1>3, <1>4
    <3> HIDE DEF b, w, f
    <3>2. (b \o w) \o f = b \o (w \o f)
      BY <3>1, Regrouped
    <3> QED
      BY <3>2 DEF b, w, f
  <2> QED
    BY <2>2, <2>3, <2>4
<1>8. Streaming(l)'
  <2>1. CASE Usable(l)
    <3>1. Ends(log, s, n, c)
      BY <1>2, <2>1 DEF ConnInv, Streaming
    <3>2. /\ Chained(log, s \o Bytes(log[c]), c + 1)
          /\ Begins(log, s \o Bytes(log[c]), n)
          /\ Ends(log, s \o Bytes(log[c]), n, c + 1)
      BY <1>3, <1>6, <3>1, ChainedExtends
    <3> QED
      BY <1>2, <1>5, <1>7, <2>1, <3>2 DEF Streaming
  <2>2. CASE ~Usable(l)
    <3>1. Stream(l)' = s
      BY <1>2, <1>5, <2>2 DEF Stream, InFlight
    <3>2. Chained(log, s, c + 1)
      <4>1. c \in Nat /\ c + 1 \in Nat /\ c <= c + 1
        BY <1>3
      <4> QED
        BY <1>3, <1>6, <4>1, ChainedLater
    <3> QED
      BY <1>2, <1>5, <1>6, <2>2, <3>1, <3>2 DEF Streaming
  <2> QED
    BY <2>1, <2>2
<1>9. Skips(l)'
  BY <1>2, <1>5 DEF ConnInv, Skips
<1>10. Fresh(l)' /\ Reading(l)'
  BY <1>2 DEF ConnInv, Fresh, Reading, Subscribed
<1>11. CaughtUp(l)'
  <2> SUFFICES ASSUME Usable(l), c + 1 = Len(log) + 1
               PROVE  LastPlace(log, Stream(l)', n) = Len(log)
    BY <1>2, <1>5 DEF CaughtUp
  <2>1. LastPlace(log, s \o Bytes(log[c]), n) = c
    BY <1>3, LastTaken
  <2>2. c = Len(log)
    BY <1>3
  <2> QED
    BY <1>7, <2>1, <2>2
<1> QED
  BY <1>5, <1>8, <1>9, <1>10, <1>11 DEF ConnInv

\* A chunk goes from the sending end to the wire.
LEMMA WriteChunkStep ==
    ASSUME Typed, Kept, NEW l \in Link, ConnInv(l), WriteChunk(l)
    PROVE  ConnInv(l)' /\ Newest(l)' = Newest(l)
<1>1. /\ sender \in [Link -> SenderState] /\ sender[l] \in SenderState
      /\ wire \in [Link -> Seq(Chunk)]
  BY DEF Typed, TypeOK
<1>2. /\ UNCHANGED <<log, broken, receiver, received>>
      /\ sender'[l].out = Tail(sender[l].out) /\ sender'[l].cursor = sender[l].cursor
      /\ sender'[l].since = sender[l].since /\ sender[l].stage = "sending"
      /\ sender'[l].stage \in {"select", "sending"}
      /\ wire'[l] = Append(wire[l], Head(sender[l].out)) /\ Usable(l)
  BY <1>1 DEF WriteChunk, SenderState, Usable
<1>3. /\ wire[l] \in Seq(Chunk) /\ sender[l].out \in Seq(Chunk) /\ sender[l].out # <<>>
  BY <1>2, Context
<1>4. Usable(l)'
  BY <1>2 DEF Usable
<1>5. InFlight(l)' = InFlight(l)
  BY <1>2, <1>3, <1>4, Shifted DEF InFlight
<1>6. Stream(l)' = Stream(l)
  BY <1>2, <1>5 DEF Stream
<1>7. Streaming(l)' /\ Skips(l)' /\ CaughtUp(l)' /\ Newest(l)' = Newest(l)
  BY <1>2, <1>6, Carried DEF ConnInv
<1>8. l \in Subscribed'
  BY <1>2 DEF Subscribed
<1>9. Fresh(l)' /\ Reading(l)'
  BY <1>2, <1>8 DEF ConnInv, Fresh, Reading
<1> QED
  BY <1>7, <1>9 DEF ConnInv

\* A chunk goes from the wire to the receiving end.
LEMMA ReadChunkStep ==
    ASSUME Typed, Kept, NEW l \in Link, ConnInv(l), ReadChunk(l)
    PROVE  ConnInv(l)' /\ Newest(l)' = Newest(l)
<1>1. /\ receiver \in [Link -> ReceiverState] /\ receiver[l] \in ReceiverState
      /\ wire \in [Link -> Seq(Chunk)]
  BY DEF Typed, TypeOK
<1> DEFINE b == receiver[l].buffer
           w == wire[l]
           o == sender[l].out
           b2 == Append(b, Head(w))
<1>2. /\ UNCHANGED <<log, broken, sender, received>>
      /\ receiver[l].stage = "reading" /\ receiver'[l].stage = "reading"
      /\ receiver'[l].buffer = b2 /\ wire'[l] = Tail(w)
      /\ l \notin broken /\ ~IsComplete(b) /\ w # <<>>
  BY <1>1 DEF ReadChunk, ReceiverState
<1>3. /\ b \in Seq(Chunk) /\ w \in Seq(Chunk) /\ o \in Seq(Chunk)
  BY Context
<1>4. Usable(l) /\ Usable(l)'
  BY <1>2 DEF Usable
<1>5. Head(w) \in Chunk /\ Tail(w) \in Seq(Chunk) /\ b2 \in Seq(Chunk)
  BY <1>2, <1>3
<1>6. Stream(l) = b \o (w \o o) /\ Stream(l)' = b2 \o (Tail(w) \o o)
  BY <1>2, <1>4 DEF Stream, InFlight
<1>7. b2 \o Tail(w) = b \o w
  BY <1>2, <1>3, Shifted
<1> HIDE DEF b, w, o, b2
<1>8. b2 \o (Tail(w) \o o) = b \o (w \o o)
  <2>1. (b2 \o Tail(w)) \o o = b2 \o (Tail(w) \o o)
    BY <1>3, <1>5, Regrouped
  <2>2. (b \o w) \o o = b \o (w \o o)
    BY <1>3, Regrouped
  <2> QED
    BY <1>7, <2>1, <2>2
<1>9. Stream(l)' = Stream(l)
  BY <1>6, <1>8
<1>10. Streaming(l)' /\ Skips(l)' /\ CaughtUp(l)' /\ Newest(l)' = Newest(l)
  BY <1>2, <1>4, <1>9, Carried DEF ConnInv
<1>11. FirstFrame(b2) /\ Len(b2) <= PayloadChunks + 1
  <2>1. Chained(log, b2, sender[l].cursor) /\ Begins(log, b2, Newest(l))
    <3>1. Tail(w) \o o \in Seq(Chunk)
      BY <1>3, <1>5, Joined
    <3>2. /\ Chained(log, b2 \o (Tail(w) \o o), sender[l].cursor)
          /\ Begins(log, b2 \o (Tail(w) \o o), Newest(l))
      BY <1>6, <1>8 DEF ConnInv, Streaming
    <3> QED
      BY <1>5, <3>1, <3>2, ChainedPrefix
  <2>2. FirstFrame(b) /\ Len(b) <= PayloadChunks + 1
    BY DEF ConnInv, Reading, b
  <2>3. Len(b) < PayloadChunks + 1
    <3>1. Len(b) # PayloadChunks + 1
      BY <1>2 DEF IsComplete
    <3>2. Len(b) \in Nat /\ PayloadChunks \in Nat
      BY <1>3, CapacityAssumption
    <3> QED
      BY <2>2, <3>1, <3>2
  <2> QED
    BY <1>3, <1>5, <2>1, <2>2, <2>3, CollectsOne DEF b2
<1>12. Reading(l)'
  BY <1>2, <1>11 DEF ConnInv, Reading
<1>13. Fresh(l)'
  BY <1>2 DEF ConnInv, Fresh, Subscribed, w
<1> QED
  BY <1>10, <1>12, <1>13 DEF ConnInv

\* A frame is complete and goes to the clipboard writer: the stream loses its
\* first frame, and what follows it in the stream may come after it.
LEMMA RecvFrameStep ==
    ASSUME Typed, Kept, NEW l \in Link, ConnInv(l), RecvFrame(l)
    PROVE  ConnInv(l)' /\ Newest(l)' \in (Newest(l) + 1)..Len(log)
<1>1. /\ receiver \in [Link -> ReceiverState] /\ receiver[l] \in ReceiverState
      /\ received \in [Link -> Seq(Seq(Chunk))]
  BY DEF Typed, TypeOK
<1> DEFINE b == receiver[l].buffer
           t == InFlight(l)
           n == Newest(l)
           c == sender[l].cursor
           f == b[1].frame
           i == At(log, f)
<1>2. /\ b \in Seq(Chunk) /\ t \in Seq(Chunk) /\ n \in 0..Len(log) /\ Len(log) \in Nat
      /\ log \in Seq(Frame) /\ Distinct(log) /\ received[l] \in Seq(Seq(Chunk))
      /\ sender[l].since \in Nat
  BY Context
<1>3. IsComplete(b) /\ FirstFrame(b) /\ receiver[l].stage = "reading" /\ UNCHANGED <<log, sender>>
  BY DEF RecvFrame, ConnInv, Reading
<1>4. /\ b # <<>> /\ f \in Frame /\ IsFrame(b)
      /\ b[Len(b)].frame = f /\ b[Len(b)].part = PayloadChunks /\ Tail(b) = Payload(f)
  BY <1>2, <1>3, FrameComplete
<1>5. Chained(log, b \o t, c) /\ Begins(log, b \o t, n)
  BY DEF ConnInv, Streaming, Stream
<1> HIDE DEF b, t, n, c
<1>6. Chained(log, b, c) /\ Begins(log, b, n)
  BY <1>2, <1>5, ChainedPrefix
<1>7. Logged(log, f) /\ Leads(log, n, i)
  <2>1. 1 \in 1..Len(b)
    BY <1>2, <1>4
  <2> QED
    BY <1>4, <1>6, <2>1 DEF Chained, Begins
<1>8. i \in 1..Len(log) /\ log[i] = f
  BY <1>2, <1>7, AtLogged
<1> HIDE DEF i, f
<1>9. /\ received'[l] = Append(received[l], Payload(log[i]))
      /\ receiver'[l] = [stage |-> "writing", buffer |-> <<>>]
      /\ UNCHANGED <<wire, broken>>
  <2>1. /\ received' = [received EXCEPT ![l] = Append(@, Tail(b))]
        /\ receiver' = [receiver EXCEPT ![l] = [stage |-> "writing", buffer |-> <<>>]]
        /\ UNCHANGED <<wire, broken>>
    BY <1>4 DEF RecvFrame, b
  <2> QED
    BY <1>1, <1>4, <1>8, <2>1
<1>10. /\ FromLog(log, received'[l]) /\ Newest(l)' = i
       /\ i \in Delivered(l)' /\ \A x \in Delivered(l) : x \in Delivered(l)'
  <2>1. FromLog(log, received[l])
    BY DEF ConnInv, Reading
  <2>2. PICK j \in 1..Len(log) : j = i
    BY <1>8
  <2>3. received'[l] = Append(received[l], Payload(log[j]))
    BY <1>9, <2>2
  <2>4. FromLog(log, received'[l])
    BY <1>2, <2>1, <2>3, LogsOneMore
  <2>5. NewestIn(log, received'[l], sender[l].since) = j
    <3>1. log \in Seq(Frame) /\ Distinct(log) /\ received[l] \in Seq(Seq(Chunk))
      BY <1>2
    <3>2. NewestIn(log, Append(received[l], Payload(log[j])), sender[l].since) = j
      BY <3>1, NewestOneMore, ZenonT(60)
    <3> QED
      BY <2>3, <3>2
  <2>6. /\ j \in DeliveredIn(log, received'[l])
        /\ \A x \in DeliveredIn(log, received[l]) : x \in DeliveredIn(log, received'[l])
    BY <1>2, <2>3, DeliversOneMore
  <2> QED
    BY <1>3, <2>2, <2>4, <2>5, <2>6, NewestDef
<1>11. (Usable(l)' <=> Usable(l)) /\ Stream(l)' = t
  <2>1. receiver'[l].stage = "writing" /\ receiver'[l].buffer = <<>>
    BY <1>9
  <2>2. Usable(l)' <=> Usable(l)
    BY <1>3, <1>9, <2>1 DEF Usable
  <2>3. InFlight(l)' = t
    BY <1>3, <1>9, <2>2 DEF InFlight, t
  <2>4. <<>> \o t = t
    BY <1>2
  <2> QED
    BY <2>1, <2>2, <2>3, <2>4 DEF Stream
<1>12. Chained(log, t, c) /\ (t # <<>> => Follows(log, b[Len(b)], t[1]))
  BY <1>2, <1>4, <1>5, ChainedSuffix
<1>13. Begins(log, t, i)
  <2> SUFFICES ASSUME t # <<>> PROVE t[1].part = 0 /\ Leads(log, i, At(log, t[1].frame))
    BY DEF Begins
  <2>1. t[1] \in Chunk /\ PayloadChunks \in Nat
    <3>1. 1 \in 1..Len(t)
      BY <1>2
    <3> QED
      BY <1>2, <3>1, CapacityAssumption
  <2>2. t[1].part # PayloadChunks + 1
    BY <2>1 DEF Chunk
  <2> QED
    BY <1>4, <1>12, <2>2 DEF Follows, i
<1>14. Ends(log, b \o t, n, c) => Ends(log, t, i, c)
  <2> SUFFICES ASSUME Ends(log, b \o t, n, c) PROVE Ends(log, t, i, c)
    OBVIOUS
  <2>1. /\ Len(b) \in Nat /\ Len(t) \in Nat /\ Len(b) > 0 /\ Len(b \o t) = Len(b) + Len(t)
    <3>1. Len(b \o t) = Len(b) + Len(t)
      BY <1>2, Joined
    <3> QED
      BY <1>2, <1>4, <3>1
  <2>2. b \o t # <<>>
    <3>1. Len(b \o t) # 0
      BY <2>1
    <3> QED
      BY <3>1
  <2>3. /\ (b \o t)[Len(b \o t)].part = PayloadChunks
        /\ Leads(log, At(log, (b \o t)[Len(b \o t)].frame), c)
    BY <2>2 DEF Ends
  <2>4. CASE t = <<>>
    <3>1. b \o t = b
      BY <1>2, <2>4
    <3> QED
      BY <1>4, <2>3, <2>4, <3>1 DEF Ends, i
  <2>5. CASE t # <<>>
    <3>1. Len(t) \in 1..Len(t)
      BY <1>2, <2>5
    <3>2. (b \o t)[Len(b) + Len(t)] = t[Len(t)]
      BY <1>2, <3>1, Joined
    <3> QED
      BY <2>1, <2>3, <2>5, <3>2 DEF Ends
  <2> QED
    BY <2>4, <2>5
<1>15. Streaming(l)'
  <2>1. Usable(l) /\ sender[l].stage \in {"select", "sending"} => Ends(log, b \o t, n, c)
    BY DEF ConnInv, Streaming, Stream, b, t, n, c
  <2> QED
    BY <1>3, <1>10, <1>11, <1>12, <1>13, <1>14, <2>1 DEF Streaming, c
<1>16. Skips(l)'
  <2> SUFFICES ASSUME NEW j \in (sender[l].since + 1)..i
               PROVE  j \in Delivered(l)' \/ j + BroadcastCapacity <= Len(log)
    BY <1>3, <1>10 DEF Skips
  <2>1. CASE j <= n
    <3>1. j \in (sender[l].since + 1)..n
      BY <1>2, <1>8, <2>1
    <3> QED
      BY <1>10, <3>1 DEF ConnInv, Skips, n
  <2>2. CASE j = i
    BY <1>10, <2>2
  <2>3. CASE n < j /\ j < i
    <3>1. j \in (n + 1)..(i - 1)
      BY <1>2, <1>8, <2>3
    <3> QED
      BY <1>7, <3>1 DEF Leads
  <2> QED
    BY <1>2, <1>8, <2>1, <2>2, <2>3
<1>17. Reading(l)'
  <2>1. receiver'[l].buffer = <<>>
    BY <1>9
  <2>2. FirstFrame(<<>>) /\ Len(<<>>) <= PayloadChunks + 1
    BY CapacityAssumption DEF FirstFrame
  <2> QED
    BY <1>3, <1>10, <2>1, <2>2 DEF Reading
<1>18. Fresh(l)'
  <2>1. l \in Subscribed
    BY <1>4 DEF ConnInv, Fresh, b
  <2> QED
    BY <1>3, <2>1 DEF Fresh, Subscribed
<1>19. CaughtUp(l)'
  <2> SUFFICES ASSUME Usable(l), sender[l].stage \in {"select", "sending"}, c = Len(log) + 1
               PROVE  LastPlace(log, t, i) = Len(log)
    BY <1>3, <1>10, <1>11 DEF CaughtUp, c
  <2>1. LastPlace(log, b \o t, n) = Len(log)
    BY DEF ConnInv, CaughtUp, Stream, b, t, n, c
  <2>2. LastPlace(log, b \o t, n) = LastPlace(log, t, i)
    BY <1>2, <1>4, LastKept DEF i
  <2> QED
    BY <2>1, <2>2
<1>20. i \in (n + 1)..Len(log)
  BY <1>2, <1>7, <1>8 DEF Leads
<1> QED
  BY <1>10, <1>15, <1>16, <1>17, <1>18, <1>19, <1>20 DEF ConnInv, n

\* The log grows: what is under way keeps its place.
LEMMA PublishStep ==
    ASSUME Typed, Kept, NEW l \in Link, ConnInv(l), NEW g \in Frame,
           log' = Append(log, g), Distinct(log'),
           UNCHANGED <<sender, wire, broken, receiver, received>>
    PROVE  ConnInv(l)' /\ Newest(l)' = Newest(l)
<1> DEFINE s == Stream(l)
           n == Newest(l)
           c == sender[l].cursor
<1>1. /\ log \in Seq(Frame) /\ Distinct(log) /\ s \in Seq(Chunk) /\ c \in Nat
      /\ received[l] \in Seq(Seq(Chunk)) /\ Len(log) \in Nat
      /\ sender[l].since \in Nat /\ BroadcastCapacity \in Nat
  BY Context, CapacityAssumption
<1>2. Distinct(Append(log, g))
  OBVIOUS
<1>3. FromLog(log, received[l])
  BY DEF ConnInv, Reading
<1>4. FromLog(log', received[l]) /\ Newest(l)' = n /\ Delivered(l)' = Delivered(l)
  <2>1. /\ FromLog(Append(log, g), received[l])
        /\ NewestIn(Append(log, g), received[l], sender[l].since)
             = NewestIn(log, received[l], sender[l].since)
        /\ DeliveredIn(Append(log, g), received[l]) = DeliveredIn(log, received[l])
    BY <1>1, <1>2, <1>3, DeliveredGrows
  <2> QED
    BY <2>1, NewestDef
<1>5. Stream(l)' = s /\ (Usable(l)' <=> Usable(l))
  BY DEF Stream, InFlight, Usable
<1>6. Chained(log, s, c) /\ Begins(log, s, n)
  BY DEF ConnInv, Streaming
<1> HIDE DEF s, n, c
<1>7. Chained(log', s, c)
  BY <1>1, <1>2, <1>6, ChainedGrows
<1>8. /\ \A f : Logged(log, f) => At(log', f) = At(log, f)
      /\ \A i, j : Leads(log, i, j) => Leads(log', i, j)
  BY <1>1, <1>2, AtGrows, LeadsGrows
<1>9. Begins(log', s, n)
  <2> SUFFICES ASSUME s # <<>> PROVE s[1].part = 0 /\ Leads(log', n, At(log', s[1].frame))
    BY DEF Begins
  <2>1. 1 \in 1..Len(s)
    BY <1>1
  <2>2. Logged(log, s[1].frame) /\ s[1].part = 0 /\ Leads(log, n, At(log, s[1].frame))
    BY <1>6, <2>1 DEF Chained, Begins
  <2> QED
    BY <1>8, <2>2
<1>10. Ends(log, s, n, c) => Ends(log', s, n, c)
  <2>1. s # <<>> => Logged(log, s[Len(s)].frame)
    <3>1. s # <<>> => Len(s) \in 1..Len(s)
      BY <1>1
    <3> QED
      BY <1>6, <3>1 DEF Chained
  <2> QED
    BY <1>8, <2>1 DEF Ends
<1>11. Streaming(l)'
  BY <1>4, <1>5, <1>7, <1>9, <1>10 DEF ConnInv, Streaming, s, n, c
<1>12. Skips(l)'
  <2>1. Len(log') = Len(log) + 1
    BY <1>1
  <2> SUFFICES ASSUME NEW j \in (sender[l].since + 1)..n
               PROVE  j \in Delivered(l) \/ j + BroadcastCapacity <= Len(log')
    BY <1>4 DEF Skips
  <2>2. j \in Delivered(l) \/ j + BroadcastCapacity <= Len(log)
    BY DEF ConnInv, Skips, n
  <2> QED
    BY <1>1, <2>1, <2>2
<1>13. Fresh(l)' /\ Reading(l)'
  BY <1>4 DEF ConnInv, Fresh, Reading, Subscribed
<1>14. CaughtUp(l)'
  <2>1. c <= Len(log) + 1 /\ Len(log') = Len(log) + 1 /\ c = sender'[l].cursor
    BY <1>1, Context DEF c
  <2> QED
    BY <1>1, <2>1 DEF CaughtUp
<1> QED
  BY <1>4, <1>11, <1>12, <1>13, <1>14 DEF ConnInv, n

-----------------------------------------------------------------------------
(* The specification *)

Inv == Typed /\ Kept /\ \A l \in Link : ConnInv(l)

LEMMA InvInit == Init => Inv
<1> SUFFICES ASSUME Init PROVE Inv
  OBVIOUS
<1>1. Typed /\ Kept
  BY TypedInit, KeptInit
<1>2. ASSUME NEW l \in Link PROVE ConnInv(l)
  <2>1. /\ log = <<>> /\ sender[l] = IdleSender /\ receiver[l] = IdleReceiver
        /\ wire[l] = <<>> /\ received[l] = <<>>
    BY DEF Init
  <2>2. /\ sender[l].stage = "unused" /\ sender[l].cursor = 1 /\ sender[l].since = 0
        /\ sender[l].out = <<>> /\ receiver[l].buffer = <<>>
    BY <2>1 DEF IdleSender, IdleReceiver
  <2>3. Len(<<>>) = 0 /\ <<>> \o <<>> = <<>>
    OBVIOUS
  <2>4. Stream(l) = <<>>
    BY <2>1, <2>2, <2>3 DEF Stream, InFlight
  <2>5. Newest(l) = 0
    BY <2>1, <2>2 DEF Newest
  <2>6. Streaming(l)
    BY <2>2, <2>3, <2>4 DEF Streaming, Chained, Begins
  <2>7. Fresh(l) /\ Skips(l)
    BY <2>1, <2>2, <2>5 DEF Fresh, Skips
  <2>8. Reading(l)
    BY <2>1, <2>2, <2>3, CapacityAssumption DEF Reading, FirstFrame, FromLog
  <2>9. CaughtUp(l)
    BY <2>2 DEF CaughtUp
  <2> QED
    BY <2>6, <2>7, <2>8, <2>9 DEF ConnInv
<1> QED
  BY <1>1, <1>2 DEF Inv

\* What a connection has delivered, as places in the log L.
PlacesIn(L, r) == [k \in 1..Len(r) |-> PlaceIn(L, r[k])]

LEMMA PlacesDef ==
    ASSUME NEW l \in Link
    PROVE  /\ Places(l) = PlacesIn(log, received[l])
           /\ Places(l)' = PlacesIn(log', received'[l])
BY DEF Places, PlacesIn, Place, PlaceIn

LEMMA PlacesAre ==
    ASSUME NEW L \in Seq(Frame), NEW r \in Seq(Seq(Chunk)), NEW since
    PROVE  /\ PlacesIn(L, r) \in Seq(Nat) /\ Len(PlacesIn(L, r)) = Len(r)
           /\ NewestIn(L, r, since) = IF PlacesIn(L, r) = <<>> THEN since
                                      ELSE PlacesIn(L, r)[Len(PlacesIn(L, r))]
<1> DEFINE q == PlacesIn(L, r)
<1>1. Len(r) \in Nat /\ \A k \in 1..Len(r) : PlaceIn(L, r[k]) \in Nat
  BY PlaceBound
<1>2. q \in Seq(Nat) /\ Len(q) = Len(r) /\ \A k \in 1..Len(r) : q[k] = PlaceIn(L, r[k])
  BY <1>1 DEF PlacesIn
<1> HIDE DEF q
<1>3. CASE r = <<>>
  BY <1>2, <1>3 DEF NewestIn, q
<1>4. CASE r # <<>>
  <2>1. Len(r) \in 1..Len(r)
    BY <1>4
  <2> QED
    BY <1>2, <1>4, <2>1 DEF NewestIn, q
<1> QED
  BY <1>2, <1>3, <1>4 DEF q

LEMMA LastOfAppend ==
    ASSUME NEW r \in Seq(Seq(Chunk)), NEW p \in Seq(Chunk)
    PROVE  Append(r, p) # <<>> /\ Append(r, p)[Len(Append(r, p))] = p
<1>1. Len(r) \in Nat /\ Len(Append(r, p)) = Len(r) + 1 /\ Append(r, p)[Len(r) + 1] = p
  OBVIOUS
<1>2. Append(r, p) # <<>>
  <2>1. Len(<<>>) = 0
    OBVIOUS
  <2>2. Len(Append(r, p)) # 0
    BY <1>1
  <2> QED
    BY ONLY <2>1, <2>2, Zenon
<1> QED
  BY ONLY <1>1, <1>2

\* One more payload, one more place.
LEMMA PlacesOneMore ==
    ASSUME NEW L \in Seq(Frame), NEW r \in Seq(Seq(Chunk)), NEW p \in Seq(Chunk)
    PROVE  PlacesIn(L, Append(r, p)) = Append(PlacesIn(L, r), PlaceIn(L, p))
<1> DEFINE n == Len(r)
           a == PlacesIn(L, Append(r, p))
           b == Append(PlacesIn(L, r), PlaceIn(L, p))
<1>1. /\ n \in Nat /\ Append(r, p) \in Seq(Seq(Chunk)) /\ Len(Append(r, p)) = n + 1
      /\ \A k \in 1..n : Append(r, p)[k] = r[k]
      /\ Append(r, p)[n + 1] = p
  OBVIOUS
<1>2. a \in Seq(Nat) /\ Len(a) = n + 1
  BY <1>1, PlacesAre
<1>3. \A k \in 1..(n + 1) : a[k] = PlaceIn(L, Append(r, p)[k])
  BY <1>1 DEF PlacesIn
<1>4. PlaceIn(L, p) \in Nat /\ PlacesIn(L, r) \in Seq(Nat) /\ Len(PlacesIn(L, r)) = n
  <2>1. PlacesIn(L, r) \in Seq(Nat) /\ Len(PlacesIn(L, r)) = Len(r)
    BY PlacesAre
  <2>2. Len(L) \in Nat /\ PlaceIn(L, p) \in 0..Len(L)
    BY PlaceBound
  <2>3. PlaceIn(L, p) \in Nat
    BY ONLY <2>2
  <2> QED
    BY <2>1, <2>3
<1>5. \A k \in 1..n : PlacesIn(L, r)[k] = PlaceIn(L, r[k])
  BY DEF PlacesIn
<1>6. /\ b \in Seq(Nat) /\ Len(b) = n + 1 /\ b[n + 1] = PlaceIn(L, p)
      /\ \A k \in 1..n : b[k] = PlaceIn(L, r[k])
  BY <1>4, <1>5
<1> HIDE DEF a, b
<1>7. ASSUME NEW k \in 1..(n + 1) PROVE a[k] = b[k]
  <2>1. CASE k = n + 1
    BY <1>1, <1>3, <1>6, <2>1
  <2>2. CASE k \in 1..n
    BY <1>1, <1>3, <1>6, <2>2
  <2> QED
    BY <1>1, <2>1, <2>2
<1> QED
  BY <1>2, <1>6, <1>7 DEF a, b

\* What is delivered keeps its place when the log grows.
LEMMA PlacesKept ==
    ASSUME NEW L \in Seq(Frame), NEW g \in Frame, Distinct(L), Distinct(Append(L, g)),
           NEW r \in Seq(Seq(Chunk)), FromLog(L, r)
    PROVE  PlacesIn(Append(L, g), r) = PlacesIn(L, r)
<1>1. \A k \in 1..Len(r) : PlaceIn(Append(L, g), r[k]) = PlaceIn(L, r[k])
  BY PlaceGrows DEF FromLog
<1> QED
  BY <1>1 DEF PlacesIn

\* What one connection does to the newest frame it has delivered.
LEMMA LinkStep ==
    ASSUME Inv, NEW l \in Link, SenderStep(l) \/ ReceiverStep(l)
    PROVE  /\ ConnInv(l)'
           /\ \/ Newest(l)' = Newest(l) /\ ~Subscribe(l)
              \/ Subscribe(l) /\ Newest(l)' = Len(log)
              \/ RecvFrame(l) /\ Newest(l)' \in (Newest(l) + 1)..Len(log) /\ ~Subscribe(l)
<1> USE DEF Inv
<1>1. CASE Subscribe(l)
  BY <1>1, SubscribeStep
<1>2. CASE RecvFrame(l)
  <2>1. ~Subscribe(l)
    <3>1. receiver'[l] # receiver[l]
      <4>1. receiver[l].stage = "reading" /\ receiver'[l].stage # "reading"
        BY <1>2 DEF RecvFrame, Typed, TypeOK
      <4> QED
        BY <4>1
    <3> QED
      BY <3>1 DEF Subscribe
  <2> QED
    BY <1>2, <2>1, RecvFrameStep
<1>3. CASE ~Subscribe(l) /\ ~RecvFrame(l)
  <2>1. \/ Register(l) \/ NoticeClose(l) \/ DropCloseHandle(l) \/ Accept(l) \/ WriteDone(l)
        \/ SendTimesOut(l) \/ NoticePeerGone(l) \/ Break(l) \/ ReadEnds(l)
        \/ SkipLagged(l) \/ TakeFrame(l) \/ WriteChunk(l) \/ ReadChunk(l)
    BY <1>3 DEF SenderStep, ReceiverStep
  <2> QED
    BY <1>3, <2>1, QuietSteps, LossSteps, SkipLaggedStep, TakeFrameStep, WriteChunkStep, ReadChunkStep
<1> QED
  BY <1>1, <1>2, <1>3

\* A frame is published.
LEMMA Published ==
    ASSUME Inv, Bridge \/ InjectFrame, Kept'
    PROVE  /\ \A l \in Link : ConnInv(l)' /\ Places(l)' = Places(l)
           /\ Len(log') = Len(log) + 1 /\ UNCHANGED sender
<1>0. /\ log \in Seq(Frame) /\ queue \in Seq(Frame) /\ injected \in 0..MaxInjected
  BY DEF Inv, Typed, TypeOK
<1>1. UNCHANGED <<sender, wire, broken, receiver, received>>
  BY DEF Bridge, InjectFrame
<1>2. \E g \in Frame : log' = Append(log, g)
  <2>1. CASE Bridge
    <3>1. Head(queue) \in Frame
      BY <1>0, <2>1 DEF Bridge
    <3> QED
      BY <2>1, <3>1 DEF Bridge
  <2>2. CASE InjectFrame
    <3>1. injected' \in 1..MaxInjected /\ log' = Append(log, Injected(injected'))
      BY <1>0, <2>2, BoundsAssumption DEF InjectFrame
    <3>2. Injected(injected') \in Frame
      BY <3>1 DEF Frame
    <3> QED
      BY <3>1, <3>2
  <2> QED
    BY <2>1, <2>2
<1>3. PICK g \in Frame : log' = Append(log, g)
  BY <1>2
<1>4. log' \in Seq(Frame) /\ Len(log') = Len(log) + 1
  BY <1>0, <1>3
<1>5. Distinct(log')
  BY <1>4, DistinctLog DEF Kept, NoCaptureLost
<1>6. \A l \in Link : ConnInv(l)'
  BY <1>1, <1>3, <1>5, PublishStep DEF Inv
<1>7. ASSUME NEW l \in Link PROVE Places(l)' = Places(l)
  <2>1. Distinct(log) /\ received[l] \in Seq(Seq(Chunk)) /\ FromLog(log, received[l])
    BY Context DEF Inv, ConnInv, Reading
  <2>2. PlacesIn(Append(log, g), received[l]) = PlacesIn(log, received[l])
    BY <1>0, <1>3, <1>5, <2>1, PlacesKept
  <2> QED
    BY <1>1, <1>3, <2>2, PlacesDef
<1> QED
  BY <1>1, <1>4, <1>6, <1>7

\* What one connection does to what it has delivered.
LEMMA LinkDelivers ==
    ASSUME Inv, NEW l \in Link, SenderStep(l) \/ ReceiverStep(l)
    PROVE  \/ /\ ~Subscribe(l)
              /\ Places(l)' = Places(l) /\ sender'[l].since = sender[l].since
           \/ /\ Subscribe(l)
              /\ Places(l)' = Places(l) /\ sender'[l].since = Len(log)
           \/ /\ RecvFrame(l) /\ ~Subscribe(l) /\ sender'[l].since = sender[l].since
              /\ \E n \in (Newest(l) + 1)..Len(log) : Places(l)' = Append(Places(l), n)
<1>1. /\ sender \in [Link -> SenderState] /\ sender[l] \in SenderState
      /\ receiver \in [Link -> ReceiverState] /\ received \in [Link -> Seq(Seq(Chunk))]
      /\ log \in Seq(Frame) /\ log' = log
  BY LinkSteps DEF Inv, Typed, TypeOK
<1>2. ASSUME UNCHANGED received PROVE Places(l)' = Places(l)
  BY <1>1, <1>2, PlacesDef
<1>3. CASE Subscribe(l)
  BY <1>1, <1>2, <1>3 DEF Subscribe, SenderState
<1>4. CASE RecvFrame(l)
  <2>1. ~Subscribe(l) /\ UNCHANGED sender
    <3>1. receiver[l].stage = "reading" /\ receiver'[l].stage # "reading"
      BY <1>1, <1>4 DEF RecvFrame
    <3> QED
      BY <1>4, <3>1 DEF RecvFrame, Subscribe
  <2>2. Newest(l)' \in (Newest(l) + 1)..Len(log)
    BY <1>4, RecvFrameStep DEF Inv
  <2>3. CASE UNCHANGED received
    <3>1. Newest(l)' = Newest(l) /\ Newest(l) \in Nat
      BY <1>1, <2>1, <2>3, NewestDef, Context DEF Inv
    <3> QED
      BY <2>2, <3>1
  <2>4. CASE received' = [received EXCEPT ![l] = Append(@, Tail(receiver[l].buffer))]
    <3> DEFINE p == Tail(receiver[l].buffer)
    <3>1. receiver[l].buffer \in Seq(Chunk) /\ receiver[l].buffer # <<>>
      <4>1. receiver[l].buffer \in Seq(Chunk) /\ Len(receiver[l].buffer) = PayloadChunks + 1
        BY <1>1, <1>4 DEF RecvFrame, IsComplete, ReceiverState
      <4> QED
        BY <4>1, CapacityAssumption
    <3>2. p \in Seq(Chunk)
      BY <3>1
    <3> HIDE DEF p
    <3>3. received'[l] = Append(received[l], p)
      BY <1>1, <2>4 DEF p
    <3>4. Places(l)' = Append(Places(l), PlaceIn(log, p))
      BY <1>1, <3>2, <3>3, PlacesOneMore, PlacesDef
    <3>5. Newest(l)' = PlaceIn(log, p)
      <4>1. received[l] \in Seq(Seq(Chunk))
        BY <1>1
      <4>2. received'[l] # <<>> /\ received'[l][Len(received'[l])] = p
        BY <3>2, <3>3, <4>1, LastOfAppend
      <4> QED
        BY <1>1, <4>2, NewestDef DEF NewestIn
    <3> QED
      BY <1>4, <2>1, <2>2, <3>4, <3>5
  <2> QED
    BY <1>4, <2>3, <2>4 DEF RecvFrame
<1>5. CASE ~Subscribe(l) /\ ~RecvFrame(l)
  <2>1. \/ Register(l) \/ NoticeClose(l) \/ DropCloseHandle(l) \/ Accept(l) \/ WriteDone(l)
        \/ SendTimesOut(l) \/ NoticePeerGone(l) \/ Break(l) \/ ReadEnds(l)
        \/ SkipLagged(l) \/ TakeFrame(l) \/ WriteChunk(l) \/ ReadChunk(l)
    BY <1>5 DEF SenderStep, ReceiverStep
  <2>2. UNCHANGED received
    BY <2>1 DEF Register, NoticeClose, DropCloseHandle, Accept, WriteDone, SendTimesOut,
       NoticePeerGone, Break, ReadEnds, SkipLagged, TakeFrame, WriteChunk, ReadChunk
  <2>3. sender'[l].since = sender[l].since
    BY <1>1, <2>1 DEF Register, NoticeClose, DropCloseHandle, Accept, WriteDone, SendTimesOut,
       NoticePeerGone, Break, ReadEnds, SkipLagged, TakeFrame, WriteChunk, ReadChunk, SenderState
  <2> QED
    BY <1>2, <1>5, <2>2, <2>3
<1> QED
  BY <1>3, <1>4, <1>5

\* The newest frame delivered is the last of those delivered.
LEMMA NewestIsLast ==
    ASSUME Inv, NEW l \in Link
    PROVE  Promise!Last(l) = Newest(l)
<1>1. log \in Seq(Frame) /\ received[l] \in Seq(Seq(Chunk))
  BY Context DEF Inv
<1> QED
  BY <1>1, PlacesAre, PlacesDef, NewestDef DEF Promise!Last

\* Every step keeps the invariant and is a step of OrderedDelivery.
LEMMA InvStep ==
    ASSUME Inv, [Next]_vars
    PROVE  Inv' /\ [Promise!Next]_Promise!vars
<1>1. Typed' /\ Kept'
  BY TypedStep, KeptStep DEF Inv
<1> DEFINE start == [l \in Link |-> sender[l].since]
           delivered == [l \in Link |-> Places(l)]
<1>2. CASE WatcherStarts \/ Capture \/ Enqueue \/ UNCHANGED vars
  <2>1. UNCHANGED <<log, sender, wire, broken, receiver, received>>
    BY <1>2 DEF WatcherStarts, Capture, Enqueue, vars
  <2>2. \A l \in Link : ConnInv(l)' /\ Places(l)' = Places(l)
    BY <2>1, Unaffected, PlacesDef DEF Inv
  <2>3. UNCHANGED Promise!vars
    BY <2>1, <2>2 DEF Promise!vars, Subscribed
  <2> QED
    BY <1>1, <2>2, <2>3 DEF Inv
<1>3. CASE Bridge \/ InjectFrame
  <2>1. /\ \A l \in Link : ConnInv(l)' /\ Places(l)' = Places(l)
        /\ Len(log') = Len(log) + 1 /\ UNCHANGED sender
    BY <1>1, <1>3, Published
  <2>2. Promise!Publish
    BY <2>1 DEF Promise!Publish, Subscribed
  <2> QED
    BY <1>1, <2>1, <2>2 DEF Inv, Promise!Next
<1>4. ASSUME NEW l \in Link, SenderStep(l) \/ ReceiverStep(l)
      PROVE  Inv' /\ [Promise!Next]_Promise!vars
  <2>1. log' = log
    BY <1>4, LinkSteps
  <2>2. ConnInv(l)'
    BY <1>4, LinkStep
  <2>3. \A m \in Link \ {l} :
          /\ sender'[m] = sender[m] /\ receiver'[m] = receiver[m] /\ wire'[m] = wire[m]
          /\ received'[m] = received[m] /\ (m \in broken' <=> m \in broken)
    BY <1>4, Others DEF Inv
  <2>4. \A m \in Link \ {l} : ConnInv(m)' /\ Places(m)' = Places(m)
    BY <2>1, <2>3, Unaffected, PlacesDef DEF Inv
  <2>5. Inv'
    BY <1>1, <2>2, <2>4 DEF Inv
  <2>6. /\ \A m \in Link \ {l} : m \in Subscribed' <=> m \in Subscribed
        /\ ~Subscribe(l) => (l \in Subscribed' <=> l \in Subscribed)
        /\ Subscribe(l) => l \notin Subscribed /\ l \in Subscribed'
    <3>1. sender \in [Link -> SenderState] /\ sender[l] \in SenderState
      BY DEF Inv, Typed, TypeOK
    <3>2. \A m \in Link \ {l} : m \in Subscribed' <=> m \in Subscribed
      BY <2>3 DEF Subscribed
    <3>3. ASSUME Subscribe(l) PROVE l \notin Subscribed /\ l \in Subscribed'
      <4>1. sender[l].stage = "registered" /\ sender'[l].stage = "select"
        BY <3>1, <3>3 DEF Subscribe, SenderState
      <4> QED
        BY <4>1 DEF Subscribed
    <3>4. ASSUME ~Subscribe(l) PROVE l \in Subscribed' <=> l \in Subscribed
      <4>1. CASE ReceiverStep(l)
        <5>1. sender' = sender
          BY <4>1, ReceiverTyped DEF Inv
        <5> QED
          BY <5>1 DEF Subscribed
      <4>2. CASE SenderStep(l)
        <5>1. sender'[l].stage \in {"unused", "registered"}
                <=> sender[l].stage \in {"unused", "registered"}
          BY <3>1, <3>4, <4>2 DEF SenderStep, Register, TakeFrame, SkipLagged, WriteChunk,
               SendTimesOut, NoticePeerGone, NoticeClose, DropCloseHandle, SenderState
        <5> QED
          BY <5>1 DEF Subscribed
      <4> QED
        BY <1>4, <4>1, <4>2
    <3> QED
      BY <3>2, <3>3, <3>4
  <2>7. CASE /\ ~Subscribe(l)
             /\ Places(l)' = Places(l) /\ sender'[l].since = sender[l].since
    <3>1. Subscribed' = Subscribed
      BY <2>6, <2>7 DEF Subscribed
    <3>2. delivered' = delivered /\ start' = start
      BY <2>3, <2>4, <2>7
    <3> QED
      BY <2>1, <2>5, <3>1, <3>2 DEF Promise!vars
  <2>8. CASE /\ Subscribe(l)
             /\ Places(l)' = Places(l) /\ sender'[l].since = Len(log)
    <3>1. l \notin Subscribed /\ Subscribed' = Subscribed \cup {l}
      BY <2>6, <2>8 DEF Subscribed
    <3>2. delivered' = delivered /\ start' = [start EXCEPT ![l] = Len(log)]
      BY <2>3, <2>4, <2>8
    <3>3. Promise!Subscribe(l)
      BY <2>1, <3>1, <3>2 DEF Promise!Subscribe
    <3> QED
      BY <2>5, <3>3 DEF Promise!Next
  <2>9. CASE /\ RecvFrame(l) /\ ~Subscribe(l) /\ sender'[l].since = sender[l].since
             /\ \E n \in (Newest(l) + 1)..Len(log) : Places(l)' = Append(Places(l), n)
    <3>1. Subscribed' = Subscribed
      BY <2>6, <2>9 DEF Subscribed
    <3>2. l \in Subscribed
      <4>1. Len(receiver[l].buffer) = PayloadChunks + 1 /\ PayloadChunks \in Nat
        BY <2>9, CapacityAssumption DEF RecvFrame, IsComplete
      <4>2. receiver[l].buffer # <<>>
        BY <4>1
      <4> QED
        BY <4>2 DEF Inv, ConnInv, Fresh
    <3>3. PICK n \in (Newest(l) + 1)..Len(log) : Places(l)' = Append(Places(l), n)
      BY <2>9
    <3>4. /\ delivered' = [delivered EXCEPT ![l] = Append(delivered[l], n)]
          /\ start' = start
      BY <2>3, <2>4, <2>9, <3>3
    <3>5. n \in (Promise!Last(l) + 1)..Len(log)
      BY <3>3, NewestIsLast
    <3>6. Promise!Deliver(l)
      BY <2>1, <3>1, <3>2, <3>4, <3>5 DEF Promise!Deliver
    <3> QED
      BY <2>5, <3>6 DEF Promise!Next
  <2> QED
    BY <1>4, <2>7, <2>8, <2>9, LinkDelivers
<1> QED
  BY <1>2, <1>3, <1>4, SplitNext

LEMMA InvAlways == Spec => []Inv
<1>1. Inv /\ [Next]_vars => Inv'
  BY InvStep
<1> QED
  BY <1>1, InvInit, PTL DEF Spec

-----------------------------------------------------------------------------
(* Theorems *)

\* Whatever is lost, cut short or skipped, each connection hands its clipboard
\* writer whole frames only, those published since it subscribed, each at most
\* once and in the order of the broadcast channel.
THEOREM RelayInOrder == Spec => InOrderAndWhole
<1>1. Init => Promise!Init
  <2> SUFFICES ASSUME Init PROVE Promise!Init
    OBVIOUS
  <2>1. Len(log) = 0
    BY DEF Init
  <2>2. ASSUME NEW l \in Link
        PROVE  sender[l].stage = "unused" /\ sender[l].since = 0 /\ Places(l) = <<>>
    <3>1. received[l] = <<>> /\ sender[l].stage = "unused" /\ sender[l].since = 0
      BY DEF Init, IdleSender
    <3>2. Len(<<>>) = 0 /\ 1..0 = {}
      OBVIOUS
    <3>3. Places(l) = <<>>
      BY <3>1, <3>2 DEF Places
    <3> QED
      BY <3>1, <3>3
  <2> QED
    BY <2>1, <2>2 DEF Promise!Init, Subscribed
<1>2. Inv /\ [Next]_vars => Inv' /\ [Promise!Next]_Promise!vars
  BY InvStep
<1> QED
  BY <1>1, <1>2, InvInit, PTL DEF Spec, InOrderAndWhole, Promise!Spec

\* A connection leaves out only frames the broadcast channel has overwritten.
THEOREM RelaySkipsOverwritten == Spec => []SkipsOnlyOverwritten
<1>1. Spec => []Inv
  BY InvAlways
<1>2. Inv => SkipsOnlyOverwritten
  <2> SUFFICES ASSUME Inv, NEW l \in Link, NEW i \in (sender[l].since + 1)..Newest(l)
               PROVE  i \in Delivered(l) \/ i < Oldest
    BY DEF SkipsOnlyOverwritten
  <2>1. /\ Len(log) \in Nat /\ BroadcastCapacity \in Nat /\ sender[l].since \in Nat
        /\ Newest(l) \in Nat
    BY Context, CapacityAssumption DEF Inv
  <2>2. i \in Delivered(l) \/ i + BroadcastCapacity <= Len(log)
    BY DEF Inv, ConnInv, Skips
  <2>3. i + BroadcastCapacity <= Len(log) => i < Oldest
    <3> SUFFICES ASSUME i + BroadcastCapacity <= Len(log) PROVE i < Oldest
      OBVIOUS
    <3>1. Len(log) > BroadcastCapacity
      BY <2>1
    <3>2. Oldest = Len(log) - BroadcastCapacity + 1
      BY <3>1 DEF Oldest
    <3> QED
      BY <2>1, <3>2
  <2> QED
    BY <2>2, <2>3
<1> QED
  BY <1>1, <1>2, PTL

\* A connection that is up and has gone quiet has delivered the newest image, for
\* any number of connections and however far behind a connection has been.
THEOREM QuietUpToDate == Spec => []QuietIsUpToDate
<1>1. Spec => []Inv
  BY InvAlways
<1>2. Inv => QuietIsUpToDate
  <2> SUFFICES ASSUME Inv, NEW l \in Link, Quiet(l) PROVE Newest(l) = Len(log)
    BY DEF QuietIsUpToDate
  <2>1. Usable(l) /\ sender[l].out = <<>>
    <3>1. sender[l].stage # "sending"
      BY DEF Quiet
    <3> QED
      BY <3>1, Context DEF Inv, Quiet, Usable
  <2>2. Stream(l) = <<>>
    <3>1. <<>> \o <<>> = <<>>
      OBVIOUS
    <3> QED
      BY <2>1, <3>1 DEF Stream, InFlight, Quiet
  <2>3. LastPlace(log, Stream(l), Newest(l)) = Len(log)
    BY <2>1 DEF Inv, ConnInv, CaughtUp, Quiet
  <2> QED
    BY <2>2, <2>3 DEF LastPlace
<1> QED
  BY <1>1, <1>2, PTL
=============================================================================
