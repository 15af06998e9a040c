---------------------------- MODULE OrderedDelivery ----------------------------
(***************************************************************************)
(* What the frame relay promises the machines a daemon is connected to:    *)
(* a connection delivers some of the frames published since it subscribed, *)
(* in the order of publication, each whole and at most once.  It may skip  *)
(* frames; it never goes back, and never delivers a frame twice.           *)
(***************************************************************************)
EXTENDS Naturals, Sequences

CONSTANT Link   \* the connections

VARIABLES
    published,  \* frames published so far
    open,       \* connections that have subscribed
    start,      \* start[l]: the frames published when l subscribed
    delivered   \* delivered[l]: the frames l has delivered, each by its number

vars == <<published, open, start, delivered>>

TypeOK ==
    /\ published \in Nat
    /\ open \in SUBSET Link
    /\ start \in [Link -> Nat]
    /\ delivered \in [Link -> Seq(Nat)]

Init ==
    /\ published = 0
    /\ open = {}
    /\ start = [l \in Link |-> 0]
    /\ delivered = [l \in Link |-> <<>>]

Publish ==
    /\ published' = published + 1
    /\ UNCHANGED <<open, start, delivered>>

\* A connection starts with the frames published after it subscribed.
Subscribe(l) ==
    /\ l \notin open
    /\ open' = open \cup {l}
    /\ start' = [start EXCEPT ![l] = published]
    /\ UNCHANGED <<published, delivered>>

\* The newest frame l has delivered; before the first, the one it starts after.
Last(l) == IF delivered[l] = <<>> THEN start[l] ELSE delivered[l][Len(delivered[l])]

\* The frame delivered next is a later one, not necessarily the next.
Deliver(l) ==
    /\ l \in open
    /\ \E n \in (Last(l) + 1)..published : delivered' = [delivered EXCEPT ![l] = Append(@, n)]
    /\ UNCHANGED <<published, open, start>>

Next == Publish \/ \E l \in Link : Subscribe(l) \/ Deliver(l)

Spec == Init /\ [][Next]_vars
=============================================================================
