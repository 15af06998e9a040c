----------------------------- MODULE SyncPromise -----------------------------
(***************************************************************************)
(* What a daemon promises about outbound clipboard connections: a host has *)
(* at most one connection, it is claimed only while some SSH session to    *)
(* the host is tracked, and it is given up with the last of them.          *)
(***************************************************************************)
CONSTANTS Host, Session, Link, NoLink

VARIABLES
    tracked,  \* tracked[h]: SSH sessions to h
    owner     \* owner[h]: the connection that serves them, or NoLink

Init ==
    /\ tracked = [h \in Host |-> {}]
    /\ owner = [h \in Host |-> NoLink]

Join(h, new) ==
    /\ new # {}
    /\ new \cap tracked[h] = {}
    /\ tracked' = [tracked EXCEPT ![h] = @ \cup new]
    /\ UNCHANGED owner

\* A session leaves; the connection may go with it, and must if it was the last.
Leave(h, s) ==
    /\ s \in tracked[h]
    /\ tracked' = [tracked EXCEPT ![h] = @ \ {s}]
    /\ \/ owner' = [owner EXCEPT ![h] = NoLink]
       \/ /\ tracked[h] # {s}
          /\ UNCHANGED owner

Claim(h, l) ==
    /\ tracked[h] # {}
    /\ owner' = [owner EXCEPT ![h] = l]
    /\ UNCHANGED tracked

Release(h) ==
    /\ owner' = [owner EXCEPT ![h] = NoLink]
    /\ UNCHANGED tracked

Next ==
    \E h \in Host :
        \/ \E new \in SUBSET Session : Join(h, new)
        \/ \E s \in Session : Leave(h, s)
        \/ \E l \in Link : Claim(h, l)
        \/ Release(h)

Spec == Init /\ [][Next]_<<tracked, owner>>
=============================================================================
