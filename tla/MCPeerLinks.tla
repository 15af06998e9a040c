---------------------------- MODULE MCPeerLinks ----------------------------
(* Instances of PeerLinks small enough for TLC. *)
EXTENDS PeerLinks, TLC

CONSTANTS h1

\* Every process is an ssh client of the one host.
AllToOneHost == [s \in Session |-> h1]

Symmetry == Permutations(Session) \cup Permutations(Link)

\* The remotes answer at first; what they do not answer then is an outage at once.
AnsweringInit == Init /\ reachable = Host

AnsweringSpec == AnsweringInit /\ [][Next]_vars /\ Fairness
=============================================================================
