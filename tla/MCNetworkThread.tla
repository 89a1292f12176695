-------------------------- MODULE MCNetworkThread --------------------------
(* NetworkThread with small sets of clients and names. *)
EXTENDS NetworkThread, TLC

CONSTANTS c1, c2, a, b

TwoClients == {c1, c2}
TwoNames == {a, b}

\* Clients are interchangeable, and so are names.
TwoClientsSymmetry == Permutations(TwoClients) \cup Permutations(TwoNames)
============================================================================
