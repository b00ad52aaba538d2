---------------------------- MODULE MCPeerNames -----------------------------
(* The instance of PeerNames for TLC.                                      *)
EXTENDS PeerNames, TLC

\* Tabs, peers and names are interchangeable.
NamesSymmetry == Permutations(Tabs) \union Permutations(Peers) \union Permutations(Names)

=============================================================================
