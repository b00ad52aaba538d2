------------------------------ MODULE MCPages -------------------------------
(* Small instances of Pages for TLC.                                       *)
EXTENDS Pages, TLC

\* Networks, peers and names of loads are interchangeable (runs without liveness only).
PageSymmetry ==
    Permutations(Networks) \union Permutations(Peers) \union Permutations(Loads)

=============================================================================
