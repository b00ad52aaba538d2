----------------------------- MODULE MCWsClient -----------------------------
(* Small instances of WsClient for TLC.                                    *)
EXTENDS WsClient, TLC

\* Sockets are interchangeable (runs without liveness only).
SocketSymmetry == Permutations(Sockets)

=============================================================================
