---------------------------- MODULE MCUdtServer -----------------------------
(* UdtServer for TLC: how many messages each client sends.                 *)
EXTENDS UdtServer, TLC

CONSTANTS l, a, b

OneClient == a :> 3
TwoClients == a :> 2 @@ b :> 1
=============================================================================
