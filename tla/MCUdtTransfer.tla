---------------------------- MODULE MCUdtTransfer ----------------------------
(* UdtTransfer for TLC: its constants are numbers and sets, given in the   *)
(* configurations.                                                         *)
EXTENDS UdtTransfer
=============================================================================
