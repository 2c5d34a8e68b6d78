----------------------------- MODULE MCUdtEpoll -----------------------------
(* Model values for UdtEpoll.  The application threads all run the same    *)
(* code, so they are interchangeable wherever only safety is checked.      *)
EXTENDS UdtEpoll, TLC
CONSTANTS a1, a2, rcv, gc, none, s1
AppSymmetry == Permutations({a1, a2})
=============================================================================
