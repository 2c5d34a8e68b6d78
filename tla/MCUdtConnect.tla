---------------------------- MODULE MCUdtConnect ----------------------------
(* Instances of UdtConnect: "a" waits in connect, "b" does not; both are     *)
(* behind one address, and the last two bits of their identities agree.      *)
EXTENDS UdtConnect

MCSocketID == [c \in Clients |-> IF c = "a" THEN 1 ELSE 5]
MCSynRecving == [c \in Clients |-> c = "a"]
MCAddress == [c \in Clients |-> "host"]

\* The minute changes only during a first attempt of "a" alone.
MCBound == minute = 0 \/ (attempts["b"] = 0 /\ attempts["a"] = 1)
=============================================================================
