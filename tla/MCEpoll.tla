------------------------------- MODULE MCEpoll -------------------------------
(* Instances of Epoll for TLC: a device, and a number that is reused.       *)
EXTENDS Epoll

CONSTANTS f1, f2

MCKinds == [f \in Fd |-> IF f = f1 THEN {"dev"} ELSE {"plain", "dev"}]
=============================================================================
