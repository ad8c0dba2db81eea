------------------------------ MODULE MCSpiReg ------------------------------
(* Instances of SpiReg for TLC: two threads of one process and one thread  *)
(* of another, two registers of which one is read.                         *)
EXTENDS SpiReg, TLC

CONSTANTS t1, t2, t3, p1, p2, a1, a2, v0, v1, v2

ThreeThreads == {t1, t2, t3}
TwoProcs == {p1, p2}
ThreeProcOf == (t1 :> p1) @@ (t2 :> p1) @@ (t3 :> p2)

(* One thread in each process                                              *)
TwoThreads == {t1, t3}
TwoProcOf == (t1 :> p1) @@ (t3 :> p2)

ReadA1 == [op |-> "read", addr |-> a1, val |-> NoVal]
WriteA1 == [op |-> "write", addr |-> a1, val |-> v1]
WriteA2 == [op |-> "write", addr |-> a2, val |-> v2]

AllRequests == {ReadA1, WriteA1, WriteA2}
Zeroed == {[a \in Addr |-> v0]}

(* All faults but answers that come late.                                  *)
LineFaults == {"lost", "noise", "nack", "syscall", "giveup"}
AllFaults == FaultKinds
=============================================================================
