----------------------------- MODULE MCIntrAggr -----------------------------
(* Instances of IntrAggr for TLC.                                          *)
EXTENDS IntrAggr

CONSTANTS parity, timeout, poison

\* Two errors share a status register, the third one has its own.
MCErrors == {parity, timeout, poison}
MCReg    == [e \in MCErrors |-> IF e = poison THEN 2 ELSE 1]
=============================================================================
