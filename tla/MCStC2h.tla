------------------------------- MODULE MCStC2h -------------------------------
(* Instances of StC2h for TLC.                                             *)
EXTENDS StC2h

CONSTANTS whole, half

\* One reader asks for two packets, the other one for a single packet.
MCReaders == {whole, half}
MCCount   == [r \in MCReaders |-> IF r = whole THEN 6 ELSE 3]
\* Reads that end in the middle of a page.
MCCountPart == [r \in MCReaders |-> 1]
=============================================================================
