-------------------------------- MODULE MCAio --------------------------------
(* Instances of Aio for TLC.                                               *)
EXTENDS Aio

CONSTANTS single, vector, writer, reader

\* An asynchronous read of one segment and a write of two, and blocking calls
\* of both directions.
MCIocbs == {single, vector}
MCSegs  == [i \in MCIocbs |-> IF i = vector THEN 2 ELSE 1]
MCDir   == [x \in MCIocbs \cup {writer, reader} |->
              IF x \in {single, reader} THEN "c2h" ELSE "h2c"]
=============================================================================
