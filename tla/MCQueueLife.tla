----------------------------- MODULE MCQueueLife -----------------------------
EXTENDS QueueLife
\* Callers use one queue, the others come and go.
MCUsers == {<<"h2c", 1>>}
=============================================================================
