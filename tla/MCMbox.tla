------------------------------- MODULE MCMbox -------------------------------
EXTENDS Mbox
\* Two virtual functions.
MCVFs == 1 .. 2
\* The first one may go offline and online again.
MCMaxSent == <<4, 2>>
=============================================================================
