----------------------------- MODULE MCContexts -----------------------------
(* A pair of the physical function and a streaming C2H queue of a virtual  *)
(* one.                                                                    *)
EXTENDS Contexts

MCQueues == {<<"h2c", 1>>, <<"c2h", 1>>, <<"c2h", 2>>}

\* What fails while a queue is started, and reads to show it. Not the
\* clearing of a queue that stops or whose start failed, whose result the
\* code does not look at.
MCTimeoutOps == {<<"start", "WR">>, <<"start", "CLR">>, <<"dump", "RD">>}
=============================================================================
