---------------------------- MODULE MboxService ----------------------------
(***************************************************************************)
(* What a virtual function may rely on when it sends messages to the       *)
(* physical function with qdma_mbox_send_msg(): messages are handled in    *)
(* the order in which they were sent, each of them once, and a call that   *)
(* waits for the response returns after its message was handled; success   *)
(* means that it was handled with success. Nothing is promised when        *)
(* responses take longer than a second.                                    *)
(***************************************************************************)
EXTENDS Integers

CONSTANT VFs

VARIABLES
  timely,   \* are messages and responses read within a second?
  asked,    \* number of messages each function has sent
  done,     \* the last one that was handled, and whether with success
  returned  \* the last call that returned, and whether with success

vars == <<timely, asked, done, returned>>

Nothing == [n |-> 0, good |-> TRUE]

Init ==
  /\ timely \in BOOLEAN
  /\ asked = [v \in VFs |-> 0]
  /\ done = [v \in VFs |-> Nothing] /\ returned = done

\* A call that does not wait.
Post(v) ==
  /\ returned[v].n = asked[v]
  /\ asked' = [asked EXCEPT ![v] = @ + 1]
  /\ returned' = [returned EXCEPT ![v] = [n |-> asked[v] + 1, good |-> TRUE]]
  /\ UNCHANGED <<timely, done>>

Ask(v) ==
  /\ returned[v].n = asked[v]
  /\ asked' = [asked EXCEPT ![v] = @ + 1]
  /\ UNCHANGED <<timely, done, returned>>

Do(v, good) ==
  /\ done[v].n < asked[v]
  /\ done' = [done EXCEPT ![v] = [n |-> @.n + 1, good |-> good]]
  /\ UNCHANGED <<timely, asked, returned>>

Return(v, good) ==
  /\ returned[v].n < asked[v] /\ done[v].n = asked[v]
  /\ good => done[v].good
  /\ returned' = [returned EXCEPT ![v] = [n |-> asked[v], good |-> good]]
  /\ UNCHANGED <<timely, asked, done>>

Next ==
  \/ \E v \in VFs : Post(v) \/ Ask(v) \/ \E good \in BOOLEAN : Do(v, good) \/ Return(v, good)
  \/ ~timely /\ UNCHANGED timely

Spec == Init /\ [][Next]_vars
=============================================================================
