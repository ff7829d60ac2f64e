----------------------------- MODULE DmaService -----------------------------
(***************************************************************************)
(* What a caller of qdma_request_submit() may rely on for one MM or ST H2C *)
(* queue: requests wait in the order of their submission, the data of the  *)
(* first one that is not complete is moved piece by piece, and a request   *)
(* is reported as done when it is the oldest and all of it was moved. A    *)
(* request without data can only fail.                                     *)
(***************************************************************************)
EXTENDS Integers, Sequences

CONSTANTS Reqs, NDesc   \* the requests, and how many pieces each one has

VARIABLES
  queue,   \* requests submitted and not done, oldest first
  moved,   \* pieces of each request that were moved
  result   \* "pending", "ok" or "error"

vars == <<queue, moved, result>>

Queued(r) == \E i \in DOMAIN queue : queue[i] = r

Init ==
  /\ queue = <<>>
  /\ moved = [r \in Reqs |-> 0]
  /\ result = [r \in Reqs |-> "pending"]

Submit(r) ==
  /\ result[r] = "pending" /\ ~Queued(r)
  /\ queue' = Append(queue, r)
  /\ UNCHANGED <<moved, result>>

\* The next piece: everything submitted earlier was moved before.
Move(i) ==
  /\ moved[queue[i]] < NDesc[queue[i]]
  /\ \A j \in 1 .. i - 1 : moved[queue[j]] = NDesc[queue[j]]
  /\ moved' = [moved EXCEPT ![queue[i]] = @ + 1]
  /\ UNCHANGED <<queue, result>>

Complete ==
  /\ queue # <<>>
  /\ NDesc[Head(queue)] > 0
  /\ moved[Head(queue)] = NDesc[Head(queue)]
  /\ result' = [result EXCEPT ![Head(queue)] = "ok"]
  /\ queue' = Tail(queue)
  /\ UNCHANGED moved

Reject(i) ==
  /\ NDesc[queue[i]] = 0
  /\ result' = [result EXCEPT ![queue[i]] = "error"]
  /\ queue' = SubSeq(queue, 1, i - 1) \o SubSeq(queue, i + 1, Len(queue))
  /\ UNCHANGED moved

Next ==
  \/ \E r \in Reqs : Submit(r)
  \/ \E i \in DOMAIN queue : Move(i) \/ Reject(i)
  \/ Complete

Spec == Init /\ [][Next]_vars
=============================================================================
