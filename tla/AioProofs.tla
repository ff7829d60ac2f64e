------------------------------ MODULE AioProofs ------------------------------
(***************************************************************************)
(* Proofs about Aio for every set of requests, of any number of segments,  *)
(* every set of blocking calls and of processors.                          *)
(***************************************************************************)
EXTENDS Aio, TLAPS, FiniteSetTheorems

-----------------------------------------------------------------------------
(* The inductive invariant.                                                *)

\* The part waits in a work queue.
Queued(p) == \E c \in Cpus : \E k \in 1 .. Len(wq[c]) : wq[c][k] = p

\* No part waits twice.
Distinct ==
  \A c, d \in Cpus : \A k \in 1 .. Len(wq[c]), l \in 1 .. Len(wq[d]) :
    wq[c][k] = wq[d][l] => c = d /\ k = l

\* A part that is live waits in a work queue or is in the hands of a handler.
Placed ==
  /\ Distinct
  /\ \A c \in Cpus : cur[c] = None <=> pc[c] = "idle"
  /\ \A c, d \in Cpus : cur[c] # None /\ cur[c] = cur[d] => c = d
  /\ \A c \in Cpus : cur[c] # None => ~Queued(cur[c])
  /\ \A p \in Parts : part[p] = "live" <=> Queued(p) \/ \E c \in Cpus : cur[c] = p

\* Where a call is that has a part to add.
Adding == {"submit", "flag", "queue"}

\* The parts of a request come to be in their order.
Calls ==
  /\ \A i \in Iocbs : nr[i] <= Segs[i] /\ (call[i] \in Adding => nr[i] < Segs[i])
  /\ \A i \in Iocbs : call[i] = "idle" => nr[i] = 0
  /\ \A p \in Parts : part[p] = "none" <=> p[2] > nr[p[1]]

\* What iocb->private shows of a request: its latest part, which is set up
\* unless it was found early; then the flag of a cancellation stays.
Found ==
  /\ \A i \in Iocbs : call[i] \in {"flag", "queue"} => private[i] = NextPart(i)
  /\ \A i \in Iocbs : call[i] \notin {"flag", "queue"} /\ Registered(i) =>
       private[i] \in Parts /\ private[i][1] = i /\ private[i][2] <= nr[i]
  /\ \A i \in Iocbs : canceler[i] # "idle" => target[i] \in Parts /\ target[i][1] = i
  /\ \A i \in Iocbs : canceler[i] # "idle" /\ i \notin early => target[i][2] <= nr[i]
  /\ \A i \in Iocbs : canceler[i] = "done" /\ i \notin early => target[i] \in cancel

\* A device that is being destroyed gets no more parts.
Closed ==
  /\ dev # "live" => \A i \in Iocbs : call[i] \notin Adding
  /\ dev = "freed" => Drained

\* Who is between lock and unlock has the lock, but for a part that was found
\* before its lock was initialised.
Locks ==
  /\ \A c \in Cpus : pc[c] \in {"check", "move", "unmap", "free"} /\ cur[c][1] \notin early =>
       lock[cur[c]] = c
  /\ \A i \in Iocbs : canceler[i] = "locked" /\ i \notin early => lock[target[i]] = i
  /\ \A c \in Cpus : pc[c] \in {"move", "unmap"} => dirLock[PartDir(cur[c])] = c
  /\ \A t \in Callers : rw[t] \in {"map", "move"} => dirLock[Dir[t]] = t

\* The pages of part p were released after its transfer, or it was cancelled
\* and they were not.
Ended(p) == IF p \in moved THEN p \notin pinned ELSE p \in cancel /\ p \in pinned

\* What became of a part at each step of the handler.
Progress ==
  /\ \A p \in Parts : part[p] = "none" => p \notin moved
  /\ \A p \in Parts : Queued(p) => p \notin moved /\ p \in pinned
  /\ \A c \in Cpus : pc[c] \in {"lock", "check", "move"} => cur[c] \notin moved /\ cur[c] \in pinned
  /\ \A c \in Cpus : pc[c] = "move" /\ cur[c][1] \notin early => cur[c] \notin cancel
  /\ \A c \in Cpus : pc[c] = "unmap" => cur[c] \in moved
  /\ \A c \in Cpus : pc[c] \in {"free", "release"} => Ended(cur[c])
  /\ \A p \in Parts : part[p] = "freed" => Ended(p)
  /\ \A t \in Callers : t \in pinned <=> rw[t] = "move"

\* The pages of a part are pinned before it is queued.
Readied == \A i \in Iocbs : call[i] \in {"flag", "queue"} => NextPart(i) \in pinned

\* The kernel is told as often as a part was transferred.
Told == \A i \in Iocbs : completed[i] = Cardinality({p \in moved : p[1] = i})

\* Neither PartsExact nor EndsProperly is inductive alone: what happens to a
\* part next depends on where its handler is, and that a part in the hands of
\* one is not cancelled depends on its lock, unless it was found early.
AioInv == TypeOK /\ Placed /\ Calls /\ Found /\ Closed /\ Locks /\ Progress /\ Readied /\ Told

-----------------------------------------------------------------------------
(* Parts and work queues.                                                  *)

\* A part is its request and the number of its segment.
LEMMA PartFields ==
  ASSUME NEW p \in Parts
  PROVE  /\ p[1] \in Iocbs /\ p[2] \in 1 .. Segs[p[1]] /\ p = <<p[1], p[2]>>
         /\ p # None /\ p \notin Callers
         /\ PartDir(p) \in Dirs
<1>1. PICK i \in Iocbs : p \in {i} \X (1 .. Segs[i])
  BY DEF Parts
<1>2. p[1] \in Iocbs /\ p[2] \in 1 .. Segs[p[1]] /\ p = <<p[1], p[2]>>
  BY <1>1
<1>3. Dir[p[1]] \in Dirs
  BY <1>2, DirAssumption DEF Dirs
<1> QED
  BY <1>2, <1>3, PartsAssumption DEF PartDir

\* Every segment of a request may get its part.
LEMMA PartMade ==
  ASSUME NEW i \in Iocbs, NEW k \in 1 .. Segs[i]
  PROVE  <<i, k>> \in Parts
BY DEF Parts

\* A request has finitely many parts.
LEMMA PartsFinite ==
  ASSUME NEW i \in Iocbs
  PROVE  IsFiniteSet({p \in Parts : p[1] = i})
<1>1. Segs[i] \in Nat
  BY SegsAssumption
<1>2. IsFiniteSet({i} \X (1 .. Segs[i]))
  <2>1. IsFiniteSet({i})
    BY FS_Singleton
  <2>2. IsFiniteSet(1 .. Segs[i])
    BY <1>1, FS_Interval
  <2> QED
    BY <2>1, <2>2, FS_Product
<1>3. {p \in Parts : p[1] = i} \subseteq {i} \X (1 .. Segs[i])
  <2> SUFFICES ASSUME NEW p \in Parts, p[1] = i PROVE p \in {i} \X (1 .. Segs[i])
    OBVIOUS
  <2> QED
    BY PartFields
<1> QED
  BY <1>2, <1>3, FS_Subset

\* queue_work() of a part that does not wait yet.
LEMMA WorkAppended ==
  ASSUME wq \in [Cpus -> Seq(Parts)], Distinct, NEW c \in Cpus, NEW p \in Parts, ~Queued(p),
         wq' = [wq EXCEPT ![c] = Append(@, p)]
  PROVE  /\ wq' \in [Cpus -> Seq(Parts)] /\ Distinct'
         /\ \A q \in Parts : Queued(q)' <=> Queued(q) \/ q = p
<1>1. wq' \in [Cpus -> Seq(Parts)]
  OBVIOUS
<1>2. \A d \in Cpus : Len(wq[d]) \in Nat /\ \A k \in 1 .. Len(wq[d]) : wq[d][k] \in Parts
  OBVIOUS
<1>3. /\ Len(wq'[c]) = Len(wq[c]) + 1 /\ wq'[c][Len(wq[c]) + 1] = p
      /\ \A k \in 1 .. Len(wq[c]) : wq'[c][k] = wq[c][k]
      /\ \A d \in Cpus : d # c => wq'[d] = wq[d]
  OBVIOUS
<1>4. Distinct'
  <2> SUFFICES ASSUME NEW d \in Cpus, NEW e \in Cpus,
                      NEW k \in 1 .. Len(wq'[d]), NEW l \in 1 .. Len(wq'[e]),
                      wq'[d][k] = wq'[e][l]
               PROVE  d = e /\ k = l
    BY DEF Distinct
  <2>1. ASSUME NEW f \in Cpus, NEW m \in 1 .. Len(wq'[f])
        PROVE  \/ m \in 1 .. Len(wq[f]) /\ wq'[f][m] = wq[f][m] /\ wq'[f][m] # p
               \/ f = c /\ m = Len(wq[c]) + 1 /\ wq'[f][m] = p
    BY <1>2, <1>3 DEF Queued
  <2> QED
    BY <2>1 DEF Distinct
<1>5. ASSUME NEW q \in Parts PROVE Queued(q)' <=> Queued(q) \/ q = p
  <2>1. ASSUME Queued(q)' PROVE Queued(q) \/ q = p
    BY <2>1, <1>2, <1>3 DEF Queued
  <2>2. ASSUME q = p PROVE Queued(q)'
    BY <2>2, <1>2, <1>3 DEF Queued
  <2>3. ASSUME Queued(q) PROVE Queued(q)'
    <3>0. PICK d \in Cpus : \E k \in 1 .. Len(wq[d]) : wq[d][k] = q
      BY <2>3 DEF Queued
    <3>1. PICK k \in 1 .. Len(wq[d]) : wq[d][k] = q
      BY <3>0
    <3>2. k \in 1 .. Len(wq'[d]) /\ wq'[d][k] = q
      BY <3>1, <1>2, <1>3
    <3> QED
      BY <3>2 DEF Queued
  <2> QED
    BY <2>1, <2>2, <2>3
<1> QED
  BY <1>1, <1>4, <1>5

\* The first work of a processor is taken.
LEMMA WorkTaken ==
  ASSUME wq \in [Cpus -> Seq(Parts)], Distinct, NEW c \in Cpus, wq[c] # <<>>,
         wq' = [wq EXCEPT ![c] = Tail(@)]
  PROVE  /\ wq' \in [Cpus -> Seq(Parts)] /\ Distinct'
         /\ Head(wq[c]) \in Parts /\ Queued(Head(wq[c]))
         /\ \A q \in Parts : Queued(q)' <=> Queued(q) /\ q # Head(wq[c])
<1>1. wq' \in [Cpus -> Seq(Parts)]
  OBVIOUS
<1>2. \A d \in Cpus : Len(wq[d]) \in Nat /\ \A k \in 1 .. Len(wq[d]) : wq[d][k] \in Parts
  OBVIOUS
<1>3. /\ 1 \in 1 .. Len(wq[c]) /\ Head(wq[c]) = wq[c][1]
      /\ Len(wq'[c]) = Len(wq[c]) - 1
      /\ \A k \in 1 .. Len(wq[c]) - 1 : wq'[c][k] = wq[c][k + 1]
      /\ \A d \in Cpus : d # c => wq'[d] = wq[d]
  OBVIOUS
<1>4. \A d \in Cpus : \A k \in 1 .. Len(wq'[d]) :
        /\ (IF d = c THEN k + 1 ELSE k) \in 1 .. Len(wq[d])
        /\ wq'[d][k] = wq[d][IF d = c THEN k + 1 ELSE k]
  BY <1>2, <1>3
<1>5. Distinct'
  <2> SUFFICES ASSUME NEW d \in Cpus, NEW e \in Cpus,
                      NEW k \in 1 .. Len(wq'[d]), NEW l \in 1 .. Len(wq'[e]),
                      wq'[d][k] = wq'[e][l]
               PROVE  d = e /\ k = l
    BY DEF Distinct
  <2> QED
    BY <1>4 DEF Distinct
<1>6. ASSUME NEW q \in Parts PROVE Queued(q)' <=> Queued(q) /\ q # Head(wq[c])
  <2>1. ASSUME Queued(q)' PROVE Queued(q) /\ q # Head(wq[c])
    <3>0. PICK d \in Cpus : \E k \in 1 .. Len(wq'[d]) : wq'[d][k] = q
      BY <2>1 DEF Queued
    <3>1. PICK k \in 1 .. Len(wq'[d]) : wq'[d][k] = q
      BY <3>0
    <3> DEFINE m == IF d = c THEN k + 1 ELSE k
    <3>2. m \in 1 .. Len(wq[d]) /\ wq[d][m] = q
      BY <3>1, <1>4
    <3>3. d = c => m # 1
      BY <1>2, <1>3
    <3> QED
      BY <3>2, <3>3, <1>3 DEF Queued, Distinct
  <2>2. ASSUME Queued(q), q # Head(wq[c]) PROVE Queued(q)'
    <3>0. PICK d \in Cpus : \E k \in 1 .. Len(wq[d]) : wq[d][k] = q
      BY <2>2 DEF Queued
    <3>1. PICK k \in 1 .. Len(wq[d]) : wq[d][k] = q
      BY <3>0
    <3>2. CASE d = c
      <4>1. k - 1 \in 1 .. Len(wq'[d]) /\ wq'[d][k - 1] = q
        BY <3>1, <3>2, <2>2, <1>2, <1>3
      <4> QED
        BY <4>1 DEF Queued
    <3>3. CASE d # c
      BY <3>1, <3>3, <1>3 DEF Queued
    <3> QED
      BY <3>2, <3>3
  <2> QED
    BY <2>1, <2>2
<1> QED
  BY <1>1, <1>2, <1>3, <1>5, <1>6 DEF Queued

\* The queues stay as they are.
LEMMA QueueSame ==
  ASSUME UNCHANGED wq
  PROVE  (Distinct <=> Distinct') /\ \A q \in Parts : Queued(q)' <=> Queued(q)
BY DEF Distinct, Queued

\* The part of the next segment is new.
LEMMA PartNext ==
  ASSUME AioInv, NEW i \in Iocbs, call[i] \in Adding
  PROVE  LET p == NextPart(i)
         IN  /\ p \in Parts /\ p[1] = i /\ p[2] = nr[i] + 1 /\ part[p] = "none"
             /\ ~Queued(p) /\ \A c \in Cpus : cur[c] # p
<1> DEFINE p == NextPart(i)
<1>1. nr[i] \in Nat /\ nr[i] < Segs[i] /\ Segs[i] \in Nat
  BY SegsAssumption DEF AioInv, TypeOK, Calls
<1>2. p \in Parts /\ p[1] = i /\ p[2] = nr[i] + 1
  BY <1>1, PartMade DEF NextPart
<1> HIDE DEF p
<1>3. part[p] = "none"
  BY <1>1, <1>2 DEF AioInv, Calls
<1>4. ~Queued(p) /\ \A c \in Cpus : cur[c] # p
  BY <1>2, <1>3 DEF AioInv, Placed
<1> QED
  BY <1>2, <1>3, <1>4 DEF p

\* It goes to the work queue.
LEMMA PartSubmitted ==
  ASSUME AioInv, NEW i \in Iocbs, SubmitQueue(i)
  PROVE  LET p == NextPart(i)
         IN  /\ p \in Parts /\ p[1] = i /\ p[2] = nr[i] + 1 /\ part[p] = "none"
             /\ \A c \in Cpus : cur[c] # p
             /\ wq' \in [Cpus -> Seq(Parts)] /\ Distinct'
             /\ ~Queued(p) /\ \A q \in Parts : Queued(q)' <=> Queued(q) \/ q = p
<1> DEFINE p == NextPart(i)
<1>1. /\ p \in Parts /\ p[1] = i /\ p[2] = nr[i] + 1 /\ part[p] = "none"
      /\ ~Queued(p) /\ \A c \in Cpus : cur[c] # p
  BY PartNext DEF SubmitQueue, Adding
<1>2. PICK c \in Cpus : wq' = [wq EXCEPT ![c] = Append(@, p)]
  BY DEF SubmitQueue
<1>3. wq \in [Cpus -> Seq(Parts)] /\ Distinct
  BY DEF AioInv, TypeOK, Placed
<1> HIDE DEF p
<1>4. wq' \in [Cpus -> Seq(Parts)] /\ Distinct' /\ \A q \in Parts : Queued(q)' <=> Queued(q) \/ q = p
  BY <1>1, <1>2, <1>3, WorkAppended
<1> QED
  BY <1>1, <1>4 DEF p

\* A part that is taken from a queue is live.
LEMMA PartTaken ==
  ASSUME AioInv, NEW c \in Cpus, Take(c)
  PROVE  LET p == Head(wq[c])
         IN  /\ p \in Parts /\ p # None /\ part[p] = "live"
             /\ \A d \in Cpus : cur[d] # p
             /\ wq' \in [Cpus -> Seq(Parts)] /\ Distinct'
             /\ Queued(p) /\ \A q \in Parts : Queued(q)' <=> Queued(q) /\ q # p
<1> DEFINE p == Head(wq[c])
<1>1. wq \in [Cpus -> Seq(Parts)] /\ Distinct
  BY DEF AioInv, TypeOK, Placed
<1>2. /\ p \in Parts /\ Queued(p) /\ wq' \in [Cpus -> Seq(Parts)] /\ Distinct'
      /\ \A q \in Parts : Queued(q)' <=> Queued(q) /\ q # p
  BY <1>1, WorkTaken DEF Take
<1> HIDE DEF p
<1>3. p # None /\ part[p] = "live" /\ \A d \in Cpus : cur[d] # p
  BY <1>2, PartsAssumption DEF AioInv, Placed
<1> QED
  BY <1>2, <1>3 DEF p

\* A handler that does not get a lock puts its part at the end of the queue.
LEMMA PartRequeued ==
  ASSUME AioInv, NEW c \in Cpus, pc[c] # "idle", Requeue(c)
  PROVE  /\ cur[c] \in Parts
         /\ wq' \in [Cpus -> Seq(Parts)] /\ Distinct'
         /\ \A q \in Parts : Queued(q)' <=> Queued(q) \/ q = cur[c]
<1>1. wq \in [Cpus -> Seq(Parts)] /\ Distinct /\ cur[c] \in Parts /\ ~Queued(cur[c])
  BY DEF AioInv, TypeOK, Placed
<1> QED
  BY <1>1, WorkAppended DEF Requeue

\* A handler that runs has a part, which is live, and nobody else has it.
LEMMA HandlerPart ==
  ASSUME AioInv, NEW c \in Cpus, pc[c] # "idle"
  PROVE  /\ cur[c] \in Parts /\ cur[c] # None /\ part[cur[c]] = "live" /\ ~Queued(cur[c])
         /\ \A d \in Cpus : cur[d] = cur[c] => d = c
BY PartsAssumption DEF AioInv, TypeOK, Placed

-----------------------------------------------------------------------------
(* Every step keeps the invariant.                                         *)

\* The types: what a step writes is in the range of its variable.
LEMMA TypesKept ==
  ASSUME AioInv, [Next]_vars
  PROVE  TypeOK'
<1> USE DEF caio, kiocb, cancels, work
<1>0. AioInv /\ TypeOK
  BY DEF AioInv
<1>1. ASSUME NEW i \in Iocbs, Submit(i) PROVE TypeOK'
  BY <1>0, <1>1, QueueSame, NamesAssumption, PartsAssumption DEF TypeOK, Submit
<1>2a. ASSUME NEW i \in Iocbs, SubmitPart(i) PROVE TypeOK'
  <2>1. NextPart(i) \in Parts
    BY <1>2a, PartNext DEF SubmitPart, Adding
  <2> QED
    BY <1>0, <1>2a, <2>1 DEF TypeOK, SubmitPart
<1>2b. ASSUME NEW i \in Iocbs, SubmitFlag(i) PROVE TypeOK'
  BY <1>0, <1>2b DEF TypeOK, SubmitFlag
<1>2. ASSUME NEW i \in Iocbs, SubmitQueue(i) PROVE TypeOK'
  <2> DEFINE p == NextPart(i)
  <2>1. /\ p \in Parts /\ p[1] = i /\ p[2] = nr[i] + 1 /\ part[p] = "none"
        /\ \A c \in Cpus : cur[c] # p
        /\ wq' \in [Cpus -> Seq(Parts)] /\ Distinct'
        /\ ~Queued(p) /\ \A q \in Parts : Queued(q)' <=> Queued(q) \/ q = p
    BY <1>2, PartSubmitted
  <2>2. /\ part' = [part EXCEPT ![p] = "live"] /\ lock' = [lock EXCEPT ![p] = None]
        /\ nr' = [nr EXCEPT ![i] = @ + 1] /\ call[i] = "queue"
        /\ call' = [call EXCEPT ![i] = IF nr'[i] = Segs[i] THEN "queued" ELSE "submit"]
        /\ UNCHANGED <<cancel, pinned, private, completed, cancels, cur, pc, dirLock, rw, dev,
                       moved>>
    BY <1>2 DEF SubmitQueue, AllQueued
  <2> HIDE DEF p
  <2> QED
    BY <1>0, <2>1, <2>2, NamesAssumption DEF TypeOK
<1>3. ASSUME NEW i \in Iocbs, SubmitFails(i) PROVE TypeOK'
  BY <1>0, <1>3, QueueSame, NamesAssumption, PartsAssumption DEF TypeOK, SubmitFails
<1>4. ASSUME NEW i \in Iocbs, Cancel(i) PROVE TypeOK'
  BY <1>0, <1>4, QueueSame, NamesAssumption, PartsAssumption DEF TypeOK, Cancel
<1>5. ASSUME NEW i \in Iocbs, CancelLock(i) PROVE TypeOK'
  BY <1>0, <1>5, QueueSame, NamesAssumption, PartsAssumption DEF TypeOK, CancelLock
<1>6. ASSUME NEW i \in Iocbs, CancelUnlock(i) PROVE TypeOK'
  <2>1. target[i] \in Parts
    BY <1>6 DEF AioInv, Found, CancelUnlock
  <2> QED
    BY <1>0, <1>6, <2>1 DEF TypeOK, CancelUnlock
<1>7. ASSUME NEW c \in Cpus, Take(c) PROVE TypeOK'
  BY <1>0, <1>7, PartTaken, NamesAssumption, PartsAssumption DEF TypeOK, Take, Goto
<1>8. ASSUME NEW c \in Cpus, LockPart(c) PROVE TypeOK'
  BY <1>0, <1>8, QueueSame, HandlerPart, NamesAssumption, PartsAssumption
  DEF TypeOK, LockPart, Goto
<1>9. ASSUME NEW c \in Cpus, LockPartFails(c) PROVE TypeOK'
  BY <1>0, <1>9, HandlerPart, PartRequeued, NamesAssumption, PartsAssumption
  DEF TypeOK, LockPartFails, Goto, Leave
<1>10. ASSUME NEW c \in Cpus, Skip(c) PROVE TypeOK'
  BY <1>0, <1>10, QueueSame, HandlerPart, NamesAssumption, PartsAssumption
  DEF TypeOK, Skip, Goto, Skips
<1>11. ASSUME NEW c \in Cpus, LockDir(c) PROVE TypeOK'
  BY <1>0, <1>11, QueueSame, HandlerPart, NamesAssumption, PartsAssumption
  DEF TypeOK, LockDir, Goto, Skips, DirFree
<1>12. ASSUME NEW c \in Cpus, LockDirFails(c) PROVE TypeOK'
  BY <1>0, <1>12, HandlerPart, PartRequeued, NamesAssumption, PartsAssumption
  DEF TypeOK, LockDirFails, Goto, Leave, Skips
<1>13. ASSUME NEW c \in Cpus, Complete(c) PROVE TypeOK'
  <2>1. cur[c] \in Parts /\ cur[c][1] \in Iocbs
    BY <1>0, <1>13, HandlerPart, PartFields DEF Complete, Goto
  <2> QED
    BY <1>0, <1>13, <2>1 DEF TypeOK, Complete, Goto
<1>14. ASSUME NEW c \in Cpus, Unmap(c) PROVE TypeOK'
  BY <1>0, <1>14, QueueSame, HandlerPart, NamesAssumption, PartsAssumption
  DEF TypeOK, Unmap, Goto, Unpinned
<1>15. ASSUME NEW c \in Cpus, Unlock(c) PROVE TypeOK'
  BY <1>0, <1>15, QueueSame, HandlerPart, NamesAssumption, PartsAssumption
  DEF TypeOK, Unlock, Goto
<1>16. ASSUME NEW c \in Cpus, Free(c) PROVE TypeOK'
  BY <1>0, <1>16, QueueSame, HandlerPart, NamesAssumption, PartsAssumption
  DEF TypeOK, Free, Goto, Leave
<1>17. ASSUME NEW t \in Callers, RwLock(t) PROVE TypeOK'
  BY <1>0, <1>17, QueueSame, NamesAssumption, PartsAssumption DEF TypeOK, RwLock, DirFree
<1>18. ASSUME NEW t \in Callers, RwRefused(t) PROVE TypeOK'
  BY <1>0, <1>18, QueueSame, NamesAssumption, PartsAssumption DEF TypeOK, RwRefused
<1>19. ASSUME NEW t \in Callers, RwMap(t) PROVE TypeOK'
  BY <1>0, <1>19, QueueSame, NamesAssumption, PartsAssumption DEF TypeOK, RwMap
<1>20. ASSUME NEW t \in Callers, RwMapFails(t) PROVE TypeOK'
  BY <1>0, <1>20, QueueSame, NamesAssumption, PartsAssumption DEF TypeOK, RwMapFails, RwUnlock
<1>21. ASSUME NEW t \in Callers, RwDone(t) PROVE TypeOK'
  BY <1>0, <1>21, QueueSame, NamesAssumption, PartsAssumption DEF TypeOK, RwDone, RwUnlock
<1>22. ASSUME Destroy PROVE TypeOK'
  BY <1>0, <1>22, QueueSame, NamesAssumption, PartsAssumption DEF TypeOK, Destroy
<1>23. ASSUME DestroyDone PROVE TypeOK'
  BY <1>0, <1>23, QueueSame, NamesAssumption, PartsAssumption DEF TypeOK, DestroyDone
<1>24. ASSUME UNCHANGED vars PROVE TypeOK'
  BY <1>0, <1>24, QueueSame, NamesAssumption, PartsAssumption DEF TypeOK, vars
<1> QED
  BY <1>1, <1>2a, <1>2b, <1>2, <1>3, <1>4, <1>5, <1>6, <1>7, <1>8, <1>9, <1>10, <1>11, <1>12,
     <1>13, <1>14, <1>15, <1>16, <1>17, <1>18, <1>19, <1>20, <1>21, <1>22, <1>23, <1>24
  DEF Next, SubmitStep, CancelStep, HandlerStep, RwStep

\* A part goes from the queue to a handler, back to the queue, or is freed.
LEMMA PlacedKept ==
  ASSUME AioInv, [Next]_vars
  PROVE  Placed'
<1> USE DEF caio, kiocb, cancels, work
<1>0. AioInv /\ TypeOK /\ Placed
  BY DEF AioInv
<1>1. ASSUME NEW i \in Iocbs, Submit(i) PROVE Placed'
  BY <1>0, <1>1, QueueSame, PartsAssumption DEF TypeOK, Placed, Submit
<1>2a. ASSUME NEW i \in Iocbs, SubmitPart(i) PROVE Placed'
  BY <1>0, <1>2a, QueueSame, PartsAssumption DEF TypeOK, Placed, SubmitPart
<1>2b. ASSUME NEW i \in Iocbs, SubmitFlag(i) PROVE Placed'
  BY <1>0, <1>2b, QueueSame, PartsAssumption DEF TypeOK, Placed, SubmitFlag
<1>2. ASSUME NEW i \in Iocbs, SubmitQueue(i) PROVE Placed'
  <2> DEFINE p == NextPart(i)
  <2>1. /\ p \in Parts /\ p[1] = i /\ p[2] = nr[i] + 1 /\ part[p] = "none"
        /\ \A c \in Cpus : cur[c] # p
        /\ wq' \in [Cpus -> Seq(Parts)] /\ Distinct'
        /\ ~Queued(p) /\ \A q \in Parts : Queued(q)' <=> Queued(q) \/ q = p
    BY <1>2, PartSubmitted
  <2>2. /\ part' = [part EXCEPT ![p] = "live"] /\ lock' = [lock EXCEPT ![p] = None]
        /\ nr' = [nr EXCEPT ![i] = @ + 1] /\ call[i] = "queue"
        /\ call' = [call EXCEPT ![i] = IF nr'[i] = Segs[i] THEN "queued" ELSE "submit"]
        /\ UNCHANGED <<cancel, pinned, private, completed, cancels, cur, pc, dirLock, rw, dev,
                       moved>>
    BY <1>2 DEF SubmitQueue, AllQueued
  <2> HIDE DEF p
  <2> QED
    BY <1>0, <2>1, <2>2 DEF TypeOK, Placed
<1>3. ASSUME NEW i \in Iocbs, SubmitFails(i) PROVE Placed'
  BY <1>0, <1>3, QueueSame, PartsAssumption DEF TypeOK, Placed, SubmitFails
<1>4. ASSUME NEW i \in Iocbs, Cancel(i) PROVE Placed'
  BY <1>0, <1>4, QueueSame, PartsAssumption DEF TypeOK, Placed, Cancel
<1>5. ASSUME NEW i \in Iocbs, CancelLock(i) PROVE Placed'
  BY <1>0, <1>5, QueueSame, PartsAssumption DEF TypeOK, Placed, CancelLock
<1>6. ASSUME NEW i \in Iocbs, CancelUnlock(i) PROVE Placed'
  BY <1>0, <1>6, QueueSame, PartsAssumption DEF TypeOK, Placed, CancelUnlock
<1>7. ASSUME NEW c \in Cpus, Take(c) PROVE Placed'
  <2> DEFINE p == Head(wq[c])
  <2>1. /\ p \in Parts /\ p # None /\ part[p] = "live"
        /\ \A d \in Cpus : cur[d] # p
        /\ Distinct' /\ Queued(p) /\ \A q \in Parts : Queued(q)' <=> Queued(q) /\ q # p
    BY <1>7, PartTaken
  <2>2. /\ pc[c] = "idle" /\ pc' = [pc EXCEPT ![c] = "lock"] /\ cur' = [cur EXCEPT ![c] = p]
        /\ UNCHANGED <<caio, pinned, kiocb, cancels, dirLock, rw, dev, moved>>
    BY <1>7 DEF Take, Goto
  <2> HIDE DEF p
  <2>3. \A d \in Cpus : cur'[d] = (IF d = c THEN p ELSE cur[d]) /\ pc'[d] = (IF d = c THEN "lock" ELSE pc[d])
    BY <1>0, <2>2 DEF TypeOK
  <2>4. \A d \in Cpus : cur[d] # None => cur[d] \in Parts
    BY <1>0 DEF TypeOK
  <2>5. \A q \in Parts : part'[q] = "live" <=> Queued(q)' \/ \E d \in Cpus : cur'[d] = q
    BY <1>0, <2>1, <2>2, <2>3, PartsAssumption DEF Placed
  <2>6. \A d \in Cpus : \A q \in Parts : cur'[d] = q => ~Queued(q)'
    BY <1>0, <2>1, <2>3, <2>4, PartsAssumption DEF Placed
  <2>7. \A d, e \in Cpus : cur'[d] # None /\ cur'[d] = cur'[e] => d = e
    BY <1>0, <2>1, <2>3 DEF Placed
  <2> QED
    BY <1>0, <2>1, <2>2, <2>3, <2>4, <2>5, <2>6, <2>7 DEF Placed
<1>8. ASSUME NEW c \in Cpus, LockPart(c) PROVE Placed'
  BY <1>0, <1>8, QueueSame, HandlerPart, PartsAssumption DEF TypeOK, Placed, LockPart, Goto
<1>9. ASSUME NEW c \in Cpus, LockPartFails(c) PROVE Placed'
  BY <1>0, <1>9, HandlerPart, PartRequeued, PartsAssumption
  DEF TypeOK, Placed, LockPartFails, Goto, Leave
<1>10. ASSUME NEW c \in Cpus, Skip(c) PROVE Placed'
  BY <1>0, <1>10, QueueSame, HandlerPart, PartsAssumption DEF TypeOK, Placed, Skip, Goto, Skips
<1>11. ASSUME NEW c \in Cpus, LockDir(c) PROVE Placed'
  BY <1>0, <1>11, QueueSame, HandlerPart, PartsAssumption
  DEF TypeOK, Placed, LockDir, Goto, Skips, DirFree
<1>12. ASSUME NEW c \in Cpus, LockDirFails(c) PROVE Placed'
  BY <1>0, <1>12, HandlerPart, PartRequeued, PartsAssumption
  DEF TypeOK, Placed, LockDirFails, Goto, Leave, Skips
<1>13. ASSUME NEW c \in Cpus, Complete(c) PROVE Placed'
  BY <1>0, <1>13, QueueSame, HandlerPart, PartsAssumption DEF TypeOK, Placed, Complete, Goto
<1>14. ASSUME NEW c \in Cpus, Unmap(c) PROVE Placed'
  BY <1>0, <1>14, QueueSame, HandlerPart, PartsAssumption
  DEF TypeOK, Placed, Unmap, Goto, Unpinned
<1>15. ASSUME NEW c \in Cpus, Unlock(c) PROVE Placed'
  BY <1>0, <1>15, QueueSame, HandlerPart, PartsAssumption DEF TypeOK, Placed, Unlock, Goto
<1>16. ASSUME NEW c \in Cpus, Free(c) PROVE Placed'
  BY <1>0, <1>16, QueueSame, HandlerPart, PartsAssumption DEF TypeOK, Placed, Free, Goto, Leave
<1>17. ASSUME NEW t \in Callers, RwLock(t) PROVE Placed'
  BY <1>0, <1>17, QueueSame, PartsAssumption DEF TypeOK, Placed, RwLock, DirFree
<1>18. ASSUME NEW t \in Callers, RwRefused(t) PROVE Placed'
  BY <1>0, <1>18, QueueSame, PartsAssumption DEF TypeOK, Placed, RwRefused
<1>19. ASSUME NEW t \in Callers, RwMap(t) PROVE Placed'
  BY <1>0, <1>19, QueueSame, PartsAssumption DEF TypeOK, Placed, RwMap
<1>20. ASSUME NEW t \in Callers, RwMapFails(t) PROVE Placed'
  BY <1>0, <1>20, QueueSame, PartsAssumption DEF TypeOK, Placed, RwMapFails, RwUnlock
<1>21. ASSUME NEW t \in Callers, RwDone(t) PROVE Placed'
  BY <1>0, <1>21, QueueSame, PartsAssumption DEF TypeOK, Placed, RwDone, RwUnlock
<1>22. ASSUME Destroy PROVE Placed'
  BY <1>0, <1>22, QueueSame, PartsAssumption DEF TypeOK, Placed, Destroy
<1>23. ASSUME DestroyDone PROVE Placed'
  BY <1>0, <1>23, QueueSame, PartsAssumption DEF TypeOK, Placed, DestroyDone
<1>24. ASSUME UNCHANGED vars PROVE Placed'
  BY <1>0, <1>24, QueueSame, PartsAssumption DEF TypeOK, Placed, vars
<1> QED
  BY <1>1, <1>2a, <1>2b, <1>2, <1>3, <1>4, <1>5, <1>6, <1>7, <1>8, <1>9, <1>10, <1>11, <1>12,
     <1>13, <1>14, <1>15, <1>16, <1>17, <1>18, <1>19, <1>20, <1>21, <1>22, <1>23, <1>24
  DEF Next, SubmitStep, CancelStep, HandlerStep, RwStep

\* The parts of a request come to be one by one, and a cancellation has found
\* one of them.
LEMMA CallsKept ==
  ASSUME AioInv, [Next]_vars
  PROVE  Calls'
<1> USE DEF caio, kiocb, cancels, work
<1>0. AioInv /\ TypeOK /\ Calls
  BY DEF AioInv
<1>1. ASSUME NEW i \in Iocbs, Submit(i) PROVE Calls'
  <2>1. Segs[i] \in Nat \ {0}
    BY SegsAssumption
  <2> QED
    BY <1>0, <1>1, <2>1 DEF TypeOK, Calls, Adding, Submit
<1>2a. ASSUME NEW i \in Iocbs, SubmitPart(i) PROVE Calls'
  BY <1>0, <1>2a DEF TypeOK, Calls, Adding, SubmitPart
<1>2b. ASSUME NEW i \in Iocbs, SubmitFlag(i) PROVE Calls'
  BY <1>0, <1>2b DEF TypeOK, Calls, Adding, SubmitFlag
<1>2. ASSUME NEW i \in Iocbs, SubmitQueue(i) PROVE Calls'
  <2> DEFINE p == NextPart(i)
  <2>1. /\ p \in Parts /\ p[1] = i /\ p[2] = nr[i] + 1 /\ part[p] = "none"
        /\ \A c \in Cpus : cur[c] # p
        /\ wq' \in [Cpus -> Seq(Parts)] /\ Distinct'
        /\ ~Queued(p) /\ \A q \in Parts : Queued(q)' <=> Queued(q) \/ q = p
    BY <1>2, PartSubmitted
  <2>2. /\ part' = [part EXCEPT ![p] = "live"] /\ lock' = [lock EXCEPT ![p] = None]
        /\ nr' = [nr EXCEPT ![i] = @ + 1] /\ call[i] = "queue"
        /\ call' = [call EXCEPT ![i] = IF nr'[i] = Segs[i] THEN "queued" ELSE "submit"]
        /\ UNCHANGED <<cancel, pinned, private, completed, cancels, cur, pc, dirLock, rw, dev,
                       moved>>
    BY <1>2 DEF SubmitQueue, AllQueued
  <2> HIDE DEF p
  <2>3. \A q \in Parts : q # p /\ q[1] = i => q[2] # nr[i] + 1
    <3> SUFFICES ASSUME NEW q \in Parts, q[1] = i, q[2] = nr[i] + 1 PROVE q = <<i, nr[i] + 1>>
      BY DEF p, NextPart
    <3> QED
      BY PartFields
  <2>4. nr[i] \in Nat /\ Segs[i] \in Nat /\ \A q \in Parts : q[1] \in Iocbs /\ q[2] \in Nat
    BY <1>0, SegsAssumption, PartFields DEF TypeOK
  <2>5. \A q \in Parts : part'[q] = "none" <=> q[2] > nr'[q[1]]
    BY <1>0, <2>1, <2>2, <2>3, <2>4 DEF TypeOK, Calls
  <2>6. nr'[i] <= Segs[i] /\ nr[i] < Segs[i]
    BY <1>0, <2>1, <2>2, <2>4 DEF TypeOK, Calls, Adding
  <2> QED
    BY <1>0, <2>2, <2>4, <2>5, <2>6 DEF TypeOK, Calls, Adding
<1>3. ASSUME NEW i \in Iocbs, SubmitFails(i) PROVE Calls'
  BY <1>0, <1>3, PartFields, PartsAssumption DEF TypeOK, Calls, Adding, SubmitFails
<1>4. ASSUME NEW i \in Iocbs, Cancel(i) PROVE Calls'
  BY <1>0, <1>4, PartFields, PartsAssumption DEF TypeOK, Calls, Adding, Cancel
<1>5. ASSUME NEW i \in Iocbs, CancelLock(i) PROVE Calls'
  BY <1>0, <1>5, PartFields, PartsAssumption DEF TypeOK, Calls, Adding, CancelLock
<1>6. ASSUME NEW i \in Iocbs, CancelUnlock(i) PROVE Calls'
  BY <1>0, <1>6, PartFields, PartsAssumption DEF TypeOK, Calls, Adding, CancelUnlock
<1>7. ASSUME NEW c \in Cpus, Take(c) PROVE Calls'
  BY <1>0, <1>7, PartFields, PartsAssumption DEF TypeOK, Calls, Adding, Take, Goto
<1>8. ASSUME NEW c \in Cpus, LockPart(c) PROVE Calls'
  BY <1>0, <1>8, HandlerPart, PartFields, PartsAssumption DEF TypeOK, Calls, Adding, LockPart, Goto
<1>9. ASSUME NEW c \in Cpus, LockPartFails(c) PROVE Calls'
  BY <1>0, <1>9, PartFields, PartsAssumption DEF TypeOK, Calls, Adding, LockPartFails, Goto, Leave
<1>10. ASSUME NEW c \in Cpus, Skip(c) PROVE Calls'
  BY <1>0, <1>10, HandlerPart, PartFields, PartsAssumption DEF TypeOK, Calls, Adding, Skip, Goto, Skips
<1>11. ASSUME NEW c \in Cpus, LockDir(c) PROVE Calls'
  BY <1>0, <1>11, HandlerPart, PartFields, PartsAssumption
  DEF TypeOK, Calls, Adding, LockDir, Goto, Skips, DirFree
<1>12. ASSUME NEW c \in Cpus, LockDirFails(c) PROVE Calls'
  BY <1>0, <1>12, PartFields, PartsAssumption
  DEF TypeOK, Calls, Adding, LockDirFails, Goto, Leave, Skips
<1>13. ASSUME NEW c \in Cpus, Complete(c) PROVE Calls'
  BY <1>0, <1>13, HandlerPart, PartFields, PartsAssumption DEF TypeOK, Calls, Adding, Complete, Goto
<1>14. ASSUME NEW c \in Cpus, Unmap(c) PROVE Calls'
  BY <1>0, <1>14, HandlerPart, PartFields, PartsAssumption
  DEF TypeOK, Calls, Adding, Unmap, Goto, Unpinned
<1>15. ASSUME NEW c \in Cpus, Unlock(c) PROVE Calls'
  BY <1>0, <1>15, HandlerPart, PartFields, PartsAssumption DEF TypeOK, Calls, Adding, Unlock, Goto
<1>16. ASSUME NEW c \in Cpus, Free(c) PROVE Calls'
  <2>1. \A p \in Parts : part'[p] = "none" <=> part[p] = "none"
    BY <1>0, <1>16, HandlerPart DEF TypeOK, Free, Goto
  <2> QED
    BY <1>0, <1>16, <2>1 DEF TypeOK, Calls, Adding, Free
<1>17. ASSUME NEW t \in Callers, RwLock(t) PROVE Calls'
  BY <1>0, <1>17, PartFields, PartsAssumption DEF TypeOK, Calls, Adding, RwLock, DirFree
<1>18. ASSUME NEW t \in Callers, RwRefused(t) PROVE Calls'
  BY <1>0, <1>18, PartFields, PartsAssumption DEF TypeOK, Calls, Adding, RwRefused
<1>19. ASSUME NEW t \in Callers, RwMap(t) PROVE Calls'
  BY <1>0, <1>19, PartFields, PartsAssumption DEF TypeOK, Calls, Adding, RwMap
<1>20. ASSUME NEW t \in Callers, RwMapFails(t) PROVE Calls'
  BY <1>0, <1>20, PartFields, PartsAssumption DEF TypeOK, Calls, Adding, RwMapFails, RwUnlock
<1>21. ASSUME NEW t \in Callers, RwDone(t) PROVE Calls'
  BY <1>0, <1>21, PartFields, PartsAssumption DEF TypeOK, Calls, Adding, RwDone, RwUnlock
<1>22. ASSUME Destroy PROVE Calls'
  BY <1>0, <1>22, PartFields, PartsAssumption DEF TypeOK, Calls, Adding, Destroy
<1>23. ASSUME DestroyDone PROVE Calls'
  BY <1>0, <1>23, PartFields, PartsAssumption DEF TypeOK, Calls, Adding, DestroyDone
<1>24. ASSUME UNCHANGED vars PROVE Calls'
  BY <1>0, <1>24, PartFields, PartsAssumption DEF TypeOK, Calls, Adding, vars
<1> QED
  BY <1>1, <1>2a, <1>2b, <1>2, <1>3, <1>4, <1>5, <1>6, <1>7, <1>8, <1>9, <1>10, <1>11, <1>12,
     <1>13, <1>14, <1>15, <1>16, <1>17, <1>18, <1>19, <1>20, <1>21, <1>22, <1>23, <1>24
  DEF Next, SubmitStep, CancelStep, HandlerStep, RwStep

\* What a cancellation finds is the latest part; a part that is set up later
\* is another one.
LEMMA FoundKept ==
  ASSUME AioInv, [Next]_vars
  PROVE  Found'
<1> USE DEF caio, kiocb, cancels, work
<1>0. AioInv /\ TypeOK /\ Calls /\ Found
  BY DEF AioInv
<1>1. ASSUME NEW i \in Iocbs, Submit(i) PROVE Found'
  BY <1>0, <1>1 DEF TypeOK, Calls, Found, NextPart, Registered, Submit
<1>2. ASSUME NEW i \in Iocbs, SubmitPart(i) PROVE Found'
  BY <1>0, <1>2 DEF TypeOK, Found, NextPart, Registered, SubmitPart
<1>3. ASSUME NEW i \in Iocbs, SubmitFlag(i) PROVE Found'
  <2>1. NextPart(i)[1] = i /\ NextPart(i)[2] = nr[i] + 1 /\ nr[i] \in Nat
    BY <1>0 DEF TypeOK, NextPart
  <2>2. ASSUME NEW j \in Iocbs, canceler[j] = "done", j \notin early PROVE target[j] # NextPart(i)
    BY <1>0, <2>1, <2>2 DEF Found
  <2>3. /\ cancel' = cancel \ {NextPart(i)}
        /\ \A j \in Iocbs : call'[j] \in {"flag", "queue"} <=> call[j] \in {"flag", "queue"}
        /\ UNCHANGED <<nr, private, canceler, target, early>>
    BY <1>0, <1>3 DEF TypeOK, SubmitFlag
  <2> QED
    BY <1>0, <2>2, <2>3 DEF Found, NextPart, Registered
<1>4. ASSUME NEW i \in Iocbs, SubmitQueue(i) PROVE Found'
  <2> DEFINE p == NextPart(i)
  <2>1. p \in Parts /\ p[1] = i /\ p[2] = nr[i] + 1 /\ private[i] = p
    BY <1>0, <1>4, PartSubmitted DEF SubmitQueue, Found
  <2>2. /\ nr' = [nr EXCEPT ![i] = @ + 1]
        /\ call' = [call EXCEPT ![i] = IF nr'[i] = Segs[i] THEN "queued" ELSE "submit"]
        /\ UNCHANGED <<cancel, private, canceler, target, early>>
    BY <1>4 DEF SubmitQueue, AllQueued
  <2> HIDE DEF p
  <2>3. ASSUME NEW j \in Iocbs
        PROVE  /\ nr[j] \in Nat /\ nr'[j] = IF j = i THEN nr[j] + 1 ELSE nr[j]
               /\ j # i => call'[j] = call[j]
               /\ j = i => call'[j] \notin {"flag", "queue"}
    BY <1>0, <2>2 DEF TypeOK
  <2>4. \A j \in Iocbs : canceler[j] # "idle" /\ j \notin early => target[j][2] <= nr'[j]
    <3> SUFFICES ASSUME NEW j \in Iocbs, canceler[j] # "idle", j \notin early
                 PROVE  target[j][2] <= nr'[j]
      OBVIOUS
    <3>1. target[j] \in Parts /\ target[j][2] <= nr[j]
      BY <1>0 DEF Found
    <3>2. target[j][2] \in Nat
      BY <3>1, PartFields, SegsAssumption
    <3> QED
      BY <2>3, <3>1, <3>2
  <2> QED
    BY <1>0, <2>1, <2>2, <2>3, <2>4 DEF Found, NextPart, Registered
<1>5. ASSUME NEW i \in Iocbs, SubmitFails(i) PROVE Found'
  BY <1>0, <1>5 DEF TypeOK, Found, NextPart, Registered, SubmitFails
<1>6. ASSUME NEW i \in Iocbs, Cancel(i) PROVE Found'
  <2>1. /\ private[i] \in Parts /\ private[i][1] = i
        /\ call[i] \notin {"flag", "queue"} => private[i][2] <= nr[i]
    <3>1. call[i] \in {"flag", "queue"} => NextPart(i) \in Parts /\ NextPart(i)[1] = i
      BY PartNext DEF Adding
    <3> QED
      BY <1>0, <1>6, <3>1 DEF Found, Cancel
  <2> QED
    BY <1>0, <1>6, <2>1 DEF TypeOK, Found, NextPart, Registered, Cancel
<1>7. ASSUME NEW i \in Iocbs, CancelLock(i) PROVE Found'
  BY <1>0, <1>7 DEF TypeOK, Found, NextPart, Registered, CancelLock
<1>8. ASSUME NEW i \in Iocbs, CancelUnlock(i) PROVE Found'
  BY <1>0, <1>8 DEF TypeOK, Found, NextPart, Registered, CancelUnlock
<1>9. ASSUME UNCHANGED <<cancel, call, nr, private, canceler, target, early>> PROVE Found'
  BY <1>0, <1>9 DEF Found, NextPart, Registered
<1>10. ASSUME NEW c \in Cpus, HandlerStep(c)
       PROVE  UNCHANGED <<cancel, call, nr, private, canceler, target, early>>
  BY <1>10 DEF HandlerStep, Take, LockPart, LockPartFails, Skip, LockDir, LockDirFails, Complete,
     Unmap, Unlock, Free
<1>11. ASSUME NEW t \in Callers, RwLock(t) \/ RwRefused(t) \/ RwStep(t)
       PROVE  UNCHANGED <<cancel, call, nr, private, canceler, target, early>>
  BY <1>11 DEF RwLock, RwRefused, RwStep, RwMap, RwMapFails, RwDone
<1>12. ASSUME Destroy \/ DestroyDone \/ UNCHANGED vars
       PROVE  UNCHANGED <<cancel, call, nr, private, canceler, target, early>>
  BY <1>12 DEF Destroy, DestroyDone, vars
<1> QED
  BY <1>1, <1>2, <1>3, <1>4, <1>5, <1>6, <1>7, <1>8, <1>9, <1>10, <1>11, <1>12
  DEF Next, SubmitStep, CancelStep

\* The device is destroyed when no call can add parts, and freed when no work
\* is left.
LEMMA ClosedKept ==
  ASSUME AioInv, [Next]_vars
  PROVE  Closed'
<1> USE DEF caio, kiocb, cancels, work
<1>0. AioInv /\ TypeOK /\ Placed /\ Closed
  BY DEF AioInv
<1>1. ASSUME NEW i \in Iocbs, Submit(i) PROVE Closed'
  BY <1>0, <1>1 DEF TypeOK, Placed, Closed, Adding, Drained, Submit
<1>2a. ASSUME NEW i \in Iocbs, SubmitPart(i) PROVE Closed'
  BY <1>0, <1>2a DEF TypeOK, Closed, Adding, Drained, SubmitPart
<1>2b. ASSUME NEW i \in Iocbs, SubmitFlag(i) PROVE Closed'
  BY <1>0, <1>2b DEF TypeOK, Closed, Adding, Drained, SubmitFlag
<1>2. ASSUME NEW i \in Iocbs, SubmitQueue(i) PROVE Closed'
  BY <1>0, <1>2 DEF TypeOK, Closed, Adding, Drained, SubmitQueue, AllQueued
<1>3. ASSUME NEW i \in Iocbs, SubmitFails(i) PROVE Closed'
  BY <1>0, <1>3 DEF TypeOK, Placed, Closed, Adding, Drained, SubmitFails
<1>4. ASSUME NEW i \in Iocbs, Cancel(i) PROVE Closed'
  BY <1>0, <1>4 DEF TypeOK, Placed, Closed, Adding, Drained, Cancel
<1>5. ASSUME NEW i \in Iocbs, CancelLock(i) PROVE Closed'
  BY <1>0, <1>5 DEF TypeOK, Placed, Closed, Adding, Drained, CancelLock
<1>6. ASSUME NEW i \in Iocbs, CancelUnlock(i) PROVE Closed'
  BY <1>0, <1>6 DEF TypeOK, Placed, Closed, Adding, Drained, CancelUnlock
<1>7. ASSUME NEW c \in Cpus, Take(c) PROVE Closed'
  BY <1>0, <1>7 DEF TypeOK, Placed, Closed, Adding, Drained, Take, Goto
<1>8. ASSUME NEW c \in Cpus, LockPart(c) PROVE Closed'
  BY <1>0, <1>8, HandlerPart DEF TypeOK, Placed, Closed, Adding, Drained, LockPart, Goto
<1>9. ASSUME NEW c \in Cpus, LockPartFails(c) PROVE Closed'
  BY <1>0, <1>9 DEF TypeOK, Placed, Closed, Adding, Drained, LockPartFails, Goto, Leave
<1>10. ASSUME NEW c \in Cpus, Skip(c) PROVE Closed'
  BY <1>0, <1>10, HandlerPart DEF TypeOK, Placed, Closed, Adding, Drained, Skip, Goto, Skips
<1>11. ASSUME NEW c \in Cpus, LockDir(c) PROVE Closed'
  BY <1>0, <1>11, HandlerPart DEF TypeOK, Placed, Closed, Adding, Drained, LockDir, Goto, Skips, DirFree
<1>12. ASSUME NEW c \in Cpus, LockDirFails(c) PROVE Closed'
  BY <1>0, <1>12 DEF TypeOK, Placed, Closed, Adding, Drained, LockDirFails, Goto, Leave, Skips
<1>13. ASSUME NEW c \in Cpus, Complete(c) PROVE Closed'
  BY <1>0, <1>13, HandlerPart DEF TypeOK, Placed, Closed, Adding, Drained, Complete, Goto
<1>14. ASSUME NEW c \in Cpus, Unmap(c) PROVE Closed'
  BY <1>0, <1>14, HandlerPart DEF TypeOK, Placed, Closed, Adding, Drained, Unmap, Goto, Unpinned
<1>15. ASSUME NEW c \in Cpus, Unlock(c) PROVE Closed'
  BY <1>0, <1>15, HandlerPart DEF TypeOK, Placed, Closed, Adding, Drained, Unlock, Goto
<1>16. ASSUME NEW c \in Cpus, Free(c) PROVE Closed'
  BY <1>0, <1>16, HandlerPart DEF TypeOK, Placed, Closed, Adding, Drained, Free, Goto, Leave
<1>17. ASSUME NEW t \in Callers, RwLock(t) PROVE Closed'
  BY <1>0, <1>17 DEF TypeOK, Placed, Closed, Adding, Drained, RwLock, DirFree
<1>18. ASSUME NEW t \in Callers, RwRefused(t) PROVE Closed'
  BY <1>0, <1>18 DEF TypeOK, Placed, Closed, Adding, Drained, RwRefused
<1>19. ASSUME NEW t \in Callers, RwMap(t) PROVE Closed'
  BY <1>0, <1>19 DEF TypeOK, Placed, Closed, Adding, Drained, RwMap
<1>20. ASSUME NEW t \in Callers, RwMapFails(t) PROVE Closed'
  BY <1>0, <1>20 DEF TypeOK, Placed, Closed, Adding, Drained, RwMapFails, RwUnlock
<1>21. ASSUME NEW t \in Callers, RwDone(t) PROVE Closed'
  BY <1>0, <1>21 DEF TypeOK, Placed, Closed, Adding, Drained, RwDone, RwUnlock
<1>22. ASSUME Destroy PROVE Closed'
  BY <1>0, <1>22 DEF TypeOK, Placed, Closed, Adding, Drained, Destroy
<1>23. ASSUME DestroyDone PROVE Closed'
  BY <1>0, <1>23 DEF TypeOK, Placed, Closed, Adding, Drained, DestroyDone
<1>24. ASSUME UNCHANGED vars PROVE Closed'
  BY <1>0, <1>24 DEF TypeOK, Placed, Closed, Adding, Drained, vars
<1> QED
  BY <1>1, <1>2a, <1>2b, <1>2, <1>3, <1>4, <1>5, <1>6, <1>7, <1>8, <1>9, <1>10, <1>11, <1>12,
     <1>13, <1>14, <1>15, <1>16, <1>17, <1>18, <1>19, <1>20, <1>21, <1>22, <1>23, <1>24
  DEF Next, SubmitStep, CancelStep, HandlerStep, RwStep

\* Locks are taken when nobody has them, and given back by who has them.
LEMMA LocksKept ==
  ASSUME AioInv, [Next]_vars
  PROVE  Locks'
<1> USE DEF caio, kiocb, cancels, work
<1>0. AioInv /\ TypeOK /\ Locks /\ Calls /\ Found
  BY DEF AioInv
<1>1. ASSUME NEW i \in Iocbs, Submit(i) PROVE Locks'
  BY <1>0, <1>1, NamesAssumption, DirAssumption DEF TypeOK, Calls, Locks, Dirs, Submit
<1>2a. ASSUME NEW i \in Iocbs, SubmitPart(i) PROVE Locks'
  BY <1>0, <1>2a DEF Locks, SubmitPart
<1>2b. ASSUME NEW i \in Iocbs, SubmitFlag(i) PROVE Locks'
  BY <1>0, <1>2b DEF Locks, SubmitFlag
<1>2. ASSUME NEW i \in Iocbs, SubmitQueue(i) PROVE Locks'
  <2> DEFINE p == NextPart(i)
  <2>1. /\ p \in Parts /\ p[1] = i /\ p[2] = nr[i] + 1 /\ \A c \in Cpus : cur[c] # p
    BY <1>2, PartSubmitted
  <2>2. /\ lock' = [lock EXCEPT ![p] = None]
        /\ UNCHANGED <<cur, pc, canceler, target, early, dirLock, rw>>
    BY <1>2 DEF SubmitQueue
  <2> HIDE DEF p
  <2>3. ASSUME NEW j \in Iocbs, canceler[j] = "locked", j \notin early PROVE target[j] # p
    <3>1. target[j][1] = j /\ target[j][2] <= nr[j] /\ nr[j] \in Nat
      BY <1>0, <2>3 DEF Found, TypeOK
    <3> QED
      BY <2>1, <3>1
  <2>4. \A q : q # p => lock'[q] = lock[q]
    BY <1>0, <2>2 DEF TypeOK
  <2> QED
    BY <1>0, <2>1, <2>2, <2>3, <2>4 DEF Locks
<1>3. ASSUME NEW i \in Iocbs, SubmitFails(i) PROVE Locks'
  BY <1>0, <1>3, NamesAssumption, DirAssumption DEF TypeOK, Calls, Locks, Dirs, SubmitFails
<1>4. ASSUME NEW i \in Iocbs, Cancel(i) PROVE Locks'
  BY <1>0, <1>4, NamesAssumption, DirAssumption DEF TypeOK, Calls, Locks, Dirs, Cancel
<1>5. ASSUME NEW i \in Iocbs, CancelLock(i) PROVE Locks'
  <2>1. /\ target[i] \in Parts /\ target[i][1] = i /\ lock[target[i]] = None
        /\ \A q : lock'[q] = IF q = target[i] /\ q \in Parts THEN i ELSE lock[q]
        /\ \A j \in Iocbs : canceler'[j] = IF j = i THEN "locked" ELSE canceler[j]
        /\ UNCHANGED <<cur, pc, target, early, dirLock, rw>>
    BY <1>0, <1>5 DEF TypeOK, Found, CancelLock
  <2>2. \A j \in Iocbs : canceler[j] # "idle" => target[j][1] = j
    BY <1>0 DEF Found
  <2> QED
    BY <1>0, <2>1, <2>2, NamesAssumption DEF Locks
<1>6. ASSUME NEW i \in Iocbs, CancelUnlock(i) PROVE Locks'
  <2>1. /\ target[i] \in Parts /\ target[i][1] = i /\ canceler[i] = "locked"
        /\ \A q : q # target[i] => lock'[q] = lock[q]
        /\ \A j \in Iocbs : canceler'[j] = IF j = i THEN "done" ELSE canceler[j]
        /\ UNCHANGED <<cur, pc, target, early, dirLock, rw>>
    BY <1>0, <1>6 DEF TypeOK, Found, CancelUnlock
  <2>2. \A j \in Iocbs : canceler[j] # "idle" => target[j][1] = j
    BY <1>0 DEF Found
  <2>3. \A c \in Cpus : c # i
    BY NamesAssumption
  <2> QED
    BY <1>0, <2>1, <2>2, <2>3 DEF Locks
<1>7. ASSUME NEW c \in Cpus, Take(c) PROVE Locks'
  BY <1>0, <1>7, NamesAssumption, DirAssumption DEF TypeOK, Calls, Locks, Dirs, Take, Goto
<1>8. ASSUME NEW c \in Cpus, LockPart(c) PROVE Locks'
  BY <1>0, <1>8, HandlerPart, NamesAssumption, DirAssumption
  DEF TypeOK, Calls, Locks, Dirs, LockPart, Goto
<1>9. ASSUME NEW c \in Cpus, LockPartFails(c) PROVE Locks'
  BY <1>0, <1>9, NamesAssumption, DirAssumption
  DEF TypeOK, Calls, Locks, Dirs, LockPartFails, Goto, Leave
<1>10. ASSUME NEW c \in Cpus, Skip(c) PROVE Locks'
  BY <1>0, <1>10, HandlerPart, NamesAssumption, DirAssumption
  DEF TypeOK, Calls, Locks, Dirs, Skip, Goto, Skips
<1>11. ASSUME NEW c \in Cpus, LockDir(c) PROVE Locks'
  <2>1. PartDir(cur[c]) \in Dirs /\ \A d \in Cpus : pc[d] # "idle" => PartDir(cur[d]) \in Dirs
    BY <1>0, <1>11, HandlerPart, PartFields DEF LockDir, Goto
  <2>2. \A t \in Callers : Dir[t] \in Dirs
    BY DirAssumption DEF Dirs
  <2>3. /\ dirLock[PartDir(cur[c])] = None /\ dirLock' = [dirLock EXCEPT ![PartDir(cur[c])] = c]
        /\ pc' = [pc EXCEPT ![c] = "move"] /\ pc[c] = "check"
        /\ UNCHANGED <<lock, cur, rw, canceler, target, early>>
    BY <1>11 DEF LockDir, Goto, DirFree
  <2>4. \A d \in Cpus : pc'[d] \in {"move", "unmap"} => dirLock'[PartDir(cur'[d])] = d
    BY <1>0, <2>1, <2>3, NamesAssumption DEF TypeOK, Locks, PartDir
  <2>5. \A t \in Callers : rw'[t] \in {"map", "move"} => dirLock'[Dir[t]] = t
    BY <1>0, <2>1, <2>2, <2>3, NamesAssumption DEF TypeOK, Locks
  <2> QED
    BY <1>0, <2>3, <2>4, <2>5 DEF TypeOK, Locks
<1>12. ASSUME NEW c \in Cpus, LockDirFails(c) PROVE Locks'
  <2>1. /\ cur[c] \in Parts /\ pc[c] \in {"check", "free"}
        /\ \A d \in Cpus : cur[d] = cur[c] => d = c
    BY <1>12, HandlerPart DEF LockDirFails, Goto
  <2>2. /\ \A q : q # cur[c] => lock'[q] = lock[q]
        /\ \A d \in Cpus : d # c => pc'[d] = pc[d] /\ cur'[d] = cur[d]
        /\ pc'[c] \in {"idle", "release"}
        /\ UNCHANGED <<canceler, target, early, dirLock, rw>>
    BY <1>0, <1>12 DEF TypeOK, LockDirFails, Goto, Leave
  <2>3. \A i \in Iocbs : canceler[i] = "locked" /\ i \notin early => target[i] # cur[c]
    <3> SUFFICES ASSUME NEW i \in Iocbs, canceler[i] = "locked", i \notin early,
                        target[i] = cur[c]
                 PROVE  FALSE
      OBVIOUS
    <3>1. lock[cur[c]] = i /\ cur[c][1] = i
      BY <1>0 DEF Locks, Found
    <3>2. lock[cur[c]] = c
      BY <1>0, <2>1, <3>1 DEF Locks
    <3> QED
      BY <3>1, <3>2, NamesAssumption
  <2> QED
    BY <1>0, <2>1, <2>2, <2>3 DEF Locks
<1>13. ASSUME NEW c \in Cpus, Complete(c) PROVE Locks'
  BY <1>0, <1>13, HandlerPart, NamesAssumption, DirAssumption
  DEF TypeOK, Calls, Locks, Dirs, Complete, Goto
<1>14. ASSUME NEW c \in Cpus, Unmap(c) PROVE Locks'
  BY <1>0, <1>14, HandlerPart, NamesAssumption, DirAssumption
  DEF TypeOK, Calls, Locks, Dirs, Unmap, Goto, Unpinned
<1>15. ASSUME NEW c \in Cpus, Unlock(c) PROVE Locks'
  <2>1. /\ cur[c] \in Parts /\ pc[c] \in {"check", "free"}
        /\ \A d \in Cpus : cur[d] = cur[c] => d = c
    BY <1>15, HandlerPart DEF Unlock, Goto
  <2>2. /\ \A q : q # cur[c] => lock'[q] = lock[q]
        /\ \A d \in Cpus : d # c => pc'[d] = pc[d] /\ cur'[d] = cur[d]
        /\ pc'[c] \in {"idle", "release"}
        /\ UNCHANGED <<canceler, target, early, dirLock, rw>>
    BY <1>0, <1>15 DEF TypeOK, Unlock, Goto
  <2>3. \A i \in Iocbs : canceler[i] = "locked" /\ i \notin early => target[i] # cur[c]
    <3> SUFFICES ASSUME NEW i \in Iocbs, canceler[i] = "locked", i \notin early,
                        target[i] = cur[c]
                 PROVE  FALSE
      OBVIOUS
    <3>1. lock[cur[c]] = i /\ cur[c][1] = i
      BY <1>0 DEF Locks, Found
    <3>2. lock[cur[c]] = c
      BY <1>0, <2>1, <3>1 DEF Locks
    <3> QED
      BY <3>1, <3>2, NamesAssumption
  <2> QED
    BY <1>0, <2>1, <2>2, <2>3 DEF Locks
<1>16. ASSUME NEW c \in Cpus, Free(c) PROVE Locks'
  BY <1>0, <1>16, HandlerPart, NamesAssumption, DirAssumption
  DEF TypeOK, Calls, Locks, Dirs, Free, Goto, Leave
<1>17. ASSUME NEW t \in Callers, RwLock(t) PROVE Locks'
  <2>1. \A d \in Cpus : pc[d] # "idle" => PartDir(cur[d]) \in Dirs
    BY <1>0, HandlerPart, PartFields
  <2>2. \A s \in Callers : Dir[s] \in Dirs
    BY DirAssumption DEF Dirs
  <2>3. /\ dirLock[Dir[t]] = None /\ dirLock' = [dirLock EXCEPT ![Dir[t]] = t]
        /\ rw' = [rw EXCEPT ![t] = "map"]
        /\ UNCHANGED <<lock, cur, pc, canceler, target, early>>
    BY <1>17 DEF RwLock, DirFree
  <2>4. \A d \in Cpus : pc'[d] \in {"move", "unmap"} => dirLock'[PartDir(cur'[d])] = d
    BY <1>0, <2>1, <2>2, <2>3, NamesAssumption DEF TypeOK, Locks, PartDir
  <2>5. \A s \in Callers : rw'[s] \in {"map", "move"} => dirLock'[Dir[s]] = s
    BY <1>0, <2>2, <2>3, NamesAssumption DEF TypeOK, Locks
  <2> QED
    BY <1>0, <2>3, <2>4, <2>5 DEF TypeOK, Locks
<1>18. ASSUME NEW t \in Callers, RwRefused(t) PROVE Locks'
  BY <1>0, <1>18, NamesAssumption, DirAssumption DEF TypeOK, Calls, Locks, Dirs, RwRefused
<1>19. ASSUME NEW t \in Callers, RwMap(t) PROVE Locks'
  BY <1>0, <1>19, NamesAssumption, DirAssumption DEF TypeOK, Calls, Locks, Dirs, RwMap
<1>20. ASSUME NEW t \in Callers, RwMapFails(t) PROVE Locks'
  BY <1>0, <1>20, NamesAssumption, DirAssumption
  DEF TypeOK, Calls, Locks, Dirs, RwMapFails, RwUnlock
<1>21. ASSUME NEW t \in Callers, RwDone(t) PROVE Locks'
  BY <1>0, <1>21, NamesAssumption, DirAssumption
  DEF TypeOK, Calls, Locks, Dirs, RwDone, RwUnlock
<1>22. ASSUME Destroy PROVE Locks'
  BY <1>0, <1>22, NamesAssumption, DirAssumption DEF TypeOK, Calls, Locks, Dirs, Destroy
<1>23. ASSUME DestroyDone PROVE Locks'
  BY <1>0, <1>23, NamesAssumption, DirAssumption DEF TypeOK, Calls, Locks, Dirs, DestroyDone
<1>24. ASSUME UNCHANGED vars PROVE Locks'
  BY <1>0, <1>24, NamesAssumption, DirAssumption DEF TypeOK, Calls, Locks, Dirs, vars
<1> QED
  BY <1>1, <1>2a, <1>2b, <1>2, <1>3, <1>4, <1>5, <1>6, <1>7, <1>8, <1>9, <1>10, <1>11, <1>12,
     <1>13, <1>14, <1>15, <1>16, <1>17, <1>18, <1>19, <1>20, <1>21, <1>22, <1>23, <1>24
  DEF Next, SubmitStep, CancelStep, HandlerStep, RwStep

\* A part is moved and released, or cancelled, once.
LEMMA ProgressKept ==
  ASSUME AioInv, [Next]_vars
  PROVE  Progress'
<1> USE DEF caio, kiocb, cancels, work
<1>0. AioInv /\ TypeOK /\ Placed /\ Locks /\ Progress /\ Readied
  BY DEF AioInv
<1>1. ASSUME NEW i \in Iocbs, Submit(i) PROVE Progress'
  BY <1>0, <1>1, QueueSame, PartFields DEF TypeOK, Placed, Progress, Ended, Submit
<1>2a. ASSUME NEW i \in Iocbs, SubmitPart(i) PROVE Progress'
  <2> DEFINE p == NextPart(i)
  <2>1. /\ p \in Parts /\ part[p] = "none" /\ p \notin Callers
        /\ \A c \in Cpus : pc[c] # "idle" => cur[c] # p /\ cur[c] \in Parts
    BY <1>2a, PartNext, PartFields, HandlerPart DEF SubmitPart, Adding
  <2>2. /\ pinned' = pinned \cup {p}
        /\ UNCHANGED <<part, cancel, moved, cur, pc, early, rw>> /\ UNCHANGED wq
    BY <1>0, <1>2a DEF TypeOK, SubmitPart, NextPart
  <2> HIDE DEF p
  <2>3. \A q \in Parts : q # p => (Ended(q)' <=> Ended(q))
    BY <2>2 DEF Ended
  <2> QED
    BY <1>0, <2>1, <2>2, <2>3, QueueSame DEF Progress
<1>2b. ASSUME NEW i \in Iocbs, SubmitFlag(i) PROVE Progress'
  <2> DEFINE p == NextPart(i)
  <2>1. /\ p \in Parts /\ part[p] = "none"
        /\ \A c \in Cpus : pc[c] # "idle" => cur[c] # p /\ cur[c] \in Parts
    BY <1>2b, PartNext, HandlerPart DEF SubmitFlag, Adding
  <2>2. /\ cancel' = cancel \ {p}
        /\ UNCHANGED <<part, pinned, moved, cur, pc, early, rw>> /\ UNCHANGED wq
    BY <1>0, <1>2b DEF TypeOK, SubmitFlag, NextPart
  <2> HIDE DEF p
  <2>3. \A q \in Parts : q # p => (Ended(q)' <=> Ended(q))
    BY <2>2 DEF Ended
  <2> QED
    BY <1>0, <2>1, <2>2, <2>3, QueueSame DEF Progress
<1>2. ASSUME NEW i \in Iocbs, SubmitQueue(i) PROVE Progress'
  <2> DEFINE p == NextPart(i)
  <2>1. /\ p \in Parts /\ p[1] = i /\ p[2] = nr[i] + 1 /\ part[p] = "none"
        /\ \A c \in Cpus : cur[c] # p
        /\ wq' \in [Cpus -> Seq(Parts)] /\ Distinct'
        /\ ~Queued(p) /\ \A q \in Parts : Queued(q)' <=> Queued(q) \/ q = p
    BY <1>2, PartSubmitted
  <2>2. /\ part' = [part EXCEPT ![p] = "live"] /\ lock' = [lock EXCEPT ![p] = None]
        /\ nr' = [nr EXCEPT ![i] = @ + 1] /\ call[i] = "queue"
        /\ call' = [call EXCEPT ![i] = IF nr'[i] = Segs[i] THEN "queued" ELSE "submit"]
        /\ UNCHANGED <<cancel, pinned, private, completed, cancels, cur, pc, dirLock, rw, dev,
                       moved>>
    BY <1>2 DEF SubmitQueue, AllQueued
  <2> HIDE DEF p
  <2>3. p \notin moved /\ p \in pinned /\ \A q \in Parts : part'[q] = IF q = p THEN "live" ELSE part[q]
    BY <1>0, <1>2, <2>1, <2>2 DEF TypeOK, Progress, Readied, SubmitQueue, p
  <2>4. \A q \in Parts : Ended(q)' <=> Ended(q)
    BY <2>2 DEF Ended
  <2>5. \A c \in Cpus : pc[c] # "idle" => cur[c] \in Parts /\ cur[c] # p
    BY <1>0, <2>1, HandlerPart
  <2>6. \A q \in Parts : Queued(q)' => q \notin moved' /\ q \in pinned'
    BY <1>0, <2>1, <2>2, <2>3 DEF Progress
  <2> QED
    BY <1>0, <2>1, <2>2, <2>3, <2>4, <2>5, <2>6 DEF Progress
<1>3. ASSUME NEW i \in Iocbs, SubmitFails(i) PROVE Progress'
  BY <1>0, <1>3, QueueSame, PartFields DEF TypeOK, Placed, Progress, Ended, SubmitFails
<1>4. ASSUME NEW i \in Iocbs, Cancel(i) PROVE Progress'
  BY <1>0, <1>4, QueueSame, PartFields DEF TypeOK, Placed, Progress, Ended, Cancel
<1>5. ASSUME NEW i \in Iocbs, CancelLock(i) PROVE Progress'
  BY <1>0, <1>5, QueueSame, PartFields DEF TypeOK, Placed, Progress, Ended, CancelLock
<1>6. ASSUME NEW i \in Iocbs, CancelUnlock(i) PROVE Progress'
  <2>1. /\ target[i] \in Parts /\ target[i][1] = i
        /\ i \notin early => lock[target[i]] = i
    BY <1>0, <1>6 DEF AioInv, Found, Locks, CancelUnlock
  <2>2. \A c \in Cpus : pc[c] = "move" /\ cur[c][1] \notin early => cur[c] # target[i]
    BY <1>0, <2>1, NamesAssumption DEF Locks
  <2> QED
    BY <1>0, <1>6, <2>1, <2>2, QueueSame DEF TypeOK, Progress, Ended, CancelUnlock
<1>7. ASSUME NEW c \in Cpus, Take(c) PROVE Progress'
  <2> DEFINE p == Head(wq[c])
  <2>1. /\ p \in Parts /\ p # None /\ part[p] = "live"
        /\ \A d \in Cpus : cur[d] # p
        /\ Distinct' /\ Queued(p) /\ \A q \in Parts : Queued(q)' <=> Queued(q) /\ q # p
    BY <1>7, PartTaken
  <2>2. /\ pc[c] = "idle" /\ pc' = [pc EXCEPT ![c] = "lock"] /\ cur' = [cur EXCEPT ![c] = p]
        /\ UNCHANGED <<caio, pinned, kiocb, cancels, dirLock, rw, dev, moved>>
    BY <1>7 DEF Take, Goto
  <2> HIDE DEF p
  <2>3. \A d \in Cpus : pc'[d] = (IF d = c THEN "lock" ELSE pc[d]) /\ cur'[d] = (IF d = c THEN p ELSE cur[d])
    BY <1>0, <2>2 DEF TypeOK
  <2>4. \A q \in Parts : Ended(q)' <=> Ended(q)
    BY <2>2 DEF Ended
  <2>5. \A d \in Cpus : pc[d] # "idle" => cur[d] \in Parts
    BY <1>0, HandlerPart
  <2>6. p \notin moved /\ p \in pinned
    BY <1>0, <2>1 DEF Progress
  <2> QED
    BY <1>0, <2>1, <2>2, <2>3, <2>4, <2>5, <2>6 DEF Progress
<1>8. ASSUME NEW c \in Cpus, LockPart(c) PROVE Progress'
  BY <1>0, <1>8, QueueSame, HandlerPart, PartFields
  DEF TypeOK, Placed, Progress, Ended, LockPart, Goto
<1>9. ASSUME NEW c \in Cpus, LockPartFails(c) PROVE Progress'
  BY <1>0, <1>9, HandlerPart, PartRequeued, PartFields
  DEF TypeOK, Placed, Progress, Ended, LockPartFails, Goto, Leave
<1>10. ASSUME NEW c \in Cpus, Skip(c) PROVE Progress'
  BY <1>0, <1>10, QueueSame, HandlerPart, PartFields
  DEF TypeOK, Placed, Progress, Ended, Skip, Goto, Skips
<1>11. ASSUME NEW c \in Cpus, LockDir(c) PROVE Progress'
  BY <1>0, <1>11, QueueSame, HandlerPart, PartFields
  DEF TypeOK, Placed, Progress, Ended, LockDir, Goto, Skips, DirFree
<1>12. ASSUME NEW c \in Cpus, LockDirFails(c) PROVE Progress'
  <2>1. /\ cur[c] \in Parts /\ cur[c] \notin moved /\ cur[c] \in pinned
        /\ \A q \in Parts : Queued(q)' <=> Queued(q) \/ q = cur[c]
    BY <1>0, <1>12, HandlerPart, PartRequeued DEF Progress, LockDirFails, Goto
  <2>2. /\ UNCHANGED <<part, cancel, pinned, moved, early, rw>>
        /\ \A d \in Cpus : pc'[d] # "idle" => d # c /\ pc'[d] = pc[d] /\ cur'[d] = cur[d]
    BY <1>0, <1>12 DEF TypeOK, LockDirFails, Goto, Leave
  <2>3. \A q : Ended(q)' <=> Ended(q)
    BY <2>2 DEF Ended
  <2> QED
    BY <1>0, <2>1, <2>2, <2>3 DEF Progress
<1>13. ASSUME NEW c \in Cpus, Complete(c) PROVE Progress'
  BY <1>0, <1>13, QueueSame, HandlerPart, PartFields
  DEF TypeOK, Placed, Progress, Ended, Complete, Goto
<1>14. ASSUME NEW c \in Cpus, Unmap(c) PROVE Progress'
  BY <1>0, <1>14, QueueSame, HandlerPart, PartFields
  DEF TypeOK, Placed, Progress, Ended, Unmap, Goto, Unpinned
<1>15. ASSUME NEW c \in Cpus, Unlock(c) PROVE Progress'
  BY <1>0, <1>15, QueueSame, HandlerPart, PartFields
  DEF TypeOK, Placed, Progress, Ended, Unlock, Goto
<1>16. ASSUME NEW c \in Cpus, Free(c) PROVE Progress'
  BY <1>0, <1>16, QueueSame, HandlerPart, PartFields
  DEF TypeOK, Placed, Progress, Ended, Free, Goto, Leave
<1>17. ASSUME NEW t \in Callers, RwLock(t) PROVE Progress'
  BY <1>0, <1>17, QueueSame, PartFields DEF TypeOK, Placed, Progress, Ended, RwLock, DirFree
<1>18. ASSUME NEW t \in Callers, RwRefused(t) PROVE Progress'
  BY <1>0, <1>18, QueueSame, PartFields DEF TypeOK, Placed, Progress, Ended, RwRefused
<1>19. ASSUME NEW t \in Callers, RwMap(t) PROVE Progress'
  BY <1>0, <1>19, QueueSame, PartFields DEF TypeOK, Placed, Progress, Ended, RwMap
<1>20. ASSUME NEW t \in Callers, RwMapFails(t) PROVE Progress'
  BY <1>0, <1>20, QueueSame, PartFields
  DEF TypeOK, Placed, Progress, Ended, RwMapFails, RwUnlock
<1>21. ASSUME NEW t \in Callers, RwDone(t) PROVE Progress'
  BY <1>0, <1>21, QueueSame, PartFields DEF TypeOK, Placed, Progress, Ended, RwDone, RwUnlock
<1>22. ASSUME Destroy PROVE Progress'
  BY <1>0, <1>22, QueueSame, PartFields DEF TypeOK, Placed, Progress, Ended, Destroy
<1>23. ASSUME DestroyDone PROVE Progress'
  BY <1>0, <1>23, QueueSame, PartFields DEF TypeOK, Placed, Progress, Ended, DestroyDone
<1>24. ASSUME UNCHANGED vars PROVE Progress'
  BY <1>0, <1>24, QueueSame, PartFields DEF TypeOK, Placed, Progress, Ended, vars
<1> QED
  BY <1>1, <1>2a, <1>2b, <1>2, <1>3, <1>4, <1>5, <1>6, <1>7, <1>8, <1>9, <1>10, <1>11, <1>12,
     <1>13, <1>14, <1>15, <1>16, <1>17, <1>18, <1>19, <1>20, <1>21, <1>22, <1>23, <1>24
  DEF Next, SubmitStep, CancelStep, HandlerStep, RwStep

\* The pages of a part that is set up stay pinned: only those of live parts
\* and of blocking calls are released.
LEMMA ReadiedKept ==
  ASSUME AioInv, [Next]_vars
  PROVE  Readied'
<1> USE DEF caio, kiocb, cancels, work
<1>0. AioInv /\ TypeOK /\ Readied
  BY DEF AioInv
<1>1. \A j \in Iocbs : call[j] \in {"flag", "queue"} =>
        NextPart(j) \in Parts /\ part[NextPart(j)] = "none"
  BY PartNext DEF Adding
<1>2. ASSUME \A j \in Iocbs : call'[j] \in {"flag", "queue"} =>
               nr'[j] = nr[j] /\ call[j] \in {"flag", "queue"},
             \A j \in Iocbs : call[j] \in {"flag", "queue"} /\ NextPart(j) \in pinned =>
               NextPart(j) \in pinned'
      PROVE  Readied'
  BY <1>0, <1>2 DEF Readied, NextPart
<1>3. ASSUME NEW i \in Iocbs, Submit(i) \/ SubmitFlag(i) \/ SubmitQueue(i) \/ SubmitFails(i)
      PROVE  Readied'
  BY <1>0, <1>2, <1>3 DEF TypeOK, Submit, SubmitFlag, SubmitQueue, SubmitFails
<1>4. ASSUME NEW i \in Iocbs, SubmitPart(i) PROVE Readied'
  <2>1. /\ pinned' = pinned \cup {NextPart(i)} /\ nr' = nr
        /\ \A j \in Iocbs : j # i => call'[j] = call[j]
    BY <1>0, <1>4 DEF TypeOK, SubmitPart
  <2> QED
    BY <1>0, <2>1 DEF Readied, NextPart
<1>5. ASSUME UNCHANGED <<call, nr>>, pinned \subseteq pinned' PROVE Readied'
  BY <1>2, <1>5
<1>6. ASSUME NEW i \in Iocbs, Cancel(i) \/ CancelLock(i) \/ CancelUnlock(i) PROVE Readied'
  BY <1>5, <1>6 DEF Cancel, CancelLock, CancelUnlock
<1>7. ASSUME NEW c \in Cpus,
             \/ Take(c) \/ LockPart(c) \/ LockPartFails(c) \/ Skip(c) \/ LockDir(c)
             \/ LockDirFails(c) \/ Complete(c) \/ Unlock(c) \/ Free(c)
      PROVE  Readied'
  BY <1>5, <1>7 DEF Take, LockPart, LockPartFails, Skip, LockDir, LockDirFails, Complete, Unlock,
     Free
<1>8. ASSUME NEW c \in Cpus, Unmap(c) PROVE Readied'
  <2>1. part[cur[c]] = "live"
    BY <1>8, HandlerPart DEF Unmap, Goto
  <2> QED
    BY <1>1, <1>2, <1>8, <2>1 DEF Unmap, Unpinned
<1>9. ASSUME NEW t \in Callers, RwLock(t) \/ RwRefused(t) \/ RwMap(t) \/ RwMapFails(t) PROVE Readied'
  BY <1>5, <1>9 DEF RwLock, RwRefused, RwMap, RwMapFails
<1>10. ASSUME NEW t \in Callers, RwDone(t) PROVE Readied'
  BY <1>1, <1>2, <1>10, PartFields DEF RwDone
<1>11. ASSUME Destroy \/ DestroyDone \/ UNCHANGED vars PROVE Readied'
  BY <1>5, <1>11 DEF Destroy, DestroyDone, vars
<1> QED
  BY <1>3, <1>4, <1>6, <1>7, <1>8, <1>9, <1>10, <1>11
  DEF Next, SubmitStep, CancelStep, HandlerStep, RwStep

\* The kernel is told of a part that was not transferred before.
LEMMA ToldKept ==
  ASSUME AioInv, [Next]_vars
  PROVE  Told'
<1> USE DEF caio, kiocb, cancels, work
<1> DEFINE Of(i) == {p \in moved : p[1] = i}
<1>0. TypeOK /\ Told /\ \A i \in Iocbs : IsFiniteSet(Of(i))
  <2>1. moved \subseteq Parts
    BY DEF AioInv, TypeOK
  <2>2. \A i \in Iocbs : Of(i) \subseteq {p \in Parts : p[1] = i}
    BY <2>1
  <2> QED
    BY <2>2, PartsFinite, FS_Subset DEF AioInv
<1>1. ASSUME UNCHANGED <<moved, completed>> PROVE Told'
  BY <1>0, <1>1 DEF Told
<1>2. ASSUME NEW c \in Cpus, Complete(c) PROVE Told'
  <2> DEFINE p == cur[c]
  <2>1. p \in Parts /\ p[1] \in Iocbs /\ p \notin moved
    BY <1>2, HandlerPart, PartFields DEF Complete, Goto, AioInv, Progress
  <2>2. /\ moved' = moved \cup {p}
        /\ \A i \in Iocbs : completed'[i] = IF i = p[1] THEN completed[i] + 1 ELSE completed[i]
    BY <1>0, <1>2 DEF TypeOK, Complete
  <2> HIDE DEF p
  <2>3. ASSUME NEW i \in Iocbs PROVE completed'[i] = Cardinality(Of(i)')
    <3>1. CASE i = p[1]
      <4>1. Of(i)' = Of(i) \cup {p} /\ p \notin Of(i)
        BY <2>1, <2>2, <3>1
      <4> QED
        BY <1>0, <2>2, <3>1, <4>1, FS_AddElement, ZenonT(40) DEF Told
    <3>2. CASE i # p[1]
      <4>1. Of(i)' = Of(i)
        BY <2>2, <3>2
      <4> QED
        BY <1>0, <2>2, <3>2, <4>1 DEF Told
    <3> QED
      BY <3>1, <3>2
  <2> QED
    BY <2>3 DEF Told
<1>3. ASSUME NEW i \in Iocbs,
             \/ Submit(i) \/ SubmitPart(i) \/ SubmitFlag(i) \/ SubmitQueue(i) \/ SubmitFails(i)
             \/ Cancel(i) \/ CancelLock(i) \/ CancelUnlock(i)
      PROVE  UNCHANGED <<moved, completed>>
  BY <1>3 DEF Submit, SubmitPart, SubmitFlag, SubmitQueue, SubmitFails, Cancel, CancelLock, CancelUnlock
<1>4. ASSUME NEW c \in Cpus,
             \/ Take(c) \/ LockPart(c) \/ LockPartFails(c) \/ Skip(c) \/ LockDir(c)
             \/ LockDirFails(c) \/ Unmap(c) \/ Unlock(c) \/ Free(c)
      PROVE  UNCHANGED <<moved, completed>>
  BY <1>4 DEF Take, LockPart, LockPartFails, Skip, LockDir, LockDirFails, Unmap, Unlock, Free
<1>5. ASSUME NEW t \in Callers,
             RwLock(t) \/ RwRefused(t) \/ RwMap(t) \/ RwMapFails(t) \/ RwDone(t)
      PROVE  UNCHANGED <<moved, completed>>
  BY <1>5 DEF RwLock, RwRefused, RwMap, RwMapFails, RwDone
<1>6. ASSUME Destroy \/ DestroyDone \/ UNCHANGED vars PROVE UNCHANGED <<moved, completed>>
  BY <1>6 DEF Destroy, DestroyDone, vars
<1> QED
  BY <1>1, <1>2, <1>3, <1>4, <1>5, <1>6 DEF Next, SubmitStep, CancelStep, HandlerStep, RwStep

\* No call was made yet.
LEMMA InitAio ==
  ASSUME Init
  PROVE  AioInv
<1>1. \A i \in Iocbs : Segs[i] \in Nat \ {0}
  BY SegsAssumption
<1>2. \A c \in Cpus : Len(wq[c]) = 0 /\ wq[c] = <<>>
  BY DEF Init
<1>3. TypeOK
  BY DEF Init, TypeOK, Dirs
<1>4. \A p \in Parts : ~Queued(p)
  BY <1>2 DEF Queued
<1>5. Placed
  BY <1>2, <1>4, PartsAssumption DEF Init, Placed, Distinct
<1>6. Calls /\ Found
  BY <1>1, PartFields DEF Init, Calls, Adding, Found, Registered
<1>7. Closed /\ Locks
  BY DEF Init, Closed, Locks
<1>8. Progress /\ Readied
  BY <1>4 DEF Init, Progress, Readied
<1>9. Told
  <2>1. \A i \in Iocbs : {p \in moved : p[1] = i} = {}
    BY DEF Init
  <2> QED
    BY <2>1, FS_EmptySet DEF Init, Told
<1> QED
  BY <1>3, <1>5, <1>6, <1>7, <1>8, <1>9 DEF AioInv

\* The inductive invariant holds in every state.
THEOREM AioInvariant == Spec => []AioInv
<1>1. Init => AioInv
  BY InitAio
<1>2. AioInv /\ [Next]_vars => AioInv'
  <2> SUFFICES ASSUME AioInv, [Next]_vars PROVE AioInv'
    OBVIOUS
  <2> QED
    BY TypesKept, PlacedKept, CallsKept, FoundKept, ClosedKept, LocksKept, ProgressKept,
       ReadiedKept, ToldKept
    DEF AioInv
<1> QED
  BY <1>1, <1>2, PTL DEF Spec

-----------------------------------------------------------------------------
(* The properties.                                                         *)

\* The places of a part are the positions of the queues and the handlers.
LEMMA PlacesAre ==
  ASSUME NEW p, wq \in [Cpus -> Seq(Parts)], NEW x
  PROVE  x \in Places(p) <=>
           \/ \E c \in Cpus : \E k \in 1 .. Len(wq[c]) : wq[c][k] = p /\ x = <<c, k>>
           \/ \E c \in Cpus : cur[c] = p /\ x = <<c, 0>>
<1>1. \A c \in Cpus : DOMAIN wq[c] = 1 .. Len(wq[c])
  OBVIOUS
<1>2. x \in UNION {{c} \X {k \in DOMAIN wq[c] : wq[c][k] = p} : c \in Cpus} <=>
        \E c \in Cpus : \E k \in 1 .. Len(wq[c]) : wq[c][k] = p /\ x = <<c, k>>
  BY <1>1
<1>3. x \in {c \in Cpus : cur[c] = p} \X {0} <=> \E c \in Cpus : cur[c] = p /\ x = <<c, 0>>
  OBVIOUS
<1> QED
  BY <1>2, <1>3, Zenon DEF Places

\* Every part that was submitted is in one work queue once, or with one
\* handler, until async_io_handler() frees it; none is run twice, none is
\* forgotten, and the device is freed without any; a direction has one
\* transfer at a time.
THEOREM PartsCorrect == Spec => []PartsExact
<1>1. AioInv => PartsExact
  <2> SUFFICES ASSUME AioInv PROVE PartsExact
    OBVIOUS
  <2>1. TypeOK /\ wq \in [Cpus -> Seq(Parts)]
    BY DEF AioInv, TypeOK
  <2>2. OneTransfer
    BY DEF AioInv, Locks, OneTransfer, Moving
  <2>3. ASSUME NEW p \in Parts, NEW x, NEW y, x \in Places(p), y \in Places(p) PROVE x = y
    <3>1. \/ \E c \in Cpus : \E k \in 1 .. Len(wq[c]) : wq[c][k] = p /\ x = <<c, k>>
          \/ \E c \in Cpus : cur[c] = p /\ x = <<c, 0>>
      BY <2>1, <2>3, PlacesAre
    <3>2. \/ \E c \in Cpus : \E k \in 1 .. Len(wq[c]) : wq[c][k] = p /\ y = <<c, k>>
          \/ \E c \in Cpus : cur[c] = p /\ y = <<c, 0>>
      BY <2>1, <2>3, PlacesAre
    <3>3. Distinct /\ p # None /\ \A c \in Cpus : cur[c] = p => ~Queued(p)
      BY PartsAssumption DEF AioInv, Placed
    <3>4. \A c, d \in Cpus : cur[c] = p /\ cur[d] = p => c = d
      BY <3>3 DEF AioInv, Placed
    <3> QED
      BY <3>1, <3>2, <3>3, <3>4 DEF Distinct, Queued
  <2>4. ASSUME NEW p \in Parts PROVE part[p] = "live" <=> \E x : x \in Places(p)
    <3>1. part[p] = "live" <=> Queued(p) \/ \E c \in Cpus : cur[c] = p
      BY DEF AioInv, Placed
    <3>2. \A c \in Cpus : \A k \in 1 .. Len(wq[c]) : wq[c][k] = p => <<c, k>> \in Places(p)
      BY <2>1, PlacesAre
    <3>3. \A c \in Cpus : cur[c] = p => <<c, 0>> \in Places(p)
      BY <2>1, PlacesAre
    <3>4. ASSUME NEW x \in Places(p) PROVE Queued(p) \/ \E c \in Cpus : cur[c] = p
      BY <2>1, PlacesAre DEF Queued
    <3> QED
      BY <3>1, <3>2, <3>3, <3>4 DEF Queued
  <2>5. ASSUME NEW p \in Parts PROVE part[p] = "live" <=> \E x \in Places(p) : Places(p) = {x}
    BY <2>3, <2>4
  <2>6. ASSUME NEW p \in Parts, part[p] # "live" PROVE Places(p) = {}
    BY <2>4, <2>6
  <2>7. ASSUME dev = "freed", NEW p \in Parts PROVE part[p] # "live"
    <3>1. \A c \in Cpus : pc[c] = "idle" /\ Len(wq[c]) = 0
      BY <2>7 DEF AioInv, Closed, Drained
    <3> QED
      BY <3>1, PartsAssumption DEF AioInv, Placed, Queued
  <2> QED
    BY <2>1, <2>2, <2>5, <2>6, <2>7 DEF PartsExact
<1> QED
  BY <1>1, AioInvariant, PTL

\* User pages are pinned during their transfer; when its part is freed the
\* kernel was told once and they were released, or it was cancelled before.
THEOREM EndsCorrect == Spec => []EndsProperly
<1>1. AioInv => EndsProperly
  <2> SUFFICES ASSUME AioInv PROVE EndsProperly
    OBVIOUS
  <2>1. ASSUME NEW d \in Dirs, NEW x \in Moving(d)
        PROVE  (IF x \in Cpus THEN cur[x] ELSE x) \in pinned
    BY NamesAssumption DEF Moving, AioInv, Progress
  <2> QED
    BY <2>1 DEF EndsProperly, AioInv, Progress, Ended, Told
<1> QED
  BY <1>1, AioInvariant, PTL

\* A part for which caio_cancel() returned before its transfer is never
\* transferred, unless it was found before it was set up: then the flag may be
\* lost. The work of the part looks at the flag under the lock of the part, and
\* the cancellation sets it under that lock.
THEOREM CancelCorrect == Spec => CancelledNotMoved
<1>1. AioInv /\ [Next]_vars =>
        \A p \in moved' \ moved : canceler[p[1]] = "done" /\ target[p[1]] = p => p[1] \in early
  <2> SUFFICES ASSUME AioInv, [Next]_vars, NEW p \in moved' \ moved,
                      canceler[p[1]] = "done", target[p[1]] = p
               PROVE  p[1] \in early
    OBVIOUS
  <2>1. PICK c \in Cpus : Complete(c)
    BY DEF Next, SubmitStep, CancelStep, HandlerStep, RwStep, vars, Submit, SubmitPart,
           SubmitFlag, SubmitQueue, SubmitFails, Cancel, CancelLock, CancelUnlock, Take,
           LockPart, LockPartFails, Skip, LockDir, LockDirFails, Unmap, Unlock, Free, RwLock,
           RwRefused, RwMap, RwMapFails, RwDone, Destroy, DestroyDone
  <2>2. p = cur[c] /\ pc[c] = "move" /\ p \in Parts
    BY <2>1, HandlerPart DEF Complete, Goto
  <2>3. p[1] \in early \/ p \notin cancel
    BY <2>2 DEF AioInv, Progress
  <2>4. p[1] \in Iocbs
    BY <2>2, PartFields
  <2>5. p[1] \in early \/ p \in cancel
    BY <2>4 DEF AioInv, Found
  <2> QED
    BY <2>3, <2>5
<1>2. AioInv /\ [Next]_vars =>
        [\A p \in moved' \ moved :
           canceler[p[1]] = "done" /\ target[p[1]] = p => p[1] \in early]_vars
  BY <1>1
<1> QED
  BY <1>2, AioInvariant, PTL DEF Spec, CancelledNotMoved

=============================================================================
