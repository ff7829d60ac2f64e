--------------------------- MODULE DescQueueProofs ---------------------------
(***************************************************************************)
(* Proofs about DescQueue for every set of requests, every number of       *)
(* descriptors and every ring size. What is said of the ring and of the    *)
(* lists holds for every behaviour of the callers, timeouts and signals    *)
(* included. What is said of the data, the implementation of DmaService    *)
(* among it, is for callers that do not give up: one that does leaves its  *)
(* descriptors in the ring, and their credit goes to other requests.       *)
(***************************************************************************)
EXTENDS DescQueue, SequenceTheorems, FiniteSetTheorems, WellFoundedInduction, TLAPS

-----------------------------------------------------------------------------
(* Facts about natural numbers.                                            *)

\* A set of natural numbers has a least one: otherwise the intervals from
\* zero to its members would have no minimal one.
LEMMA NatMin ==
  ASSUME NEW T, T \subseteq Nat, T # {}
  PROVE  \E x \in T : \A y \in T : x <= y
<1> DEFINE D == {0 .. n : n \in T}
<1>1. D \subseteq FiniteSubsetsOf(Nat)
  <2> SUFFICES ASSUME NEW n \in T PROVE 0 .. n \in SUBSET Nat /\ IsFiniteSet(0 .. n)
    BY DEF FiniteSubsetsOf
  <2> QED
    BY FS_Interval
<1>2. PICK d \in D : \A e \in D : <<e, d>> \notin StrictSubsetOrdering(Nat)
  <2>1. D # {}
    OBVIOUS
  <2> HIDE DEF D
  <2> QED
    BY <1>1, <2>1, WFMin, FS_StrictSubsetOrderingWellFounded
<1>3. PICK m \in T : d = 0 .. m
  OBVIOUS
<1>4. ASSUME NEW n \in T, n < m PROVE FALSE
  <2>1. 0 .. n \in D
    OBVIOUS
  <2>2. /\ 0 .. n \in SUBSET Nat /\ d \in SUBSET Nat
        /\ 0 .. n \subseteq d /\ m \in d /\ m \notin 0 .. n
    BY <1>3, <1>4
  <2>3. <<0 .. n, d>> \in StrictSubsetOrdering(Nat)
    BY <2>2 DEF StrictSubsetOrdering
  <2> QED
    BY <1>2, <2>1, <2>3
<1> QED
  BY <1>4

-----------------------------------------------------------------------------
(* The inductive invariants.                                               *)

\* The producer index was handed to the hardware whenever no step is under way.
DoorbellRung == doorbell = pidx

\* The accounting of the ring. RingAccounting alone is not inductive: that
\* avail stays in range when credit comes in needs the order of the cursors,
\* and that order needs the doorbell to be at the producer index.
RingInv ==
  /\ TypeOK
  /\ RingAccounting
  /\ CursorOrder
  /\ DoorbellRung

-----------------------------------------------------------------------------
(* Ring arithmetic.                                                        *)

\* Two slots are less than a ring apart, and no distance means the same slot.
LEMMA DeltaRange ==
  ASSUME NEW a \in Slots, NEW b \in Slots
  PROVE  /\ RingDelta(a, b) \in 0 .. RngSz - 1
         /\ RingDelta(a, b) = 0 <=> a = b
BY RngSzAssumption DEF Slots, RingDelta

\* Advancing by less than what is left before b's slot comes round again adds
\* to the distance from b.
LEMMA DeltaIncr ==
  ASSUME NEW a \in Slots, NEW b \in Slots, NEW n \in Nat,
         RingDelta(a, b) + n < RngSz
  PROVE  /\ RingIncr(a, n) \in Slots
         /\ RingDelta(RingIncr(a, n), b) = RingDelta(a, b) + n
BY RngSzAssumption DEF Slots, RingDelta, RingIncr

\* Measuring from a later slot c instead of b subtracts the distance of c.
LEMMA DeltaRebase ==
  ASSUME NEW a \in Slots, NEW b \in Slots, NEW c \in Slots,
         RingDelta(c, b) <= RingDelta(a, b)
  PROVE  RingDelta(a, c) = RingDelta(a, b) - RingDelta(c, b)
BY RngSzAssumption DEF Slots, RingDelta

\* The credit descq_wb_credit() computes is the distance of the two indices.
LEMMA CreditIsDelta ==
  ASSUME NEW hw \in Slots, cidx \in Slots
  PROVE  WbCredit(hw) = RingDelta(hw, cidx)
BY RngSzAssumption DEF Slots, RingDelta, WbCredit

\* Taking a request off a list leaves a list of requests.
LEMMA UnlinkType ==
  ASSUME NEW l \in Seq(Reqs), NEW r \in Reqs, OnList(l, r)
  PROVE  Unlink(l, r) \in Seq(Reqs)
<1> DEFINE i == CHOOSE j \in DOMAIN l : l[j] = r
<1>1. i \in DOMAIN l
  BY DEF OnList
<1>2. i \in 1 .. Len(l)
  BY <1>1
<1>3. SubSeq(l, 1, i - 1) \in Seq(Reqs)
  <2>1. 1 \in Int /\ i - 1 \in Int
    BY <1>2
  <2>2. \A j \in 1 .. i - 1 : j \in 1 .. Len(l)
    BY <1>2
  <2> QED
    BY <2>1, <2>2, SubSeqProperties
<1>4. SubSeq(l, i + 1, Len(l)) \in Seq(Reqs)
  <2>1. i + 1 \in Int /\ Len(l) \in Int
    BY <1>2
  <2>2. \A j \in i + 1 .. Len(l) : j \in 1 .. Len(l)
    BY <1>2
  <2> QED
    BY <2>1, <2>2, SubSeqProperties
<1> QED
  BY <1>3, <1>4, ConcatProperties DEF Unlink

-----------------------------------------------------------------------------
(* The accounting of the ring.                                             *)

\* At first, the ring is empty.
LEMMA InitRing == Init => RingInv
<1> SUFFICES ASSUME Init PROVE RingInv
  OBVIOUS
<1>1. 0 \in Slots /\ RngSz - 1 \in 0 .. RngSz - 1
  BY RngSzAssumption DEF Slots
<1>2. TypeOK
  <2>1. thread \in [Threads -> {"off", "top", "check", "sleep", "work", "post", "credit"}]
    BY DEF Init
  <2>2. mapped \in [Reqs -> BOOLEAN] /\ irq \in BOOLEAN /\ polled \in BOOLEAN
    BY DEF Init
  <2>3. workList \in Seq(Reqs) /\ pendList \in Seq(Reqs)
    BY DEF Init
  <2> QED
    BY <1>1, <2>1, <2>2, <2>3 DEF Init, TypeOK, UsableSlots
<1>3. RingDelta(0, 0) = 0
  BY DEF RingDelta
<1> QED
  BY <1>1, <1>2, <1>3, RngSzAssumption
  DEF Init, RingInv, RingAccounting, CursorOrder, DoorbellRung, UsableSlots

\* A step that leaves the cursors alone keeps what is said of them.
LEMMA RingFrame ==
  ASSUME RingInv, UNCHANGED <<avail, pidx, cidx, doorbell, hwCidx, wbCidx>>
  PROVE  RingAccounting' /\ CursorOrder' /\ DoorbellRung'
BY DEF RingInv, RingAccounting, CursorOrder, DoorbellRung, RingDelta

\* The steps of the thread loop.
LEMMA ThreadStepRing ==
  ASSUME RingInv, NEW t \in Threads, ThreadStep(t)
  PROVE  RingInv'
<1>1. TypeOK
  BY DEF RingInv
<1>2. UNCHANGED <<lock, lists, ring, credit, cbs, pc, hardware, cr, polled>>
  BY DEF ThreadStep, PrepareSleep, CheckWork, Resume, SleepTimeout
<1>3. thread' \in [Threads -> {"off", "top", "check", "sleep", "work", "post", "credit"}]
  BY <1>1, ZenonT(40) DEF ThreadStep, PrepareSleep, CheckWork, Resume, SleepTimeout, Goto, TypeOK
<1>4. task' \in [Threads -> {"running", "sleeping"}]
  BY <1>1 DEF ThreadStep, PrepareSleep, CheckWork, Resume, SleepTimeout, Wakeup, TypeOK
<1>5. TypeOK'
  BY <1>1, <1>2, <1>3, <1>4 DEF TypeOK, lists, ring, cbs, hardware
<1> QED
  BY <1>2, <1>5, RingFrame DEF RingInv, ring, hardware

\* The steps of a caller, giving up included.
LEMMA CallerStepRing ==
  ASSUME RingInv, NEW r \in Reqs, Submit(r) \/ CallerStep(r)
  PROVE  RingInv'
<1>1. TypeOK
  BY DEF RingInv
<1>2. UNCHANGED <<polled, lock, ring, credit, offset, descNr, status, hardware,
                  thread, cr>>
  BY DEF Submit, CallerStep, Kick, WaitOver, Recheck, Unmap, threads, cbs
<1>3. workList' \in Seq(Reqs) /\ pendList' \in Seq(Reqs)
  <2>1. CASE Submit(r)
    BY <1>1, <2>1, AppendProperties DEF Submit, Enqueue, TypeOK
  <2>2. CASE Recheck(r)
    BY <1>1, <2>2, UnlinkType DEF Recheck, TypeOK, lists
  <2>3. CASE Kick(r) \/ WaitOver(r) \/ Unmap(r)
    BY <1>1, <2>3 DEF Kick, WaitOver, Unmap, TypeOK, lists
  <2> QED
    BY <2>1, <2>2, <2>3 DEF CallerStep
<1>4. pc' \in [Reqs -> {"idle", "kick", "wait", "recheck", "unmap", "returned"}]
  BY <1>1, ZenonT(40) DEF Submit, CallerStep, Kick, WaitOver, Recheck, Unmap, TypeOK
<1>5. mapped' \in [Reqs -> BOOLEAN]
  BY <1>1 DEF Submit, CallerStep, Kick, WaitOver, Recheck, Unmap, TypeOK, cbs
<1>6. task' \in [Threads -> {"running", "sleeping"}]
  BY <1>1 DEF Submit, CallerStep, Kick, WaitOver, Recheck, Unmap, TypeOK, Wakeup, threads
<1>7. TypeOK'
  BY <1>1, <1>2, <1>3, <1>4, <1>5, <1>6 DEF TypeOK, ring, hardware
<1> QED
  BY <1>2, <1>7, RingFrame DEF RingInv, ring, hardware

\* The steps of the request thread: what it puts into the ring is taken from
\* the free descriptors.
LEMMA RequestThreadRing ==
  ASSUME RingInv, RequestThread
  PROVE  RingInv'
<1>1. TypeOK /\ RingAccounting /\ CursorOrder /\ doorbell = pidx
  BY DEF RingInv, DoorbellRung
<1>2. CASE WrkLock \/ WrkUnlock
  <2>1. UNCHANGED <<polled, lists, ring, credit, cbs, pc, hardware, cr>>
    BY <1>2 DEF WrkLock, WrkUnlock
  <2>2. TypeOK'
    BY <1>1, <1>2, <2>1
    DEF WrkLock, WrkUnlock, Goto, Wakeup, TypeOK, lists, ring, cbs, hardware
  <2> QED
    BY <2>1, <2>2, RingFrame DEF RingInv, ring, hardware
<1>3. CASE WrkReject
  <2>1. workList # <<>>
    BY <1>3 DEF WrkReject, WrkMore
  <2>2. Tail(workList) \in Seq(Reqs)
    BY <1>1, <2>1, HeadTailProperties DEF TypeOK
  <2>3. mapped' \in [Reqs -> BOOLEAN]
    BY <1>1, <1>3 DEF WrkReject, ReqDone, TypeOK
  <2>4. TypeOK'
    BY <1>1, <1>3, <2>2, <2>3
    DEF WrkReject, ReqDone, TypeOK, ring, hardware, threads
  <2> QED
    BY <1>3, <2>4, RingFrame DEF WrkReject, RingInv, ring, hardware
<1>4. CASE WrkPost
  <2> DEFINE r == Head(workList)
             n == PostCount(r)
  <2>1. r \in Reqs /\ Tail(workList) \in Seq(Reqs)
    BY <1>1, <1>4, HeadTailProperties DEF WrkPost, WrkMore, TypeOK
  <2>2. offset[r] \in Nat /\ NDesc[r] \in Nat
    BY <1>1, <2>1, NDescAssumption DEF TypeOK
  <2>3. n \in Nat /\ n > 0 /\ n <= avail
    BY <1>1, <1>4, <2>2, RngSzAssumption, SMTT(40) DEF WrkPost, PostCount, TypeOK
  <2> HIDE DEF n
  <2>4. /\ pidx' = RingIncr(pidx, n) /\ doorbell' = pidx'
        /\ desc' = [s \in Slots |-> IF RingDelta(s, pidx) < n THEN r ELSE desc[s]]
        /\ avail' = avail - n
        /\ descNr' = [descNr EXCEPT ![r] = @ + n]
        /\ offset' = [offset EXCEPT ![r] = @ + n]
        /\ UNCHANGED <<cidx, hwCidx, wbCidx>>
    BY <1>4 DEF WrkPost, WriteDescs, n
  <2>5. RingDelta(pidx, cidx) + n < RngSz
    BY <1>1, <2>3, RngSzAssumption, DeltaRange, SMTT(30) DEF RingAccounting, TypeOK
  <2>6. pidx' \in Slots /\ RingDelta(pidx', cidx) = RingDelta(pidx, cidx) + n
    BY <1>1, <2>3, <2>4, <2>5, DeltaIncr DEF TypeOK
  <2>7. avail' \in 0 .. RngSz - 1
    BY <1>1, <2>3, <2>4, RngSzAssumption DEF TypeOK
  <2>8. workList' \in Seq(Reqs) /\ pendList' \in Seq(Reqs)
    <3>1. workList \in Seq(Reqs) /\ pendList \in Seq(Reqs)
      BY <1>1 DEF TypeOK
    <3>2. Append(pendList, r) \in Seq(Reqs)
      BY <2>1, <3>1, AppendProperties
    <3>3. \/ workList' = Tail(workList) /\ pendList' = Append(pendList, r)
          \/ workList' = workList /\ pendList' = pendList
      BY <1>4 DEF WrkPost, Enqueue, lists
    <3> HIDE DEF r
    <3>4. CASE workList' = Tail(workList) /\ pendList' = Append(pendList, r)
      BY <2>1, <3>2, <3>4
    <3>5. CASE workList' = workList /\ pendList' = pendList
      BY <3>1, <3>5
    <3> QED
      BY <3>3, <3>4, <3>5
  <2>9. desc' \in [Slots -> Reqs \cup {None}]
    BY <1>1, <2>1, <2>4 DEF TypeOK
  <2>10. offset' \in [Reqs -> Nat] /\ descNr' \in [Reqs -> Nat]
    <3> HIDE DEF r
    <3>1. offset[r] + n \in Nat /\ descNr[r] + n \in Nat
      BY <1>1, <2>1, <2>3, SMTT(40) DEF TypeOK
    <3>2. offset' \in [Reqs -> Nat]
      BY <1>1, <2>1, <2>4, <3>1 DEF TypeOK
    <3>3. descNr' \in [Reqs -> Nat]
      BY <1>1, <2>1, <2>4, <3>1 DEF TypeOK
    <3> QED
      BY <3>2, <3>3
  <2>11. task' \in [Threads -> {"running", "sleeping"}]
    BY <1>1, <1>4 DEF WrkPost, Wakeup, TypeOK
  <2>12. UNCHANGED <<polled, lock, credit, status, mapped, pc, irq, moved, thread, cr>>
    BY <1>4 DEF WrkPost
  <2>13. TypeOK'
    BY <1>1, <2>4, <2>6, <2>7, <2>8, <2>9, <2>10, <2>11, <2>12 DEF TypeOK
  <2>14. RingDelta(pidx, cidx) \in Nat /\ RingDelta(hwCidx, cidx) \in Nat
         /\ RingDelta(wbCidx, cidx) \in Nat
    BY <1>1, DeltaRange DEF TypeOK
  <2>15. RingAccounting'
    BY <1>1, <2>3, <2>4, <2>6, <2>14, RngSzAssumption DEF RingAccounting, TypeOK
  <2>16. CursorOrder'
    <3>1. RingDelta(wbCidx, cidx)' = RingDelta(wbCidx, cidx)
          /\ RingDelta(hwCidx, cidx)' = RingDelta(hwCidx, cidx)
      BY <2>4 DEF RingDelta
    <3>2. RingDelta(doorbell, cidx)' = RingDelta(pidx, cidx) + n
          /\ RingDelta(pidx, cidx)' = RingDelta(pidx, cidx) + n
      BY <2>4, <2>6 DEF RingDelta
    <3> QED
      BY <1>1, <2>3, <2>14, <3>1, <3>2 DEF CursorOrder
  <2> QED
    BY <2>4, <2>13, <2>15, <2>16 DEF RingInv, DoorbellRung
<1> QED
  BY <1>2, <1>3, <1>4 DEF RequestThread

\* The steps of the hardware stay between the consumer index and the doorbell.
LEMMA HardwareRing ==
  ASSUME RingInv, HwExecute \/ HwWriteback \/ Interrupt
  PROVE  RingInv'
<1>1. TypeOK /\ RingAccounting /\ CursorOrder /\ doorbell = pidx
  BY DEF RingInv, DoorbellRung
<1>2. UNCHANGED <<polled, lock, lists, ring, credit, cbs, pc, task, cr, doorbell>>
  BY DEF HwExecute, HwWriteback, Interrupt, threads
<1>3. moved' \in [Reqs -> Nat]
  BY <1>1 DEF HwExecute, HwWriteback, Interrupt, TypeOK
<1>4. irq' \in BOOLEAN
  BY <1>1 DEF HwExecute, HwWriteback, Interrupt, TypeOK
<1>5. thread' \in [Threads -> {"off", "top", "check", "sleep", "work", "post", "credit"}]
  BY <1>1 DEF HwExecute, HwWriteback, Interrupt, TypeOK, Goto, threads
<1>6. /\ hwCidx' \in Slots /\ wbCidx' \in Slots
      /\ RingDelta(wbCidx', cidx) <= RingDelta(hwCidx', cidx)
      /\ RingDelta(hwCidx', cidx) <= RingDelta(doorbell, cidx)
  <2>1. /\ RingDelta(hwCidx, cidx) \in 0 .. RngSz - 1
        /\ RingDelta(wbCidx, cidx) \in 0 .. RngSz - 1
        /\ RingDelta(doorbell, cidx) \in 0 .. RngSz - 1
    BY <1>1, DeltaRange DEF TypeOK
  <2>2. CASE HwExecute
    <3>1. RingDelta(hwCidx, cidx) # RingDelta(doorbell, cidx)
      BY <1>1, <2>2, RngSzAssumption DEF HwExecute, RingDelta, TypeOK, Slots
    <3>2. RingDelta(hwCidx, cidx) + 1 <= RingDelta(doorbell, cidx)
      BY <1>1, <2>1, <3>1 DEF CursorOrder
    <3>3. RingDelta(hwCidx, cidx) + 1 < RngSz
      BY <2>1, <3>2, RngSzAssumption
    <3>4. /\ RingIncr(hwCidx, 1) \in Slots
          /\ RingDelta(RingIncr(hwCidx, 1), cidx) = RingDelta(hwCidx, cidx) + 1
      BY <1>1, <3>3, DeltaIncr DEF TypeOK
    <3> QED
      BY <1>1, <2>1, <2>2, <3>2, <3>4 DEF HwExecute, CursorOrder, TypeOK
  <2>3. CASE HwWriteback
    BY <1>1, <2>1, <2>3 DEF HwWriteback, CursorOrder, TypeOK
  <2>4. CASE Interrupt
    BY <1>1, <2>4 DEF Interrupt, CursorOrder, TypeOK
  <2> QED
    BY <2>2, <2>3, <2>4
<1>7. TypeOK'
  BY <1>1, <1>2, <1>3, <1>4, <1>5, <1>6 DEF TypeOK, lists, ring, cbs
<1>8. RingAccounting' /\ DoorbellRung'
  BY <1>1, <1>2 DEF RingAccounting, DoorbellRung, RingDelta, ring
<1>9. CursorOrder'
  BY <1>1, <1>2, <1>6 DEF CursorOrder, RingDelta, ring
<1> QED
  BY <1>7, <1>8, <1>9 DEF RingInv

\* The steps of the servicing context: what comes in as credit are descriptors
\* the hardware is finished with, and the consumer index moves past them.
LEMMA WritebackRing ==
  ASSUME RingInv, Writeback
  PROVE  RingInv'
<1>1. TypeOK /\ RingAccounting /\ CursorOrder /\ doorbell = pidx
  BY DEF RingInv, DoorbellRung
<1>2. CASE WbNothing
  <2>1. UNCHANGED <<polled, lock, lists, ring, credit, cbs, pc, hardware, cr>>
    BY <1>2 DEF WbNothing
  <2>2. thread' \in [Threads -> {"off", "top", "check", "sleep", "work", "post", "credit"}]
    BY <1>1, <1>2 DEF WbNothing, Goto, Served, TypeOK
  <2>3. task' \in [Threads -> {"running", "sleeping"}]
    BY <1>1, <1>2 DEF WbNothing, Wakeup, TypeOK
  <2>4. TypeOK'
    BY <1>1, <2>1, <2>2, <2>3 DEF TypeOK, lists, ring, cbs, hardware
  <2> QED
    BY <2>1, <2>4, RingFrame DEF RingInv, ring, hardware
<1>3. CASE WbTake
  <2> DEFINE n == RingDelta(wbCidx, cidx)
  <2>1. /\ cidx \in Slots /\ wbCidx \in Slots /\ hwCidx \in Slots /\ pidx \in Slots
    BY <1>1 DEF TypeOK
  <2>2. WbCredit(WbIndex) = n
    BY <2>1, CreditIsDelta DEF WbIndex
  <2>3. /\ n \in Nat
        /\ RingDelta(hwCidx, cidx) \in Nat
        /\ RingDelta(pidx, cidx) \in Nat
    BY <2>1, DeltaRange, RngSzAssumption
  <2>4. n <= RingDelta(hwCidx, cidx) /\ RingDelta(hwCidx, cidx) <= RingDelta(pidx, cidx)
    BY <1>1 DEF CursorOrder
  <2>5. /\ cidx' = wbCidx /\ avail' = avail + n /\ cr' = credit + n
        /\ UNCHANGED <<polled, lists, pidx, desc, credit, cbs, pc, hardware>>
    BY <1>3, <2>2 DEF WbTake, WbIndex
  <2>6. /\ RingDelta(hwCidx, wbCidx) = RingDelta(hwCidx, cidx) - n
        /\ RingDelta(pidx, wbCidx) = RingDelta(pidx, cidx) - n
        /\ RingDelta(wbCidx, wbCidx) = 0
    BY <2>1, <2>3, <2>4, DeltaRebase, DeltaRange
  <2> HIDE DEF n
  <2>7. avail + RingDelta(pidx, cidx) = RngSz - 1 /\ avail \in Nat
    BY <1>1 DEF RingAccounting, TypeOK
  <2>8. avail' \in 0 .. RngSz - 1
    BY <2>3, <2>4, <2>5, <2>7, RngSzAssumption
  <2>9. cr' \in Nat
    BY <1>1, <2>3, <2>5 DEF TypeOK
  <2>10. task' \in [Threads -> {"running", "sleeping"}]
    BY <1>1, <1>3 DEF WbTake, TypeOK
  <2>11. /\ thread' \in [Threads -> {"off", "top", "check", "sleep", "work", "post", "credit"}]
         /\ lock' \in {"free", "request", "writeback"}
    BY <1>1, <1>3 DEF WbTake, Goto, TypeOK
  <2>12. TypeOK'
    BY <1>1, <2>1, <2>5, <2>8, <2>9, <2>10, <2>11 DEF TypeOK, lists, cbs, hardware
  <2>13. RingDelta(pidx, cidx)' = RingDelta(pidx, cidx) - n
    BY <2>5, <2>6 DEF RingDelta
  <2>14. RingAccounting'
    BY <2>3, <2>5, <2>7, <2>13, RngSzAssumption DEF RingAccounting
  <2>15. /\ RingDelta(wbCidx, cidx)' = 0
         /\ RingDelta(hwCidx, cidx)' = RingDelta(hwCidx, cidx) - n
         /\ RingDelta(doorbell, cidx)' = RingDelta(pidx, cidx) - n
    BY <1>1, <2>5, <2>6 DEF RingDelta, hardware
  <2>16. CursorOrder'
    BY <2>3, <2>4, <2>13, <2>15 DEF CursorOrder
  <2> QED
    BY <1>1, <2>5, <2>12, <2>14, <2>16 DEF RingInv, DoorbellRung, hardware
<1>4. CASE WbComplete
  <2> DEFINE r == Head(pendList)
  <2>1. r \in Reqs /\ Tail(pendList) \in Seq(Reqs)
    BY <1>1, <1>4, HeadTailProperties DEF WbComplete, WbMore, TypeOK
  <2>2. cr' = cr - descNr[r] /\ cr >= descNr[r]
    BY <1>4 DEF WbComplete, Covers
  <2>3. cr' \in Nat
    BY <1>1, <2>1, <2>2 DEF TypeOK
  <2>4. mapped' \in [Reqs -> BOOLEAN]
    BY <1>1, <1>4 DEF WbComplete, ReqDone, TypeOK
  <2>5. status' \in [Reqs -> {"pending", "ok", "error"}]
    BY <1>1, <1>4 DEF WbComplete, ReqDone, TypeOK
  <2>6. /\ pendList' = Tail(pendList)
        /\ UNCHANGED <<polled, lock, workList, ring, credit, offset, descNr, pc,
                       hardware, threads>>
    BY <1>4 DEF WbComplete
  <2> HIDE DEF r
  <2>7. TypeOK'
    BY <1>1, <2>1, <2>3, <2>4, <2>5, <2>6 DEF TypeOK, ring, hardware, threads
  <2> QED
    BY <2>6, <2>7, RingFrame DEF RingInv, ring, hardware
<1>5. CASE WbCharge
  <2> DEFINE r == Head(pendList)
  <2>1. r \in Reqs
    BY <1>1, <1>5, HeadTailProperties DEF WbCharge, WbMore, TypeOK
  <2>2. /\ descNr' = [descNr EXCEPT ![r] = @ - cr] /\ ~(cr >= descNr[r])
        /\ cr' = 0
        /\ UNCHANGED <<polled, lock, lists, ring, credit, offset, status, mapped, pc,
                       hardware, threads>>
    BY <1>5 DEF WbCharge, Covers
  <2> HIDE DEF r
  <2>3. descNr[r] - cr \in Nat
    BY <1>1, <2>1, <2>2 DEF TypeOK
  <2>4. descNr' \in [Reqs -> Nat]
    BY <1>1, <2>1, <2>2, <2>3 DEF TypeOK
  <2>5. TypeOK'
    BY <1>1, <2>2, <2>4 DEF TypeOK, lists, ring, hardware, threads
  <2> QED
    BY <2>2, <2>5, RingFrame DEF RingInv, ring, hardware
<1>6. CASE WbUnlock
  <2>1. /\ doorbell' = doorbell /\ cr' = 0 /\ lock' = "free" /\ credit' = cr
        /\ UNCHANGED <<polled, lists, ring, cbs, pc, hwCidx, wbCidx, irq, moved, task>>
    BY <1>1, <1>6 DEF WbUnlock, LeftOver
  <2>2. thread' \in [Threads -> {"off", "top", "check", "sleep", "work", "post", "credit"}]
    BY <1>1, <1>6 DEF WbUnlock, Goto, Served, TypeOK
  <2>3. TypeOK'
    BY <1>1, <2>1, <2>2 DEF TypeOK, lists, ring, cbs
  <2> QED
    BY <2>1, <2>3, RingFrame DEF RingInv, ring
<1> QED
  BY <1>2, <1>3, <1>4, <1>5, <1>6 DEF Writeback

\* Every step of the queue keeps the accounting of its ring.
LEMMA NextRing ==
  ASSUME RingInv, [Next]_vars
  PROVE  RingInv'
<1>1. CASE UNCHANGED vars
  <2>1. TypeOK'
    BY <1>1 DEF vars, RingInv, TypeOK, lists, ring, cbs, hardware, threads
  <2> QED
    BY <1>1, <2>1, RingFrame DEF vars, RingInv, ring, hardware
<1>2. CASE Next
  BY <1>2, CallerStepRing, ThreadStepRing, RequestThreadRing, HardwareRing, WritebackRing
  DEF Next
<1> QED
  BY <1>1, <1>2

\* RingInv always holds.
LEMMA SpecRing == Spec => []RingInv
BY InitRing, NextRing, PTL DEF Spec

-----------------------------------------------------------------------------
(* Theorems about the ring.                                                *)

\* The variables of the queue keep their types; in particular the count of
\* free descriptors stays within the ring and credit never becomes negative.
THEOREM TypeCorrect == Spec => []TypeOK
<1>1. RingInv => TypeOK
  BY DEF RingInv
<1> QED
  BY <1>1, SpecRing, PTL

\* Whatever the threads, the hardware and callers that give up do, the free
\* descriptors and the distance of the driver's indices add up to the usable
\* slots of the ring.
THEOREM RingAccounted == Spec => []RingAccounting
<1>1. RingInv => RingAccounting
  BY DEF RingInv
<1> QED
  BY <1>1, SpecRing, PTL

\* The cursors of driver and hardware never overtake one another.
THEOREM CursorsOrdered == Spec => []CursorOrder
<1>1. RingInv => CursorOrder
  BY DEF RingInv
<1> QED
  BY <1>1, SpecRing, PTL

\* A descriptor handed to the hardware is not touched before it was executed:
\* the request thread fills only slots outside the part of the ring between
\* the hardware and the doorbell.
THEOREM DescriptorsKept == Spec => NoOverwrite
<1> DEFINE Kept == \A s \in Between(hwCidx, doorbell) : desc'[s] = desc[s]
<1>1. ASSUME RingInv, [Next]_vars PROVE [Kept]_vars
  <2> SUFFICES ASSUME NEW s \in Between(hwCidx, doorbell) PROVE desc'[s] = desc[s]
    OBVIOUS
  <2>1. CASE UNCHANGED desc
    BY <2>1
  <2>2. CASE WrkPost
    <3> DEFINE r == Head(workList)
               n == PostCount(r)
    <3>1. /\ TypeOK /\ RingAccounting /\ CursorOrder /\ doorbell = pidx
      BY <1>1 DEF RingInv, DoorbellRung
    <3>2. r \in Reqs
      BY <2>2, <3>1, HeadTailProperties DEF WrkPost, WrkMore, TypeOK
    <3>3. offset[r] \in Nat /\ NDesc[r] \in Nat
      BY <3>1, <3>2, NDescAssumption DEF TypeOK
    <3>4. n \in Nat /\ n <= avail
      BY <2>2, <3>1, <3>3, RngSzAssumption DEF WrkPost, PostCount, TypeOK
    <3>5. desc' = [x \in Slots |-> IF RingDelta(x, pidx) < n THEN r ELSE desc[x]]
      BY <2>2 DEF WrkPost, WriteDescs
    <3> HIDE DEF n, r
    <3>6. /\ s \in Slots /\ hwCidx \in Slots /\ pidx \in Slots /\ cidx \in Slots
          /\ RingDelta(s, hwCidx) < RingDelta(pidx, hwCidx)
      BY <3>1 DEF Between, TypeOK
    <3>7. avail + RingDelta(pidx, cidx) = RngSz - 1
          /\ RingDelta(hwCidx, cidx) <= RingDelta(pidx, cidx)
      BY <3>1 DEF RingAccounting, CursorOrder
    <3>8. RingDelta(s, pidx) \in Nat /\ avail \in Nat
      BY <3>1, <3>6, DeltaRange DEF TypeOK
    <3>9. ~(RingDelta(s, pidx) < avail)
      BY <3>6, <3>7, <3>8, RngSzAssumption DEF RingDelta, Slots
    <3> QED
      BY <3>4, <3>5, <3>6, <3>8, <3>9
  <2>3. UNCHANGED desc \/ WrkPost
    BY <1>1 DEF Next, vars, ring, Submit, CallerStep, Kick, WaitOver, Recheck, Unmap,
       ThreadStep, PrepareSleep, CheckWork, Resume, SleepTimeout,
       RequestThread, WrkLock, WrkReject, WrkUnlock, HwExecute, HwWriteback, Interrupt,
       Writeback, WbNothing, WbTake, WbComplete, WbCharge, WbUnlock
  <2> QED
    BY <2>1, <2>2, <2>3
<1>2. RingInv /\ [Next]_vars => [Kept]_vars
  BY <1>1
<1> QED
  BY <1>2, SpecRing, PTL DEF Spec, NoOverwrite

-----------------------------------------------------------------------------
(* The requests.                                                           *)

\* Who holds the queue lock.
Held ==
  /\ thread["request"] \in {"top", "check", "sleep", "work", "post"}
  /\ thread["writeback"] \in {"off", "top", "check", "sleep", "work", "credit"}
  /\ lock = "request" <=> thread["request"] = "post"
  /\ lock = "writeback" <=> thread["writeback"] = "credit"
  /\ lock # "writeback" => cr = 0

\* No request is twice on l.
Once(l) == \A i, j \in DOMAIN l : l[i] = l[j] => i = j

\* The caller still counts on r being done.
Waiting(r) ==
  /\ status[r] = "pending"
  /\ pc[r] \in {"kick", "wait", "recheck"} \/ (pc[r] = "returned" /\ r \notin Waiters)

\* The lists hold the requests that are waited for, each once.
ListInv ==
  /\ TypeOK
  /\ Once(workList) /\ Once(pendList)
  /\ \A r \in Reqs : ~(OnList(workList, r) /\ OnList(pendList, r))
  /\ \A r \in Reqs : Waiting(r) <=> OnList(workList, r) \/ OnList(pendList, r)
  /\ \A r \in Reqs : pc[r] \in {"wait", "recheck", "unmap"} => r \in Waiters
  /\ \A r \in Reqs : pc[r] = "idle" => status[r] = "pending"

-----------------------------------------------------------------------------
(* The data.                                                               *)

\* The requests in the order in which they were submitted.
Queue == pendList \o workList

\* Descriptors that are done and not charged to a request, and descriptors in
\* the ring and those of them that were executed.
Taken    == IF lock = "writeback" THEN cr ELSE credit
InRing   == RingDelta(pidx, cidx)
Executed == RingDelta(hwCidx, cidx)

\* f[i] descriptors are those of the first i requests; what is in the ring or not
\* charged yet is theirs.
Counts(f) ==
  /\ f[0] = 0
  /\ \A i \in 0 .. Len(Queue) : i > Len(pendList) \/ i = Len(Queue) => f[i] = Taken + InRing
  /\ \A i \in 1 .. Len(Queue) : f[i] = f[i - 1] + descNr[Queue[i]]
  /\ \A i, j \in 0 .. Len(Queue) : i <= j => f[i] <= f[j]

\* The slots of the ring hold the descriptors of the requests in their order.
Owners(f) ==
  \A s \in Slots, i \in 1 .. Len(Queue) :
    LET k == Taken + RingDelta(s, cidx)
    IN  RingDelta(s, cidx) < InRing /\ f[i - 1] <= k /\ k < f[i] => desc[s] = Queue[i]

\* The descriptors of the i-th request that were not executed.
Open(f, i) ==
  LET e == Taken + Executed
  IN  IF f[i] <= e THEN 0 ELSE IF f[i - 1] >= e THEN f[i] - f[i - 1] ELSE f[i] - e

\* All other data of a request that is in descriptors was moved.
Moved(f) == \A i \in 1 .. Len(Queue) : moved[Queue[i]] + Open(f, i) = offset[Queue[i]]

\* There is such a count.
Spread == \E f \in [0 .. Len(Queue) -> Nat] : Counts(f) /\ Owners(f) /\ Moved(f)

\* Descriptors are written for the first request of work_list only, and a
\* request moves on with its last one.
Filled ==
  /\ \A i \in 1 .. Len(workList) :
       /\ i > 1 => offset[workList[i]] = 0 /\ descNr[workList[i]] = 0
       /\ offset[workList[i]] < NDesc[workList[i]]
          \/ (NDesc[workList[i]] = 0 /\ offset[workList[i]] = 0 /\ descNr[workList[i]] = 0)
  /\ \A i \in 1 .. Len(pendList) :
       offset[pendList[i]] = NDesc[pendList[i]] /\ NDesc[pendList[i]] > 0
       /\ descNr[pendList[i]] > 0
  /\ \A r \in Reqs : pc[r] = "idle" =>
       offset[r] = 0 /\ descNr[r] = 0 /\ moved[r] = 0

\* Credit that is left over belongs to the first request, which needs more.
Rest ==
  lock # "writeback" =>
    /\ pendList # <<>> => credit < descNr[Head(pendList)]
    /\ pendList = <<>> /\ workList # <<>> => credit <= descNr[Head(workList)]

\* Buffers stay mapped for requests that wait, and nobody gives up.
Kept ==
  /\ \A r \in Reqs : Waiting(r) => mapped[r]
  /\ \A r \in Reqs : pc[r] \in {"recheck", "unmap"} => status[r] # "pending"

\* None of NoEarlyCompletion, MappedWhileInRing and NoStrayCredit can be
\* reasoned about without knowing whose descriptor is where in the ring.
DataInv ==
  /\ RingInv /\ Held /\ ListInv
  /\ Spread /\ Filled /\ Rest /\ Kept /\ NoEarlyCompletion

-----------------------------------------------------------------------------
(* Lists of requests.                                                      *)

\* list_add_tail() adds one request.
LEMMA ListAppend ==
  ASSUME NEW l \in Seq(Reqs), NEW r \in Reqs
  PROVE  /\ Append(l, r) \in Seq(Reqs)
         /\ \A x : OnList(Append(l, r), x) <=> OnList(l, x) \/ x = r
         /\ Once(l) /\ ~OnList(l, r) => Once(Append(l, r))
<1>1. /\ Append(l, r) \in Seq(Reqs) /\ Len(l) \in Nat /\ DOMAIN l = 1 .. Len(l)
      /\ DOMAIN Append(l, r) = 1 .. Len(l) + 1
      /\ Append(l, r)[Len(l) + 1] = r
      /\ \A i \in 1 .. Len(l) : Append(l, r)[i] = l[i]
  BY AppendProperties
<1>2. \A x : OnList(Append(l, r), x) <=> OnList(l, x) \/ x = r
  BY <1>1 DEF OnList
<1>3. ASSUME Once(l), ~OnList(l, r) PROVE Once(Append(l, r))
  BY <1>1, <1>3 DEF Once, OnList
<1> QED
  BY <1>1, <1>2, <1>3

\* The first request of a list is taken off.
LEMMA ListTail ==
  ASSUME NEW l \in Seq(Reqs), l # <<>>
  PROVE  /\ Head(l) \in Reqs /\ Tail(l) \in Seq(Reqs) /\ OnList(l, Head(l))
         /\ Len(l) \in Nat \ {0} /\ Len(Tail(l)) = Len(l) - 1 /\ Head(l) = l[1]
         /\ \A i \in 1 .. Len(Tail(l)) : Tail(l)[i] = l[i + 1]
         /\ Once(l) => /\ \A x : OnList(Tail(l), x) <=> OnList(l, x) /\ x # Head(l)
                       /\ Once(Tail(l))
<1>1. /\ Head(l) \in Reqs /\ Tail(l) \in Seq(Reqs) /\ Head(l) = l[1]
      /\ Len(l) \in Nat \ {0} /\ DOMAIN l = 1 .. Len(l)
      /\ Len(Tail(l)) = Len(l) - 1 /\ DOMAIN Tail(l) = 1 .. Len(l) - 1
      /\ \A i \in 1 .. Len(Tail(l)) : Tail(l)[i] = l[i + 1]
  BY HeadTailProperties, LenProperties
<1>2. OnList(l, Head(l))
  BY <1>1 DEF OnList
<1>3. ASSUME Once(l), NEW x PROVE OnList(Tail(l), x) <=> OnList(l, x) /\ x # Head(l)
  <2>1. ASSUME NEW i \in 1 .. Len(l) - 1, Tail(l)[i] = x PROVE OnList(l, x) /\ x # Head(l)
    BY <1>1, <1>3, <2>1 DEF OnList, Once
  <2>2. ASSUME NEW i \in 1 .. Len(l), l[i] = x, x # Head(l) PROVE OnList(Tail(l), x)
    <3>1. i # 1 /\ i - 1 \in 1 .. Len(l) - 1 /\ Tail(l)[i - 1] = x
      BY <1>1, <2>2
    <3> QED
      BY <1>1, <3>1 DEF OnList
  <2> QED
    BY <1>1, <2>1, <2>2 DEF OnList
<1>4. ASSUME Once(l) PROVE Once(Tail(l))
  BY <1>1, <1>4 DEF Once
<1> QED
  BY <1>1, <1>2, <1>3, <1>4

\* What list_del() leaves is in its order.
LEMMA UnlinkElements ==
  ASSUME NEW l \in Seq(Reqs), NEW r \in Reqs, OnList(l, r)
  PROVE  LET i == CHOOSE j \in DOMAIN l : l[j] = r
         IN  /\ Unlink(l, r) \in Seq(Reqs) /\ Len(Unlink(l, r)) = Len(l) - 1
             /\ \A k \in 1 .. Len(l) - 1 : Unlink(l, r)[k] = IF k < i THEN l[k] ELSE l[k + 1]
<1> DEFINE i == CHOOSE j \in DOMAIN l : l[j] = r
<1>1. Len(l) \in Nat /\ i \in 1 .. Len(l)
  BY DEF OnList
<1> HIDE DEF i
<1>2. /\ SubSeq(l, 1, i - 1) \in Seq(Reqs) /\ Len(SubSeq(l, 1, i - 1)) = i - 1
      /\ \A k \in 1 .. i - 1 : SubSeq(l, 1, i - 1)[k] = l[k]
  <2>1. 1 \in Int /\ i - 1 \in Int /\ \A j \in 1 .. i - 1 : j \in 1 .. Len(l)
    BY <1>1
  <2> QED
    BY <1>1, <2>1, SubSeqProperties
<1>3. /\ SubSeq(l, i + 1, Len(l)) \in Seq(Reqs) /\ Len(SubSeq(l, i + 1, Len(l))) = Len(l) - i
      /\ \A k \in 1 .. Len(l) - i : SubSeq(l, i + 1, Len(l))[k] = l[i + k]
  <2>1. i + 1 \in Int /\ Len(l) \in Int /\ \A j \in i + 1 .. Len(l) : j \in 1 .. Len(l)
    BY <1>1
  <2> QED
    BY <1>1, <2>1, SubSeqProperties
<1>4. Unlink(l, r) = SubSeq(l, 1, i - 1) \o SubSeq(l, i + 1, Len(l))
  BY DEF Unlink, i
<1>5. /\ Unlink(l, r) \in Seq(Reqs) /\ Len(Unlink(l, r)) = Len(l) - 1
      /\ \A k \in 1 .. Len(l) - 1 : Unlink(l, r)[k] = IF k < i THEN l[k] ELSE l[k + 1]
  <2> DEFINE a == SubSeq(l, 1, i - 1)
             b == SubSeq(l, i + 1, Len(l))
  <2>1. /\ a \in Seq(Reqs) /\ Len(a) = i - 1 /\ \A k \in 1 .. i - 1 : a[k] = l[k]
        /\ b \in Seq(Reqs) /\ Len(b) = Len(l) - i /\ \A k \in 1 .. Len(l) - i : b[k] = l[i + k]
        /\ Unlink(l, r) = a \o b
    BY <1>2, <1>3, <1>4
  <2> HIDE DEF a, b
  <2>2. /\ a \o b \in Seq(Reqs) /\ Len(a \o b) = Len(a) + Len(b)
        /\ \A k \in 1 .. Len(a) + Len(b) : (a \o b)[k] = IF k <= Len(a) THEN a[k] ELSE b[k - Len(a)]
    BY <2>1, ConcatProperties
  <2>3. ASSUME NEW k \in 1 .. Len(l) - 1 PROVE (a \o b)[k] = IF k < i THEN l[k] ELSE l[k + 1]
    <3>1. CASE k < i
      BY <1>1, <2>1, <2>2, <3>1
    <3>2. CASE ~(k < i)
      <4>1. k - Len(a) \in 1 .. Len(l) - i /\ i + (k - Len(a)) = k + 1
        BY <1>1, <2>1, <3>2
      <4>2. (a \o b)[k] = b[k - Len(a)]
        BY <1>1, <2>1, <2>2, <3>2
      <4>3. b[k - Len(a)] = l[k + 1]
        BY <2>1, <4>1
      <4> QED
        BY <3>2, <4>2, <4>3
    <3> QED
      BY <3>1, <3>2
  <2> QED
    BY <1>1, <2>1, <2>2, <2>3
<1> QED
  BY <1>5 DEF i

\* list_del() takes one request off.
LEMMA ListUnlink ==
  ASSUME NEW l \in Seq(Reqs), NEW r \in Reqs, OnList(l, r), Once(l)
  PROVE  /\ \A x : OnList(Unlink(l, r), x) <=> OnList(l, x) /\ x # r
         /\ Once(Unlink(l, r))
<1> DEFINE i == CHOOSE j \in DOMAIN l : l[j] = r
           m == Unlink(l, r)
<1>1. Len(l) \in Nat /\ DOMAIN l = 1 .. Len(l) /\ i \in 1 .. Len(l) /\ l[i] = r
  BY DEF OnList
<1>2. /\ m \in Seq(Reqs) /\ Len(m) = Len(l) - 1
      /\ \A k \in 1 .. Len(l) - 1 : m[k] = IF k < i THEN l[k] ELSE l[k + 1]
  BY UnlinkElements
<1> HIDE DEF i, m
<1>3. DOMAIN m = 1 .. Len(l) - 1
  BY <1>1, <1>2
<1>4. ASSUME NEW x PROVE OnList(m, x) <=> OnList(l, x) /\ x # r
  <2>1. ASSUME NEW k \in 1 .. Len(l) - 1, m[k] = x PROVE OnList(l, x) /\ x # r
    <3>1. \A p, q \in 1 .. Len(l) : l[p] = l[q] => p = q
      BY <1>1 DEF Once
    <3>2. CASE k < i
      <4>1. k \in 1 .. Len(l) /\ l[k] = x /\ k # i
        BY <1>1, <1>2, <2>1, <3>2
      <4> QED
        BY <1>1, <3>1, <4>1 DEF OnList
    <3>3. CASE ~(k < i)
      <4>1. k + 1 \in 1 .. Len(l) /\ l[k + 1] = x /\ k + 1 # i
        BY <1>1, <1>2, <2>1, <3>3
      <4> QED
        BY <1>1, <3>1, <4>1 DEF OnList
    <3> QED
      BY <3>2, <3>3
  <2>2. ASSUME NEW k \in 1 .. Len(l), l[k] = x, x # r PROVE OnList(m, x)
    <3>1. CASE k < i
      <4>1. k \in 1 .. Len(l) - 1 /\ m[k] = x
        BY <1>1, <1>2, <2>2, <3>1
      <4> QED
        BY <1>3, <4>1 DEF OnList
    <3>2. CASE k > i
      <4>1. k - 1 \in 1 .. Len(l) - 1 /\ m[k - 1] = x
        BY <1>1, <1>2, <2>2, <3>2
      <4> QED
        BY <1>3, <4>1 DEF OnList
    <3> QED
      BY <1>1, <2>2, <3>1, <3>2
  <2> QED
    BY <1>1, <1>3, <2>1, <2>2 DEF OnList
<1>5. Once(m)
  <2> SUFFICES ASSUME NEW j \in 1 .. Len(l) - 1, NEW k \in 1 .. Len(l) - 1, m[j] = m[k] PROVE j = k
    BY <1>3 DEF Once
  <2>1. \A a, b \in 1 .. Len(l) : l[a] = l[b] => a = b
    BY <1>1 DEF Once
  <2> QED
    BY <1>1, <1>2, <2>1
<1> QED
  BY <1>4, <1>5 DEF m

\* What is on a list.
LEMMA ListElements ==
  ASSUME NEW l \in Seq(Reqs)
  PROVE  /\ Len(l) \in Nat /\ DOMAIN l = 1 .. Len(l) /\ (l = <<>> <=> Len(l) = 0)
         /\ \A i \in 1 .. Len(l) : l[i] \in Reqs /\ OnList(l, l[i])
         /\ \A r : OnList(l, r) => \E i \in 1 .. Len(l) : l[i] = r
<1>1. Len(l) \in Nat /\ DOMAIN l = 1 .. Len(l) /\ (l = <<>> <=> Len(l) = 0)
  BY LenProperties, EmptySeq
<1> QED
  BY <1>1 DEF OnList

\* One list after the other holds what is on either, each request once.
LEMMA ListConcat ==
  ASSUME NEW a \in Seq(Reqs), NEW b \in Seq(Reqs)
  PROVE  /\ \A r : OnList(a \o b, r) <=> OnList(a, r) \/ OnList(b, r)
         /\ Once(a) /\ Once(b) /\ (\A r \in Reqs : ~(OnList(a, r) /\ OnList(b, r))) => Once(a \o b)
<1>1. /\ Len(a) \in Nat /\ Len(b) \in Nat /\ DOMAIN a = 1 .. Len(a) /\ DOMAIN b = 1 .. Len(b)
      /\ DOMAIN (a \o b) = 1 .. Len(a) + Len(b)
      /\ \A i \in 1 .. Len(a) + Len(b) : (a \o b)[i] = IF i <= Len(a) THEN a[i] ELSE b[i - Len(a)]
  <2>1. a \o b \in Seq(Reqs) /\ Len(a \o b) = Len(a) + Len(b)
        /\ \A i \in 1 .. Len(a) + Len(b) : (a \o b)[i] = IF i <= Len(a) THEN a[i] ELSE b[i - Len(a)]
    BY ConcatProperties
  <2> QED
    BY <2>1, ListElements
<1>2. /\ \A i \in 1 .. Len(a) : i \in DOMAIN (a \o b) /\ (a \o b)[i] = a[i]
      /\ \A i \in 1 .. Len(b) : Len(a) + i \in DOMAIN (a \o b) /\ (a \o b)[Len(a) + i] = b[i]
  BY <1>1
<1>3. \A i \in DOMAIN (a \o b) :
        \/ i \in 1 .. Len(a) /\ (a \o b)[i] = a[i]
        \/ i - Len(a) \in 1 .. Len(b) /\ (a \o b)[i] = b[i - Len(a)]
  BY <1>1
<1>4. ASSUME NEW r PROVE OnList(a \o b, r) <=> OnList(a, r) \/ OnList(b, r)
  BY <1>1, <1>2, <1>3, SMTT(40) DEF OnList
<1>5. ASSUME Once(a), Once(b), \A r \in Reqs : ~(OnList(a, r) /\ OnList(b, r))
      PROVE  Once(a \o b)
  <2> SUFFICES ASSUME NEW i \in DOMAIN (a \o b), NEW j \in DOMAIN (a \o b), (a \o b)[i] = (a \o b)[j]
               PROVE  i = j
    BY DEF Once
  <2>1. \A p \in 1 .. Len(a), q \in 1 .. Len(b) : a[p] # b[q]
    BY <1>1, <1>5, ListElements
  <2>2. CASE i \in 1 .. Len(a) /\ j \in 1 .. Len(a)
    BY <1>1, <1>2, <1>5, <2>2 DEF Once
  <2>3. CASE i - Len(a) \in 1 .. Len(b) /\ j - Len(a) \in 1 .. Len(b)
    <3>1. (a \o b)[i] = b[i - Len(a)] /\ (a \o b)[j] = b[j - Len(a)]
      BY <1>1, <2>3
    <3>2. i - Len(a) = j - Len(a)
      BY <1>1, <1>5, <2>3, <3>1 DEF Once
    <3> QED
      BY <1>1, <3>2
  <2> QED
    BY <1>3, <2>1, <2>2, <2>3
<1> QED
  BY <1>4, <1>5

\* list_add_tail() on work_list adds a request at the end of the queue.
LEMMA QueueAppend ==
  ASSUME NEW a \in Seq(Reqs), NEW b \in Seq(Reqs), NEW r \in Reqs
  PROVE  a \o Append(b, r) = Append(a \o b, r)
<1>1. /\ Append(b, r) \in Seq(Reqs) /\ Len(Append(b, r)) = Len(b) + 1 /\ Append(b, r)[Len(b) + 1] = r
      /\ \A i \in 1 .. Len(b) : Append(b, r)[i] = b[i]
      /\ Len(a) \in Nat /\ Len(b) \in Nat
  BY AppendProperties, LenProperties
<1>2. /\ a \o b \in Seq(Reqs) /\ Len(a \o b) = Len(a) + Len(b)
      /\ \A i \in 1 .. Len(a) + Len(b) : (a \o b)[i] = IF i <= Len(a) THEN a[i] ELSE b[i - Len(a)]
  BY ConcatProperties
<1>3. /\ Append(a \o b, r) \in Seq(Reqs) /\ Len(Append(a \o b, r)) = Len(a \o b) + 1
      /\ Append(a \o b, r)[Len(a \o b) + 1] = r
      /\ \A i \in 1 .. Len(a \o b) : Append(a \o b, r)[i] = (a \o b)[i]
  BY <1>2, AppendProperties
<1> DEFINE c == Append(b, r)
           x == a \o b
<1>4. /\ a \o c \in Seq(Reqs) /\ Len(a \o c) = Len(a) + Len(c)
      /\ \A i \in 1 .. Len(a) + Len(c) : (a \o c)[i] = IF i <= Len(a) THEN a[i] ELSE c[i - Len(a)]
  BY <1>1, ConcatProperties
<1>5. ASSUME NEW i \in 1 .. Len(a) + Len(b) + 1 PROVE (a \o c)[i] = Append(x, r)[i]
  <2> HIDE DEF c, x
  <2>1. CASE i <= Len(a)
    <3>1. i \in 1 .. Len(a) + Len(b)
      BY <1>1, <2>1
    <3> QED
      BY <1>1, <1>2, <1>3, <1>4, <2>1, <3>1 DEF c, x
  <2>2. CASE i = Len(a) + Len(b) + 1
    <3>1. i - Len(a) = Len(b) + 1 /\ ~(i <= Len(a))
      BY <1>1, <2>2
    <3> QED
      BY <1>1, <1>2, <1>3, <1>4, <2>2, <3>1 DEF c, x
  <2>3. CASE i > Len(a) /\ i <= Len(a) + Len(b)
    <3>1. i \in 1 .. Len(a) + Len(b) /\ i - Len(a) \in 1 .. Len(b) /\ ~(i <= Len(a))
      BY <1>1, <2>3
    <3> QED
      BY <1>1, <1>2, <1>3, <1>4, <3>1 DEF c, x
  <2>4. Len(a) \in Nat /\ Len(b) \in Nat
    BY <1>1
  <2>5. i <= Len(a) \/ i = Len(a) + Len(b) + 1 \/ (i > Len(a) /\ i <= Len(a) + Len(b))
    BY <2>4
  <2> QED
    BY <2>1, <2>2, <2>3, <2>5
<1> QED
  BY <1>1, <1>2, <1>3, <1>4, <1>5, SeqEqual

\* The first request of work_list becomes the last one of pend_list.
LEMMA QueueShift ==
  ASSUME NEW a \in Seq(Reqs), NEW b \in Seq(Reqs), b # <<>>
  PROVE  Append(a, Head(b)) \o Tail(b) = a \o b
<1> DEFINE r == Head(b)
           c == Append(a, r)
           t == Tail(b)
<1>1. /\ r \in Reqs /\ r = b[1] /\ t \in Seq(Reqs) /\ Len(b) \in Nat \ {0} /\ Len(t) = Len(b) - 1
      /\ \A i \in 1 .. Len(t) : t[i] = b[i + 1]
  BY ListTail
<1> HIDE DEF r, t
<1>2. /\ c \in Seq(Reqs) /\ Len(a) \in Nat /\ Len(c) = Len(a) + 1 /\ c[Len(a) + 1] = r
      /\ \A i \in 1 .. Len(a) : c[i] = a[i]
  BY <1>1, AppendProperties, LenProperties
<1> HIDE DEF c
<1>3. /\ a \o b \in Seq(Reqs) /\ Len(a \o b) = Len(a) + Len(b)
      /\ \A i \in 1 .. Len(a) + Len(b) : (a \o b)[i] = IF i <= Len(a) THEN a[i] ELSE b[i - Len(a)]
  BY ConcatProperties
<1>4. /\ c \o t \in Seq(Reqs) /\ Len(c \o t) = Len(c) + Len(t)
      /\ \A i \in 1 .. Len(c) + Len(t) : (c \o t)[i] = IF i <= Len(c) THEN c[i] ELSE t[i - Len(c)]
  BY <1>1, <1>2, ConcatProperties
<1>5. ASSUME NEW i \in 1 .. Len(a) + Len(b) PROVE (c \o t)[i] = (a \o b)[i]
  <2>0. i \in 1 .. Len(c) + Len(t)
    BY <1>1, <1>2
  <2>1. CASE i <= Len(a)
    BY <1>1, <1>2, <1>3, <1>4, <2>0, <2>1
  <2>2. CASE i = Len(a) + 1
    BY <1>1, <1>2, <1>3, <1>4, <2>0, <2>2
  <2>3. CASE i > Len(a) + 1
    BY <1>1, <1>2, <1>3, <1>4, <2>0, <2>3, SMTT(40)
  <2> QED
    <3>1. i \in Int /\ Len(a) \in Nat
      BY <1>2
    <3>2. i <= Len(a) \/ i = Len(a) + 1 \/ i > Len(a) + 1
      BY <3>1
    <3> QED
      BY <2>1, <2>2, <2>3, <3>2
<1>6. c \o t = a \o b
  <2>1. Len(c \o t) = Len(a) + Len(b)
    BY <1>1, <1>2, <1>4
  <2> QED
    BY <1>3, <1>4, <1>5, <2>1, SeqEqual
<1> QED
  BY <1>6 DEF c, r, t

\* The first request of pend_list is the first of the queue.
LEMMA QueueTail ==
  ASSUME NEW a \in Seq(Reqs), NEW b \in Seq(Reqs), a # <<>>
  PROVE  /\ a \o b # <<>> /\ Head(a \o b) = Head(a)
         /\ Tail(a \o b) = Tail(a) \o b
<1>1. /\ Head(a) = a[1] /\ Tail(a) \in Seq(Reqs) /\ Len(a) \in Nat \ {0} /\ Len(Tail(a)) = Len(a) - 1
      /\ \A i \in 1 .. Len(Tail(a)) : Tail(a)[i] = a[i + 1]
      /\ Len(b) \in Nat
  BY ListTail, LenProperties
<1>2. /\ a \o b \in Seq(Reqs) /\ Len(a \o b) = Len(a) + Len(b)
      /\ \A i \in 1 .. Len(a) + Len(b) : (a \o b)[i] = IF i <= Len(a) THEN a[i] ELSE b[i - Len(a)]
  BY ConcatProperties
<1>3. a \o b # <<>>
  BY <1>1, <1>2, ListElements
<1> DEFINE x == a \o b
           t == Tail(a)
<1>4. /\ Head(x) = x[1] /\ Tail(x) \in Seq(Reqs) /\ Len(Tail(x)) = Len(x) - 1
      /\ \A i \in 1 .. Len(Tail(x)) : Tail(x)[i] = x[i + 1]
  BY <1>2, <1>3, ListTail
<1>5. /\ t \o b \in Seq(Reqs) /\ Len(t \o b) = Len(t) + Len(b)
      /\ \A i \in 1 .. Len(t) + Len(b) : (t \o b)[i] = IF i <= Len(t) THEN t[i] ELSE b[i - Len(t)]
  BY <1>1, ConcatProperties
<1>6. /\ Len(t) = Len(a) - 1 /\ \A i \in 1 .. Len(a) - 1 : t[i] = a[i + 1]
      /\ Len(x) = Len(a) + Len(b)
      /\ \A i \in 1 .. Len(a) + Len(b) : x[i] = IF i <= Len(a) THEN a[i] ELSE b[i - Len(a)]
  BY <1>1, <1>2
<1> HIDE DEF x, t
<1>7. ASSUME NEW i \in 1 .. Len(a) + Len(b) - 1 PROVE Tail(x)[i] = (t \o b)[i]
  <2>1. Tail(x)[i] = x[i + 1] /\ i + 1 \in 1 .. Len(a) + Len(b) /\ i \in 1 .. Len(t) + Len(b)
    BY <1>1, <1>4, <1>6
  <2>2. CASE i <= Len(a) - 1
    <3>1. i \in 1 .. Len(a) - 1 /\ i <= Len(t) /\ i + 1 <= Len(a)
      BY <1>1, <1>6, <2>2
    <3> QED
      BY <1>5, <1>6, <2>1, <3>1
  <2>3. CASE ~(i <= Len(a) - 1)
    <3>1. ~(i <= Len(t)) /\ ~(i + 1 <= Len(a)) /\ i - Len(t) = (i + 1) - Len(a)
      BY <1>1, <1>6, <2>3
    <3> QED
      BY <1>5, <1>6, <2>1, <3>1
  <2> QED
    BY <2>2, <2>3
<1>8. Tail(x) = t \o b
  <2>1. Len(Tail(x)) = Len(a) + Len(b) - 1 /\ Len(t \o b) = Len(a) + Len(b) - 1
    BY <1>1, <1>4, <1>5, <1>6
  <2> QED
    BY <1>4, <1>5, <1>7, <2>1, SeqEqual
<1>9. Head(a \o b) = Head(a)
  <2>1. 1 \in 1 .. Len(a) + Len(b) /\ 1 <= Len(a)
    BY <1>1
  <2> QED
    BY <1>1, <1>4, <1>6, <2>1 DEF x
<1> QED
  BY <1>3, <1>8, <1>9 DEF x, t

\* The first request of work_list is taken out of the middle of the queue.
LEMMA QueueCut ==
  ASSUME NEW a \in Seq(Reqs), NEW b \in Seq(Reqs), b # <<>>
  PROVE  a \o Tail(b) = SubSeq(a \o b, 1, Len(a)) \o SubSeq(a \o b, Len(a) + 2, Len(a \o b))
<1> DEFINE x == a \o b
           t == Tail(b)
           p == SubSeq(x, 1, Len(a))
           q == SubSeq(x, Len(a) + 2, Len(x))
<1>1. /\ t \in Seq(Reqs) /\ Len(b) \in Nat \ {0} /\ Len(t) = Len(b) - 1
      /\ \A i \in 1 .. Len(t) : t[i] = b[i + 1]
      /\ Len(a) \in Nat
  BY ListTail, LenProperties
<1>2. /\ x \in Seq(Reqs) /\ Len(x) = Len(a) + Len(b)
      /\ \A i \in 1 .. Len(a) + Len(b) : x[i] = IF i <= Len(a) THEN a[i] ELSE b[i - Len(a)]
  BY ConcatProperties
<1> HIDE DEF x, t
<1>3. p \in Seq(Reqs) /\ Len(p) = Len(a) /\ \A i \in 1 .. Len(a) : p[i] = x[i]
  <2>1. 1 \in Int /\ Len(a) \in Int /\ \A j \in 1 .. Len(a) : j \in 1 .. Len(x)
    BY <1>1, <1>2
  <2> QED
    BY <1>1, <1>2, <2>1, SubSeqProperties
<1>4. /\ q \in Seq(Reqs) /\ Len(q) = Len(b) - 1
      /\ \A i \in 1 .. Len(b) - 1 : q[i] = x[Len(a) + 1 + i]
  <2>1. Len(a) + 2 \in Int /\ Len(x) \in Int /\ \A j \in Len(a) + 2 .. Len(x) : j \in 1 .. Len(x)
    BY <1>1, <1>2
  <2> QED
    BY <1>1, <1>2, <2>1, SubSeqProperties
<1>5. /\ a \o t \in Seq(Reqs) /\ Len(a \o t) = Len(a) + Len(t)
      /\ \A i \in 1 .. Len(a) + Len(t) : (a \o t)[i] = IF i <= Len(a) THEN a[i] ELSE t[i - Len(a)]
  BY <1>1, ConcatProperties
<1> HIDE DEF p, q
<1>6. /\ p \o q \in Seq(Reqs) /\ Len(p \o q) = Len(p) + Len(q)
      /\ \A i \in 1 .. Len(p) + Len(q) : (p \o q)[i] = IF i <= Len(p) THEN p[i] ELSE q[i - Len(p)]
  <2>1. p \in Seq(Reqs) /\ q \in Seq(Reqs)
    BY <1>3, <1>4
  <2> QED
    BY <2>1, ConcatProperties
<1>7. Len(a \o t) = Len(a) + Len(b) - 1 /\ Len(p \o q) = Len(a) + Len(b) - 1
  BY <1>1, <1>3, <1>4, <1>5, <1>6
<1>8. ASSUME NEW i \in 1 .. Len(a) + Len(b) - 1 PROVE (a \o t)[i] = (p \o q)[i]
  <2>0. i \in 1 .. Len(a) + Len(t) /\ i \in 1 .. Len(p) + Len(q)
    BY <1>1, <1>3, <1>4
  <2>1. CASE i <= Len(a)
    <3>1. i \in 1 .. Len(a) /\ i \in 1 .. Len(a) + Len(b)
      BY <1>1, <2>1
    <3> QED
      BY <1>2, <1>3, <1>5, <1>6, <2>0, <2>1, <3>1
  <2>2. CASE ~(i <= Len(a))
    <3> DEFINE j == i - Len(a)
    <3>1. /\ j \in 1 .. Len(b) - 1 /\ Len(a) + 1 + j \in 1 .. Len(a) + Len(b)
          /\ ~(Len(a) + 1 + j <= Len(a)) /\ (Len(a) + 1 + j) - Len(a) = j + 1
      BY <1>1, <2>2
    <3> HIDE DEF j
    <3>2. (a \o t)[i] = t[j] /\ (p \o q)[i] = q[j]
      BY <1>3, <1>5, <1>6, <2>0, <2>2 DEF j
    <3>3. t[j] = b[j + 1] /\ q[j] = x[Len(a) + 1 + j] /\ x[Len(a) + 1 + j] = b[j + 1]
      BY <1>1, <1>2, <1>4, <3>1
    <3> QED
      BY <3>2, <3>3
  <2> QED
    BY <2>1, <2>2
<1>9. a \o t = p \o q
  BY <1>5, <1>6, <1>7, <1>8, SeqEqual
<1> QED
  BY <1>9 DEF t, p, q, x

-----------------------------------------------------------------------------
(* The lock and the lists.                                                 *)

\* Each thread lets go of the lock it took, and credit is counted under it.
LEMMA HeldKept ==
  ASSUME TypeOK, Held, [Next]_vars
  PROVE  Held'
<1> USE DEF lists, ring, cbs, hardware, threads
<1>0. TypeOK /\ Held
  OBVIOUS
<1>1. ASSUME NEW r \in Reqs, Submit(r) PROVE Held'
  BY <1>0, <1>1 DEF TypeOK, Held, Threads, Submit, Enqueue
<1>2. ASSUME NEW r \in Reqs, Kick(r) PROVE Held'
  BY <1>0, <1>2 DEF TypeOK, Held, Threads, Kick, Wakeup
<1>3. ASSUME NEW r \in Reqs, WaitOver(r) PROVE Held'
  BY <1>0, <1>3 DEF TypeOK, Held, Threads, WaitOver
<1>4. ASSUME NEW r \in Reqs, Recheck(r) PROVE Held'
  BY <1>0, <1>4 DEF TypeOK, Held, Threads, Recheck
<1>5. ASSUME NEW r \in Reqs, Unmap(r) PROVE Held'
  BY <1>0, <1>5 DEF TypeOK, Held, Threads, Unmap
<1>6. ASSUME NEW t \in Threads, ThreadStep(t) PROVE Held'
  BY <1>0, <1>6
  DEF TypeOK, Held, Threads, ThreadStep, PrepareSleep, CheckWork, Resume, SleepTimeout,
      Goto, Wakeup, Threads
<1>7. ASSUME WrkLock PROVE Held'
  BY <1>0, <1>7 DEF TypeOK, Held, Threads, WrkLock, Goto, Wakeup
<1>8. ASSUME WrkPost PROVE Held'
  BY <1>0, <1>8 DEF TypeOK, Held, Threads, WrkPost, WrkMore, WriteDescs, Wakeup, Enqueue
<1>9. ASSUME WrkReject PROVE Held'
  BY <1>0, <1>9 DEF TypeOK, Held, Threads, WrkReject, WrkMore, ReqDone
<1>10. ASSUME WrkUnlock PROVE Held'
  BY <1>0, <1>10 DEF TypeOK, Held, Threads, WrkUnlock, Goto
<1>11. ASSUME HwExecute \/ HwWriteback PROVE Held'
  BY <1>0, <1>11 DEF TypeOK, Held, Threads, HwExecute, HwWriteback
<1>12. ASSUME Interrupt PROVE Held'
  BY <1>0, <1>12 DEF TypeOK, Held, Threads, Interrupt, Goto
<1>13. ASSUME WbNothing PROVE Held'
  BY <1>0, <1>13 DEF TypeOK, Held, Threads, WbNothing, Goto, Served, Wakeup
<1>14. ASSUME WbTake PROVE Held'
  BY <1>0, <1>14 DEF TypeOK, Held, Threads, WbTake, Goto
<1>15. ASSUME WbComplete PROVE Held'
  BY <1>0, <1>15 DEF TypeOK, Held, Threads, WbComplete, WbMore, ReqDone
<1>16. ASSUME WbCharge PROVE Held'
  BY <1>0, <1>16 DEF TypeOK, Held, Threads, WbCharge, WbMore
<1>17. ASSUME WbUnlock PROVE Held'
  BY <1>0, <1>17 DEF TypeOK, Held, Threads, WbUnlock, Goto, Served
<1>18. ASSUME UNCHANGED vars PROVE Held'
  BY <1>0, <1>18 DEF TypeOK, Held, Threads, vars
<1> QED
  BY <1>1, <1>2, <1>3, <1>4, <1>5, <1>6, <1>7, <1>8, <1>9, <1>10, <1>11, <1>12, <1>13,
     <1>14, <1>15, <1>16, <1>17, <1>18
  DEF Next, CallerStep, RequestThread, Writeback

\* Every step keeps the lists to the requests that are waited for.
LEMMA ListsKept ==
  ASSUME RingInv, Held, ListInv, [Next]_vars
  PROVE  ListInv'
<1> USE DEF lists, ring, cbs, hardware, threads
<1>0. TypeOK /\ TypeOK' /\ Held /\ ListInv
  BY NextRing DEF RingInv
<1>1. ASSUME NEW r \in Reqs, Submit(r) PROVE ListInv'
  <2>1. /\ workList \in Seq(Reqs) /\ pendList' = pendList /\ workList' = Append(workList, r)
        /\ pc[r] = "idle" /\ status' = status
        /\ pc' \in [Reqs -> {"idle", "kick", "wait", "recheck", "unmap", "returned"}]
        /\ pc'[r] = "kick" /\ \A x \in Reqs : x # r => pc'[x] = pc[x]
    BY <1>0, <1>1 DEF TypeOK, Submit, Enqueue
  <2>2. ~OnList(workList, r) /\ ~OnList(pendList, r) /\ status[r] = "pending"
    BY <1>0, <2>1 DEF ListInv, Waiting
  <2>3. /\ \A x \in Reqs : OnList(workList', x) <=> OnList(workList, x) \/ x = r
        /\ Once(workList') /\ Once(pendList')
    BY <1>0, <2>1, <2>2, ListAppend DEF ListInv
  <2> QED
    BY <1>0, <2>1, <2>2, <2>3 DEF ListInv, Waiting
<1>2. ASSUME NEW r \in Reqs, Kick(r) PROVE ListInv'
  BY <1>0, <1>2 DEF TypeOK, Held, ListInv, Waiting, Kick, Wakeup
<1>3. ASSUME NEW r \in Reqs, WaitOver(r) PROVE ListInv'
  BY <1>0, <1>3 DEF TypeOK, Held, ListInv, Waiting, WaitOver
<1>4. ASSUME NEW r \in Reqs, Recheck(r) PROVE ListInv'
  <2>1. /\ pc[r] = "recheck" /\ status' = status /\ workList \in Seq(Reqs) /\ pendList \in Seq(Reqs)
        /\ pc'[r] = (IF status[r] = "ok" THEN "returned" ELSE "unmap")
        /\ \A x \in Reqs : x # r => pc'[x] = pc[x]
    BY <1>0, <1>4 DEF TypeOK, Recheck
  <2>2. CASE status[r] # "pending"
    <3>1. UNCHANGED lists
      BY <1>4, <2>2 DEF Recheck
    <3> QED
      BY <1>0, <2>1, <2>2, <3>1 DEF ListInv, Waiting
  <2>3. CASE status[r] = "pending"
    <3>1. /\ workList' = IF OnList(workList, r) THEN Unlink(workList, r) ELSE workList
          /\ pendList' = IF OnList(pendList, r) THEN Unlink(pendList, r) ELSE pendList
      BY <1>4, <2>3 DEF Recheck
    <3>2. /\ \A x \in Reqs : OnList(workList', x) <=> OnList(workList, x) /\ x # r
          /\ \A x \in Reqs : OnList(pendList', x) <=> OnList(pendList, x) /\ x # r
          /\ Once(workList') /\ Once(pendList')
      BY <1>0, <2>1, <3>1, ListUnlink DEF ListInv
    <3> QED
      BY <1>0, <2>1, <2>3, <3>2 DEF ListInv, Waiting
  <2> QED
    BY <2>2, <2>3
<1>5. ASSUME NEW r \in Reqs, Unmap(r) PROVE ListInv'
  BY <1>0, <1>5 DEF TypeOK, Held, ListInv, Waiting, Unmap
<1>6. ASSUME NEW t \in Threads, ThreadStep(t) PROVE ListInv'
  BY <1>0, <1>6
  DEF TypeOK, Held, ListInv, Waiting, ThreadStep, PrepareSleep, CheckWork, Resume,
      SleepTimeout, Goto, Wakeup, Threads
<1>7. ASSUME WrkLock PROVE ListInv'
  BY <1>0, <1>7 DEF TypeOK, Held, ListInv, Waiting, WrkLock, Goto, Wakeup
<1>8. ASSUME WrkPost PROVE ListInv'
  <2> DEFINE r == Head(workList)
  <2>1. /\ workList \in Seq(Reqs) /\ workList # <<>> /\ pendList \in Seq(Reqs) /\ UNCHANGED <<status, pc>>
        /\ \/ UNCHANGED lists
           \/ workList' = Tail(workList) /\ pendList' = Append(pendList, r)
    BY <1>0, <1>8 DEF TypeOK, WrkPost, WrkMore, Enqueue
  <2>2. CASE UNCHANGED lists
    BY <1>0, <2>1, <2>2 DEF ListInv, Waiting
  <2>3. CASE workList' = Tail(workList) /\ pendList' = Append(pendList, r)
    <3>1. /\ r \in Reqs /\ OnList(workList, r) /\ ~OnList(pendList, r)
          /\ \A x \in Reqs : OnList(workList', x) <=> OnList(workList, x) /\ x # r
          /\ Once(workList')
      BY <1>0, <2>1, <2>3, ListTail DEF ListInv
    <3>2. /\ \A x \in Reqs : OnList(pendList', x) <=> OnList(pendList, x) \/ x = r
          /\ Once(pendList')
      BY <1>0, <2>1, <2>3, <3>1, ListAppend DEF ListInv
    <3> QED
      BY <1>0, <2>1, <3>1, <3>2 DEF ListInv, Waiting
  <2> QED
    BY <2>1, <2>2, <2>3
<1>9. ASSUME WrkReject PROVE ListInv'
  <2> DEFINE r == Head(workList)
  <2>1. /\ workList \in Seq(Reqs) /\ workList # <<>> /\ workList' = Tail(workList) /\ UNCHANGED <<pendList, pc>>
        /\ status' = [status EXCEPT ![r] = "error"]
    BY <1>0, <1>9 DEF TypeOK, WrkReject, WrkMore, ReqDone
  <2>2. /\ r \in Reqs /\ OnList(workList, r) /\ Once(workList')
        /\ \A x \in Reqs : OnList(workList', x) <=> OnList(workList, x) /\ x # r
    BY <1>0, <2>1, ListTail DEF ListInv
  <2>3. status'[r] = "error" /\ \A x \in Reqs : x # r => status'[x] = status[x]
    BY <1>0, <2>1, <2>2, SMTT(30) DEF TypeOK
  <2>4. pc[r] # "idle"
    BY <1>0, <2>2 DEF ListInv, Waiting
  <2> HIDE DEF r
  <2> QED
    BY <1>0, <2>1, <2>2, <2>3, <2>4 DEF ListInv, Waiting
<1>10. ASSUME WrkUnlock PROVE ListInv'
  BY <1>0, <1>10 DEF TypeOK, Held, ListInv, Waiting, WrkUnlock, Goto
<1>11. ASSUME HwExecute \/ HwWriteback PROVE ListInv'
  BY <1>0, <1>11 DEF TypeOK, Held, ListInv, Waiting, HwExecute, HwWriteback
<1>12. ASSUME Interrupt PROVE ListInv'
  BY <1>0, <1>12 DEF TypeOK, Held, ListInv, Waiting, Interrupt, Goto
<1>13. ASSUME WbNothing PROVE ListInv'
  BY <1>0, <1>13 DEF TypeOK, Held, ListInv, Waiting, WbNothing, Goto, Served, Wakeup
<1>14. ASSUME WbTake PROVE ListInv'
  BY <1>0, <1>14 DEF TypeOK, Held, ListInv, Waiting, WbTake, Goto
<1>15. ASSUME WbComplete PROVE ListInv'
  <2> DEFINE r == Head(pendList)
  <2>1. /\ pendList \in Seq(Reqs) /\ pendList # <<>> /\ pendList' = Tail(pendList) /\ UNCHANGED <<workList, pc>>
        /\ status' = [status EXCEPT ![r] = "ok"]
    BY <1>0, <1>15 DEF TypeOK, WbComplete, WbMore, ReqDone
  <2>2. /\ r \in Reqs /\ OnList(pendList, r) /\ Once(pendList')
        /\ \A x \in Reqs : OnList(pendList', x) <=> OnList(pendList, x) /\ x # r
    BY <1>0, <2>1, ListTail DEF ListInv
  <2>3. status'[r] = "ok" /\ \A x \in Reqs : x # r => status'[x] = status[x]
    BY <1>0, <2>1, <2>2, SMTT(40) DEF TypeOK
  <2>4. pc[r] # "idle"
    BY <1>0, <2>2 DEF ListInv, Waiting
  <2> HIDE DEF r
  <2> QED
    BY <1>0, <2>1, <2>2, <2>3, <2>4 DEF ListInv, Waiting
<1>16. ASSUME WbCharge PROVE ListInv'
  BY <1>0, <1>16 DEF TypeOK, Held, ListInv, Waiting, WbCharge, WbMore
<1>17. ASSUME WbUnlock PROVE ListInv'
  BY <1>0, <1>17 DEF TypeOK, Held, ListInv, Waiting, WbUnlock, Goto, Served
<1>18. ASSUME UNCHANGED vars PROVE ListInv'
  BY <1>0, <1>18 DEF TypeOK, Held, ListInv, Waiting, vars
<1> QED
  BY <1>1, <1>2, <1>3, <1>4, <1>5, <1>6, <1>7, <1>8, <1>9, <1>10, <1>11, <1>12, <1>13,
     <1>14, <1>15, <1>16, <1>17, <1>18
  DEF Next, CallerStep, RequestThread, Writeback

-----------------------------------------------------------------------------
(* The queue of requests and the cursors.                                  *)

\* The first requests of the queue are those of pend_list.
LEMMA QueueElements ==
  ASSUME workList \in Seq(Reqs), pendList \in Seq(Reqs)
  PROVE  /\ Queue \in Seq(Reqs) /\ Len(Queue) = Len(pendList) + Len(workList)
         /\ Len(pendList) \in Nat /\ Len(workList) \in Nat
         /\ \A i \in 1 .. Len(Queue) :
              /\ Queue[i] = IF i <= Len(pendList) THEN pendList[i] ELSE workList[i - Len(pendList)]
              /\ Queue[i] \in Reqs
<1>1. /\ Queue \in Seq(Reqs) /\ Len(Queue) = Len(pendList) + Len(workList)
      /\ \A i \in 1 .. Len(pendList) + Len(workList) :
           Queue[i] = IF i <= Len(pendList) THEN pendList[i] ELSE workList[i - Len(pendList)]
  BY ConcatProperties DEF Queue
<1> QED
  BY <1>1, ListElements

\* No request is twice in the queue, and all of them wait.
LEMMA QueueOnce ==
  ASSUME ListInv
  PROVE  /\ \A i, j \in 1 .. Len(Queue) : Queue[i] = Queue[j] => i = j
         /\ \A i \in 1 .. Len(Queue) : Queue[i] \in Reqs /\ Waiting(Queue[i]) /\ pc[Queue[i]] # "idle"
         /\ \A r \in Reqs : Waiting(r) => \E i \in 1 .. Len(Queue) : Queue[i] = r
<1>1. workList \in Seq(Reqs) /\ pendList \in Seq(Reqs)
  BY DEF ListInv, TypeOK
<1>2. /\ \A i, j \in 1 .. Len(workList) : workList[i] = workList[j] => i = j
      /\ \A i, j \in 1 .. Len(pendList) : pendList[i] = pendList[j] => i = j
      /\ \A i \in 1 .. Len(workList) : workList[i] \in Reqs /\ OnList(workList, workList[i])
      /\ \A i \in 1 .. Len(pendList) : pendList[i] \in Reqs /\ OnList(pendList, pendList[i])
  BY <1>1, ListElements DEF ListInv, Once
<1>3. \A i \in 1 .. Len(Queue) :
        \/ i \in 1 .. Len(pendList) /\ Queue[i] = pendList[i] /\ OnList(pendList, Queue[i])
        \/ /\ i - Len(pendList) \in 1 .. Len(workList) /\ Queue[i] = workList[i - Len(pendList)]
           /\ OnList(workList, Queue[i])
  BY <1>1, <1>2, QueueElements
<1>4. ASSUME NEW i \in 1 .. Len(Queue), NEW j \in 1 .. Len(Queue), Queue[i] = Queue[j]
      PROVE  i = j
  <2>1. Queue[i] \in Reqs
    BY <1>1, QueueElements
  <2>2. ~(OnList(pendList, Queue[i]) /\ OnList(workList, Queue[i]))
    BY <2>1 DEF ListInv
  <2>3. CASE i \in 1 .. Len(pendList) /\ Queue[i] = pendList[i] /\ OnList(pendList, Queue[i])
    BY <1>2, <1>3, <1>4, <2>2, <2>3
  <2>4. CASE /\ i - Len(pendList) \in 1 .. Len(workList) /\ Queue[i] = workList[i - Len(pendList)]
             /\ OnList(workList, Queue[i])
    <3>1. j - Len(pendList) \in 1 .. Len(workList) /\ Queue[j] = workList[j - Len(pendList)]
      BY <1>3, <1>4, <2>2, <2>4
    <3>2. i - Len(pendList) = j - Len(pendList)
      BY <1>2, <1>4, <2>4, <3>1
    <3> QED
      BY <1>1, <3>2, QueueElements
  <2> QED
    BY <1>3, <2>3, <2>4
<1>5. \A i \in 1 .. Len(Queue) : Queue[i] \in Reqs /\ Waiting(Queue[i]) /\ pc[Queue[i]] # "idle"
  BY <1>1, <1>3, QueueElements DEF ListInv, Waiting
<1>6. ASSUME NEW r \in Reqs, Waiting(r) PROVE \E i \in 1 .. Len(Queue) : Queue[i] = r
  <2>1. CASE OnList(pendList, r)
    <3>1. PICK i \in 1 .. Len(pendList) : pendList[i] = r
      BY <1>1, <2>1, ListElements
    <3> QED
      BY <1>1, <3>1, QueueElements
  <2>2. CASE OnList(workList, r)
    <3>1. PICK i \in 1 .. Len(workList) : workList[i] = r
      BY <1>1, <2>2, ListElements
    <3>2. Len(pendList) + i \in 1 .. Len(Queue) /\ Queue[Len(pendList) + i] = r
      BY <1>1, <3>1, QueueElements
    <3> QED
      BY <3>2
  <2> QED
    BY <1>6, <2>1, <2>2 DEF ListInv
<1> QED
  BY <1>4, <1>5, <1>6

\* The cursors as numbers.
LEMMA Cursors ==
  ASSUME RingInv
  PROVE  /\ Executed \in Nat /\ InRing \in Nat /\ Taken \in Nat
         /\ Executed <= InRing /\ InRing < RngSz
         /\ hwCidx # doorbell <=> Executed < InRing
<1>1. hwCidx \in Slots /\ pidx \in Slots /\ cidx \in Slots /\ doorbell = pidx
  BY DEF RingInv, TypeOK, DoorbellRung
<1>2. Executed \in 0 .. RngSz - 1 /\ InRing \in 0 .. RngSz - 1 /\ Executed <= InRing
  BY <1>1, DeltaRange DEF Executed, InRing, RingInv, CursorOrder
<1>3. hwCidx = pidx <=> Executed = InRing
  BY <1>1, RngSzAssumption DEF Executed, InRing, RingDelta, Slots
<1> QED
  BY <1>1, <1>2, <1>3, RngSzAssumption DEF Taken, RingInv, TypeOK

\* The request whose descriptors are at a given place.
LEMMA RequestAt ==
  ASSUME RingInv, NEW f \in [0 .. Len(Queue) -> Nat], Counts(f),
         NEW k \in Nat, k < Taken + InRing
  PROVE  \E i \in 1 .. Len(Queue) : f[i - 1] <= k /\ k < f[i]
<1>1. Len(Queue) \in Nat
  BY QueueElements DEF RingInv, TypeOK
<1> DEFINE E == {i \in 0 .. Len(Queue) : k < f[i]}
<1>2. E \subseteq Nat /\ Len(Queue) \in E
  BY <1>1 DEF Counts
<1>3. PICK i \in E : \A j \in E : i <= j
  BY <1>2, NatMin
<1>4. i # 0
  BY <1>3 DEF Counts
<1>5. i \in 1 .. Len(Queue) /\ i - 1 \in 0 .. Len(Queue)
  BY <1>1, <1>3, <1>4
<1>6. ~(k < f[i - 1])
  BY <1>3, <1>5
<1> QED
  BY <1>3, <1>5, <1>6

\* The descriptor the hardware executes next is one of a request that waits.
LEMMA Executes ==
  ASSUME DataInv, hwCidx # doorbell,
         NEW f \in [0 .. Len(Queue) -> Nat], Counts(f), Owners(f)
  PROVE  \E i \in 1 .. Len(Queue) :
           f[i - 1] <= Taken + Executed /\ Taken + Executed < f[i] /\ desc[hwCidx] = Queue[i]
<1>1. RingInv /\ hwCidx \in Slots
  BY DEF DataInv, RingInv, TypeOK
<1>2. Taken + Executed \in Nat /\ Taken + Executed < Taken + InRing /\ Executed < InRing
  BY <1>1, Cursors
<1>3. PICK i \in 1 .. Len(Queue) : f[i - 1] <= Taken + Executed /\ Taken + Executed < f[i]
  BY <1>1, <1>2, RequestAt
<1>4. desc[hwCidx] = Queue[i]
  BY <1>1, <1>2, <1>3 DEF Owners, Executed
<1> QED
  BY <1>3, <1>4

\* What is filled into descriptors, and when a request moves on.
LEMMA FilledKept ==
  ASSUME Impatient = {}, DataInv, [Next]_vars
  PROVE  Filled'
<1> USE DEF lists, ring, cbs, hardware, threads
<1>0. DataInv /\ Kept /\ RingInv /\ TypeOK /\ Held /\ ListInv /\ Filled /\ NDesc \in [Reqs -> Nat]
  BY NDescAssumption DEF DataInv, RingInv
<1>1. ASSUME NEW r \in Reqs, Submit(r) PROVE Filled'
  <2>1. /\ workList' = Append(workList, r) /\ pc[r] = "idle" /\ pc'[r] # "idle"
        /\ \A x \in Reqs : x # r => pc'[x] = pc[x]
        /\ UNCHANGED <<pendList, offset, descNr, moved>>
    BY <1>0, <1>1 DEF TypeOK, Submit, Enqueue
  <2>2. /\ Len(workList') = Len(workList) + 1 /\ workList'[Len(workList) + 1] = r
        /\ \A i \in 1 .. Len(workList) : workList'[i] = workList[i]
    BY <1>0, <2>1, AppendProperties DEF TypeOK
  <2>3. offset[r] = 0 /\ descNr[r] = 0 /\ NDesc[r] \in Nat
    BY <1>0, <2>1 DEF Filled
  <2> QED
    BY <1>0, <2>1, <2>2, <2>3, SMTT(60) DEF TypeOK, Filled
<1>2. ASSUME NEW r \in Reqs, Kick(r) PROVE Filled'
  BY <1>0, <1>2 DEF TypeOK, Filled, Kick, Wakeup
<1>3. ASSUME NEW r \in Reqs, WaitOver(r) PROVE Filled'
  BY <1>0, <1>3 DEF TypeOK, Filled, WaitOver
<1>4. ASSUME NEW r \in Reqs, Recheck(r) PROVE Filled'
  <2>1. UNCHANGED <<lists, offset, descNr, moved>>
    BY <1>0, <1>4 DEF Recheck, Kept
  <2>2. \A x \in Reqs : pc'[x] = "idle" => pc[x] = "idle"
    BY <1>0, <1>4 DEF Recheck, TypeOK
  <2> QED
    BY <1>0, <2>1, <2>2 DEF Filled
<1>5. ASSUME NEW r \in Reqs, Unmap(r) PROVE Filled'
  BY <1>0, <1>5 DEF TypeOK, Filled, Unmap
<1>6. ASSUME NEW t \in Threads, ThreadStep(t) PROVE Filled'
  <2>1. UNCHANGED <<lists, offset, descNr, moved, pc>>
    BY <1>6 DEF ThreadStep, PrepareSleep, CheckWork, Resume, SleepTimeout
  <2> QED
    BY <1>0, <2>1 DEF Filled
<1>7. ASSUME WrkLock PROVE Filled'
  BY <1>0, <1>7 DEF TypeOK, Filled, WrkLock, Goto, Wakeup
<1>8. ASSUME WrkPost PROVE Filled'
  <2> DEFINE r == Head(workList)
             n == PostCount(r)
  <2>1. /\ workList \in Seq(Reqs) /\ workList # <<>> /\ pendList \in Seq(Reqs) /\ n > 0
        /\ offset' = [offset EXCEPT ![r] = @ + n] /\ descNr' = [descNr EXCEPT ![r] = @ + n]
        /\ UNCHANGED <<pc, moved>> /\ avail \in Nat
    BY <1>0, <1>8 DEF TypeOK, WrkPost, WrkMore
  <2>2. /\ r \in Reqs /\ r = workList[1] /\ Len(workList) \in Nat \ {0} /\ OnList(workList, r)
        /\ Len(Tail(workList)) = Len(workList) - 1
        /\ \A i \in 1 .. Len(workList) - 1 : Tail(workList)[i] = workList[i + 1]
    BY <2>1, ListTail
  <2>3. /\ pc[r] # "idle" /\ ~OnList(pendList, r)
        /\ \A i \in 1 .. Len(workList) : workList[i] = r => i = 1
        /\ \A i \in 1 .. Len(pendList) : pendList[i] \in Reqs /\ pendList[i] # r
        /\ \A i \in 1 .. Len(workList) : workList[i] \in Reqs
    <3>1. /\ DOMAIN workList = 1 .. Len(workList)
          /\ \A i \in 1 .. Len(pendList) : pendList[i] \in Reqs /\ OnList(pendList, pendList[i])
          /\ \A i \in 1 .. Len(workList) : workList[i] \in Reqs
      BY <2>1, ListElements
    <3>2. 1 \in 1 .. Len(workList)
      BY <2>2
    <3>3. Waiting(r) /\ ~OnList(pendList, r)
      BY <1>0, <2>2 DEF ListInv
    <3>4. pc[r] # "idle"
      BY <3>3 DEF Waiting
    <3>5. \A i \in 1 .. Len(workList) : workList[i] = r => i = 1
      BY <1>0, <2>2, <3>1, <3>2 DEF ListInv, Once
    <3> HIDE DEF r
    <3> QED
      BY <3>1, <3>3, <3>4, <3>5
  <2>4. /\ offset[r] \in Nat /\ descNr[r] \in Nat /\ NDesc[r] \in Nat /\ offset[r] <= NDesc[r]
    <3>1. 1 \in 1 .. Len(workList)
      BY <2>2
    <3> HIDE DEF n, r
    <3>2. offset[r] \in Nat /\ descNr[r] \in Nat /\ NDesc[r] \in Nat
      BY <1>0, <2>2 DEF TypeOK
    <3>3. offset[r] < NDesc[r] \/ (NDesc[r] = 0 /\ offset[r] = 0)
      BY <1>0, <2>2, <3>1 DEF Filled
    <3> QED
      BY <3>2, <3>3
  <2>5. n \in Nat /\ n > 0 /\ offset[r] + n <= NDesc[r]
    BY <2>1, <2>4 DEF PostCount
  <2>6. IF offset[r] + n = NDesc[r]
        THEN workList' = Tail(workList) /\ pendList' = Append(pendList, r)
        ELSE UNCHANGED lists
    BY <1>8 DEF WrkPost, Enqueue
  <2> HIDE DEF n, r
  <2>7. /\ offset'[r] = offset[r] + n /\ descNr'[r] = descNr[r] + n
        /\ \A x \in Reqs : x # r => offset'[x] = offset[x] /\ descNr'[x] = descNr[x]
    BY <1>0, <2>1, <2>2 DEF TypeOK
  <2>8. CASE offset[r] + n # NDesc[r]
    <3>1. UNCHANGED <<workList, pendList, pc, moved>>
      BY <2>1, <2>6, <2>8
    <3>2. offset'[r] < NDesc[r]
      BY <2>4, <2>5, <2>7, <2>8
    <3>3. ASSUME NEW i \in 1 .. Len(workList)
          PROVE  /\ i > 1 => offset'[workList[i]] = 0 /\ descNr'[workList[i]] = 0
                 /\ offset'[workList[i]] < NDesc[workList[i]]
                    \/ (NDesc[workList[i]] = 0 /\ offset'[workList[i]] = 0 /\ descNr'[workList[i]] = 0)
      <4>1. CASE workList[i] = r
        BY <2>3, <3>2, <4>1
      <4>2. CASE workList[i] # r
        BY <1>0, <2>3, <2>7, <4>2 DEF Filled
      <4> QED
        BY <4>1, <4>2
    <3>4. \A i \in 1 .. Len(pendList) :
            offset'[pendList[i]] = NDesc[pendList[i]] /\ NDesc[pendList[i]] > 0 /\ descNr'[pendList[i]] > 0
      BY <1>0, <2>3, <2>7 DEF Filled
    <3>5. \A x \in Reqs : pc'[x] = "idle" => offset'[x] = 0 /\ descNr'[x] = 0 /\ moved'[x] = 0
      BY <1>0, <2>3, <2>7, <3>1 DEF Filled
    <3> QED
      BY <3>1, <3>3, <3>4, <3>5 DEF Filled
  <2>9. CASE offset[r] + n = NDesc[r]
    <3>1. /\ Len(pendList') = Len(pendList) + 1 /\ pendList'[Len(pendList) + 1] = r
          /\ \A i \in 1 .. Len(pendList) : pendList'[i] = pendList[i]
      <4>1. pendList' = Append(pendList, r)
        BY <2>6, <2>9, SMTT(40)
      <4> QED
        BY <2>1, <2>2, <4>1, AppendProperties
    <3>2. /\ workList' = Tail(workList) /\ Len(workList') = Len(workList) - 1
          /\ \A i \in 1 .. Len(workList) - 1 : workList'[i] = workList[i + 1]
      BY <2>2, <2>6, <2>9
    <3>3. offset'[r] = NDesc[r] /\ descNr'[r] > 0 /\ NDesc[r] > 0
      BY <2>4, <2>5, <2>7, <2>9
    <3>4. ASSUME NEW i \in 1 .. Len(workList')
          PROVE  /\ i > 1 => offset'[workList'[i]] = 0 /\ descNr'[workList'[i]] = 0
                 /\ offset'[workList'[i]] < NDesc[workList'[i]]
                    \/ (NDesc[workList'[i]] = 0 /\ offset'[workList'[i]] = 0 /\ descNr'[workList'[i]] = 0)
      <4>1. i + 1 \in 1 .. Len(workList) /\ i + 1 > 1 /\ workList'[i] = workList[i + 1]
        BY <2>2, <3>2
      <4>2. workList[i + 1] \in Reqs /\ workList[i + 1] # r
        BY <2>3, <4>1
      <4> QED
        BY <1>0, <2>7, <4>1, <4>2 DEF Filled
    <3>5. ASSUME NEW i \in 1 .. Len(pendList')
          PROVE  offset'[pendList'[i]] = NDesc[pendList'[i]] /\ NDesc[pendList'[i]] > 0
                 /\ descNr'[pendList'[i]] > 0
      <4>0. Len(pendList) \in Nat
        BY <2>1
      <4>1. CASE i = Len(pendList) + 1
        BY <3>1, <3>3, <4>1
      <4>2. CASE i \in 1 .. Len(pendList)
        BY <1>0, <2>3, <2>7, <3>1, <4>2 DEF Filled
      <4> QED
        BY <3>1, <4>0, <4>1, <4>2
    <3>6. \A x \in Reqs : pc'[x] = "idle" => offset'[x] = 0 /\ descNr'[x] = 0 /\ moved'[x] = 0
      BY <1>0, <2>1, <2>3, <2>7 DEF Filled
    <3> QED
      BY <3>4, <3>5, <3>6 DEF Filled
  <2> QED
    BY <2>8, <2>9
<1>9. ASSUME WrkReject PROVE Filled'
  <2>1. /\ workList \in Seq(Reqs) /\ workList # <<>> /\ workList' = Tail(workList)
        /\ UNCHANGED <<pendList, offset, descNr, pc, moved>>
    BY <1>0, <1>9 DEF TypeOK, WrkReject, WrkMore
  <2>2. /\ Len(workList) \in Nat \ {0} /\ Len(workList') = Len(workList) - 1
        /\ \A i \in 1 .. Len(workList) - 1 : workList'[i] = workList[i + 1]
    BY <2>1, ListTail
  <2> QED
    BY <1>0, <2>1, <2>2 DEF Filled
<1>10. ASSUME WrkUnlock PROVE Filled'
  BY <1>0, <1>10 DEF TypeOK, Filled, WrkUnlock, Goto
<1>11. ASSUME HwExecute \/ HwWriteback PROVE Filled'
  <2>1. CASE HwWriteback
    BY <1>0, <2>1 DEF HwWriteback, Filled
  <2>2. CASE HwExecute
    <3>1. hwCidx # doorbell /\ moved' = [moved EXCEPT ![desc[hwCidx]] = @ + 1]
          /\ UNCHANGED <<lists, offset, descNr, pc>>
      BY <2>2 DEF HwExecute
    <3>2. PICK f \in [0 .. Len(Queue) -> Nat] : Counts(f) /\ Owners(f)
      BY <1>0 DEF DataInv, Spread
    <3>3. PICK i \in 1 .. Len(Queue) : desc[hwCidx] = Queue[i]
      BY <1>0, <3>1, <3>2, Executes
    <3>4. desc[hwCidx] \in Reqs /\ pc[desc[hwCidx]] # "idle"
      BY <1>0, <3>3, QueueOnce
    <3>5. \A x \in Reqs : pc[x] = "idle" => moved'[x] = moved[x]
      BY <1>0, <3>1, <3>4 DEF TypeOK
    <3> QED
      BY <1>0, <3>1, <3>5 DEF Filled
  <2> QED
    BY <1>11, <2>1, <2>2
<1>12. ASSUME Interrupt PROVE Filled'
  BY <1>0, <1>12 DEF TypeOK, Filled, Interrupt, Goto
<1>13. ASSUME WbNothing PROVE Filled'
  BY <1>0, <1>13 DEF TypeOK, Filled, WbNothing, Goto, Served, Wakeup
<1>14. ASSUME WbTake PROVE Filled'
  BY <1>0, <1>14 DEF TypeOK, Filled, WbTake, Goto
<1>15. ASSUME WbComplete PROVE Filled'
  <2>1. /\ pendList \in Seq(Reqs) /\ pendList # <<>> /\ pendList' = Tail(pendList)
        /\ UNCHANGED <<workList, offset, descNr, pc, moved>>
    BY <1>0, <1>15 DEF TypeOK, WbComplete, WbMore
  <2>2. /\ Len(pendList) \in Nat \ {0} /\ Len(pendList') = Len(pendList) - 1
        /\ \A i \in 1 .. Len(pendList) - 1 : pendList'[i] = pendList[i + 1]
    BY <2>1, ListTail
  <2> QED
    BY <1>0, <2>1, <2>2, SMTT(40) DEF Filled
<1>16. ASSUME WbCharge PROVE Filled'
  <2> DEFINE r == Head(pendList)
  <2>1. /\ pendList \in Seq(Reqs) /\ pendList # <<>> /\ ~(cr >= descNr[r])
        /\ descNr' = [descNr EXCEPT ![r] = @ - cr]
        /\ UNCHANGED <<lists, offset, pc, moved>> /\ cr \in Nat
    BY <1>0, <1>16 DEF TypeOK, WbCharge, WbMore, Covers
  <2>2. r \in Reqs /\ OnList(pendList, r)
    BY <2>1, ListTail
  <2>3. /\ descNr'[r] = descNr[r] - cr /\ descNr[r] \in Nat
        /\ \A x \in Reqs : x # r => descNr'[x] = descNr[x]
    BY <1>0, <2>1, <2>2 DEF TypeOK
  <2>4. /\ pc[r] # "idle" /\ \A i \in 1 .. Len(workList) : workList[i] \in Reqs /\ workList[i] # r
        /\ \A i \in 1 .. Len(pendList) : pendList[i] \in Reqs
    <3>1. /\ \A i \in 1 .. Len(pendList) : pendList[i] \in Reqs
          /\ \A i \in 1 .. Len(workList) : workList[i] \in Reqs /\ OnList(workList, workList[i])
      BY <1>0, ListElements DEF TypeOK
    <3>2. Waiting(r) /\ ~OnList(workList, r)
      BY <1>0, <2>2 DEF ListInv
    <3>3. pc[r] # "idle"
      BY <3>2 DEF Waiting
    <3> QED
      BY <3>1, <3>2, <3>3
  <2> HIDE DEF r
  <2> QED
    BY <1>0, <2>1, <2>2, <2>3, <2>4 DEF Filled
<1>17. ASSUME WbUnlock PROVE Filled'
  BY <1>0, <1>17 DEF TypeOK, Filled, WbUnlock, Goto, Served
<1>18. ASSUME UNCHANGED vars PROVE Filled'
  BY <1>0, <1>18 DEF TypeOK, Filled, vars
<1> QED
  BY <1>1, <1>2, <1>3, <1>4, <1>5, <1>6, <1>7, <1>8, <1>9, <1>10, <1>11, <1>12, <1>13,
     <1>14, <1>15, <1>16, <1>17, <1>18
  DEF Next, CallerStep, RequestThread, Writeback

\* Buffers stay mapped as long as a request waits.
LEMMA KeptKept ==
  ASSUME Impatient = {}, DataInv, [Next]_vars
  PROVE  Kept'
<1> USE DEF lists, ring, cbs, hardware, threads
<1>0. Impatient = {} /\ TypeOK /\ Held /\ ListInv /\ Kept
  BY DEF DataInv, RingInv
<1>1. ASSUME NEW r \in Reqs, Submit(r) PROVE Kept'
  BY <1>0, <1>1 DEF TypeOK, Held, Waiting, Kept, Submit, Enqueue
<1>2. ASSUME NEW r \in Reqs, Kick(r) PROVE Kept'
  BY <1>0, <1>2 DEF TypeOK, Held, Waiting, Kept, Kick, Wakeup
<1>3. ASSUME NEW r \in Reqs, WaitOver(r) PROVE Kept'
  BY <1>0, <1>3 DEF TypeOK, Held, Waiting, Kept, WaitOver
<1>4. ASSUME NEW r \in Reqs, Recheck(r) PROVE Kept'
  BY <1>0, <1>4 DEF TypeOK, Held, Waiting, Kept, Recheck
<1>5. ASSUME NEW r \in Reqs, Unmap(r) PROVE Kept'
  BY <1>0, <1>5 DEF TypeOK, Held, Waiting, Kept, Unmap
<1>6. ASSUME NEW t \in Threads, ThreadStep(t) PROVE Kept'
  BY <1>0, <1>6
  DEF TypeOK, Held, Waiting, Kept, ThreadStep, PrepareSleep, CheckWork, Resume,
      SleepTimeout, Goto, Wakeup, Threads
<1>7. ASSUME WrkLock PROVE Kept'
  BY <1>0, <1>7 DEF TypeOK, Held, Waiting, Kept, WrkLock, Goto, Wakeup
<1>8. ASSUME WrkPost PROVE Kept'
  BY <1>0, <1>8 DEF TypeOK, Held, Waiting, Kept, WrkPost, WrkMore, WriteDescs, Wakeup, Enqueue
<1>9. ASSUME WrkReject PROVE Kept'
  BY <1>0, <1>9 DEF TypeOK, Held, Waiting, Kept, WrkReject, WrkMore, ReqDone
<1>10. ASSUME WrkUnlock PROVE Kept'
  BY <1>0, <1>10 DEF TypeOK, Held, Waiting, Kept, WrkUnlock, Goto
<1>11. ASSUME HwExecute \/ HwWriteback PROVE Kept'
  BY <1>0, <1>11 DEF TypeOK, Held, Waiting, Kept, HwExecute, HwWriteback
<1>12. ASSUME Interrupt PROVE Kept'
  BY <1>0, <1>12 DEF TypeOK, Held, Waiting, Kept, Interrupt, Goto
<1>13. ASSUME WbNothing PROVE Kept'
  BY <1>0, <1>13 DEF TypeOK, Held, Waiting, Kept, WbNothing, Goto, Served, Wakeup
<1>14. ASSUME WbTake PROVE Kept'
  BY <1>0, <1>14 DEF TypeOK, Held, Waiting, Kept, WbTake, Goto
<1>15. ASSUME WbComplete PROVE Kept'
  BY <1>0, <1>15 DEF TypeOK, Held, Waiting, Kept, WbComplete, WbMore, ReqDone
<1>16. ASSUME WbCharge PROVE Kept'
  BY <1>0, <1>16 DEF TypeOK, Held, Waiting, Kept, WbCharge, WbMore
<1>17. ASSUME WbUnlock PROVE Kept'
  BY <1>0, <1>17 DEF TypeOK, Held, Waiting, Kept, WbUnlock, Goto, Served
<1>18. ASSUME UNCHANGED vars PROVE Kept'
  BY <1>0, <1>18 DEF TypeOK, Held, Waiting, Kept, vars
<1> QED
  BY <1>1, <1>2, <1>3, <1>4, <1>5, <1>6, <1>7, <1>8, <1>9, <1>10, <1>11, <1>12, <1>13,
     <1>14, <1>15, <1>16, <1>17, <1>18
  DEF Next, CallerStep, RequestThread, Writeback

\* What is known of the first request of the queue: without a request there is
\* nothing in the ring; the first of work_list, if pend_list is empty, owns all
\* of it; the first of pend_list was moved when what is done covers it.
LEMMA FirstRequest ==
  ASSUME DataInv
  PROVE  /\ pendList = <<>> /\ workList = <<>> => Taken = 0 /\ InRing = 0
         /\ pendList = <<>> /\ workList # <<>> => descNr[Head(workList)] = Taken + InRing
         /\ pendList # <<>> /\ descNr[Head(pendList)] <= Taken =>
              moved[Head(pendList)] = NDesc[Head(pendList)]
<1>1. /\ workList \in Seq(Reqs) /\ pendList \in Seq(Reqs) /\ descNr \in [Reqs -> Nat]
      /\ moved \in [Reqs -> Nat] /\ Filled
      /\ Executed \in Nat /\ InRing \in Nat /\ Taken \in Nat
  BY Cursors DEF DataInv, RingInv, TypeOK
<1>2. PICK f \in [0 .. Len(Queue) -> Nat] : Counts(f) /\ Moved(f)
  BY DEF DataInv, Spread
<1>3. /\ Len(Queue) = Len(pendList) + Len(workList) /\ Len(pendList) \in Nat /\ Len(workList) \in Nat
      /\ \A i \in 1 .. Len(Queue) :
           Queue[i] = IF i <= Len(pendList) THEN pendList[i] ELSE workList[i - Len(pendList)]
  BY <1>1, QueueElements
<1>4. ASSUME pendList = <<>>, workList = <<>> PROVE Taken = 0 /\ InRing = 0
  <2>1. Len(Queue) = 0
    BY <1>1, <1>3, <1>4, ListElements
  <2>2. f[0] = Taken + InRing /\ f[0] = 0
    BY <1>2, <2>1 DEF Counts
  <2> QED
    BY <1>1, <2>2
<1>5. ASSUME pendList = <<>>, workList # <<>> PROVE descNr[Head(workList)] = Taken + InRing
  <2>1. Len(pendList) = 0 /\ Len(workList) > 0 /\ Head(workList) = workList[1]
    BY <1>1, <1>5, ListElements, ListTail
  <2>2. 1 \in 1 .. Len(Queue) /\ Queue[1] = workList[1]
    BY <1>3, <2>1
  <2>3. f[0] = 0 /\ f[1] = Taken + InRing
    BY <1>2, <1>3, <2>1, <2>2 DEF Counts
  <2>4. f[1] = f[1 - 1] + descNr[Queue[1]]
    BY <1>2, <2>2 DEF Counts
  <2>5. descNr[Queue[1]] \in Nat
    BY <1>1, <2>1, <2>2, <1>5, ListTail
  <2> QED
    BY <2>1, <2>2, <2>3, <2>4, <2>5
<1>6. ASSUME pendList # <<>>, descNr[Head(pendList)] <= Taken
      PROVE  moved[Head(pendList)] = NDesc[Head(pendList)]
  <2>1. Len(pendList) > 0 /\ Head(pendList) = pendList[1] /\ pendList[1] \in Reqs
    BY <1>1, <1>6, ListTail
  <2>2. 1 \in 1 .. Len(Queue) /\ Queue[1] = pendList[1] /\ 1 \in 1 .. Len(pendList)
    BY <1>3, <2>1
  <2>3. f[0] = 0 /\ f[1] = f[1 - 1] + descNr[Queue[1]]
    BY <1>2, <2>2 DEF Counts
  <2>4. f[1] <= Taken + Executed
    BY <1>1, <1>6, <2>1, <2>2, <2>3
  <2>5. moved[Queue[1]] + 0 = offset[Queue[1]]
    BY <1>2, <2>2, <2>4 DEF Moved, Open
  <2>6. offset[pendList[1]] = NDesc[pendList[1]]
    BY <1>1, <2>2 DEF Filled
  <2> QED
    BY <1>1, <2>1, <2>2, <2>5, <2>6
<1> QED
  BY <1>4, <1>5, <1>6

\* Credit that is left over still belongs to the first request.
LEMMA RestKept ==
  ASSUME Impatient = {}, DataInv, [Next]_vars
  PROVE  Rest'
<1> USE DEF lists, ring, cbs, hardware, threads
<1>0. DataInv /\ TypeOK /\ Held /\ ListInv /\ Filled /\ Rest /\ Kept /\ NoEarlyCompletion /\ Impatient = {}
  BY DEF DataInv, RingInv
<1>1. ASSUME NEW r \in Reqs, Submit(r) PROVE Rest'
  <2>1. /\ workList' = Append(workList, r) /\ pc[r] = "idle"
        /\ UNCHANGED <<pendList, descNr, lock, credit>> /\ lock = "free"
    BY <1>0, <1>1 DEF Submit, Enqueue
  <2>2. CASE pendList = <<>> /\ workList = <<>>
    <3>1. credit = 0
      BY <1>0, <2>1, <2>2, FirstRequest DEF Taken
    <3>2. Head(workList') = r
      BY <2>1, <2>2
    <3>3. descNr[r] = 0
      BY <1>0, <2>1 DEF Filled
    <3> QED
      BY <2>1, <2>2, <3>1, <3>2, <3>3 DEF Rest
  <2>3. CASE workList # <<>>
    <3>1. Head(workList') = Head(workList)
      BY <1>0, <2>1, <2>3, AppendProperties, ListTail DEF TypeOK
    <3> QED
      BY <1>0, <2>1, <2>3, <3>1 DEF Rest
  <2>4. CASE pendList # <<>>
    BY <1>0, <2>1, <2>4 DEF Rest
  <2> QED
    BY <2>2, <2>3, <2>4
<1>2. ASSUME NEW r \in Reqs, Kick(r) PROVE Rest'
  BY <1>0, <1>2 DEF TypeOK, Held, Rest, Kick, Wakeup
<1>3. ASSUME NEW r \in Reqs, WaitOver(r) PROVE Rest'
  BY <1>0, <1>3 DEF TypeOK, Held, Rest, WaitOver
<1>4. ASSUME NEW r \in Reqs, Recheck(r) PROVE Rest'
  BY <1>0, <1>4 DEF Kept, Recheck, Rest
<1>5. ASSUME NEW r \in Reqs, Unmap(r) PROVE Rest'
  BY <1>0, <1>5 DEF TypeOK, Held, Rest, Unmap
<1>6. ASSUME NEW t \in Threads, ThreadStep(t) PROVE Rest'
  BY <1>0, <1>6
  DEF TypeOK, Held, Rest, ThreadStep, PrepareSleep, CheckWork, Resume, SleepTimeout, Goto,
      Wakeup, Threads
<1>7. ASSUME WrkLock PROVE Rest'
  BY <1>0, <1>7 DEF TypeOK, Held, Rest, WrkLock, Goto, Wakeup
<1>8. ASSUME WrkPost PROVE Rest'
  <2> DEFINE r == Head(workList)
             n == PostCount(r)
  <2>1. /\ workList \in Seq(Reqs) /\ workList # <<>> /\ pendList \in Seq(Reqs) /\ n > 0
        /\ descNr' = [descNr EXCEPT ![r] = @ + n]
        /\ UNCHANGED <<lock, credit>> /\ avail \in Nat /\ thread["request"] = "post"
        /\ offset \in [Reqs -> Nat] /\ descNr \in [Reqs -> Nat] /\ credit \in Nat
        /\ \/ UNCHANGED lists
           \/ workList' = Tail(workList) /\ pendList' = Append(pendList, r)
    BY <1>0, <1>8 DEF TypeOK, WrkPost, WrkMore, Enqueue
  <2>2. r \in Reqs /\ OnList(workList, r)
    BY <2>1, ListTail
  <2>3. ~OnList(pendList, r) /\ lock = "request"
    BY <1>0, <2>1, <2>2 DEF ListInv, Held
  <2>4. n \in Nat /\ n > 0
    <3>1. offset[r] \in Nat /\ NDesc[r] \in Nat
      BY <2>1, <2>2, NDescAssumption
    <3>2. n = NDesc[r] - offset[r] \/ n = avail
      BY DEF PostCount
    <3> HIDE DEF r, n
    <3> QED
      BY <2>1, <3>1, <3>2
  <2>5. Rest => /\ pendList # <<>> => credit < descNr[Head(pendList)]
                /\ pendList = <<>> => credit <= descNr[r]
    BY <2>1, <2>3 DEF Rest
  <2> HIDE DEF r, n
  <2>6. descNr'[r] = descNr[r] + n /\ \A x \in Reqs : x # r => descNr'[x] = descNr[x]
    BY <2>1, <2>2
  <2>7. pendList # <<>> => credit < descNr'[Head(pendList)] /\ Head(pendList) \in Reqs
    <3>1. pendList # <<>> => Head(pendList) \in Reqs /\ OnList(pendList, Head(pendList))
      BY <2>1, ListTail
    <3> QED
      BY <1>0, <2>3, <2>5, <2>6, <3>1
  <2>8. pendList = <<>> => credit < descNr'[r]
    BY <1>0, <2>1, <2>2, <2>4, <2>5, <2>6
  <2>9. CASE UNCHANGED lists
    <3>1. UNCHANGED <<pendList, workList>> /\ Head(workList') = r
      BY <2>9 DEF r
    <3>2. descNr'[r] \in Nat
      BY <2>1, <2>2, <2>4, <2>6
    <3> QED
      BY <2>1, <2>7, <2>8, <3>1, <3>2 DEF Rest
  <2>10. CASE workList' = Tail(workList) /\ pendList' = Append(pendList, r)
    <3>1. pendList' # <<>> /\ (pendList = <<>> => Head(pendList') = r)
          /\ (pendList # <<>> => Head(pendList') = Head(pendList))
      BY <2>1, <2>2, <2>10, AppendProperties, HeadTailProperties, LenProperties, EmptySeq, SMTT(30)
    <3> QED
      BY <2>1, <2>7, <2>8, <3>1 DEF Rest
  <2> QED
    BY <2>1, <2>9, <2>10
<1>9. ASSUME WrkReject PROVE Rest'
  <2>1. /\ workList \in Seq(Reqs) /\ workList # <<>> /\ workList' = Tail(workList)
        /\ UNCHANGED <<pendList, descNr, lock, credit>> /\ thread["request"] = "post"
        /\ PostCount(Head(workList)) = 0 /\ avail > 0
        /\ descNr \in [Reqs -> Nat] /\ offset \in [Reqs -> Nat] /\ credit \in Nat /\ avail \in Nat
    BY <1>0, <1>9 DEF TypeOK, WrkReject, WrkMore
  <2>2. Head(workList) \in Reqs /\ Head(workList) = workList[1] /\ 1 \in 1 .. Len(workList) /\ lock = "request"
    BY <1>0, <2>1, ListTail DEF Held
  <2>3. descNr[Head(workList)] = 0
    BY <1>0, <2>1, <2>2, NDescAssumption DEF Filled, PostCount
  <2>4. pendList = <<>> => credit = 0
    BY <1>0, <2>1, <2>2, <2>3 DEF Rest
  <2>5. workList' # <<>> => Head(workList') \in Reqs
    BY <2>1, ListTail
  <2> QED
    BY <1>0, <2>1, <2>2, <2>4, <2>5 DEF Rest
<1>10. ASSUME WrkUnlock PROVE Rest'
  BY <1>0, <1>10 DEF TypeOK, Held, Rest, WrkUnlock, Goto
<1>11. ASSUME HwExecute \/ HwWriteback PROVE Rest'
  BY <1>0, <1>11 DEF TypeOK, Held, Rest, HwExecute, HwWriteback
<1>12. ASSUME Interrupt PROVE Rest'
  BY <1>0, <1>12 DEF TypeOK, Held, Rest, Interrupt, Goto
<1>13. ASSUME WbNothing PROVE Rest'
  BY <1>0, <1>13 DEF TypeOK, Held, Rest, WbNothing, Goto, Served, Wakeup
<1>14. ASSUME WbTake PROVE Rest'
  BY <1>0, <1>14 DEF TypeOK, Held, Rest, WbTake
<1>15. ASSUME WbComplete PROVE Rest'
  BY <1>0, <1>15 DEF TypeOK, Held, Rest, WbComplete
<1>16. ASSUME WbCharge PROVE Rest'
  BY <1>0, <1>16 DEF TypeOK, Held, Rest, WbCharge
<1>17. ASSUME WbUnlock PROVE Rest'
  <2>1. /\ UNCHANGED <<lists, descNr>> /\ credit' = cr /\ thread["writeback"] = "credit"
        /\ pendList = <<>> \/ cr = 0
        /\ cr \in Nat /\ pendList \in Seq(Reqs) /\ descNr \in [Reqs -> Nat]
    BY <1>0, <1>17 DEF TypeOK, WbUnlock, WbMore, LeftOver, Goto
  <2>2. Taken = cr /\ UNCHANGED <<lists, descNr>> /\ credit' = cr
    BY <1>0, <2>1, <1>17 DEF Held, Taken, WbUnlock, LeftOver
  <2>3. ASSUME pendList # <<>> PROVE cr < descNr[Head(pendList)]
    <3>1. Head(pendList) = pendList[1] /\ 1 \in 1 .. Len(pendList) /\ Head(pendList) \in Reqs
      BY <2>1, <2>3, ListTail
    <3>2. descNr[Head(pendList)] > 0
      BY <1>0, <3>1 DEF Filled
    <3> QED
      BY <2>1, <2>3, <3>2
  <2>4. pendList = <<>> /\ workList # <<>> => cr <= descNr[Head(workList)]
    <3>1. InRing \in Nat
      BY <1>0, Cursors DEF DataInv
    <3>2. pendList = <<>> /\ workList # <<>> => descNr[Head(workList)] = cr + InRing
      BY <1>0, <2>2, FirstRequest
    <3> QED
      BY <2>1, <3>1, <3>2
  <2> QED
    BY <2>2, <2>3, <2>4 DEF Rest
<1>18. ASSUME UNCHANGED vars PROVE Rest'
  BY <1>0, <1>18 DEF TypeOK, Held, Rest, vars
<1> QED
  BY <1>1, <1>2, <1>3, <1>4, <1>5, <1>6, <1>7, <1>8, <1>9, <1>10, <1>11, <1>12, <1>13,
     <1>14, <1>15, <1>16, <1>17, <1>18
  DEF Next, CallerStep, RequestThread, Writeback

\* A request that is complete was moved, and nothing of it is in the ring.
LEMMA NoEarlyKept ==
  ASSUME Impatient = {}, DataInv, [Next]_vars
  PROVE  NoEarlyCompletion'
<1> USE DEF lists, ring, cbs, hardware, threads
<1>0. DataInv /\ TypeOK /\ Held /\ ListInv /\ Filled /\ Rest /\ Kept /\ NoEarlyCompletion /\ Impatient = {}
  BY DEF DataInv, RingInv
<1>1. ASSUME NEW r \in Reqs, Submit(r) PROVE NoEarlyCompletion'
  BY <1>0, <1>1 DEF TypeOK, NoEarlyCompletion, Submit, Enqueue
<1>2. ASSUME NEW r \in Reqs, Kick(r) PROVE NoEarlyCompletion'
  BY <1>0, <1>2 DEF TypeOK, NoEarlyCompletion, Kick, Wakeup
<1>3. ASSUME NEW r \in Reqs, WaitOver(r) PROVE NoEarlyCompletion'
  BY <1>0, <1>3 DEF TypeOK, NoEarlyCompletion, WaitOver
<1>4. ASSUME NEW r \in Reqs, Recheck(r) PROVE NoEarlyCompletion'
  BY <1>0, <1>4 DEF TypeOK, NoEarlyCompletion, Recheck
<1>5. ASSUME NEW r \in Reqs, Unmap(r) PROVE NoEarlyCompletion'
  BY <1>0, <1>5 DEF TypeOK, NoEarlyCompletion, Unmap
<1>6. ASSUME NEW t \in Threads, ThreadStep(t) PROVE NoEarlyCompletion'
  BY <1>0, <1>6
  DEF TypeOK, NoEarlyCompletion, ThreadStep, PrepareSleep, CheckWork, Resume, SleepTimeout,
      Goto, Wakeup, Threads
<1>7. ASSUME WrkLock PROVE NoEarlyCompletion'
  BY <1>0, <1>7 DEF TypeOK, NoEarlyCompletion, WrkLock, Goto, Wakeup
<1>8. ASSUME WrkPost PROVE NoEarlyCompletion'
  BY <1>0, <1>8 DEF TypeOK, NoEarlyCompletion, WrkPost, WrkMore, WriteDescs, Wakeup, Enqueue
<1>9. ASSUME WrkReject PROVE NoEarlyCompletion'
  BY <1>0, <1>9 DEF TypeOK, NoEarlyCompletion, WrkReject, WrkMore, ReqDone
<1>10. ASSUME WrkUnlock PROVE NoEarlyCompletion'
  BY <1>0, <1>10 DEF TypeOK, NoEarlyCompletion, WrkUnlock, Goto
<1>11. ASSUME HwExecute \/ HwWriteback PROVE NoEarlyCompletion'
  <2>1. CASE HwWriteback
    BY <1>0, <2>1 DEF HwWriteback, NoEarlyCompletion
  <2>2. CASE HwExecute
    <3>1. hwCidx # doorbell /\ moved' = [moved EXCEPT ![desc[hwCidx]] = @ + 1] /\ UNCHANGED status
      BY <2>2 DEF HwExecute
    <3>2. PICK f \in [0 .. Len(Queue) -> Nat] : Counts(f) /\ Owners(f)
      BY <1>0 DEF DataInv, Spread
    <3>3. PICK i \in 1 .. Len(Queue) : desc[hwCidx] = Queue[i]
      BY <1>0, <3>1, <3>2, Executes
    <3>4. desc[hwCidx] \in Reqs /\ status[desc[hwCidx]] = "pending"
      BY <1>0, <3>3, QueueOnce DEF Waiting
    <3>5. \A x \in Reqs : status[x] = "ok" => moved'[x] = moved[x]
      BY <1>0, <3>1, <3>4 DEF TypeOK
    <3> QED
      BY <1>0, <3>1, <3>5 DEF NoEarlyCompletion
  <2> QED
    BY <1>11, <2>1, <2>2
<1>12. ASSUME Interrupt PROVE NoEarlyCompletion'
  BY <1>0, <1>12 DEF TypeOK, NoEarlyCompletion, Interrupt, Goto
<1>13. ASSUME WbNothing PROVE NoEarlyCompletion'
  BY <1>0, <1>13 DEF TypeOK, NoEarlyCompletion, WbNothing, Goto, Served, Wakeup
<1>14. ASSUME WbTake PROVE NoEarlyCompletion'
  BY <1>0, <1>14 DEF TypeOK, NoEarlyCompletion, WbTake, Goto
<1>15. ASSUME WbComplete PROVE NoEarlyCompletion'
  <2>1. /\ pendList # <<>> /\ thread["writeback"] = "credit" /\ cr >= descNr[Head(pendList)]
        /\ status' = [status EXCEPT ![Head(pendList)] = "ok"] /\ UNCHANGED moved
    BY <1>15 DEF WbComplete, WbMore, ReqDone, Covers
  <2>2. Head(pendList) \in Reqs /\ Taken = cr /\ cr \in Nat /\ descNr[Head(pendList)] \in Nat
    BY <1>0, <2>1, ListTail DEF TypeOK, Taken, Held
  <2>3. moved[Head(pendList)] = NDesc[Head(pendList)]
    BY <1>0, <2>1, <2>2, FirstRequest
  <2> QED
    BY <1>0, <2>1, <2>2, <2>3 DEF NoEarlyCompletion, TypeOK
<1>16. ASSUME WbCharge PROVE NoEarlyCompletion'
  BY <1>0, <1>16 DEF TypeOK, NoEarlyCompletion, WbCharge, WbMore
<1>17. ASSUME WbUnlock PROVE NoEarlyCompletion'
  BY <1>0, <1>17 DEF TypeOK, NoEarlyCompletion, WbUnlock, Goto, Served
<1>18. ASSUME UNCHANGED vars PROVE NoEarlyCompletion'
  BY <1>0, <1>18 DEF TypeOK, NoEarlyCompletion, vars
<1> QED
  BY <1>1, <1>2, <1>3, <1>4, <1>5, <1>6, <1>7, <1>8, <1>9, <1>10, <1>11, <1>12, <1>13,
     <1>14, <1>15, <1>16, <1>17, <1>18
  DEF Next, CallerStep, RequestThread, Writeback

\* Steps that move neither descriptors nor requests.
LEMMA SpreadFrame ==
  ASSUME Spread, UNCHANGED <<workList, pendList, cidx, desc, offset, descNr, moved>>,
         Taken' = Taken, InRing' = InRing, Executed' = Executed
  PROVE  Spread'
<1>1. PICK f \in [0 .. Len(Queue) -> Nat] : Counts(f) /\ Owners(f) /\ Moved(f)
  BY DEF Spread
<1>2. Queue' = Queue
  BY DEF Queue
<1>3. Counts(f)'
  BY <1>1, <1>2 DEF Counts
<1>4. Owners(f)'
  BY <1>1, <1>2 DEF Owners
<1>5. Moved(f)'
  BY <1>1, <1>2 DEF Moved, Open
<1> QED
  BY <1>1, <1>2, <1>3, <1>4, <1>5 DEF Spread

\* qdma_request_submit(): the new request has no descriptors.
LEMMA SubmitSpread ==
  ASSUME DataInv, NEW r \in Reqs, Submit(r)
  PROVE  Spread'
<1> DEFINE N == Len(Queue)
<1>1. PICK f \in [0 .. N -> Nat] : Counts(f) /\ Owners(f) /\ Moved(f)
  BY DEF DataInv, Spread
<1>2. /\ workList \in Seq(Reqs) /\ pendList \in Seq(Reqs) /\ workList' = Append(workList, r)
      /\ UNCHANGED <<pendList, cidx, desc, offset, descNr, moved, lock, cr, credit, pidx, hwCidx>>
      /\ pc[r] = "idle" /\ ListInv /\ Filled
  BY DEF DataInv, RingInv, TypeOK, Submit, Enqueue, ring, hardware
<1>3. /\ UNCHANGED <<Taken, InRing, Executed>>
  BY <1>2 DEF Taken, InRing, Executed
<1>4. /\ Taken \in Nat /\ InRing \in Nat /\ Executed \in Nat
  BY Cursors DEF DataInv
<1>5. /\ N = Len(pendList) + Len(workList) /\ Len(pendList) \in Nat /\ Len(workList) \in Nat
      /\ Len(Queue') = N + 1 /\ Queue'[N + 1] = r
      /\ \A i \in 1 .. N : Queue'[i] = Queue[i] /\ Queue[i] \in Reqs /\ Queue[i] # r
  <2>1. /\ Len(workList') = Len(workList) + 1 /\ workList'[Len(workList) + 1] = r
        /\ \A i \in 1 .. Len(workList) : workList'[i] = workList[i]
        /\ workList' \in Seq(Reqs) /\ pendList' \in Seq(Reqs)
    BY <1>2, AppendProperties
  <2>2. /\ Len(Queue') = Len(pendList) + Len(workList')
        /\ \A i \in 1 .. Len(Queue') :
             Queue'[i] = IF i <= Len(pendList) THEN pendList[i] ELSE workList'[i - Len(pendList)]
    <3>1. Queue' = pendList \o workList'
      BY <1>2 DEF Queue
    <3>2. pendList \in Seq(Reqs) /\ workList' \in Seq(Reqs)
      BY <1>2, <2>1
    <3>3. /\ Len(pendList \o workList') = Len(pendList) + Len(workList')
          /\ \A i \in 1 .. Len(pendList) + Len(workList') :
               (pendList \o workList')[i] =
                 IF i <= Len(pendList) THEN pendList[i] ELSE workList'[i - Len(pendList)]
      BY <3>2, ConcatProperties
    <3> QED
      BY <3>1, <3>3
  <2>3. \A i \in 1 .. N : Queue[i] \in Reqs /\ Queue[i] # r
    BY <1>2, QueueOnce
  <2>4. /\ N = Len(pendList) + Len(workList) /\ Len(pendList) \in Nat /\ Len(workList) \in Nat
        /\ \A i \in 1 .. N :
             Queue[i] = IF i <= Len(pendList) THEN pendList[i] ELSE workList[i - Len(pendList)]
    BY <1>2, QueueElements
  <2> HIDE DEF N
  <2>5. Len(Queue') = N + 1 /\ Queue'[N + 1] = r
    BY <2>1, <2>2, <2>4
  <2>6. ASSUME NEW i \in 1 .. N PROVE Queue'[i] = Queue[i]
    <3>1. CASE i <= Len(pendList)
      BY <2>2, <2>4, <2>5, <3>1
    <3>2. CASE ~(i <= Len(pendList))
      BY <2>1, <2>2, <2>4, <2>5, <3>2, SMTT(40)
    <3> QED
      BY <3>1, <3>2
  <2> QED
    BY <2>3, <2>4, <2>5, <2>6
<1> HIDE DEF N
<1>6. PICK g : g = [i \in 0 .. N + 1 |-> IF i = N + 1 THEN f[N] ELSE f[i]]
  OBVIOUS
<1>7. /\ g \in [0 .. N + 1 -> Nat] /\ g[N + 1] = f[N] /\ N \in Nat
      /\ \A i \in 0 .. N : g[i] = f[i] /\ f[i] \in Nat
  BY <1>1, <1>5, <1>6, SMTT(30)
<1>8. offset[r] = 0 /\ descNr[r] = 0 /\ moved[r] = 0
  BY <1>2 DEF Filled
<1>9. f[N] = Taken + InRing
  BY <1>1, <1>7 DEF Counts, N
<1>10. Counts(g)'
  <2>1. g[0] = 0
    BY <1>1, <1>7 DEF Counts
  <2>2. \A i \in 0 .. N + 1 : i > Len(pendList) \/ i = N + 1 => g[i] = Taken + InRing
    BY <1>1, <1>7, <1>9, <1>5 DEF Counts, N
  <2>3. \A i \in 1 .. N + 1 : g[i] = g[i - 1] + descNr[Queue'[i]]
    BY <1>1, <1>7, <1>8, <1>5, SMTT(40) DEF Counts, N
  <2>4. \A i, j \in 0 .. N + 1 : i <= j => g[i] <= g[j]
    <3> SUFFICES ASSUME NEW i \in 0 .. N + 1, NEW j \in 0 .. N + 1, i <= j PROVE g[i] <= g[j]
      OBVIOUS
    <3>1. \A a, b \in 0 .. N : a <= b => f[a] <= f[b]
      BY <1>1 DEF Counts, N
    <3>2. CASE j = N + 1
      BY <1>7, <3>1, <3>2
    <3>3. CASE j \in 0 .. N
      BY <1>7, <3>1, <3>3
    <3> QED
      BY <1>7, <3>2, <3>3
  <2> QED
    BY <1>2, <1>3, <1>5, <2>1, <2>2, <2>3, <2>4 DEF Counts
<1>11. Owners(g)'
  <2>1. ASSUME NEW s \in Slots, NEW i \in 1 .. N + 1, RingDelta(s, cidx) < InRing,
               g[i - 1] <= Taken + RingDelta(s, cidx), Taken + RingDelta(s, cidx) < g[i]
        PROVE  desc[s] = Queue'[i]
    <3>1. i \in 1 .. N
      <4>1. i = N + 1 => g[i - 1] = g[i] /\ g[i] \in Nat
        BY <1>7
      <4>2. Taken + RingDelta(s, cidx) \in Nat
        <5>1. cidx \in Slots
          BY DEF DataInv, RingInv, TypeOK
        <5>2. RingDelta(s, cidx) \in Nat
          BY <5>1, DeltaRange
        <5> QED
          BY <1>4, <5>2
      <4> QED
        BY <1>7, <2>1, <4>1, <4>2
    <3>2. f[i - 1] = g[i - 1] /\ f[i] = g[i] /\ Queue'[i] = Queue[i]
      BY <1>5, <1>7, <3>1
    <3> QED
      BY <1>1, <2>1, <3>1, <3>2 DEF Owners, N
  <2> QED
    BY <1>2, <1>3, <1>5, <2>1 DEF Owners
<1>12. Moved(g)'
  <2>1. \A i \in 1 .. N : moved[Queue'[i]] + Open(g, i) = offset[Queue'[i]]
    <3>1. \A i \in 1 .. N : Open(g, i) = Open(f, i)
      BY <1>7 DEF Open
    <3> QED
      BY <1>1, <1>5, <3>1 DEF Moved, N
  <2>2. moved[Queue'[N + 1]] + Open(g, N + 1) = offset[Queue'[N + 1]]
    BY <1>4, <1>5, <1>7, <1>8 DEF Open
  <2>3. \A i \in 1 .. N + 1 : Open(g, i)' = Open(g, i)
    BY <1>3 DEF Open
  <2> QED
    <3>1. \A i \in 1 .. N + 1 : moved[Queue'[i]] + Open(g, i) = offset[Queue'[i]]
      BY <1>7, <2>1, <2>2
    <3>2. \A i \in 1 .. N + 1 : moved'[Queue'[i]] + Open(g, i)' = offset'[Queue'[i]]
      BY <1>2, <2>3, <3>1
    <3> QED
      BY <1>5, <3>2 DEF Moved
<1> QED
  BY <1>5, <1>7, <1>10, <1>11, <1>12 DEF Spread

\* descq_wb_credit(): what was in the ring up to the writeback is now taken;
\* every descriptor keeps its place in the count.
LEMMA TakeSpread ==
  ASSUME DataInv, WbTake
  PROVE  Spread'
<1> DEFINE n == RingDelta(wbCidx, cidx)
<1>1. PICK f \in [0 .. Len(Queue) -> Nat] : Counts(f) /\ Owners(f) /\ Moved(f)
  BY DEF DataInv, Spread
<1>2. /\ cidx \in Slots /\ wbCidx \in Slots /\ hwCidx \in Slots /\ pidx \in Slots
      /\ credit \in Nat /\ doorbell = pidx /\ CursorOrder
  BY DEF DataInv, RingInv, TypeOK, DoorbellRung
<1>3. WbCredit(WbIndex) = n
  BY <1>2, CreditIsDelta DEF WbIndex
<1>4. /\ UNCHANGED <<lists, desc, offset, descNr, moved, pidx, hwCidx>>
      /\ lock = "free" /\ lock' = "writeback" /\ cidx' = wbCidx /\ cr' = credit + n
  BY <1>3 DEF WbTake, WbIndex, cbs, hardware
<1>5. /\ n \in Nat /\ Executed \in Nat /\ InRing \in Nat /\ n <= Executed /\ Executed <= InRing
      /\ InRing < RngSz
  BY <1>2, DeltaRange, Cursors DEF CursorOrder, Executed, InRing, DataInv
<1>6. /\ Taken' = Taken + n /\ InRing' = InRing - n /\ Executed' = Executed - n /\ Taken \in Nat
  <2>1. Taken' = Taken + n /\ Taken \in Nat
    BY <1>2, <1>4 DEF Taken
  <2>2. RingDelta(pidx, wbCidx) = InRing - n /\ RingDelta(hwCidx, wbCidx) = Executed - n
    BY <1>2, <1>5, DeltaRebase DEF InRing, Executed
  <2> QED
    BY <1>4, <2>1, <2>2 DEF InRing, Executed
<1>7. ASSUME NEW s \in Slots, RingDelta(s, wbCidx) < InRing - n
      PROVE  RingDelta(s, cidx) = RingDelta(s, wbCidx) + n
  BY <1>2, <1>5, <1>7, RngSzAssumption DEF RingDelta, Slots
<1>8. \A s \in Slots : RingDelta(s, wbCidx) \in Nat
  BY <1>2, DeltaRange
<1> HIDE DEF n
<1>9. Queue' = Queue /\ UNCHANGED <<workList, pendList>>
  BY <1>4 DEF Queue, lists
<1>10. Taken' + InRing' = Taken + InRing /\ Taken' + Executed' = Taken + Executed
  BY <1>5, <1>6
<1>11. Counts(f)'
  BY <1>1, <1>4, <1>9, <1>10 DEF Counts
<1>12. Owners(f)'
  <2>1. ASSUME NEW s \in Slots, NEW i \in 1 .. Len(Queue), RingDelta(s, wbCidx) < InRing - n,
               f[i - 1] <= (Taken + n) + RingDelta(s, wbCidx),
               (Taken + n) + RingDelta(s, wbCidx) < f[i]
        PROVE  desc[s] = Queue[i]
    <3>1. /\ RingDelta(s, cidx) = RingDelta(s, wbCidx) + n
          /\ RingDelta(s, wbCidx) \in Nat
      BY <1>7, <1>8, <2>1
    <3>2. /\ (Taken + n) + RingDelta(s, wbCidx) = Taken + RingDelta(s, cidx)
          /\ RingDelta(s, cidx) < InRing
      BY <1>5, <1>6, <2>1, <3>1
    <3> QED
      BY <1>1, <2>1, <3>2 DEF Owners
  <2> QED
    BY <1>4, <1>6, <1>9, <2>1 DEF Owners
<1>13. Moved(f)'
  BY <1>1, <1>4, <1>9, <1>10 DEF Moved, Open
<1> QED
  BY <1>1, <1>9, <1>11, <1>12, <1>13 DEF Spread

\* One descriptor of the request it belongs to is executed.
LEMMA ExecuteSpread ==
  ASSUME DataInv, HwExecute
  PROVE  Spread'
<1>1. PICK f \in [0 .. Len(Queue) -> Nat] : Counts(f) /\ Owners(f) /\ Moved(f)
  BY DEF DataInv, Spread
<1>2. /\ hwCidx # doorbell /\ moved' = [moved EXCEPT ![desc[hwCidx]] = @ + 1]
      /\ UNCHANGED <<workList, pendList, lock, cr, credit, cidx, pidx, desc, offset, descNr>>
      /\ hwCidx' = RingIncr(hwCidx, 1)
  BY DEF HwExecute, lists, ring, cbs
<1>3. PICK i \in 1 .. Len(Queue) :
        f[i - 1] <= Taken + Executed /\ Taken + Executed < f[i] /\ desc[hwCidx] = Queue[i]
  BY <1>1, <1>2, Executes
<1>4. /\ Executed \in Nat /\ InRing \in Nat /\ Taken \in Nat /\ Executed < InRing
      /\ InRing < RngSz /\ hwCidx \in Slots /\ cidx \in Slots /\ moved \in [Reqs -> Nat]
  BY <1>2, Cursors DEF DataInv, RingInv, TypeOK
<1>5. Executed' = Executed + 1 /\ Taken' = Taken /\ InRing' = InRing /\ Queue' = Queue
  <2>1. RingDelta(hwCidx, cidx) + 1 < RngSz
    BY <1>4, RngSzAssumption DEF Executed
  <2>2. RingDelta(RingIncr(hwCidx, 1), cidx) = RingDelta(hwCidx, cidx) + 1
    BY <1>4, <2>1, DeltaIncr
  <2> QED
    BY <1>2, <2>2 DEF Executed, Taken, InRing, Queue
<1>6. Counts(f)' /\ Owners(f)'
  BY <1>1, <1>2, <1>5 DEF Counts, Owners
<1>7. /\ \A j \in 1 .. Len(Queue) : Queue[j] \in Reqs
      /\ \A j \in 1 .. Len(Queue) : Queue[j] = Queue[i] => j = i
  BY QueueOnce DEF DataInv
<1>8. /\ moved'[Queue[i]] = moved[Queue[i]] + 1
      /\ \A j \in 1 .. Len(Queue) : j # i => moved'[Queue[j]] = moved[Queue[j]]
      /\ \A j \in 1 .. Len(Queue) : moved[Queue[j]] \in Nat
  BY <1>2, <1>3, <1>4, <1>7
<1>9. \A j \in 1 .. Len(Queue) : Open(f, j)' = IF j = i THEN Open(f, j) - 1 ELSE Open(f, j)
  <2> SUFFICES ASSUME NEW j \in 1 .. Len(Queue)
               PROVE  Open(f, j)' = IF j = i THEN Open(f, j) - 1 ELSE Open(f, j)
    OBVIOUS
  <2>0. Len(Queue) \in Nat
    BY QueueElements DEF DataInv, RingInv, TypeOK
  <2>1. /\ j \in 0 .. Len(Queue) /\ j - 1 \in 0 .. Len(Queue)
        /\ i \in 0 .. Len(Queue) /\ i - 1 \in 0 .. Len(Queue)
    BY <2>0
  <2>2. f[j] \in Nat /\ f[j - 1] \in Nat /\ f[i] \in Nat /\ f[i - 1] \in Nat
    BY <1>1, <2>1
  <2>3. (j < i => f[j] <= f[i - 1]) /\ (j > i => f[i] <= f[j - 1]) /\ f[j - 1] <= f[j]
    BY <1>1, <2>1 DEF Counts
  <2>4. CASE j = i
    BY <1>3, <1>4, <1>5, <2>2, <2>4 DEF Open
  <2>5. CASE j < i
    BY <1>3, <1>4, <1>5, <2>2, <2>3, <2>5 DEF Open
  <2>6. CASE j > i
    BY <1>3, <1>4, <1>5, <2>2, <2>3, <2>6 DEF Open
  <2> QED
    BY <2>0, <2>4, <2>5, <2>6
<1>10. \A j \in 1 .. Len(Queue) : Open(f, j) \in Int
  BY <1>1, <1>4 DEF Open
<1>11. \A j \in 1 .. Len(Queue) : moved'[Queue[j]] + Open(f, j)' = offset[Queue[j]]
  BY <1>1, <1>8, <1>9, <1>10, SMTT(30) DEF Moved
<1>12. Moved(f)'
  BY <1>2, <1>5, <1>11 DEF Moved
<1> QED
  BY <1>1, <1>5, <1>6, <1>12 DEF Spread

\* qdma_thread_wrk_proc(): the first request of work_list gets n descriptors, all
\* behind those that are in the ring; moving it to pend_list does not change
\* the queue.
LEMMA PostSpread ==
  ASSUME DataInv, WrkPost
  PROVE  Spread'
<1> DEFINE r == Head(workList)
           n == PostCount(r)
           N == Len(Queue)
           L == Len(pendList)
           total == Taken + InRing
<1>1. PICK f \in [0 .. N -> Nat] : Counts(f) /\ Owners(f) /\ Moved(f)
  BY DEF DataInv, Spread
<1>2. /\ RingInv /\ TypeOK /\ ListInv /\ Filled /\ doorbell = pidx
      /\ workList \in Seq(Reqs) /\ pendList \in Seq(Reqs)
      /\ pidx \in Slots /\ cidx \in Slots /\ hwCidx \in Slots
      /\ offset \in [Reqs -> Nat] /\ descNr \in [Reqs -> Nat] /\ avail \in Nat
      /\ avail + InRing = RngSz - 1
  BY DEF DataInv, RingInv, TypeOK, DoorbellRung, RingAccounting, InRing
<1>3. /\ n > 0 /\ workList # <<>>
      /\ desc' = [s \in Slots |-> IF RingDelta(s, pidx) < n THEN r ELSE desc[s]]
      /\ pidx' = RingIncr(pidx, n)
      /\ descNr' = [descNr EXCEPT ![r] = @ + n]
      /\ offset' = [offset EXCEPT ![r] = @ + n]
      /\ UNCHANGED <<lock, cr, credit, cidx, hwCidx, moved>>
      /\ \/ UNCHANGED lists
         \/ workList' = Tail(workList) /\ pendList' = Append(pendList, r)
  BY DEF WrkPost, WrkMore, WriteDescs, Enqueue
<1>4. /\ r \in Reqs /\ r = workList[1] /\ Len(workList) \in Nat \ {0} /\ L \in Nat
      /\ N = L + Len(workList)
      /\ \A i \in 1 .. N : Queue[i] = IF i <= L THEN pendList[i] ELSE workList[i - L]
  BY <1>2, <1>3, ListTail, QueueElements
<1>5. n \in Nat /\ n > 0 /\ n <= avail
  <2>1. offset[r] \in Nat /\ NDesc[r] \in Nat
    BY <1>2, <1>4, NDescAssumption
  <2>2. n = IF NDesc[r] - offset[r] < avail THEN NDesc[r] - offset[r] ELSE avail
    BY DEF PostCount
  <2> HIDE DEF n, r
  <2> QED
    BY <1>2, <1>3, <2>1, <2>2, SMTT(40)
<1>6. Queue' = Queue /\ (pendList' = pendList \/ Len(pendList') = L + 1)
  <2>1. CASE UNCHANGED lists
    BY <2>1 DEF Queue, lists
  <2>2. CASE workList' = Tail(workList) /\ pendList' = Append(pendList, r)
    <3>1. Append(pendList, r) \o Tail(workList) = pendList \o workList
      BY <1>2, <1>3, QueueShift
    <3>2. Len(Append(pendList, r)) = L + 1
      BY <1>2, <1>4, AppendProperties
    <3> QED
      BY <2>2, <3>1, <3>2 DEF Queue
  <2> QED
    BY <1>3, <2>1, <2>2
<1>7. /\ Queue[L + 1] = r /\ L + 1 \in 1 .. N
      /\ \A i \in 1 .. N : Queue[i] \in Reqs
      /\ \A i \in 1 .. N : Queue[i] = r => i = L + 1
  <2>1. L + 1 \in 1 .. N /\ Queue[L + 1] = workList[1]
    BY <1>4
  <2> QED
    <3>1. /\ \A i \in 1 .. N : Queue[i] \in Reqs
          /\ \A i, j \in 1 .. N : Queue[i] = Queue[j] => i = j
      BY <1>2, QueueOnce
    <3> HIDE DEF r, N, L
    <3> QED
      BY <1>4, <2>1, <3>1
<1>8. \A i \in 1 .. N : i > L + 1 => descNr[Queue[i]] = 0
  <2>1. \A j \in 1 .. Len(workList) : j > 1 => descNr[workList[j]] = 0
    BY <1>2 DEF Filled
  <2>2. \A i \in 1 .. N : i > L + 1 =>
          i - L \in 1 .. Len(workList) /\ i - L > 1 /\ Queue[i] = workList[i - L]
    BY <1>4
  <2> QED
    BY <2>1, <2>2
<1>9. /\ Taken \in Nat /\ InRing \in Nat /\ Executed \in Nat /\ Executed <= InRing
  BY <1>2, Cursors
<1> HIDE DEF r, n, N, L
<1>10. /\ descNr'[r] = descNr[r] + n /\ offset'[r] = offset[r] + n
       /\ \A x \in Reqs : x # r => descNr'[x] = descNr[x] /\ offset'[x] = offset[x]
  BY <1>2, <1>3, <1>4
<1>11. Taken' = Taken /\ Executed' = Executed /\ InRing' = InRing + n
  <2>1. InRing + n < RngSz
    BY <1>2, <1>5, <1>9, RngSzAssumption
  <2>2. RingDelta(RingIncr(pidx, n), cidx) = InRing + n
    BY <1>2, <1>5, <2>1, DeltaIncr DEF InRing
  <2> QED
    BY <1>3, <2>2 DEF Taken, Executed, InRing
<1>12. ASSUME NEW s \in Slots
       PROVE  /\ RingDelta(s, cidx) \in Nat
              /\ RingDelta(s, cidx) < InRing => desc'[s] = desc[s]
              /\ InRing <= RingDelta(s, cidx) /\ RingDelta(s, cidx) < InRing + n => desc'[s] = r
  <2>1. RingDelta(s, pidx) \in Nat /\ RingDelta(s, cidx) \in 0 .. RngSz - 1
    BY <1>2, DeltaRange
  <2>2. RingDelta(s, cidx) < InRing => ~(RingDelta(s, pidx) < avail)
    BY <1>2, RngSzAssumption DEF InRing, RingDelta, Slots
  <2>3. InRing <= RingDelta(s, cidx) => RingDelta(s, pidx) = RingDelta(s, cidx) - InRing
    BY <1>2, DeltaRebase DEF InRing
  <2> QED
    BY <1>2, <1>3, <1>5, <1>9, <2>1, <2>2, <2>3
<1>13. PICK g : g = [i \in 0 .. N |-> IF i <= L THEN f[i] ELSE f[i] + n]
  OBVIOUS
<1>14. /\ g \in [0 .. N -> Nat] /\ N \in Nat /\ L \in Nat /\ L < N
       /\ \A i \in 0 .. N : f[i] \in Nat /\ g[i] = IF i <= L THEN f[i] ELSE f[i] + n
  BY <1>1, <1>4, <1>5, <1>7, <1>13, SMTT(40)
<1>15. /\ f[0] = 0 /\ \A i \in 0 .. N : i > L => f[i] = total
       /\ \A i \in 1 .. N : f[i] = f[i - 1] + descNr[Queue[i]]
       /\ \A i, j \in 0 .. N : i <= j => f[i] <= f[j]
  BY <1>1 DEF Counts, N, L
<1> HIDE DEF total
<1>16. Counts(g)'
  <2>1. g[0] = 0
    BY <1>14, <1>15
  <2>2. \A i \in 0 .. N : i > L \/ i = N => g[i] = total + n
    BY <1>14, <1>15
  <2>3. ASSUME NEW i \in 1 .. N PROVE g[i] = g[i - 1] + descNr'[Queue[i]]
    <3>1. CASE i = L + 1
      <4>1. i - 1 = L /\ L \in 0 .. N /\ i \in 0 .. N /\ i > L
        BY <1>14, <3>1
      <4>2. g[i - 1] = f[i - 1] /\ g[i] = f[i] + n /\ f[i] = f[i - 1] + descNr[r] /\ f[i - 1] \in Nat
        BY <1>7, <1>14, <1>15, <3>1, <4>1
      <4>3. descNr'[Queue[i]] = descNr[r] + n /\ descNr[r] \in Nat
        BY <1>2, <1>4, <1>7, <1>10, <3>1
      <4> QED
        BY <1>5, <4>2, <4>3
    <3>2. CASE i # L + 1
      <4>1. descNr'[Queue[i]] = descNr[Queue[i]] /\ descNr[Queue[i]] \in Nat
        BY <1>2, <1>7, <1>10, <3>2
      <4> QED
        BY <1>5, <1>14, <1>15, <3>2, <4>1, SMTT(40)
    <3> QED
      BY <3>1, <3>2
  <2>4. ASSUME NEW i \in 0 .. N, NEW j \in 0 .. N, i <= j PROVE g[i] <= g[j]
    BY <1>5, <1>14, <1>15, <2>4
  <2>5. Taken' + InRing' = total + n
    BY <1>5, <1>9, <1>11 DEF total
  <2>6. \A i \in 0 .. N : i > Len(pendList') \/ i = N => g[i] = total + n
    BY <1>4, <1>6, <1>14, <2>2 DEF L
  <2> QED
    BY <1>6, <2>1, <2>3, <2>4, <2>5, <2>6 DEF Counts, N
<1>17. Owners(g)'
  <2>1. ASSUME NEW s \in Slots, NEW i \in 1 .. N, RingDelta(s, cidx) < InRing + n,
               g[i - 1] <= Taken + RingDelta(s, cidx), Taken + RingDelta(s, cidx) < g[i]
        PROVE  desc'[s] = Queue[i]
    <3>0. /\ i \in 0 .. N /\ i - 1 \in 0 .. N /\ RingDelta(s, cidx) \in Nat
      BY <1>12, <1>14
    <3>1. CASE RingDelta(s, cidx) < InRing
      <4>1. ~(i > L + 1)
        BY <1>5, <1>9, <1>14, <1>15, <2>1, <3>0, <3>1 DEF total
      <4>2. f[i - 1] <= Taken + RingDelta(s, cidx)
        BY <1>14, <2>1, <3>0, <4>1
      <4>3. Taken + RingDelta(s, cidx) < f[i]
        <5>1. CASE i <= L
          BY <1>14, <2>1, <3>0, <5>1
        <5>2. CASE i = L + 1
          <6>1. f[i] = Taken + InRing
            BY <1>14, <1>15, <3>0, <5>2 DEF total
          <6> QED
            BY <1>9, <3>0, <3>1, <6>1
        <5> QED
          BY <1>14, <4>1, <5>1, <5>2
      <4> QED
        BY <1>1, <1>12, <3>1, <4>2, <4>3 DEF Owners, N
    <3>2. CASE ~(RingDelta(s, cidx) < InRing)
      <4>1. i = L + 1
        <5>1. i <= L => g[i] = f[i] /\ f[i] <= total
          BY <1>14, <1>15, <3>0
        <5>2. i > L + 1 => g[i - 1] = total + n
          BY <1>14, <1>15, <3>0
        <5> QED
          BY <1>5, <1>9, <1>14, <2>1, <3>0, <3>2, <5>1, <5>2, SMTT(40) DEF total
      <4>2. desc'[s] = r
        BY <1>9, <1>12, <2>1, <3>0, <3>2
      <4> QED
        BY <1>7, <4>1, <4>2
    <3> QED
      BY <3>1, <3>2
  <2> QED
    BY <1>3, <1>6, <1>11, <2>1 DEF Owners, N
<1>18. Moved(g)'
  <2>1. ASSUME NEW i \in 1 .. N PROVE moved[Queue[i]] + Open(g, i) = offset'[Queue[i]]
    <3>0. /\ i \in 0 .. N /\ i - 1 \in 0 .. N /\ f[i] \in Nat /\ f[i - 1] \in Nat /\ f[i - 1] <= f[i]
          /\ Taken + Executed \in Nat /\ Taken + Executed <= total
      BY <1>9, <1>14, <1>15 DEF total
    <3>1. moved[Queue[i]] + Open(f, i) = offset[Queue[i]]
      BY <1>1 DEF Moved, N
    <3>2. CASE i <= L
      <4>1. Open(g, i) = Open(f, i)
        BY <1>14, <3>0, <3>2 DEF Open
      <4>2. Queue[i] # r /\ Queue[i] \in Reqs
        BY <1>7, <1>14, <3>2
      <4> QED
        BY <1>10, <3>1, <4>1, <4>2
    <3>3. CASE i > L + 1
      <4>1. f[i] = total /\ f[i - 1] = total /\ g[i] = total + n /\ g[i - 1] = total + n
        BY <1>14, <1>15, <3>0, <3>3
      <4>2. Open(g, i) = 0 /\ Open(f, i) = 0
        BY <1>5, <3>0, <4>1 DEF Open
      <4>3. Queue[i] # r /\ Queue[i] \in Reqs
        BY <1>7, <1>14, <3>3
      <4> QED
        BY <1>10, <3>1, <4>2, <4>3
    <3>4. CASE i = L + 1
      <4>1. f[i] = total /\ g[i] = total + n /\ g[i - 1] = f[i - 1]
        BY <1>14, <1>15, <3>0, <3>4
      <4>2. Open(g, i) = Open(f, i) + n /\ Open(f, i) \in Int
        BY <1>5, <3>0, <4>1 DEF Open
      <4>3. Queue[i] = r /\ moved[r] \in Nat /\ offset[r] \in Nat
        BY <1>2, <1>4, <1>7, <3>4 DEF TypeOK
      <4> QED
        BY <1>5, <1>10, <3>1, <4>2, <4>3
    <3> QED
      BY <1>14, <3>2, <3>3, <3>4
  <2>2. \A i \in 1 .. N : Open(g, i)' = Open(g, i)
    BY <1>11 DEF Open
  <2>3. \A i \in 1 .. N : moved'[Queue[i]] + Open(g, i)' = offset'[Queue[i]]
    BY <1>3, <2>1, <2>2
  <2> QED
    BY <1>6, <2>3 DEF Moved, N
<1> QED
  BY <1>6, <1>14, <1>16, <1>17, <1>18 DEF Spread, N

\* qdma_thread_wrk_proc(): a request that is rejected has no descriptors.
LEMMA RejectSpread ==
  ASSUME DataInv, WrkReject
  PROVE  Spread'
<1> DEFINE r == Head(workList)
           N == Len(Queue)
           L == Len(pendList)
           total == Taken + InRing
<1>1. PICK f \in [0 .. N -> Nat] : Counts(f) /\ Owners(f) /\ Moved(f)
  BY DEF DataInv, Spread
<1>2. /\ RingInv /\ TypeOK /\ ListInv /\ Filled
      /\ workList \in Seq(Reqs) /\ pendList \in Seq(Reqs) /\ cidx \in Slots
      /\ offset \in [Reqs -> Nat] /\ descNr \in [Reqs -> Nat] /\ moved \in [Reqs -> Nat]
      /\ avail \in Nat
  BY SMTT(40) DEF DataInv, RingInv, TypeOK
<1>3. /\ workList # <<>> /\ workList' = Tail(workList) /\ PostCount(r) = 0 /\ avail > 0
      /\ UNCHANGED <<pendList, lock, cr, credit, cidx, pidx, hwCidx, desc, offset, descNr, moved>>
  BY DEF WrkReject, WrkMore, ring, hardware
<1>4. /\ r \in Reqs /\ r = workList[1] /\ Len(workList) \in Nat \ {0} /\ L \in Nat
      /\ N = L + Len(workList)
      /\ \A i \in 1 .. N : Queue[i] = IF i <= L THEN pendList[i] ELSE workList[i - L]
      /\ \A i \in 1 .. N : Queue[i] \in Reqs
      /\ Tail(workList) \in Seq(Reqs) /\ Len(Tail(workList)) = Len(workList) - 1
      /\ \A i \in 1 .. Len(workList) - 1 : Tail(workList)[i] = workList[i + 1]
  <2>1. /\ r \in Reqs /\ r = workList[1] /\ Len(workList) \in Nat \ {0}
        /\ Tail(workList) \in Seq(Reqs) /\ Len(Tail(workList)) = Len(workList) - 1
        /\ \A i \in 1 .. Len(Tail(workList)) : Tail(workList)[i] = workList[i + 1]
    BY <1>2, <1>3, ListTail
  <2>2. /\ L \in Nat /\ N = L + Len(workList)
        /\ \A i \in 1 .. N : Queue[i] = IF i <= L THEN pendList[i] ELSE workList[i - L]
        /\ \A i \in 1 .. N : Queue[i] \in Reqs
    BY <1>2, QueueElements
  <2> HIDE DEF r, N, L
  <2> QED
    BY <2>1, <2>2
<1> HIDE DEF r
<1>5. descNr[r] = 0
  <2>1. offset[r] \in Nat /\ NDesc[r] \in Nat /\ 1 \in 1 .. Len(workList)
    BY <1>2, <1>4, NDescAssumption
  <2>2. ~(offset[r] < NDesc[r])
    BY <1>2, <1>3, <2>1, SMTT(40) DEF PostCount
  <2> QED
    BY <1>2, <1>4, <2>1, <2>2 DEF Filled
<1>6. /\ Len(Queue') = N - 1
      /\ \A i \in 1 .. N - 1 : Queue'[i] = IF i <= L THEN Queue[i] ELSE Queue[i + 1]
  <2> DEFINE b == Tail(workList)
  <2>1. Queue' = pendList \o b
    BY <1>3 DEF Queue
  <2>2. b \in Seq(Reqs) /\ Len(b) = Len(workList) - 1
        /\ \A i \in 1 .. Len(workList) - 1 : b[i] = workList[i + 1]
    BY <1>4
  <2> HIDE DEF b
  <2>3. /\ Len(pendList \o b) = L + Len(b)
        /\ \A i \in 1 .. L + Len(b) : (pendList \o b)[i] = IF i <= L THEN pendList[i] ELSE b[i - L]
    BY <1>2, <2>2, ConcatProperties
  <2> HIDE DEF N, L
  <2>4. ASSUME NEW i \in 1 .. N - 1
        PROVE  (pendList \o b)[i] = IF i <= L THEN Queue[i] ELSE Queue[i + 1]
    <3>1. CASE i <= L
      <4>1. i \in 1 .. N /\ i \in 1 .. L + Len(b)
        BY <1>4, <2>2
      <4> QED
        BY <1>4, <2>3, <3>1, <4>1
    <3>2. CASE ~(i <= L)
      BY <1>4, <2>2, <2>3, <3>2, SMTT(60)
    <3> QED
      BY <3>1, <3>2
  <2> QED
    BY <1>4, <2>1, <2>2, <2>3, <2>4
<1>7. UNCHANGED <<Taken, InRing, Executed>>
  BY <1>3 DEF Taken, InRing, Executed
<1>8. /\ Taken \in Nat /\ InRing \in Nat /\ Executed \in Nat /\ Executed <= InRing
  BY <1>2, Cursors
<1> HIDE DEF N, L
<1>9. PICK g : g = [i \in 0 .. N - 1 |-> f[i]]
  OBVIOUS
<1>10. /\ g \in [0 .. N - 1 -> Nat] /\ N \in Nat \ {0} /\ L \in Nat /\ L < N
       /\ \A i \in 0 .. N - 1 : g[i] = f[i]
       /\ \A i \in 0 .. N : f[i] \in Nat
  <2>1. N \in Nat \ {0} /\ L \in Nat /\ L < N
    BY <1>4
  <2>2. \A i \in 0 .. N : f[i] \in Nat
    BY <1>1
  <2>3. \A i \in 0 .. N - 1 : i \in 0 .. N
    BY <2>1
  <2> QED
    BY <1>9, <2>1, <2>2, <2>3
<1>11. /\ f[0] = 0 /\ \A i \in 0 .. N : i > L => f[i] = total
       /\ \A i \in 1 .. N : f[i] = f[i - 1] + descNr[Queue[i]]
       /\ \A i, j \in 0 .. N : i <= j => f[i] <= f[j]
  BY <1>1 DEF Counts, N, L
<1> HIDE DEF total
<1>12. f[L] = total
  <2>1. L + 1 \in 1 .. N /\ (L + 1) - 1 = L /\ L + 1 \in 0 .. N /\ L \in 0 .. N /\ Queue[L + 1] = r
    BY <1>4, <1>10, SMTT(30)
  <2>2. f[L + 1] = f[L] + descNr[r] /\ f[L + 1] = total
    BY <1>11, <2>1, <1>10
  <2> QED
    BY <1>5, <1>10, <2>1, <2>2
<1>13. ASSUME NEW i \in 1 .. N - 1, i > L
       PROVE  /\ f[i] = total /\ f[i - 1] = total
              /\ Queue'[i] \in Reqs /\ descNr[Queue'[i]] = 0
              /\ moved[Queue'[i]] = offset[Queue'[i]]
  <2>1. /\ i + 1 \in 1 .. N /\ i + 1 \in 0 .. N /\ i \in 0 .. N /\ i - 1 \in 0 .. N
        /\ Queue'[i] = Queue[i + 1] /\ Queue[i + 1] \in Reqs /\ (i + 1) - 1 = i
    BY <1>4, <1>6, <1>10, <1>13
  <2>2. f[i] = total /\ f[i + 1] = total /\ f[i - 1] = total
    <3>1. i - 1 = L \/ i - 1 > L
      BY <1>10, <1>13
    <3> QED
      BY <1>10, <1>11, <1>12, <1>13, <2>1, <3>1
  <2>3. f[i + 1] = f[i] + descNr[Queue[i + 1]] /\ descNr[Queue[i + 1]] \in Nat
    BY <1>2, <1>11, <2>1
  <2>4. moved[Queue[i + 1]] + Open(f, i + 1) = offset[Queue[i + 1]]
    BY <1>1, <2>1 DEF Moved, N
  <2>5. Open(f, i + 1) = 0
    BY <1>8, <2>1, <2>2 DEF Open, total
  <2>6. moved[Queue[i + 1]] \in Nat
    BY <1>2, <2>1
  <2>7. total \in Nat
    BY <1>8 DEF total
  <2> QED
    BY <2>1, <2>2, <2>3, <2>4, <2>5, <2>6, <2>7, SMTT(30)
<1>14. \A i \in 1 .. N - 1 : ~(i > L) => Queue'[i] = Queue[i] /\ i \in 1 .. N
  BY <1>6, <1>10
<1>15. Counts(g)'
  <2>1. g[0] = 0
    BY <1>10, <1>11
  <2>2. \A i \in 0 .. N - 1 : i > L \/ i = N - 1 => g[i] = total
    <3> SUFFICES ASSUME NEW i \in 0 .. N - 1, i > L \/ i = N - 1 PROVE g[i] = total
      OBVIOUS
    <3>1. i = L \/ i > L
      BY <1>10
    <3> QED
      BY <1>10, <1>11, <1>12, <3>1
  <2>3. ASSUME NEW i \in 1 .. N - 1 PROVE g[i] = g[i - 1] + descNr[Queue'[i]]
    <3>0. i \in 0 .. N - 1 /\ i - 1 \in 0 .. N - 1 /\ total \in Nat
      BY <1>8, <1>10 DEF total
    <3>1. CASE i > L
      BY <1>10, <1>13, <3>0, <3>1
    <3>2. CASE ~(i > L)
      BY <1>10, <1>11, <1>14, <3>0, <3>2
    <3> QED
      BY <3>1, <3>2
  <2>4. \A i, j \in 0 .. N - 1 : i <= j => g[i] <= g[j]
    BY <1>10, <1>11
  <2> QED
    BY <1>3, <1>6, <1>7, <2>1, <2>2, <2>3, <2>4 DEF Counts, L, total
<1>16. Owners(g)'
  <2>1. ASSUME NEW s \in Slots, NEW i \in 1 .. N - 1, RingDelta(s, cidx) < InRing,
               g[i - 1] <= Taken + RingDelta(s, cidx), Taken + RingDelta(s, cidx) < g[i]
        PROVE  desc[s] = Queue'[i]
    <3>0. i \in 0 .. N - 1 /\ i - 1 \in 0 .. N - 1 /\ RingDelta(s, cidx) \in Nat
      BY <1>2, <1>10, DeltaRange
    <3>1. g[i] = f[i] /\ g[i - 1] = f[i - 1]
      BY <1>10, <3>0
    <3>2. ~(i > L)
      BY <1>8, <1>13, <2>1, <3>0, <3>1 DEF total
    <3> QED
      BY <1>1, <1>14, <2>1, <3>1, <3>2 DEF Owners, N
  <2> QED
    BY <1>3, <1>6, <1>7, <2>1 DEF Owners
<1>17. Moved(g)'
  <2>1. ASSUME NEW i \in 1 .. N - 1 PROVE moved[Queue'[i]] + Open(g, i) = offset[Queue'[i]]
    <3>0. i \in 0 .. N - 1 /\ i - 1 \in 0 .. N - 1
      BY <1>10
    <3>1. g[i] = f[i] /\ g[i - 1] = f[i - 1]
      BY <1>10, <3>0
    <3>2. CASE i > L
      <4>1. Open(g, i) = 0
        BY <1>8, <1>13, <3>1, <3>2 DEF Open, total
      <4>2. moved[Queue'[i]] \in Nat
        BY <1>2, <1>13, <3>2
      <4> QED
        BY <1>13, <3>2, <4>1, <4>2
    <3>3. CASE ~(i > L)
      <4>1. Open(g, i) = Open(f, i)
        BY <3>1 DEF Open
      <4> QED
        BY <1>1, <1>14, <3>3, <4>1 DEF Moved, N
    <3> QED
      BY <3>2, <3>3
  <2>2. \A i \in 1 .. N - 1 : Open(g, i)' = Open(g, i)
    BY <1>7 DEF Open
  <2>3. \A i \in 1 .. N - 1 : moved'[Queue'[i]] + Open(g, i)' = offset'[Queue'[i]]
    BY <1>3, <2>1, <2>2
  <2> QED
    BY <1>6, <2>3 DEF Moved
<1> QED
  BY <1>6, <1>10, <1>15, <1>16, <1>17 DEF Spread

\* req_update_pend(): the first request leaves with its descriptors.
LEMMA CompleteSpread ==
  ASSUME DataInv, WbComplete
  PROVE  Spread'
<1> DEFINE r == Head(pendList)
           N == Len(Queue)
           L == Len(pendList)
<1>1. PICK f \in [0 .. N -> Nat] : Counts(f) /\ Owners(f) /\ Moved(f)
  BY DEF DataInv, Spread
<1>2. /\ RingInv /\ TypeOK /\ Held
      /\ workList \in Seq(Reqs) /\ pendList \in Seq(Reqs) /\ cidx \in Slots
      /\ descNr \in [Reqs -> Nat] /\ cr \in Nat
  BY DEF DataInv, RingInv, TypeOK
<1>3. /\ pendList # <<>> /\ pendList' = Tail(pendList) /\ cr >= descNr[r] /\ cr' = cr - descNr[r]
      /\ thread["writeback"] = "credit"
      /\ UNCHANGED <<workList, lock, credit, cidx, pidx, hwCidx, desc, offset, descNr, moved>>
  BY DEF WbComplete, WbMore, Covers, ring, hardware
<1>4. /\ r \in Reqs /\ r = pendList[1] /\ L \in Nat \ {0} /\ Len(workList) \in Nat
      /\ N = L + Len(workList)
      /\ \A i \in 1 .. N : Queue[i] = IF i <= L THEN pendList[i] ELSE workList[i - L]
      /\ Tail(pendList) \in Seq(Reqs) /\ Len(Tail(pendList)) = L - 1
      /\ \A i \in 1 .. L - 1 : Tail(pendList)[i] = pendList[i + 1]
  <2>1. /\ r \in Reqs /\ r = pendList[1] /\ L \in Nat \ {0}
        /\ Tail(pendList) \in Seq(Reqs) /\ Len(Tail(pendList)) = L - 1
        /\ \A i \in 1 .. Len(Tail(pendList)) : Tail(pendList)[i] = pendList[i + 1]
    BY <1>2, <1>3, ListTail
  <2>2. /\ N = L + Len(workList) /\ Len(workList) \in Nat
        /\ \A i \in 1 .. N : Queue[i] = IF i <= L THEN pendList[i] ELSE workList[i - L]
    BY <1>2, QueueElements
  <2> HIDE DEF r, N, L
  <2> QED
    BY <2>1, <2>2
<1> HIDE DEF r
<1>5. Len(Queue') = N - 1 /\ \A i \in 1 .. N - 1 : Queue'[i] = Queue[i + 1]
  <2> DEFINE b == Tail(pendList)
  <2>1. Queue' = b \o workList
    BY <1>3 DEF Queue
  <2>2. b \in Seq(Reqs) /\ Len(b) = L - 1 /\ \A i \in 1 .. L - 1 : b[i] = pendList[i + 1]
    BY <1>4
  <2> HIDE DEF b
  <2>3. /\ Len(b \o workList) = Len(b) + Len(workList)
        /\ \A i \in 1 .. Len(b) + Len(workList) :
             (b \o workList)[i] = IF i <= Len(b) THEN b[i] ELSE workList[i - Len(b)]
    BY <1>2, <2>2, ConcatProperties
  <2> HIDE DEF N, L
  <2>4. ASSUME NEW i \in 1 .. N - 1 PROVE (b \o workList)[i] = Queue[i + 1]
    <3>0. /\ i + 1 \in 1 .. N /\ i \in 1 .. Len(b) + Len(workList)
          /\ i <= Len(b) <=> i + 1 <= L
          /\ i - Len(b) = (i + 1) - L
      BY <1>4, <2>2
    <3>1. CASE i <= Len(b)
      <4>1. i \in 1 .. L - 1
        BY <1>4, <2>2, <3>1
      <4> QED
        BY <1>4, <2>2, <2>3, <3>0, <3>1, <4>1
    <3>2. CASE ~(i <= Len(b))
      BY <1>4, <2>3, <3>0, <3>2
    <3> QED
      BY <3>1, <3>2
  <2> QED
    BY <1>4, <2>1, <2>2, <2>3, <2>4
<1> HIDE DEF N, L
<1>6. Taken \in Nat /\ InRing \in Nat /\ Executed \in Nat
  BY <1>2, Cursors
<1>7. N \in Nat \ {0} /\ L \in 1 .. N
  BY <1>4
<1>8. /\ f[0] = 0 /\ \A i \in 0 .. N : i > L \/ i = N => f[i] = Taken + InRing
      /\ \A i \in 1 .. N : f[i] = f[i - 1] + descNr[Queue[i]]
      /\ \A i, j \in 0 .. N : i <= j => f[i] <= f[j]
      /\ \A i \in 0 .. N : f[i] \in Nat
  BY <1>1 DEF Counts, N, L
<1> DEFINE d == f[1]
<1>9. /\ d = descNr[r] /\ d \in Nat
      /\ \A i \in 1 .. N : f[i] >= d /\ f[i] \in Nat
  <2>1. 1 \in 1 .. N /\ 1 \in 0 .. N /\ 1 - 1 = 0 /\ Queue[1] = r
    BY <1>4, <1>7
  <2>2. f[1] = f[1 - 1] + descNr[Queue[1]] /\ f[1] \in Nat
    BY <1>8, <2>1
  <2>3. \A i \in 1 .. N : f[1] <= f[i] /\ f[i] \in Nat
    BY <1>7, <1>8, <2>1
  <2>4. descNr[r] \in Nat
    BY <1>2, <1>4
  <2> QED
    BY <1>8, <2>1, <2>2, <2>3, <2>4
<1> HIDE DEF d
<1>10. Taken' = Taken - d /\ d <= Taken /\ InRing' = InRing /\ Executed' = Executed
  <2>1. lock = "writeback"
    BY <1>2, <1>3 DEF Held
  <2> QED
    BY <1>3, <1>9, <2>1 DEF Taken, InRing, Executed
<1>11. PICK g : g = [i \in 0 .. N - 1 |-> f[i + 1] - d]
  OBVIOUS
<1>12. /\ g \in [0 .. N - 1 -> Nat]
       /\ \A i \in 0 .. N - 1 : g[i] = f[i + 1] - d /\ i + 1 \in 1 .. N
  <2>1. \A i \in 0 .. N - 1 : i + 1 \in 1 .. N
    BY <1>7
  <2>2. \A i \in 0 .. N - 1 : f[i + 1] - d \in Nat
    BY <1>9, <2>1
  <2> QED
    BY <1>11, <2>1, <2>2
<1>13. Counts(g)'
  <2>1. g[0] = 0
    <3>1. 0 \in 0 .. N - 1 /\ 0 + 1 = 1
      BY <1>7
    <3> QED
      BY <1>9, <1>12, <3>1 DEF d
  <2>2. \A i \in 0 .. N - 1 : i > L - 1 \/ i = N - 1 => g[i] = (Taken - d) + InRing
    <3> SUFFICES ASSUME NEW i \in 0 .. N - 1, i > L - 1 \/ i = N - 1
                 PROVE  g[i] = (Taken - d) + InRing
      OBVIOUS
    <3>1. i + 1 \in 0 .. N /\ (i + 1 > L \/ i + 1 = N)
      BY <1>7
    <3>2. f[i + 1] = Taken + InRing
      BY <1>8, <3>1
    <3> QED
      BY <1>6, <1>9, <1>12, <3>2
  <2>3. ASSUME NEW i \in 1 .. N - 1 PROVE g[i] = g[i - 1] + descNr[Queue'[i]]
    <3>1. i \in 0 .. N - 1 /\ i - 1 \in 0 .. N - 1 /\ i + 1 \in 1 .. N /\ (i + 1) - 1 = i /\ (i - 1) + 1 = i
          /\ i \in 1 .. N
      BY <1>7
    <3>2. f[i + 1] = f[i] + descNr[Queue[i + 1]] /\ f[i + 1] \in Nat /\ f[i] \in Nat
      BY <1>8, <1>9, <3>1
    <3>3. g[i] = f[i + 1] - d /\ g[i - 1] = f[i] - d
      BY <1>12, <3>1
    <3>4. descNr[Queue[i + 1]] \in Nat
      <4>1. Queue[i + 1] \in Reqs
        BY <1>2, <3>1, QueueElements DEF N
      <4> QED
        BY <1>2, <4>1
    <3> QED
      BY <1>5, <1>9, <3>2, <3>3, <3>4, SMTT(30)
  <2>4. ASSUME NEW i \in 0 .. N - 1, NEW j \in 0 .. N - 1, i <= j PROVE g[i] <= g[j]
    <3>1. i + 1 \in 0 .. N /\ j + 1 \in 0 .. N /\ i + 1 <= j + 1
      BY <1>7, <2>4
    <3> QED
      BY <1>8, <1>9, <1>12, <3>1
  <2>5. Len(pendList') = L - 1
    BY <1>3, <1>4
  <2> QED
    BY <1>3, <1>5, <1>10, <2>1, <2>2, <2>3, <2>4, <2>5 DEF Counts
<1>14. ASSUME NEW i \in 1 .. N - 1
       PROVE  g[i] = f[i + 1] - d /\ g[i - 1] = f[i] - d /\ i + 1 \in 1 .. N
              /\ f[i + 1] \in Nat /\ f[i] \in Nat /\ (i + 1) - 1 = i /\ Queue'[i] = Queue[i + 1]
  <2>1. i \in 0 .. N - 1 /\ i - 1 \in 0 .. N - 1 /\ i + 1 \in 1 .. N /\ (i + 1) - 1 = i /\ (i - 1) + 1 = i
        /\ i \in 1 .. N
    BY <1>7
  <2> QED
    BY <1>5, <1>9, <1>12, <2>1
<1>15. Owners(g)'
  <2>1. ASSUME NEW s \in Slots, NEW i \in 1 .. N - 1, RingDelta(s, cidx) < InRing,
               g[i - 1] <= (Taken - d) + RingDelta(s, cidx), (Taken - d) + RingDelta(s, cidx) < g[i]
        PROVE  desc[s] = Queue'[i]
    <3>1. RingDelta(s, cidx) \in Nat
      BY <1>2, DeltaRange
    <3>2. /\ f[i + 1] \in Nat /\ f[i] \in Nat /\ g[i] = f[i + 1] - d /\ g[i - 1] = f[i] - d
          /\ (i + 1) - 1 = i
      BY <1>14
    <3>3. f[i] <= Taken + RingDelta(s, cidx) /\ Taken + RingDelta(s, cidx) < f[i + 1]
      BY <1>6, <1>9, <2>1, <3>1, <3>2, SMTT(30)
    <3> QED
      BY <1>1, <1>14, <2>1, <3>2, <3>3 DEF Owners, N
  <2> QED
    BY <1>3, <1>5, <1>10, <2>1 DEF Owners
<1>16. Moved(g)'
  <2>1. ASSUME NEW i \in 1 .. N - 1 PROVE moved[Queue'[i]] + Open(g, i)' = offset[Queue'[i]]
    <3>1. Open(g, i)' = Open(f, i + 1)
      <4>1. /\ f[i + 1] \in Nat /\ f[i] \in Nat /\ g[i] = f[i + 1] - d /\ g[i - 1] = f[i] - d
            /\ (i + 1) - 1 = i
        BY <1>14
      <4> QED
        <5> DEFINE e == Taken + Executed
        <5>1. Taken' + Executed' = e - d /\ e \in Nat
          BY <1>6, <1>9, <1>10
        <5> HIDE DEF e
        <5>2. Open(g, i)' = IF g[i] <= e - d THEN 0
                            ELSE IF g[i - 1] >= e - d THEN g[i] - g[i - 1] ELSE g[i] - (e - d)
          BY <5>1 DEF Open
        <5>3. Open(f, i + 1) = IF f[i + 1] <= e THEN 0
                               ELSE IF f[i] >= e THEN f[i + 1] - f[i] ELSE f[i + 1] - e
          BY <4>1 DEF Open, e
        <5> QED
          BY <1>9, <4>1, <5>1, <5>2, <5>3, SMTT(30)
    <3> QED
      BY <1>1, <1>14, <3>1 DEF Moved, N
  <2>2. \A i \in 1 .. N - 1 : moved'[Queue'[i]] + Open(g, i)' = offset'[Queue'[i]]
    BY <1>3, <2>1
  <2> QED
    BY <1>5, <2>2 DEF Moved
<1> QED
  BY <1>5, <1>12, <1>13, <1>15, <1>16 DEF Spread

\* req_update_pend(): a part of the first request is charged.
LEMMA ChargeSpread ==
  ASSUME DataInv, WbCharge
  PROVE  Spread'
<1> DEFINE r == Head(pendList)
           N == Len(Queue)
           L == Len(pendList)
<1>1. PICK f \in [0 .. N -> Nat] : Counts(f) /\ Owners(f) /\ Moved(f)
  BY DEF DataInv, Spread
<1>2. /\ RingInv /\ TypeOK /\ Held /\ ListInv
      /\ workList \in Seq(Reqs) /\ pendList \in Seq(Reqs) /\ cidx \in Slots
      /\ descNr \in [Reqs -> Nat] /\ cr \in Nat
  BY DEF DataInv, RingInv, TypeOK
<1>3. /\ pendList # <<>> /\ cr > 0 /\ ~(cr >= descNr[r]) /\ cr' = 0
      /\ descNr' = [descNr EXCEPT ![r] = @ - cr]
      /\ thread["writeback"] = "credit"
      /\ UNCHANGED <<workList, pendList, lock, credit, cidx, pidx, hwCidx, desc, offset, moved>>
  BY DEF WbCharge, WbMore, Covers, ring, hardware, lists
<1>4. /\ r \in Reqs /\ L \in Nat \ {0} /\ N \in Nat /\ L <= N /\ Queue[1] = r /\ 1 \in 1 .. N
      /\ \A i \in 1 .. N : Queue[i] \in Reqs /\ (Queue[i] = r => i = 1)
  <2>1. r \in Reqs /\ r = pendList[1] /\ L \in Nat \ {0}
    BY <1>2, <1>3, ListTail
  <2>2. /\ N = L + Len(workList) /\ Len(workList) \in Nat
        /\ \A i \in 1 .. N : Queue[i] = IF i <= L THEN pendList[i] ELSE workList[i - L]
    BY <1>2, QueueElements
  <2>3. /\ \A i \in 1 .. N : Queue[i] \in Reqs
        /\ \A i, j \in 1 .. N : Queue[i] = Queue[j] => i = j
    BY <1>2, QueueOnce
  <2> HIDE DEF r, N, L
  <2>4. 1 \in 1 .. N /\ 1 <= L /\ N \in Nat /\ L <= N
    BY <2>1, <2>2
  <2>5. Queue[1] = r
    BY <2>1, <2>2, <2>4
  <2> QED
    BY <2>1, <2>3, <2>4, <2>5
<1> HIDE DEF r
<1>5. Queue' = Queue /\ Taken' = 0 /\ Taken = cr /\ InRing' = InRing /\ Executed' = Executed
  <2>1. lock = "writeback"
    BY <1>2, <1>3 DEF Held
  <2> QED
    BY <1>3, <2>1 DEF Taken, InRing, Executed, Queue
<1>6. Taken \in Nat /\ InRing \in Nat /\ Executed \in Nat
  BY <1>2, Cursors
<1>7. /\ descNr'[r] = descNr[r] - cr /\ descNr[r] \in Nat
      /\ \A x \in Reqs : x # r => descNr'[x] = descNr[x]
      /\ \A x \in Reqs : descNr[x] \in Nat
  BY <1>2, <1>3, <1>4
<1>8. /\ f[0] = 0 /\ \A i \in 0 .. N : i > L \/ i = N => f[i] = cr + InRing
      /\ \A i \in 1 .. N : f[i] = f[i - 1] + descNr[Queue[i]]
      /\ \A i, j \in 0 .. N : i <= j => f[i] <= f[j]
      /\ \A i \in 0 .. N : f[i] \in Nat
  BY <1>1, <1>5 DEF Counts, N, L
<1> HIDE DEF N, L
<1>9. f[1] = descNr[r] /\ \A i \in 1 .. N : f[i] > cr /\ f[i] \in Nat
  <2>1. 1 \in 0 .. N /\ 1 - 1 = 0
    BY <1>4
  <2>2. f[1] = f[1 - 1] + descNr[Queue[1]] /\ \A i \in 1 .. N : f[1] <= f[i] /\ f[i] \in Nat
    BY <1>4, <1>8, <2>1
  <2> QED
    BY <1>2, <1>3, <1>4, <1>7, <1>8, <2>1, <2>2
<1>10. PICK g : g = [i \in 0 .. N |-> IF i = 0 THEN 0 ELSE f[i] - cr]
  OBVIOUS
<1>11. /\ g \in [0 .. N -> Nat] /\ g[0] = 0
       /\ \A i \in 1 .. N : g[i] = f[i] - cr
  <2>1. \A i \in 0 .. N : i # 0 => i \in 1 .. N
    BY <1>4
  <2>2. \A i \in 0 .. N : (IF i = 0 THEN 0 ELSE f[i] - cr) \in Nat
    BY <1>2, <1>9, <2>1
  <2>3. 0 \in 0 .. N /\ \A i \in 1 .. N : i \in 0 .. N /\ i # 0
    BY <1>4
  <2> QED
    BY <1>10, <2>2, <2>3
<1>12. Counts(g)'
  <2>1. \A i \in 0 .. N : i > L \/ i = N => g[i] = 0 + InRing
    <3> SUFFICES ASSUME NEW i \in 0 .. N, i > L \/ i = N PROVE g[i] = 0 + InRing
      OBVIOUS
    <3>1. i \in 1 .. N
      BY <1>4
    <3> QED
      BY <1>2, <1>6, <1>8, <1>11, <3>1
  <2>2. ASSUME NEW i \in 1 .. N PROVE g[i] = g[i - 1] + descNr'[Queue[i]]
    <3>1. CASE i = 1
      BY <1>2, <1>4, <1>7, <1>9, <1>11, <3>1
    <3>2. CASE i # 1
      <4>1. i - 1 \in 1 .. N
        BY <1>4, <3>2
      <4>2. descNr'[Queue[i]] = descNr[Queue[i]] /\ descNr[Queue[i]] \in Nat
        BY <1>4, <1>7, <3>2
      <4>3. f[i] = f[i - 1] + descNr[Queue[i]] /\ f[i - 1] \in Nat
        BY <1>8, <1>9, <4>1
      <4> QED
        BY <1>2, <1>11, <4>1, <4>2, <4>3
    <3> QED
      BY <3>1, <3>2
  <2>3. ASSUME NEW i \in 0 .. N, NEW j \in 0 .. N, i <= j PROVE g[i] <= g[j]
    <3>1. CASE i = 0
      BY <1>11, <3>1
    <3>2. CASE i # 0
      <4>1. i \in 1 .. N /\ j \in 1 .. N
        BY <1>4, <2>3, <3>2
      <4> QED
        BY <1>2, <1>8, <1>9, <1>11, <2>3, <4>1
    <3> QED
      BY <3>1, <3>2
  <2> QED
    BY <1>3, <1>5, <1>11, <2>1, <2>2, <2>3 DEF Counts, N, L
<1>13. Owners(g)'
  <2>1. ASSUME NEW s \in Slots, NEW i \in 1 .. N, RingDelta(s, cidx) < InRing,
               g[i - 1] <= 0 + RingDelta(s, cidx), 0 + RingDelta(s, cidx) < g[i]
        PROVE  desc[s] = Queue[i]
    <3>1. RingDelta(s, cidx) \in Nat
      BY <1>2, DeltaRange
    <3>2. Taken + RingDelta(s, cidx) < f[i]
      BY <1>2, <1>5, <1>9, <1>11, <2>1, <3>1
    <3>3. f[i - 1] <= Taken + RingDelta(s, cidx)
      <4>1. CASE i = 1
        BY <1>6, <1>8, <3>1, <4>1
      <4>2. CASE i # 1
        <5>1. i - 1 \in 1 .. N
          BY <1>4, <4>2
        <5> QED
          BY <1>2, <1>5, <1>9, <1>11, <2>1, <3>1, <5>1
      <4> QED
        BY <4>1, <4>2
    <3> QED
      BY <1>1, <2>1, <3>2, <3>3 DEF Owners, N
  <2> QED
    BY <1>3, <1>5, <2>1 DEF Owners, N
<1>14. Moved(g)'
  <2>1. ASSUME NEW i \in 1 .. N PROVE Open(g, i)' = Open(f, i)
    <3>1. CASE i = 1
      <4>1. g[i - 1] = 0 /\ f[i - 1] = 0 /\ g[i] = f[i] - cr /\ f[i] \in Nat
        BY <1>8, <1>9, <1>11, <3>1
      <4> QED
        BY <1>2, <1>3, <1>5, <1>6, <4>1 DEF Open
    <3>2. CASE i # 1
      <4>1. i - 1 \in 1 .. N
        BY <1>4, <3>2
      <4>2. g[i - 1] = f[i - 1] - cr /\ g[i] = f[i] - cr /\ f[i] \in Nat /\ f[i - 1] \in Nat
        BY <1>9, <1>11, <4>1
      <4> QED
        BY <1>2, <1>5, <1>6, <4>2 DEF Open
    <3> QED
      BY <3>1, <3>2
  <2>2. \A i \in 1 .. N : moved'[Queue[i]] + Open(g, i)' = offset'[Queue[i]]
    BY <1>1, <1>3, <2>1 DEF Moved, N
  <2> QED
    BY <1>5, <2>2 DEF Moved, N
<1> QED
  BY <1>5, <1>11, <1>12, <1>13, <1>14 DEF Spread, N

\* Every step keeps the descriptors where they belong.
LEMMA SpreadKept ==
  ASSUME Impatient = {}, DataInv, [Next]_vars
  PROVE  Spread'
<1> USE DEF lists, ring, cbs, hardware, threads
<1>0. Impatient = {} /\ DataInv /\ RingInv /\ TypeOK /\ Held /\ Spread /\ Kept
  BY DEF DataInv, RingInv
<1>1. ASSUME NEW r \in Reqs, Submit(r) PROVE Spread'
  BY <1>0, <1>1, SubmitSpread
<1>2. ASSUME NEW r \in Reqs, Kick(r) PROVE Spread'
  <2>1. /\ UNCHANGED <<workList, pendList, cidx, desc, offset, descNr, moved, pidx, hwCidx>>
        /\ Taken' = Taken
    BY <1>0, <1>2 DEF TypeOK, Held, Kept, Taken, Kick, Wakeup
  <2> QED
    BY <1>0, <2>1, SpreadFrame DEF InRing, Executed
<1>3. ASSUME NEW r \in Reqs, WaitOver(r) PROVE Spread'
  <2>1. /\ UNCHANGED <<workList, pendList, cidx, desc, offset, descNr, moved, pidx, hwCidx>>
        /\ Taken' = Taken
    BY <1>0, <1>3 DEF TypeOK, Held, Kept, Taken, WaitOver
  <2> QED
    BY <1>0, <2>1, SpreadFrame DEF InRing, Executed
<1>4. ASSUME NEW r \in Reqs, Recheck(r) PROVE Spread'
  <2>1. /\ UNCHANGED <<workList, pendList, cidx, desc, offset, descNr, moved, pidx, hwCidx>>
        /\ Taken' = Taken
    BY <1>0, <1>4 DEF TypeOK, Held, Kept, Taken, Recheck
  <2> QED
    BY <1>0, <2>1, SpreadFrame DEF InRing, Executed
<1>5. ASSUME NEW r \in Reqs, Unmap(r) PROVE Spread'
  <2>1. /\ UNCHANGED <<workList, pendList, cidx, desc, offset, descNr, moved, pidx, hwCidx>>
        /\ Taken' = Taken
    BY <1>0, <1>5 DEF TypeOK, Held, Kept, Taken, Unmap
  <2> QED
    BY <1>0, <2>1, SpreadFrame DEF InRing, Executed
<1>6. ASSUME NEW t \in Threads, ThreadStep(t) PROVE Spread'
  <2>1. /\ UNCHANGED <<workList, pendList, cidx, desc, offset, descNr, moved, pidx, hwCidx>>
        /\ Taken' = Taken
    BY <1>0, <1>6
    DEF TypeOK, Held, Kept, Taken, ThreadStep, PrepareSleep, CheckWork, Resume,
        SleepTimeout, Goto, Wakeup, Threads
  <2> QED
    BY <1>0, <2>1, SpreadFrame DEF InRing, Executed
<1>7. ASSUME WrkLock PROVE Spread'
  <2>1. /\ UNCHANGED <<workList, pendList, cidx, desc, offset, descNr, moved, pidx, hwCidx>>
        /\ Taken' = Taken
    BY <1>0, <1>7 DEF TypeOK, Held, Kept, Taken, WrkLock, Goto, Wakeup
  <2> QED
    BY <1>0, <2>1, SpreadFrame DEF InRing, Executed
<1>8. ASSUME WrkPost PROVE Spread'
  BY <1>0, <1>8, PostSpread
<1>9. ASSUME WrkReject PROVE Spread'
  BY <1>0, <1>9, RejectSpread
<1>10. ASSUME WrkUnlock PROVE Spread'
  <2>1. /\ UNCHANGED <<workList, pendList, cidx, desc, offset, descNr, moved, pidx, hwCidx>>
        /\ Taken' = Taken
    BY <1>0, <1>10 DEF TypeOK, Held, Kept, Taken, WrkUnlock, Goto
  <2> QED
    BY <1>0, <2>1, SpreadFrame DEF InRing, Executed
<1>11. ASSUME HwExecute \/ HwWriteback PROVE Spread'
  <2>1. CASE HwExecute
    BY <1>0, <2>1, ExecuteSpread
  <2>2. CASE HwWriteback
    <3>1. /\ UNCHANGED <<workList, pendList, cidx, desc, offset, descNr, moved, pidx, hwCidx>>
          /\ Taken' = Taken
      BY <2>2 DEF HwWriteback, Taken
    <3> QED
      BY <1>0, <3>1, SpreadFrame DEF InRing, Executed
  <2> QED
    BY <1>11, <2>1, <2>2
<1>12. ASSUME Interrupt PROVE Spread'
  <2>1. /\ UNCHANGED <<workList, pendList, cidx, desc, offset, descNr, moved, pidx, hwCidx>>
        /\ Taken' = Taken
    BY <1>0, <1>12 DEF TypeOK, Held, Kept, Taken, Interrupt, Goto
  <2> QED
    BY <1>0, <2>1, SpreadFrame DEF InRing, Executed
<1>13. ASSUME WbNothing PROVE Spread'
  <2>1. /\ UNCHANGED <<workList, pendList, cidx, desc, offset, descNr, moved, pidx, hwCidx>>
        /\ Taken' = Taken
    BY <1>0, <1>13 DEF TypeOK, Held, Kept, Taken, WbNothing, Goto, Served, Wakeup
  <2> QED
    BY <1>0, <2>1, SpreadFrame DEF InRing, Executed
<1>14. ASSUME WbTake PROVE Spread'
  BY <1>0, <1>14, TakeSpread
<1>15. ASSUME WbComplete PROVE Spread'
  BY <1>0, <1>15, CompleteSpread
<1>16. ASSUME WbCharge PROVE Spread'
  BY <1>0, <1>16, ChargeSpread
<1>17. ASSUME WbUnlock PROVE Spread'
  <2>1. /\ UNCHANGED <<workList, pendList, cidx, desc, offset, descNr, moved, pidx, hwCidx>>
        /\ Taken' = Taken
    BY <1>0, <1>17 DEF TypeOK, Held, Kept, Taken, WbUnlock, Goto, Served, LeftOver
  <2> QED
    BY <1>0, <2>1, SpreadFrame DEF InRing, Executed
<1>18. ASSUME UNCHANGED vars PROVE Spread'
  <2>1. /\ UNCHANGED <<workList, pendList, cidx, desc, offset, descNr, moved, pidx, hwCidx>>
        /\ Taken' = Taken
    BY <1>0, <1>18 DEF TypeOK, Held, Kept, Taken, vars
  <2> QED
    BY <1>0, <2>1, SpreadFrame DEF InRing, Executed
<1> QED
  BY <1>1, <1>2, <1>3, <1>4, <1>5, <1>6, <1>7, <1>8, <1>9, <1>10, <1>11, <1>12, <1>13,
     <1>14, <1>15, <1>16, <1>17, <1>18
  DEF Next, CallerStep, RequestThread, Writeback

\* The queue is empty at first.
LEMMA InitData == Init => ListInv /\ Held /\ DataInv
<1> SUFFICES ASSUME Init PROVE ListInv /\ Held /\ DataInv
  OBVIOUS
<1>1. RingInv /\ TypeOK
  BY InitRing DEF RingInv
<1>2. Held
  BY DEF Init, Held, Threads
<1>3. /\ workList = <<>> /\ pendList = <<>> /\ lock = "free" /\ credit = 0 /\ pidx = 0 /\ cidx = 0
      /\ \A r \in Reqs : /\ pc[r] = "idle" /\ status[r] = "pending" /\ offset[r] = 0
                         /\ descNr[r] = 0 /\ moved[r] = 0
  BY DEF Init
<1>4. Len(workList) = 0 /\ Len(pendList) = 0
  BY <1>3
<1>5. ListInv
  BY <1>1, <1>3, <1>4 DEF ListInv, Once, OnList, Waiting
<1>6. Filled /\ Rest /\ Kept /\ NoEarlyCompletion
  BY <1>3, <1>4 DEF Filled, Rest, Kept, NoEarlyCompletion, Waiting
<1>7. Spread
  <2>1. Queue = <<>>
    BY <1>3 DEF Queue
  <2>2. Len(Queue) = 0
    BY <2>1
  <2>3. Taken = 0 /\ InRing = 0
    BY <1>3 DEF Taken, InRing, RingDelta
  <2>4. PICK f : f = [i \in 0 .. 0 |-> 0]
    OBVIOUS
  <2>5. f \in [0 .. Len(Queue) -> Nat] /\ \A i \in 0 .. Len(Queue) : f[i] = 0
    BY <2>2, <2>4
  <2>6. ~(\E i : i \in 1 .. Len(Queue))
    BY <2>2
  <2>7. Counts(f)
    BY <2>2, <2>3, <2>5, <2>6 DEF Counts
  <2>8. Owners(f) /\ Moved(f)
    BY <2>6 DEF Owners, Moved
  <2> QED
    BY <2>5, <2>7, <2>8 DEF Spread
<1> QED
  BY <1>1, <1>2, <1>5, <1>6, <1>7 DEF DataInv

\* Without callers that give up, every step keeps DataInv.
LEMMA DataKept ==
  ASSUME Impatient = {}, DataInv, [Next]_vars
  PROVE  DataInv'
<1>1. RingInv /\ TypeOK /\ Held /\ ListInv
  BY DEF DataInv, RingInv
<1> QED
  BY <1>1, NextRing, HeldKept, ListsKept, SpreadKept, FilledKept, RestKept, KeptKept,
     NoEarlyKept
  DEF DataInv

\* RingInv, Held and ListInv always hold, also when callers give up.
LEMMA SpecLists == Spec => [](RingInv /\ Held /\ ListInv)
<1>1. Init => RingInv /\ Held /\ ListInv
  BY InitRing, InitData
<1>2. RingInv /\ Held /\ ListInv /\ [Next]_vars => (RingInv /\ Held /\ ListInv)'
  BY NextRing, HeldKept, ListsKept DEF RingInv
<1> QED
  BY <1>1, <1>2, PTL DEF Spec

\* DataInv always holds when no caller gives up.
LEMMA SpecData == ASSUME Impatient = {} PROVE Spec => []DataInv
<1>1. Init => DataInv
  BY InitData
<1>2. DataInv /\ [Next]_vars => DataInv'
  BY DataKept
<1> QED
  BY <1>1, <1>2, PTL DEF Spec

-----------------------------------------------------------------------------
(* Theorems about the requests.                                            *)

\* The lists hold exactly the requests whose callers still wait for them, also
\* when callers time out at any moment: qdma_request_wait_for_cmpl() never
\* returns to a caller whose request is still on a list.
THEOREM ListsCorrect == Spec => []ListsLive
<1>1. RingInv /\ Held /\ ListInv => ListsLive
  <2> SUFFICES ASSUME ListInv PROVE ListsLive
    OBVIOUS
  <2>1. workList \in Seq(Reqs) /\ pendList \in Seq(Reqs)
    BY DEF ListInv, TypeOK
  <2>2. /\ \A r : OnList(workList \o pendList, r) <=> OnList(workList, r) \/ OnList(pendList, r)
        /\ Once(workList \o pendList)
    BY <2>1, ListConcat DEF ListInv
  <2> QED
    BY <2>2 DEF ListsLive, ListInv, Waiting, Once
<1> QED
  BY <1>1, SpecLists, PTL

\* The invariant of the data: where in the ring the descriptors of each request
\* are, how much of each was moved, and who owns the credit that is left over.
THEOREM DataInvariant == ASSUME Impatient = {} PROVE Spec => []DataInv
BY SpecData

\* Without callers that give up, qdma_sgt_req_done() reports success only for
\* requests whose data was moved: the credit of one is never used for another.
THEOREM CompletionsCorrect == ASSUME Impatient = {} PROVE Spec => []NoEarlyCompletion
<1>1. DataInv => NoEarlyCompletion
  BY DEF DataInv
<1> QED
  BY <1>1, SpecData, PTL

\* Without callers that give up, the hardware only executes descriptors of
\* requests whose buffers are mapped.
THEOREM MappingsCorrect == ASSUME Impatient = {} PROVE Spec => []MappedWhileInRing
<1>1. DataInv => MappedWhileInRing
  <2> SUFFICES ASSUME DataInv, NEW s \in Between(hwCidx, doorbell)
               PROVE  desc[s] \in Reqs /\ mapped[desc[s]]
    BY DEF MappedWhileInRing
  <2>1. /\ RingInv /\ ListInv /\ Kept /\ CursorOrder /\ doorbell = pidx
        /\ s \in Slots /\ hwCidx \in Slots /\ pidx \in Slots /\ cidx \in Slots
        /\ RingDelta(s, hwCidx) < RingDelta(pidx, hwCidx)
    BY DEF DataInv, RingInv, TypeOK, DoorbellRung, Between
  <2>2. PICK f \in [0 .. Len(Queue) -> Nat] : Counts(f) /\ Owners(f)
    BY DEF DataInv, Spread
  <2>3. RingDelta(s, cidx) < InRing
    BY <2>1, RngSzAssumption DEF CursorOrder, InRing, RingDelta, Slots
  <2>4. RingDelta(s, cidx) \in Nat /\ Taken \in Nat /\ InRing \in Nat
    BY <2>1, DeltaRange, Cursors
  <2>5. Taken + RingDelta(s, cidx) \in Nat /\ Taken + RingDelta(s, cidx) < Taken + InRing
    BY <2>3, <2>4
  <2>6. PICK i \in 1 .. Len(Queue) :
          f[i - 1] <= Taken + RingDelta(s, cidx) /\ Taken + RingDelta(s, cidx) < f[i]
    BY <2>1, <2>2, <2>5, RequestAt
  <2>7. desc[s] = Queue[i]
    BY <2>1, <2>2, <2>3, <2>6 DEF Owners
  <2> QED
    BY <2>1, <2>7, QueueOnce DEF Kept
<1> QED
  BY <1>1, SpecData, PTL

\* Without callers that give up, credit that descq_wb_credit() keeps for later
\* belongs to the oldest request and does not cover it yet.
THEOREM CreditCorrect == ASSUME Impatient = {} PROVE Spec => []NoStrayCredit
<1>1. DataInv => NoStrayCredit
  <2> SUFFICES ASSUME DataInv, lock = "free", credit > 0
               PROVE  \/ pendList # <<>> /\ credit < descNr[Head(pendList)]
                      \/ pendList = <<>> /\ workList # <<>> /\ credit <= descNr[Head(workList)]
    BY DEF NoStrayCredit
  <2>1. pendList = <<>> /\ workList = <<>> => credit = 0
    BY FirstRequest DEF Taken
  <2> QED
    BY <2>1 DEF DataInv, Rest
<1> QED
  BY <1>1, SpecData, PTL

-----------------------------------------------------------------------------
(* The queue implements DmaService.                                        *)

\* A step that changes neither the lists nor the data nor the results is none of
\* the service.
LEMMA ServiceStutter ==
  ASSUME UNCHANGED <<workList, pendList, moved, status>>
  PROVE  UNCHANGED Service!vars
BY DEF Service!vars

\* qdma_request_submit() is Submit.
LEMMA ServiceSubmit ==
  ASSUME DataInv, NEW r \in Reqs, Submit(r)
  PROVE  Service!Submit(r)
<1>1. /\ workList \in Seq(Reqs) /\ pendList \in Seq(Reqs) /\ ListInv
      /\ workList' = Append(workList, r) /\ pendList' = pendList /\ pc[r] = "idle"
      /\ UNCHANGED <<moved, status>>
  BY DEF DataInv, RingInv, TypeOK, Submit, Enqueue, hardware
<1>2. status[r] = "pending" /\ ~Waiting(r)
  BY <1>1 DEF ListInv, Waiting
<1>3. ~OnList(pendList \o workList, r)
  BY <1>1, <1>2, ListConcat DEF ListInv
<1>4. (pendList \o workList)' = Append(pendList \o workList, r)
  BY <1>1, QueueAppend
<1> QED
  BY <1>1, <1>2, <1>3, <1>4 DEF Service!Submit, Service!Queued, OnList

\* A request that moves from one list to the other keeps its place.
LEMMA ServicePost ==
  ASSUME DataInv, WrkPost
  PROVE  UNCHANGED Service!vars
<1>1. /\ workList \in Seq(Reqs) /\ pendList \in Seq(Reqs) /\ workList # <<>>
      /\ UNCHANGED <<moved, status>>
      /\ \/ UNCHANGED <<workList, pendList>>
         \/ workList' = Tail(workList) /\ pendList' = Append(pendList, Head(workList))
  BY DEF DataInv, RingInv, TypeOK, WrkPost, WrkMore, Enqueue, lists
<1>2. (pendList \o workList)' = pendList \o workList
  BY <1>1, QueueShift
<1> QED
  BY <1>1, <1>2 DEF Service!vars

\* A request without data is rejected out of the middle of the queue.
LEMMA ServiceReject ==
  ASSUME DataInv, WrkReject
  PROVE  \E i \in DOMAIN (pendList \o workList) : Service!Reject(i)
<1> DEFINE i == Len(pendList) + 1
           r == Head(workList)
<1>1. /\ workList \in Seq(Reqs) /\ pendList \in Seq(Reqs) /\ Filled
      /\ offset \in [Reqs -> Nat] /\ avail \in Nat
      /\ workList # <<>> /\ workList' = Tail(workList) /\ pendList' = pendList /\ moved' = moved
      /\ PostCount(r) = 0 /\ avail > 0 /\ status' = [status EXCEPT ![r] = "error"]
  BY DEF DataInv, RingInv, TypeOK, WrkReject, WrkMore, ReqDone, hardware
<1>2. r \in Reqs /\ r = workList[1] /\ Len(workList) \in Nat \ {0} /\ Len(pendList) \in Nat
  BY <1>1, ListTail, LenProperties
<1>3. /\ i \in DOMAIN (pendList \o workList) /\ (pendList \o workList)[i] = r
      /\ i - 1 = Len(pendList) /\ i + 1 = Len(pendList) + 2
  <2>1. /\ pendList \o workList \in Seq(Reqs)
        /\ Len(pendList \o workList) = Len(pendList) + Len(workList)
        /\ \A j \in 1 .. Len(pendList) + Len(workList) :
             (pendList \o workList)[j] =
               IF j <= Len(pendList) THEN pendList[j] ELSE workList[j - Len(pendList)]
    BY <1>1, ConcatProperties
  <2> HIDE DEF r
  <2>2. i \in 1 .. Len(pendList) + Len(workList) /\ ~(i <= Len(pendList)) /\ i - Len(pendList) = 1
    BY <1>2
  <2>3. DOMAIN (pendList \o workList) = 1 .. Len(pendList) + Len(workList)
    BY <2>1, ListElements
  <2> QED
    BY <1>2, <2>1, <2>2, <2>3
<1>4. NDesc[r] = 0
  <2>1. offset[r] \in Nat /\ NDesc[r] \in Nat /\ 1 \in 1 .. Len(workList)
    BY <1>1, <1>2, NDescAssumption
  <2>2. ~(offset[r] < NDesc[r])
    BY <1>1, <2>1 DEF PostCount
  <2> HIDE DEF r
  <2> QED
    BY <1>1, <1>2, <2>1, <2>2 DEF Filled
<1>5. (pendList \o workList)'
        = SubSeq(pendList \o workList, 1, i - 1)
          \o SubSeq(pendList \o workList, i + 1, Len(pendList \o workList))
  BY <1>1, <1>3, QueueCut
<1> QED
  BY <1>1, <1>3, <1>4, <1>5 DEF Service!Reject

\* The hardware moves the data of a request when that of all earlier ones was.
LEMMA ServiceMove ==
  ASSUME DataInv, HwExecute
  PROVE  \E i \in DOMAIN (pendList \o workList) : Service!Move(i)
<1>1. PICK f \in [0 .. Len(Queue) -> Nat] : Counts(f) /\ Owners(f) /\ Moved(f)
  BY DEF DataInv, Spread
<1>2. /\ hwCidx # doorbell /\ moved' = [moved EXCEPT ![desc[hwCidx]] = @ + 1]
      /\ UNCHANGED <<workList, pendList, status>>
      /\ workList \in Seq(Reqs) /\ pendList \in Seq(Reqs)
      /\ moved \in [Reqs -> Nat] /\ offset \in [Reqs -> Nat] /\ Filled /\ RingInv
  BY DEF HwExecute, lists, cbs, DataInv, RingInv, TypeOK
<1>3. PICK i \in 1 .. Len(Queue) :
        f[i - 1] <= Taken + Executed /\ Taken + Executed < f[i] /\ desc[hwCidx] = Queue[i]
  BY <1>1, <1>2, Executes
<1>4. /\ Taken \in Nat /\ Executed \in Nat /\ InRing \in Nat /\ Executed <= InRing
      /\ Executed < InRing
  BY <1>2, Cursors
<1>5. /\ Len(Queue) = Len(pendList) + Len(workList) /\ Len(pendList) \in Nat /\ Len(workList) \in Nat
      /\ \A j \in 1 .. Len(Queue) :
           /\ Queue[j] = IF j <= Len(pendList) THEN pendList[j] ELSE workList[j - Len(pendList)]
           /\ Queue[j] \in Reqs
      /\ DOMAIN Queue = 1 .. Len(Queue)
  BY <1>2, QueueElements, ListElements
<1>6. i <= Len(pendList) + 1
  <2>1. SUFFICES ASSUME i > Len(pendList) + 1 PROVE FALSE
    BY <1>5
  <2>2. i - 1 \in 0 .. Len(Queue) /\ i - 1 > Len(pendList)
    BY <1>5, <2>1
  <2>3. f[i - 1] = Taken + InRing
    BY <1>1, <2>2 DEF Counts
  <2> QED
    BY <1>3, <1>4, <2>3
<1>7. ASSUME NEW j \in 1 .. i - 1 PROVE moved[Queue[j]] = NDesc[Queue[j]]
  <2>1. /\ j \in 1 .. Len(Queue) /\ j \in 0 .. Len(Queue) /\ i - 1 \in 0 .. Len(Queue)
        /\ j <= i - 1 /\ j \in 1 .. Len(pendList)
    BY <1>5, <1>6
  <2>2. f[j] <= f[i - 1] /\ f[j] \in Nat /\ f[i - 1] \in Nat
    BY <1>1, <2>1 DEF Counts
  <2>3. f[j] <= Taken + Executed
    BY <1>3, <1>4, <2>2
  <2>4. moved[Queue[j]] + 0 = offset[Queue[j]]
    BY <1>1, <2>1, <2>3 DEF Moved, Open
  <2>5. Queue[j] = pendList[j] /\ moved[Queue[j]] \in Nat
    BY <1>2, <1>5, <2>1
  <2>6. offset[pendList[j]] = NDesc[pendList[j]]
    BY <1>2, <2>1 DEF Filled
  <2> QED
    BY <2>4, <2>5, <2>6
<1>8. moved[Queue[i]] < NDesc[Queue[i]]
  <2>1. f[i] \in Nat /\ f[i - 1] \in Nat
    <3>1. i \in 0 .. Len(Queue) /\ i - 1 \in 0 .. Len(Queue)
      BY <1>5
    <3> QED
      BY <1>1, <3>1
  <2>2. moved[Queue[i]] + Open(f, i) = offset[Queue[i]] /\ Open(f, i) \in Nat /\ Open(f, i) > 0
    <3>1. Open(f, i) \in Nat /\ Open(f, i) > 0
      BY <1>3, <1>4, <2>1 DEF Open
    <3> QED
      BY <1>1, <3>1 DEF Moved
  <2>3. /\ moved[Queue[i]] \in Nat /\ offset[Queue[i]] \in Nat /\ NDesc[Queue[i]] \in Nat
    BY <1>2, <1>5, NDescAssumption
  <2>4. moved[Queue[i]] < offset[Queue[i]]
    BY <2>2, <2>3
  <2>5. offset[Queue[i]] <= NDesc[Queue[i]]
    <3>1. CASE i <= Len(pendList)
      <4>1. i \in 1 .. Len(pendList) /\ Queue[i] = pendList[i]
        BY <1>5, <3>1
      <4> QED
        BY <1>2, <2>3, <4>1 DEF Filled
    <3>2. CASE ~(i <= Len(pendList))
      <4>1. i - Len(pendList) \in 1 .. Len(workList) /\ Queue[i] = workList[i - Len(pendList)]
        BY <1>5, <3>2
      <4>2. offset[Queue[i]] < NDesc[Queue[i]] \/ (NDesc[Queue[i]] = 0 /\ offset[Queue[i]] = 0)
        BY <1>2, <4>1 DEF Filled
      <4> QED
        BY <2>3, <4>2
    <3> QED
      BY <3>1, <3>2
  <2> QED
    BY <2>3, <2>4, <2>5
<1>9. Service!Move(i)
  <2>1. (pendList \o workList)' = pendList \o workList /\ Queue = pendList \o workList
    BY <1>2 DEF Queue
  <2>2. moved' = [moved EXCEPT ![Queue[i]] = @ + 1]
    BY <1>2, <1>3
  <2> QED
    BY <1>2, <1>7, <1>8, <2>1, <2>2 DEF Service!Move
<1> QED
  BY <1>5, <1>9 DEF Queue

\* req_update_pend() completes the oldest request, and it was moved.
LEMMA ServiceComplete ==
  ASSUME DataInv, WbComplete
  PROVE  Service!Complete
<1> DEFINE r == Head(pendList)
<1>1. /\ workList \in Seq(Reqs) /\ pendList \in Seq(Reqs) /\ Filled /\ Held
      /\ pendList # <<>> /\ pendList' = Tail(pendList) /\ workList' = workList /\ moved' = moved
      /\ status' = [status EXCEPT ![r] = "ok"] /\ cr >= descNr[r] /\ thread["writeback"] = "credit"
      /\ cr \in Nat /\ descNr \in [Reqs -> Nat]
  BY DEF DataInv, RingInv, TypeOK, WbComplete, WbMore, Covers, ReqDone, hardware
<1>2. r \in Reqs /\ r = pendList[1] /\ 1 \in 1 .. Len(pendList)
  BY <1>1, ListTail
<1>3. moved[r] = NDesc[r]
  <2>1. Taken = cr /\ descNr[r] \in Nat
    BY <1>1, <1>2 DEF Held, Taken
  <2> QED
    BY <1>1, <2>1, FirstRequest
<1>4. NDesc[r] > 0
  BY <1>1, <1>2 DEF Filled
<1>5. /\ pendList \o workList # <<>> /\ Head(pendList \o workList) = r
      /\ (pendList \o workList)' = Tail(pendList \o workList)
  BY <1>1, QueueTail
<1> QED
  BY <1>1, <1>3, <1>4, <1>5 DEF Service!Complete

\* Every step is one of the service or none.
LEMMA ServiceStep ==
  ASSUME Impatient = {}, DataInv, [Next]_vars
  PROVE  [Service!Next]_(Service!vars)
<1>1. ASSUME NEW r \in Reqs, Submit(r) PROVE Service!Next
  BY <1>1, ServiceSubmit DEF Service!Next
<1>2. CASE WrkReject \/ HwExecute
  BY <1>2, ServiceReject, ServiceMove DEF Service!Next
<1>3. CASE WbComplete
  BY <1>3, ServiceComplete DEF Service!Next
<1>4. CASE WrkPost
  BY <1>4, ServicePost
<1>5. ASSUME NEW r \in Reqs, CallerStep(r) PROVE UNCHANGED Service!vars
  <2>1. Kept
    BY DEF DataInv
  <2>2. UNCHANGED <<workList, pendList, moved, status>>
    BY <1>5, <2>1 DEF CallerStep, Kick, WaitOver, Recheck, Unmap, Kept, lists, cbs, hardware
  <2> QED
    BY <2>2, ServiceStutter
<1>6. CASE \/ \E t \in Threads : ThreadStep(t)
           \/ WrkLock \/ WrkUnlock \/ HwWriteback \/ Interrupt
           \/ WbNothing \/ WbTake \/ WbCharge \/ WbUnlock \/ UNCHANGED vars
  <2>1. UNCHANGED <<workList, pendList, moved, status>>
    BY <1>6 DEF ThreadStep, PrepareSleep, CheckWork, Resume, SleepTimeout, WrkLock, WrkUnlock,
       HwWriteback, Interrupt, WbNothing, WbTake, WbCharge, WbUnlock, lists, cbs, hardware, vars
  <2> QED
    BY <2>1, ServiceStutter
<1> QED
  BY <1>1, <1>2, <1>3, <1>4, <1>5, <1>6 DEF Next, RequestThread, Writeback

\* Without callers that give up, the queue keeps the promise of DmaService:
\* requests are moved and completed in the order of qdma_request_submit().
THEOREM ServiceRefined == ASSUME Impatient = {} PROVE Spec => ImplementsService
<1>1. Init => Service!Init
  <2> SUFFICES ASSUME Init PROVE Service!Init
    OBVIOUS
  <2>1. workList = <<>> /\ pendList = <<>>
    BY DEF Init
  <2>2. pendList \o workList = <<>>
    BY <2>1
  <2> QED
    BY <2>2 DEF Init, Service!Init
<1>2. DataInv /\ [Next]_vars => [Service!Next]_(Service!vars)
  BY ServiceStep
<1> QED
  BY <1>1, <1>2, SpecData, PTL DEF Spec, ImplementsService, Service!Spec
=============================================================================
