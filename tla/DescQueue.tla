------------------------------ MODULE DescQueue ------------------------------
(***************************************************************************)
(* One descriptor queue of libqdma in memory-mapped (MM) or streaming      *)
(* host-to-card (ST H2C) mode, from qdma_request_submit() down to the      *)
(* hardware and back:                                                      *)
(*                                                                         *)
(*   - callers put requests on work_list and block, or pass a callback;    *)
(*   - the request thread turns the requests of work_list into             *)
(*     descriptors, as far as the ring has room, and rings the doorbell;   *)
(*   - the hardware executes descriptors in ring order and now and then    *)
(*     writes its consumer index back to host memory;                      *)
(*   - the writeback thread (polled mode) or the interrupt work (interrupt *)
(*     mode) turns the consumer index into credit and completes requests.  *)
(*                                                                         *)
(* A scatter-gather entry is at most a page, so it takes one descriptor:   *)
(* a request is the number of its entries, and its offset counts entries.  *)
(***************************************************************************)
EXTENDS Integers, Sequences

CONSTANTS
  Reqs,      \* the requests, each submitted at most once
  RngSz,     \* descq->conf.rngsz, the number of slots of the ring
  NDesc,     \* scatter-gather entries of each request (0: an empty MM request)
  Waiters,   \* the requests without fp_done: their callers block
  Impatient, \* the blocking callers that may time out or catch a signal
  None       \* contents of a slot never written

ASSUME ReqsAssumption  == None \notin Reqs
ASSUME RngSzAssumption == RngSz \in Nat /\ RngSz >= 2
ASSUME NDescAssumption == NDesc \in [Reqs -> Nat]
ASSUME CallerAssumption == Impatient \subseteq Waiters /\ Waiters \subseteq Reqs

VARIABLES
  polled,     \* xdev->num_vecs = 0: a thread polls for writebacks
  \* struct qdma_descq, protected by its lock
  lock,       \* who holds descq->lock across several steps
  workList,   \* descq->work_list: not yet completely in the ring
  pendList,   \* descq->pend_list: in the ring, not yet completed
  avail,      \* free descriptors
  pidx,       \* producer index of the driver
  cidx,       \* consumer index of the driver
  credit,     \* completed descriptors not yet charged to a request
  desc,       \* contents of the ring: the request a descriptor moves data of
  \* struct qdma_sgt_req_cb of each request
  offset,     \* entries already turned into descriptors
  descNr,     \* descriptors not yet covered by credit
  status,     \* done and status
  mapped,     \* are the buffers mapped for DMA?
  pc,         \* where the caller of qdma_request_submit() is
  \* the hardware
  doorbell,   \* PIDX register of the queue
  hwCidx,     \* next descriptor to execute
  wbCidx,     \* consumer index last written back to host memory
  irq,        \* an interrupt was raised and not yet served
  moved,      \* entries of each request whose data was moved
  \* the threads
  thread,     \* program counters
  task,       \* task state: runnable or going to sleep
  cr          \* the local variable credit of req_update_pend()

ring     == <<avail, pidx, cidx, desc>>
lists    == <<workList, pendList>>
cbs      == <<offset, descNr, status, mapped>>
hardware == <<doorbell, hwCidx, wbCidx, irq, moved>>
threads  == <<thread, task>>
vars     == <<polled, lock, lists, ring, credit, cbs, pc, hardware, threads, cr>>

Slots   == 0 .. RngSz - 1
Threads == {"request", "writeback"}

-----------------------------------------------------------------------------
(* Ring arithmetic.                                                        *)

\* Slots from old up to new, going round the end of the ring.
RingDelta(new, old) == IF new >= old THEN new - old ELSE new + (RngSz - old)

\* Mutant: the index is not brought back to the start of the ring.
RingIncrNoWrap(idx, cnt) == idx + cnt

\* The slot cnt places after idx, for cnt <= RngSz.
RingIncr(idx, cnt) ==
  IF idx + cnt >= RngSz THEN idx + cnt - RngSz ELSE idx + cnt

\* The slots from the index from up to but not including the index to.
Between(from, to) == {s \in Slots : RingDelta(s, from) < RingDelta(to, from)}

\* Mutant: all slots are used.
UsableSlotsAll == RngSz

\* A full ring would be indistinguishable from an empty one.
UsableSlots == RngSz - 1

\* Mutant: the field next to cidx in the writeback structure is read.
WbIndexWrongField == pidx

\* The consumer index found in host memory.
WbIndex == wbCidx

\* Mutant: the end of the ring is forgotten.
WbCreditNoWrap(hw) == hw - cidx

\* Descriptors completed when the hardware reports consumer index hw.
WbCredit(hw) == IF hw < cidx THEN (RngSz - cidx) + hw ELSE hw - cidx

-----------------------------------------------------------------------------
(* Request lists.                                                          *)

OnList(l, r) == \E i \in DOMAIN l : l[i] = r

\* Mutant: list_add() for list_add_tail().
EnqueueFront(l, r) == <<r>> \o l

\* list_add_tail().
Enqueue(l, r) == Append(l, r)

\* Mutant: the request stays on its list.
UnlinkNot(l, r) == l

\* list_del() of r, a member of l.
Unlink(l, r) ==
  LET i == CHOOSE j \in DOMAIN l : l[j] = r
  IN  SubSeq(l, 1, i - 1) \o SubSeq(l, i + 1, Len(l))

\* qdma_sgt_req_done(): the buffers are unmapped, then the caller is told.
ReqDone(r, result) ==
  /\ mapped' = [mapped EXCEPT ![r] = FALSE]
  /\ status' = [status EXCEPT ![r] = result]

-----------------------------------------------------------------------------
Init ==
  /\ polled \in BOOLEAN
  /\ lock = "free"
  /\ workList = <<>> /\ pendList = <<>>
  /\ avail = UsableSlots /\ pidx = 0 /\ cidx = 0 /\ credit = 0
  /\ desc = [s \in Slots |-> None]
  /\ offset = [r \in Reqs |-> 0]
  /\ descNr = [r \in Reqs |-> 0]
  /\ status = [r \in Reqs |-> "pending"]
  /\ mapped = [r \in Reqs |-> FALSE]
  /\ pc = [r \in Reqs |-> "idle"]
  /\ doorbell = 0 /\ hwCidx = 0 /\ wbCidx = 0 /\ irq = FALSE
  /\ moved = [r \in Reqs |-> 0]
  /\ thread = [t \in Threads |->
                 IF t = "writeback" /\ ~polled THEN "off" ELSE "top"]
  /\ task = [t \in Threads |-> "running"]
  /\ cr = 0

-----------------------------------------------------------------------------
(* The thread loop xthread_main(): note the intention to sleep, look for   *)
(* work under the queue lock, sleep if there is none, work, start again.   *)

Goto(t, from, to) ==
  /\ thread[t] = from
  /\ thread' = [thread EXCEPT ![t] = to]

\* Mutant: the thread is not woken.
WakeupLost(t) == UNCHANGED task

\* wake_up_process(): a thread that is about to sleep will not.
Wakeup(t) == task' = [task EXCEPT ![t] = "running"]

\* fpending: what each thread looks for.
WorkPending(t) ==
  IF t = "request"
  THEN /\ avail > 0
       /\ \E i \in DOMAIN workList :
            NDesc[workList[i]] = 0 \/ offset[workList[i]] < NDesc[workList[i]]
  ELSE pendList # <<>>

PrepareSleep(t) ==
  /\ Goto(t, "top", "check")
  /\ task' = [task EXCEPT ![t] = "sleeping"]
  /\ UNCHANGED <<polled, lock, lists, ring, credit, cbs, pc, hardware, cr>>

CheckWork(t) ==
  /\ lock = "free"
  /\ Goto(t, "check", IF WorkPending(t) THEN "work" ELSE "sleep")
  /\ UNCHANGED <<polled, lock, lists, ring, credit, cbs, pc, hardware, task, cr>>

\* schedule() returns once the task was made runnable.
Resume(t) ==
  /\ task[t] = "running"
  /\ Goto(t, "sleep", "work")
  /\ UNCHANGED <<polled, lock, lists, ring, credit, cbs, pc, hardware, task, cr>>

\* Mutant: the writeback threads sleep like the request threads.
TimedThreadsNone == {}

\* The threads whose sleep ends by itself: thp->timeout is set.
TimedThreads == {"writeback"}

\* schedule_timeout() returns after thp->timeout seconds.
SleepTimeout(t) ==
  /\ t \in TimedThreads
  /\ Goto(t, "sleep", "work")
  /\ Wakeup(t)
  /\ UNCHANGED <<polled, lock, lists, ring, credit, cbs, pc, hardware, cr>>

-----------------------------------------------------------------------------
(* qdma_request_submit() and qdma_request_wait_for_cmpl().                 *)

Submit(r) ==
  /\ pc[r] = "idle"
  /\ lock = "free"
  /\ workList' = Enqueue(workList, r)
  /\ mapped' = [mapped EXCEPT ![r] = TRUE]
  /\ pc' = [pc EXCEPT ![r] = "kick"]
  /\ UNCHANGED <<polled, lock, pendList, ring, credit, offset, descNr, status,
                 hardware, threads, cr>>

\* After the lock was released: wake the request thread, then block or return.
Kick(r) ==
  /\ pc[r] = "kick"
  /\ Wakeup("request")
  /\ pc' = [pc EXCEPT ![r] = IF r \in Waiters THEN "wait" ELSE "returned"]
  /\ UNCHANGED <<polled, lock, lists, ring, credit, cbs, hardware, thread, cr>>

\* The wait ends: the request is done, or a timeout or a signal came first.
WaitOver(r) ==
  /\ pc[r] = "wait"
  /\ status[r] # "pending" \/ r \in Impatient
  /\ pc' = [pc EXCEPT ![r] = "recheck"]
  /\ UNCHANGED <<polled, lock, lists, ring, credit, cbs, hardware, threads, cr>>

\* Under the lock: a request still not done is taken off its list.
Recheck(r) ==
  /\ pc[r] = "recheck"
  /\ lock = "free"
  /\ IF status[r] = "pending"
     THEN /\ workList' = IF OnList(workList, r) THEN Unlink(workList, r) ELSE workList
          /\ pendList' = IF OnList(pendList, r) THEN Unlink(pendList, r) ELSE pendList
     ELSE UNCHANGED lists
  /\ pc' = [pc EXCEPT ![r] = IF status[r] = "ok" THEN "returned" ELSE "unmap"]
  /\ UNCHANGED <<polled, lock, ring, credit, cbs, hardware, threads, cr>>

\* The error exit: the buffers are unmapped and the caller gets an error.
Unmap(r) ==
  /\ pc[r] = "unmap"
  /\ mapped' = [mapped EXCEPT ![r] = FALSE]
  /\ pc' = [pc EXCEPT ![r] = "returned"]
  /\ UNCHANGED <<polled, lock, lists, ring, credit, offset, descNr, status,
                 hardware, threads, cr>>

-----------------------------------------------------------------------------
(* The request thread: qdma_thread_wrk_proc().                             *)

WrkLock ==
  /\ lock = "free"
  /\ Goto("request", "work", "post")
  /\ lock' = "request"
  /\ Wakeup("request")
  /\ UNCHANGED <<polled, lists, ring, credit, cbs, pc, hardware, cr>>

\* Does the loop over work_list have another request to look at?
WrkMore == workList # <<>> /\ avail > 0

\* How many descriptors a request gets in one go.
PostCount(r) ==
  IF NDesc[r] - offset[r] < avail THEN NDesc[r] - offset[r] ELSE avail

\* Fill the next n slots with descriptors of r; the doorbell comes last.
WriteDescs(r, n) ==
  /\ desc' = [s \in Slots |-> IF RingDelta(s, pidx) < n THEN r ELSE desc[s]]
  /\ pidx' = RingIncr(pidx, n)
  /\ doorbell' = pidx'

\* descq_mm_proc_request() / descq_proc_st_h2c_request() for the first
\* request of work_list; one with all its descriptors in the ring moves on.
WrkPost ==
  LET r == Head(workList)
      n == PostCount(r)
  IN /\ thread["request"] = "post"
     /\ WrkMore
     /\ n > 0
     /\ WriteDescs(r, n)
     /\ avail' = avail - n
     /\ descNr' = [descNr EXCEPT ![r] = @ + n]
     /\ offset' = [offset EXCEPT ![r] = @ + n]
     /\ IF offset[r] + n = NDesc[r]
        THEN workList' = Tail(workList) /\ pendList' = Enqueue(pendList, r)
        ELSE UNCHANGED lists
     /\ IF polled THEN Wakeup("writeback") ELSE UNCHANGED task
     /\ UNCHANGED <<polled, lock, cidx, credit, status, mapped, pc, hwCidx, wbCidx,
                    irq, moved, thread, cr>>

\* An MM request without data yields no descriptor and fails with -EIO.
WrkReject ==
  LET r == Head(workList)
  IN /\ thread["request"] = "post"
     /\ WrkMore
     /\ PostCount(r) = 0
     /\ workList' = Tail(workList)
     /\ ReqDone(r, "error")
     /\ UNCHANGED <<polled, lock, pendList, ring, credit, offset, descNr, pc,
                    hardware, threads, cr>>

WrkUnlock ==
  /\ ~WrkMore
  /\ Goto("request", "post", "top")
  /\ lock' = "free"
  /\ UNCHANGED <<polled, lists, ring, credit, cbs, pc, hardware, task, cr>>

-----------------------------------------------------------------------------
(* The hardware (external): what libqdma relies on.                        *)

HwExecute ==
  /\ hwCidx # doorbell
  /\ moved' = [moved EXCEPT ![desc[hwCidx]] = @ + 1]
  /\ hwCidx' = RingIncr(hwCidx, 1)
  /\ UNCHANGED <<polled, lock, lists, ring, credit, cbs, pc, doorbell, wbCidx, irq,
                 threads, cr>>

HwWriteback ==
  /\ wbCidx # hwCidx
  /\ wbCidx' = hwCidx
  /\ irq' = ~polled
  /\ UNCHANGED <<polled, lock, lists, ring, credit, cbs, pc, doorbell, hwCidx, moved,
                 threads, cr>>

-----------------------------------------------------------------------------
(* Writebacks: qdma_descq_service_wb(), from the thread or the interrupt.  *)

\* In interrupt mode the handler schedules intr_work().
Interrupt ==
  /\ irq
  /\ Goto("writeback", "off", "work")
  /\ irq' = FALSE
  /\ UNCHANGED <<polled, lock, lists, ring, credit, cbs, pc, doorbell, hwCidx, wbCidx,
                 moved, task, cr>>

\* Where the servicing context goes when it is finished.
Served == IF polled THEN "top" ELSE "off"

\* descq_mm_n_h2c_wb(): the queue is empty or there is no new writeback.
WbNothing ==
  /\ lock = "free"
  /\ pidx = cidx \/ WbIndex = cidx
  /\ Goto("writeback", "work", Served)
  /\ Wakeup("writeback")
  /\ UNCHANGED <<polled, lock, lists, ring, credit, cbs, pc, hardware, cr>>

\* descq_mm_n_h2c_wb(): descq_wb_credit(), resume the request thread.
WbTake ==
  LET n == WbCredit(WbIndex)
  IN /\ lock = "free"
     /\ pidx # cidx /\ WbIndex # cidx
     /\ Goto("writeback", "work", "credit")
     /\ lock' = "writeback"
     /\ cidx' = WbIndex
     /\ avail' = avail + n
     /\ cr' = credit + n
     /\ task' = [t \in Threads |->
                   IF t = "writeback" \/ workList # <<>> THEN "running" ELSE task[t]]
     /\ UNCHANGED <<polled, lists, pidx, desc, credit, cbs, pc, hardware>>

\* Does the loop of req_update_pend() have another request to charge?
WbMore == pendList # <<>> /\ cr > 0

\* Mutant: any credit will do.
CoversAlways(r) == TRUE

\* Is every descriptor of the request accounted for?
Covers(r) == cr >= descNr[r]

\* req_update_pend(): the credit covers the first request of pend_list.
WbComplete ==
  LET r == Head(pendList)
  IN /\ thread["writeback"] = "credit"
     /\ WbMore
     /\ Covers(r)
     /\ cr' = cr - descNr[r]
     /\ pendList' = Tail(pendList)
     /\ ReqDone(r, "ok")
     /\ UNCHANGED <<polled, lock, workList, ring, credit, offset, descNr, pc,
                    hardware, threads>>

\* req_update_pend(): it covers only a part of it.
WbCharge ==
  LET r == Head(pendList)
  IN /\ thread["writeback"] = "credit"
     /\ WbMore
     /\ ~Covers(r)
     /\ descNr' = [descNr EXCEPT ![r] = @ - cr]
     /\ cr' = 0
     /\ UNCHANGED <<polled, lock, lists, ring, credit, offset, status, mapped, pc,
                    hardware, threads>>

\* Mutant: the old remainder is counted again.
LeftOverTwice == credit + cr

\* The credit no request on pend_list can use yet.
LeftOver == cr

\* What is left is kept for later; the doorbell is rung again.
WbUnlock ==
  /\ ~WbMore
  /\ Goto("writeback", "credit", Served)
  /\ lock' = "free"
  /\ credit' = LeftOver
  /\ cr' = 0
  /\ doorbell' = pidx
  /\ UNCHANGED <<polled, lists, ring, cbs, pc, hwCidx, wbCidx, irq, moved, task>>

-----------------------------------------------------------------------------
ThreadStep(t) ==
  PrepareSleep(t) \/ CheckWork(t) \/ Resume(t) \/ SleepTimeout(t)

CallerStep(r) == Kick(r) \/ WaitOver(r) \/ Recheck(r) \/ Unmap(r)

\* What a caller does sooner or later by itself: giving up is not among it, as
\* nothing makes a signal arrive and a request need not have a timeout.
CallerProgress(r) ==
  Kick(r) \/ (status[r] # "pending" /\ WaitOver(r)) \/ Recheck(r) \/ Unmap(r)

RequestThread == WrkLock \/ WrkPost \/ WrkReject \/ WrkUnlock

Writeback == WbNothing \/ WbTake \/ WbComplete \/ WbCharge \/ WbUnlock

Next ==
  \/ \E r \in Reqs : Submit(r) \/ CallerStep(r)
  \/ \E t \in Threads : ThreadStep(t)
  \/ RequestThread
  \/ HwExecute
  \/ HwWriteback
  \/ Interrupt
  \/ Writeback

Spec == Init /\ [][Next]_vars

\* Code that was started runs on, a sleep with a timeout ends, the hardware
\* executes what it was given and reports it. Nobody has to submit anything or
\* to give up waiting.
Fairness ==
  /\ \A r \in Reqs : WF_vars(CallerProgress(r))
  /\ \A t \in Threads : WF_vars(ThreadStep(t))
  /\ WF_vars(RequestThread)
  /\ WF_vars(HwExecute)
  /\ WF_vars(HwWriteback)
  /\ WF_vars(Interrupt)
  /\ WF_vars(Writeback)

FairSpec == Spec /\ Fairness

-----------------------------------------------------------------------------
(* Properties.                                                             *)

TypeOK ==
  /\ polled \in BOOLEAN
  /\ lock \in {"free", "request", "writeback"}
  /\ workList \in Seq(Reqs) /\ pendList \in Seq(Reqs)
  /\ avail \in 0 .. RngSz - 1
  /\ pidx \in Slots /\ cidx \in Slots
  /\ credit \in Nat /\ cr \in Nat
  /\ desc \in [Slots -> Reqs \cup {None}]
  /\ offset \in [Reqs -> Nat] /\ descNr \in [Reqs -> Nat]
  /\ status \in [Reqs -> {"pending", "ok", "error"}]
  /\ mapped \in [Reqs -> BOOLEAN]
  /\ pc \in [Reqs -> {"idle", "kick", "wait", "recheck", "unmap", "returned"}]
  /\ doorbell \in Slots /\ hwCidx \in Slots /\ wbCidx \in Slots
  /\ irq \in BOOLEAN
  /\ moved \in [Reqs -> Nat]
  /\ thread \in [Threads -> {"off", "top", "check", "sleep", "work", "post", "credit"}]
  /\ task \in [Threads -> {"running", "sleeping"}]

\* Every usable slot is either free or between the two indices of the driver,
\* whatever the request thread, the writebacks and aborting callers do, so a
\* non-empty ring never looks empty to descq_mm_n_h2c_wb().
RingAccounting == avail + RingDelta(pidx, cidx) = RngSz - 1

\* Going round the ring from the consumer index of the driver one meets the
\* writeback, the hardware and the doorbell, and then the producer index: a
\* writeback never seems to go backwards, and the credit computed from it
\* never counts a descriptor the hardware has not executed.
CursorOrder ==
  /\ RingDelta(wbCidx, cidx) <= RingDelta(hwCidx, cidx)
  /\ RingDelta(hwCidx, cidx) <= RingDelta(doorbell, cidx)
  /\ RingDelta(doorbell, cidx) <= RingDelta(pidx, cidx)

\* A descriptor given to the hardware keeps its contents until it is executed.
NoOverwrite ==
  [][\A s \in Between(hwCidx, doorbell) : desc'[s] = desc[s]]_vars

\* A request reported as successful has had all its data moved: credit of
\* another request is never charged to it.
NoEarlyCompletion == \A r \in Reqs : status[r] = "ok" => moved[r] = NDesc[r]

\* The hardware never reads or writes memory that was unmapped already.
MappedWhileInRing ==
  \A s \in Between(hwCidx, doorbell) : desc[s] \in Reqs /\ mapped[desc[s]]

\* Between two critical sections, credit is left over only if it belongs to
\* the oldest request, and while that one waits on pend_list the credit does
\* not cover it yet: no request whose descriptors are all accounted for waits
\* for a writeback that may never come.
NoStrayCredit ==
  lock = "free" /\ credit > 0 =>
    \/ pendList # <<>> /\ credit < descNr[Head(pendList)]
    \/ pendList = <<>> /\ workList # <<>> /\ credit <= descNr[Head(workList)]

\* The lists hold exactly the requests that were submitted, are not done and
\* whose callers have not given up, each once: once qdma_request_submit() has
\* returned to a blocking caller, which may free its request, no list of the
\* queue points to it any more.
ListsLive ==
  LET both == workList \o pendList
      Live(r) == /\ status[r] = "pending"
                 /\ \/ pc[r] \in {"kick", "wait", "recheck"}
                    \/ pc[r] = "returned" /\ r \notin Waiters
  IN /\ \A r \in Reqs : OnList(both, r) <=> Live(r)
     /\ \A i, j \in DOMAIN both : both[i] = both[j] => i = j

\* Every request that was submitted is completed in the end, also one that is
\* longer than the ring and waits on work_list while pend_list is empty,
\* unless its caller gave up, which no caller is made to do.
EveryRequestCompletes ==
  \A r \in Reqs : pc[r] # "idle" ~> status[r] # "pending" \/ (r \in Impatient /\ pc[r] = "returned")

\* ... and the caller that waits for it gets to know.
EveryCallerReturns == \A r \in Reqs : pc[r] # "idle" ~> pc[r] = "returned"

\* The queue promises what DmaService says: requests are moved and completed
\* one after the other in the order in which they were submitted.
Service == INSTANCE DmaService WITH queue <- pendList \o workList, result <- status
ImplementsService == Service!Spec
=============================================================================
