------------------------------ MODULE QueueLife ------------------------------
(***************************************************************************)
(* The life of the queues of one function: added, started, stopped and     *)
(* deleted over netlink, which handles one request at a time, while the    *)
(* worker threads, the interrupt work and callers of the character device  *)
(* use the queues that run.                                                *)
(*                                                                         *)
(* A queue is named <<dir, idx>>; the two queues of an index are a pair    *)
(* with one character device. Each started queue is on the work list of    *)
(* one request thread, and of one writeback thread when it is polled.      *)
(* Data transfer is reduced to one request at a time that is on work_list, *)
(* then in the ring, then completed. A caller uses a queue that was started *)
(* and not yet stopped, and waits; a queue is stopped when nobody uses it  *)
(* (docs/README: a queue is ready for reads and writes after the start).   *)
(***************************************************************************)
EXTENDS Integers, FiniteSets

CONSTANTS
  QMax,      \* qdev->qmax, indices of queues
  Vectors,   \* interrupt vectors for data, dvec_start_idx and up
  PrepFails, \* a virtual function, whose request for its queue range may
             \* fail when the first queue is added
  Users,     \* the queues callers submit requests to
  MaxIrq,    \* bound on the counts of the vectors, which every start raises
  None

ASSUME SizeAssumption == QMax \in Nat \ {0} /\ Vectors \subseteq Nat \ {0} /\ Vectors # {}
ASSUME UsersAssumption == Users \subseteq {"h2c", "c2h"} \X (0 .. QMax - 1)
ASSUME UseAssumption  == PrepFails \in BOOLEAN /\ MaxIrq \in Nat
ASSUME NoneAssumption == None \notin {"h2c", "c2h"} \X (0 .. QMax - 1)

Dirs    == {"h2c", "c2h"}
Queues  == Dirs \X (0 .. QMax - 1)
Threads == {"request", "writeback"}

VARIABLES
  polled,    \* xdev->num_vecs = 0
  ranged,    \* qdev->init_qrange
  \* struct qdma_descq
  enabled, inited, online,
  st,        \* conf.st: streaming or memory-mapped
  desc,      \* the rings are allocated
  wrkthp,    \* the request thread of the queue is known to callers
  intrId,    \* interrupt vector, 0 before the first start
  \* lists
  onThread,  \* the threads that have the queue on their work_list
  onIntr,    \* the queue is on xdev->intr_list[intrId]
  \* struct qdma_dev, struct xlnx_dma_dev, struct xlnx_pci_dev
  qcnt,      \* h2c_qcnt and c2h_qcnt
  intrCnt,   \* intr_list_cnt of each vector
  cdev,      \* dir_init of the character device of each index, {}: no device
  \* the hardware
  ctx,       \* the queue contexts are valid
  \* who is doing what
  ctl,       \* the netlink request being handled
  visit,     \* the queue a thread works on, with its list locked
  work,      \* descq->work is scheduled
  list,      \* the list the request of the queue is on
  busy,      \* descriptors in the ring, pidx # cidx
  caller     \* the caller of qdma_request_submit()

device  == <<polled, ranged>>
flags   == <<enabled, inited, online>>
counts  == <<qcnt, intrCnt, cdev>>
members == <<wrkthp, onThread, onIntr>>
traffic == <<visit, work, list, busy, caller>>
vars    == <<device, flags, st, desc, intrId, members, counts, ctx, ctl, traffic>>

Dir(q)    == q[1]
Idx(q)    == q[2]
Pair(q)   == <<IF Dir(q) = "h2c" THEN "c2h" ELSE "h2c", Idx(q)>>
Set(f, q, v) == [f EXCEPT ![q] = v]
Idle      == [op |-> "none", q |-> None, at |-> "end"]

\* xpdev_queue_get(): the queue is in the table of the module.
Configured(q) == Dir(q) \in cdev[Idx(q)]

Init ==
  /\ polled \in BOOLEAN
  /\ ranged = FALSE
  /\ enabled = [q \in Queues |-> FALSE] /\ inited = enabled /\ online = enabled
  /\ st = enabled /\ desc = enabled /\ wrkthp = enabled /\ onIntr = enabled
  /\ intrId = [q \in Queues |-> 0]
  /\ onThread = [q \in Queues |-> {}]
  /\ qcnt = [d \in Dirs |-> 0]
  /\ intrCnt = [v \in Vectors |-> 0]
  /\ cdev = [i \in 0 .. QMax - 1 |-> {}]
  /\ ctx = enabled
  /\ ctl = Idle
  /\ visit = [t \in Threads |-> None]
  /\ work = enabled /\ busy = enabled
  /\ list = [q \in Queues |-> "none"]
  /\ caller = [q \in Queues |-> "idle"]

-----------------------------------------------------------------------------
(* xpdev_queue_add() and qdma_queue_add(): nothing happens to a queue that *)
(* was not added yet, so all of it is one step.                            *)

\* Both queues of a pair have the same mode.
PairFits(q, mode) == enabled[Pair(q)] => st[Pair(q)] = mode

\* The queue a request for any free index gets.
FirstFree(d, mode) ==
  {q \in {d} \X (0 .. QMax - 1) :
     LET Free(p) == PairFits(p, mode) /\ ~enabled[p]
     IN  Free(q) /\ \A i \in 0 .. Idx(q) - 1 : ~Free(<<d, i>>)}

Add(q, mode) ==
  /\ ctl = Idle
  /\ qcnt[Dir(q)] < QMax
  /\ PairFits(q, mode) /\ ~enabled[q]
  /\ enabled' = Set(enabled, q, TRUE)
  /\ st' = Set(st, q, mode)
  /\ ranged' = TRUE
  /\ qcnt' = [qcnt EXCEPT ![Dir(q)] = @ + 1]
  /\ cdev' = [cdev EXCEPT ![Idx(q)] = @ \cup {Dir(q)}]
  /\ UNCHANGED <<polled, inited, online, desc, intrId, members, intrCnt, ctx, ctl, traffic>>

AddAny(d, mode) == \E q \in FirstFree(d, mode) : Add(q, mode)

\* Mutant: the queue that could not be added is counted.
RewoundNot(d) == [qcnt EXCEPT ![d] = @ + 1]

\* The queue was counted first, the count goes back.
Rewound(d) == qcnt

\* The queue range cannot be set up: the count goes back, but the queue
\* stays enabled.
AddPrepFails(q, mode) ==
  /\ PrepFails /\ ~ranged
  /\ ctl = Idle
  /\ qcnt[Dir(q)] < QMax
  /\ PairFits(q, mode) /\ ~enabled[q]
  /\ enabled' = Set(enabled, q, TRUE)
  /\ qcnt' = Rewound(Dir(q))
  /\ UNCHANGED <<device, inited, online, st, desc, intrId, members, intrCnt, cdev,
                 ctx, ctl, traffic>>

-----------------------------------------------------------------------------
(* qdma_queue_reconfig() and qdma_queue_start().                           *)

At(op, at)   == ctl.op = op /\ ctl.at = at
Go(at)       == ctl' = [ctl EXCEPT !.at = at]

\* The state was checked, qdma_descq_config_complete() reset the indices.
Start(q) ==
  /\ ctl = Idle
  /\ Configured(q) /\ enabled[q] /\ ~inited[q] /\ ~online[q]
  /\ inited' = Set(inited, q, TRUE)
  /\ busy' = Set(busy, q, FALSE)
  /\ ctl' = [op |-> "start", q |-> q, at |-> "alloc"]
  /\ UNCHANGED <<device, enabled, online, st, desc, intrId, members, counts, ctx, visit,
                 work, list, caller>>

\* desc_alloc_irq(): the first vector with the lowest count.
LeastUsed ==
  CHOOSE v \in Vectors : \A w \in Vectors :
    intrCnt[v] < intrCnt[w] \/ (intrCnt[v] = intrCnt[w] /\ v <= w)

StartAlloc ==
  /\ At("start", "alloc")
  /\ desc' = Set(desc, ctl.q, TRUE)
  /\ IF polled
     THEN UNCHANGED <<intrId, intrCnt>>
     ELSE /\ intrCnt[LeastUsed] < MaxIrq
          /\ intrId' = Set(intrId, ctl.q, LeastUsed)
          /\ intrCnt' = [intrCnt EXCEPT ![LeastUsed] = @ + 1]
  /\ Go("prog")
  /\ UNCHANGED <<device, flags, st, members, qcnt, cdev, ctx, traffic>>

\* Mutant: the queue stays initialised.
UndoneNot(q) == inited

\* A start that failed leaves the queue as it was added.
Undone(q) == Set(inited, q, FALSE)

\* Not enough memory for the rings, or their contexts cannot be programmed:
\* what was allocated is freed, contexts are cleared.
StartFails ==
  /\ At("start", "alloc") \/ At("start", "prog")
  /\ desc' = Set(desc, ctl.q, FALSE)
  /\ inited' = Undone(ctl.q)
  /\ ctl' = Idle
  /\ UNCHANGED <<device, enabled, online, st, intrId, members, counts, ctx, traffic>>

\* Under the queue lock: contexts are programmed, the queue is online.
StartProg ==
  /\ At("start", "prog")
  /\ ctx' = Set(ctx, ctl.q, TRUE)
  /\ online' = Set(online, ctl.q, TRUE)
  /\ Go("request")
  /\ UNCHANGED <<device, enabled, inited, st, desc, intrId, members, counts, traffic>>

\* The threads a queue needs.
Wanted == IF polled THEN Threads ELSE {"request"}

AfterThread(t, last) ==
  IF t = "request" /\ polled THEN "writeback" ELSE last

\* qdma_thread_add_work(): put on the list of a thread, with its lock.
JoinThread(t) ==
  /\ At("start", t)
  /\ visit[t] = None
  /\ onThread' = [onThread EXCEPT ![ctl.q] = @ \cup {t}]
  /\ Go(AfterThread(t, "assign"))
  /\ UNCHANGED <<device, flags, st, desc, intrId, wrkthp, onIntr, counts, ctx, traffic>>

Assign ==
  /\ At("start", "assign")
  /\ wrkthp' = Set(wrkthp, ctl.q, TRUE)
  /\ IF polled THEN ctl' = Idle ELSE Go("intr")
  /\ UNCHANGED <<device, flags, st, desc, intrId, onThread, onIntr, counts, ctx, traffic>>

JoinIntr ==
  /\ At("start", "intr")
  /\ onIntr' = Set(onIntr, ctl.q, TRUE)
  /\ ctl' = Idle
  /\ UNCHANGED <<device, flags, st, desc, intrId, wrkthp, onThread, counts, ctx, traffic>>

-----------------------------------------------------------------------------
(* qdma_queue_stop() of a started queue.                                   *)

\* qdma_thread_remove_work(): callers do not find the threads any more.
Stop(q) ==
  /\ ctl = Idle
  /\ Configured(q) /\ enabled[q] /\ online[q]
  /\ caller[q] = "idle"
  /\ wrkthp' = Set(wrkthp, q, FALSE)
  /\ ctl' = [op |-> "stop", q |-> q, at |-> "request"]
  /\ UNCHANGED <<device, flags, st, desc, intrId, onThread, onIntr, counts, ctx, traffic>>

LeaveThread(t) ==
  /\ At("stop", t)
  /\ visit[t] = None
  /\ onThread' = [onThread EXCEPT ![ctl.q] = @ \ {t}]
  /\ Go(AfterThread(t, IF polled THEN "clear" ELSE "intr"))
  /\ UNCHANGED <<device, flags, st, desc, intrId, wrkthp, onIntr, counts, ctx, traffic>>

LeaveIntr ==
  /\ At("stop", "intr")
  /\ onIntr' = Set(onIntr, ctl.q, FALSE)
  /\ Go("clear")
  /\ UNCHANGED <<device, flags, st, desc, intrId, wrkthp, onThread, counts, ctx, traffic>>

\* Mutant: the contexts are left as they are.
ClearedNot(q) == ctx

\* qdma_descq_context_clear()
Cleared(q) == Set(ctx, q, FALSE)

ClearContext ==
  /\ At("stop", "clear")
  /\ ctx' = Cleared(ctl.q)
  /\ Go("free")
  /\ UNCHANGED <<device, flags, st, desc, intrId, members, counts, traffic>>

FreeRings ==
  /\ At("stop", "free")
  /\ desc' = Set(desc, ctl.q, FALSE)
  /\ Go("flags")
  /\ UNCHANGED <<device, flags, st, intrId, members, counts, ctx, traffic>>

Offline ==
  /\ At("stop", "flags")
  /\ online' = Set(online, ctl.q, FALSE)
  /\ inited' = Set(inited, ctl.q, FALSE)
  /\ ctl' = Idle
  /\ UNCHANGED <<device, enabled, st, desc, intrId, members, counts, ctx, traffic>>

-----------------------------------------------------------------------------
(* xpdev_queue_delete() and qdma_queue_remove() of a stopped queue.        *)

\* desc_free_irq(): intr_id is that of the last start, if there was one since
\* the device was opened.
IrqFreed(q) ==
  IF ~polled /\ intrId[q] \in Vectors /\ intrCnt[intrId[q]] > 0
  THEN [intrCnt EXCEPT ![intrId[q]] = @ - 1]
  ELSE intrCnt

Remove(q) ==
  /\ ctl = Idle
  /\ Configured(q) /\ enabled[q] /\ ~inited[q]
  /\ enabled' = Set(enabled, q, FALSE)
  /\ qcnt' = [qcnt EXCEPT ![Dir(q)] = @ - 1]
  /\ intrCnt' = IrqFreed(q)
  /\ cdev' = [cdev EXCEPT ![Idx(q)] = @ \ {Dir(q)}]
  /\ UNCHANGED <<device, inited, online, st, desc, intrId, members, ctx, ctl, traffic>>

-----------------------------------------------------------------------------
(* Those who use the queues.                                               *)

\* qdma_request_submit(): under the queue lock, the request is put on
\* work_list of a queue that is online, and the caller waits.
Submit(q) ==
  /\ caller[q] = "idle"
  /\ enabled[q] /\ online[q]
  /\ ctl.q # q
  /\ list' = Set(list, q, "work")
  /\ caller' = Set(caller, q, "wait")
  /\ UNCHANGED <<device, flags, st, desc, intrId, members, counts, ctx, ctl, visit, work,
                 busy>>

CallerDone(q) ==
  /\ caller[q] = "wait" /\ list[q] = "none"
  /\ caller' = Set(caller, q, "idle")
  /\ UNCHANGED <<device, flags, st, desc, intrId, members, counts, ctx, ctl, visit, work,
                 list, busy>>

\* xthread_main() takes the lock of its list and goes through it.
Visit(t, q) ==
  /\ visit[t] = None
  /\ t \in onThread[q]
  /\ visit' = [visit EXCEPT ![t] = q]
  /\ UNCHANGED <<device, flags, st, desc, intrId, members, counts, ctx, ctl, work, list,
                 busy, caller>>

\* Descriptors for the request of queue q.
Post(q) ==
  IF list[q] = "work" /\ ~busy[q]
  THEN list' = Set(list, q, "pend") /\ busy' = Set(busy, q, TRUE)
  ELSE UNCHANGED <<list, busy>>

\* A writeback for queue q.
Complete(q) ==
  IF busy[q]
  THEN list' = Set(list, q, "none") /\ busy' = Set(busy, q, FALSE)
  ELSE UNCHANGED <<list, busy>>

Visited(t) ==
  /\ visit[t] # None
  /\ IF t = "request" THEN Post(visit[t]) ELSE Complete(visit[t])
  /\ visit' = [visit EXCEPT ![t] = None]
  /\ UNCHANGED <<device, flags, st, desc, intrId, members, counts, ctx, ctl, work, caller>>

\* data_intr_direct(): work for all queues on the list of the vector.
Interrupt(q) ==
  /\ ~polled /\ busy[q] /\ ctx[q]
  /\ work' = [p \in Queues |-> work[p] \/ (onIntr[p] /\ intrId[p] = intrId[q])]
  /\ UNCHANGED <<device, flags, st, desc, intrId, members, counts, ctx, ctl, visit, list,
                 busy, caller>>

\* intr_work()
IntrWork(q) ==
  /\ work[q]
  /\ work' = Set(work, q, FALSE)
  /\ Complete(q)
  /\ UNCHANGED <<device, flags, st, desc, intrId, members, counts, ctx, ctl, visit, caller>>

-----------------------------------------------------------------------------
Control ==
  \/ StartAlloc \/ StartFails \/ StartProg \/ Assign \/ JoinIntr
  \/ LeaveIntr \/ ClearContext \/ FreeRings \/ Offline
  \/ \E t \in Threads : JoinThread(t) \/ LeaveThread(t)

Use(q) == CallerDone(q) \/ Interrupt(q) \/ IntrWork(q)

Next ==
  \/ \E q \in Queues, mode \in BOOLEAN : Add(q, mode) \/ AddPrepFails(q, mode)
  \/ \E d \in Dirs, mode \in BOOLEAN : AddAny(d, mode)
  \/ \E q \in Queues : Start(q) \/ Stop(q) \/ Remove(q) \/ Use(q)
  \/ \E q \in Users : Submit(q)
  \/ Control
  \/ \E t \in Threads : Visited(t) \/ \E q \in Queues : Visit(t, q)

Spec == Init /\ [][Next]_vars

-----------------------------------------------------------------------------
(* Properties.                                                             *)

\* The types of the variables; the count of a vector, an unsigned number,
\* never goes below zero.
TypeOK ==
  /\ ranged \in BOOLEAN
  /\ polled \in BOOLEAN
  /\ {enabled, inited, online, st, desc, wrkthp, onIntr, ctx, work, busy}
       \subseteq [Queues -> BOOLEAN]
  /\ intrId \in [Queues -> Vectors \cup {0}]
  /\ onThread \in [Queues -> SUBSET Threads]
  /\ qcnt \in [Dirs -> 0 .. QMax] /\ intrCnt \in [Vectors -> 0 .. MaxIrq]
  /\ cdev \in [0 .. QMax - 1 -> SUBSET Dirs]
  /\ ctl \in [op : {"none", "start", "stop"}, q : Queues \cup {None},
               at : {"end", "alloc", "prog", "request", "writeback", "assign", "intr",
                     "clear", "free", "flags"}]
  /\ visit \in [Threads -> Queues \cup {None}]
  /\ list \in [Queues -> {"none", "work", "pend"}]
  /\ caller \in [Queues -> {"idle", "wait"}]

\* The rings are there while anybody may touch them: the hardware through
\* valid contexts, a thread that works on the queue, work that finds
\* descriptors in the ring. Starting and stopping take their steps in the
\* right order.
RingsBacked ==
  \A q \in Queues :
    \/ ctx[q]
    \/ \E t \in Threads : visit[t] = q
    \/ work[q] /\ busy[q]
    => desc[q]

\* Between two requests a queue is started completely or not at all, also
\* after a start that failed half way: flags, rings, contexts, threads and
\* interrupt list agree.
AllOrNothing ==
  ctl = Idle =>
    \A q \in Queues :
      /\ inited[q] = online[q] /\ desc[q] = online[q] /\ ctx[q] = online[q]
      /\ wrkthp[q] = online[q]
      /\ onIntr[q] = (online[q] /\ ~polled)
      /\ onThread[q] = IF online[q] THEN Wanted ELSE {}

\* Both queues of a pair have the same mode.
SamePairMode ==
  \A q \in Queues : enabled[q] /\ enabled[Pair(q)] => st[q] = st[Pair(q)]

\* The counts that limit the queues of each direction count the queues the
\* module knows, which can be deleted again, and those are enabled: a failed
\* add takes its count back. What was added is of one mode for each pair, and
\* the variables have their types.
CountsExact ==
  /\ TypeOK /\ SamePairMode
  /\ \A d \in Dirs :
       /\ qcnt[d] = Cardinality({q \in Queues : Dir(q) = d /\ Configured(q)})
       /\ \A q \in Queues : Configured(q) => enabled[q]
=============================================================================
