--------------------------- MODULE QueueLifeProofs ---------------------------
(***************************************************************************)
(* Proofs about QueueLife for every number of queues, every set of vectors *)
(* and of users, in polled and in interrupt mode.                          *)
(***************************************************************************)
EXTENDS QueueLife, FiniteSetTheorems, WellFoundedInduction, TLAPS

-----------------------------------------------------------------------------
(* Facts about natural numbers.                                            *)

\* A set of natural numbers has a least one: otherwise the intervals from
\* zero to its members would have no minimal one.
LEMMA NatMin ==
  ASSUME NEW T, T \subseteq Nat, T # {}
  PROVE  \E x \in T : \A y \in T : x <= y
<1> DEFINE D == {0 .. n : n \in T}
<1>1. D \subseteq FiniteSubsetsOf(Nat)
  <2> SUFFICES ASSUME NEW n \in T PROVE 0 .. n \in SUBSET Nat /\ IsFiniteSet(0 .. n)
    BY DEF FiniteSubsetsOf
  <2> QED
    BY FS_Interval
<1>2. PICK d \in D : \A e \in D : <<e, d>> \notin StrictSubsetOrdering(Nat)
  <2>1. D # {}
    OBVIOUS
  <2> HIDE DEF D
  <2> QED
    BY <1>1, <2>1, WFMin, FS_StrictSubsetOrderingWellFounded
<1>3. PICK m \in T : d = 0 .. m
  OBVIOUS
<1>4. ASSUME NEW n \in T, n < m PROVE FALSE
  <2>1. 0 .. n \in D
    OBVIOUS
  <2>2. /\ 0 .. n \in SUBSET Nat /\ d \in SUBSET Nat
        /\ 0 .. n \subseteq d /\ m \in d /\ m \notin 0 .. n
    BY <1>3, <1>4
  <2>3. <<0 .. n, d>> \in StrictSubsetOrdering(Nat)
    BY <2>2 DEF StrictSubsetOrdering
  <2> QED
    BY <1>2, <2>1, <2>3
<1> QED
  BY <1>4

-----------------------------------------------------------------------------
(* The inductive invariant of starting and stopping: what a queue has at   *)
(* each step of the request that is handled.                               *)

\* The rings, the contexts, the threads callers find and the interrupt list.
Has(q, rings, contexts, known, listed) ==
  /\ desc[q] <=> rings
  /\ ctx[q] <=> contexts
  /\ wrkthp[q] <=> known
  /\ onIntr[q] <=> listed

\* No request is under way for this queue.
Settled(q) ==
  /\ inited[q] <=> online[q]
  /\ Has(q, online[q], online[q], online[q], online[q] /\ ~polled)
  /\ onThread[q] = IF online[q] THEN Wanted ELSE {}

Starting(q) ==
  /\ inited[q]
  /\ \/ ctl.at = "alloc" /\ ~online[q] /\ Has(q, FALSE, FALSE, FALSE, FALSE) /\ onThread[q] = {}
     \/ ctl.at = "prog" /\ ~online[q] /\ Has(q, TRUE, FALSE, FALSE, FALSE) /\ onThread[q] = {}
     \/ ctl.at = "request" /\ online[q] /\ Has(q, TRUE, TRUE, FALSE, FALSE) /\ onThread[q] = {}
     \/ /\ ctl.at = "writeback" /\ polled /\ online[q]
        /\ Has(q, TRUE, TRUE, FALSE, FALSE) /\ onThread[q] = {"request"}
     \/ ctl.at = "assign" /\ online[q] /\ Has(q, TRUE, TRUE, FALSE, FALSE) /\ onThread[q] = Wanted
     \/ /\ ctl.at = "intr" /\ ~polled /\ online[q]
        /\ Has(q, TRUE, TRUE, TRUE, FALSE) /\ onThread[q] = Wanted

Stopping(q) ==
  /\ inited[q] /\ online[q]
  /\ \/ ctl.at = "request" /\ Has(q, TRUE, TRUE, FALSE, ~polled) /\ onThread[q] = Wanted
     \/ /\ ctl.at = "writeback" /\ polled
        /\ Has(q, TRUE, TRUE, FALSE, FALSE) /\ onThread[q] = {"writeback"}
     \/ ctl.at = "intr" /\ ~polled /\ Has(q, TRUE, TRUE, FALSE, TRUE) /\ onThread[q] = {}
     \/ ctl.at = "clear" /\ Has(q, TRUE, TRUE, FALSE, FALSE) /\ onThread[q] = {}
     \/ ctl.at = "free" /\ Has(q, TRUE, FALSE, FALSE, FALSE) /\ onThread[q] = {}
     \/ ctl.at = "flags" /\ Has(q, FALSE, FALSE, FALSE, FALSE) /\ onThread[q] = {}

\* Every queue is settled but the one of the request.
LifeCycle ==
  /\ ctl = Idle \/ (ctl.op \in {"start", "stop"} /\ ctl.q \in Queues)
  /\ \A q \in Queues :
       IF ctl.q # q THEN Settled(q)
       ELSE IF ctl.op = "start" THEN Starting(q) ELSE Stopping(q)

\* A thread works on a queue of its list, and a request is on a list, or has
\* descriptors in the ring, only while its caller waits, which it does for a
\* queue that is online and of no request.
InUse ==
  /\ \A t \in Threads, q \in Queues : visit[t] = q => t \in onThread[q]
  /\ \A q \in Queues :
       /\ busy[q] <=> list[q] = "pend"
       /\ list[q] # "none" => caller[q] = "wait"
       /\ caller[q] = "wait" => online[q] /\ ctl.q # q

\* Before the queue range is there no queue has a mode.
NoModes == ~ranged => \A q \in Queues : ~st[q]

\* RingsBacked is not inductive alone: that the rings may be freed at one
\* step of a stop needs what the steps before it did, and that nobody enters
\* in between. The counts are part of it because a count that could be zero
\* when a queue is deleted would not even have its type.
LifeInv == CountsExact /\ LifeCycle /\ InUse /\ NoModes

-----------------------------------------------------------------------------
(* Numbers and sets.                                                       *)

\* A queue is its direction and its index.
LEMMA QueueParts ==
  ASSUME NEW q \in Queues
  PROVE  Dir(q) \in Dirs /\ Idx(q) \in 0 .. QMax - 1 /\ q = <<Dir(q), Idx(q)>>
BY DEF Queues, Dir, Idx

\* The two queues of an index are each other's pair.
LEMMA PairIsQueue ==
  ASSUME NEW q \in Queues
  PROVE  /\ Pair(q) \in Queues /\ Pair(q) # q /\ Pair(Pair(q)) = q
BY DEF Queues, Pair, Dir, Idx, Dirs

\* A function has finitely many queues.
LEMMA QueuesFinite == IsFiniteSet(Queues)
<1>1. IsFiniteSet(Dirs)
  <2>1. IsFiniteSet({"h2c"}) /\ Dirs = {"h2c"} \cup {"c2h"}
    BY FS_Singleton DEF Dirs
  <2> QED
    BY <2>1, FS_AddElement
<1>2. IsFiniteSet(0 .. QMax - 1)
  BY FS_Interval, SizeAssumption
<1> QED
  BY <1>1, <1>2, FS_Product DEF Queues

\* desc_alloc_irq() finds a vector: some count is the lowest, and some vector
\* with this count is the first.
LEMMA LeastUsedExists ==
  ASSUME TypeOK
  PROVE  LeastUsed \in Vectors
<1>1. \A v \in Vectors : v \in Nat /\ intrCnt[v] \in Nat
  BY SizeAssumption, UseAssumption DEF TypeOK
<1>2. PICK n \in {intrCnt[v] : v \in Vectors} : \A m \in {intrCnt[v] : v \in Vectors} : n <= m
  <2>1. {intrCnt[v] : v \in Vectors} \subseteq Nat /\ {intrCnt[v] : v \in Vectors} # {}
    BY <1>1, SizeAssumption
  <2> QED
    BY <2>1, NatMin
<1>3. PICK v \in {w \in Vectors : intrCnt[w] = n} : \A w \in {u \in Vectors : intrCnt[u] = n} : v <= w
  <2>1. {w \in Vectors : intrCnt[w] = n} \subseteq Nat /\ {w \in Vectors : intrCnt[w] = n} # {}
    BY <1>1, <1>2
  <2> QED
    BY <2>1, NatMin
<1>4. \A w \in Vectors : intrCnt[v] < intrCnt[w] \/ (intrCnt[v] = intrCnt[w] /\ v <= w)
  BY <1>1, <1>2, <1>3
<1> QED
  BY <1>3, <1>4 DEF LeastUsed

-----------------------------------------------------------------------------
(* The request that is handled.                                            *)

Steps == {"end", "alloc", "prog", "request", "writeback", "assign", "intr", "clear", "free",
          "flags"}

Requests == [op : {"none", "start", "stop"}, q : Queues \cup {None}, at : Steps]

\* What is known of the record that stands for no request.
LEMMA IdleRequest ==
  Idle \in Requests /\ Idle.op = "none" /\ Idle.q = None /\ Idle.at = "end"
BY DEF Idle, Requests, Steps

\* The request goes on with another step.
LEMMA GoRequest ==
  ASSUME TypeOK, NEW a \in Steps, Go(a)
  PROVE  ctl' \in Requests /\ ctl'.op = ctl.op /\ ctl'.q = ctl.q /\ ctl'.at = a
BY DEF TypeOK, Go, Requests, Steps

\* A request that is under way is one for a queue.
LEMMA RequestQueue ==
  ASSUME LifeInv, ctl.op # "none"
  PROVE  ctl.q \in Queues
BY IdleRequest DEF LifeInv, LifeCycle

\* The count of a direction is the number of queues the module knows.
LEMMA CountBounds ==
  ASSUME LifeInv, NEW q \in Queues
  PROVE  /\ qcnt[Dir(q)] \in 0 .. QMax
         /\ Configured(q) => qcnt[Dir(q)] > 0
<1> DEFINE K == {p \in Queues : Dir(p) = Dir(q) /\ Configured(p)}
<1>1. IsFiniteSet(K)
  BY QueuesFinite, FS_Subset
<1>2. qcnt[Dir(q)] = Cardinality(K) /\ qcnt[Dir(q)] \in 0 .. QMax
  BY QueueParts DEF LifeInv, CountsExact, TypeOK
<1>3. ASSUME Configured(q) PROVE Cardinality(K) # 0
  BY <1>1, <1>3, FS_EmptySet
<1> QED
  BY <1>1, <1>2, <1>3, SizeAssumption

\* A queue for any free index is added like one for a given index, so that a
\* step is one of these.
LEMMA StepCases ==
  ASSUME [Next]_vars
  PROVE  \/ \E q \in Queues, mode \in BOOLEAN : Add(q, mode)
         \/ \E q \in Queues, mode \in BOOLEAN : AddPrepFails(q, mode)
         \/ \E q \in Queues : Start(q)
         \/ StartAlloc \/ StartFails \/ StartProg \/ Assign \/ JoinIntr
         \/ \E t \in Threads : JoinThread(t)
         \/ \E q \in Queues : Stop(q)
         \/ \E t \in Threads : LeaveThread(t)
         \/ LeaveIntr \/ ClearContext \/ FreeRings \/ Offline
         \/ \E q \in Queues : Remove(q)
         \/ \E q \in Users : Submit(q)
         \/ \E q \in Queues : CallerDone(q)
         \/ \E t \in Threads, q \in Queues : Visit(t, q)
         \/ \E t \in Threads : Visited(t)
         \/ \E q \in Queues : Interrupt(q)
         \/ \E q \in Queues : IntrWork(q)
         \/ UNCHANGED vars
<1>1. ASSUME NEW d \in Dirs, NEW mode \in BOOLEAN, AddAny(d, mode)
      PROVE  \E q \in Queues : Add(q, mode)
  BY <1>1 DEF AddAny, FirstFree, Queues
<1> QED
  BY <1>1 DEF Next, Control, Use

\* Every step keeps the types; that a queue is deleted takes one off a count
\* that is not zero.
LEMMA TypesKept ==
  ASSUME LifeInv, [Next]_vars
  PROVE  TypeOK'
<1> USE DEF device, flags, counts, members, traffic, Set
<1>0. TypeOK /\ Idle \in Requests /\ (ctl.op # "none" => ctl.q \in Queues)
  BY IdleRequest, RequestQueue DEF LifeInv, CountsExact
<1>1. ASSUME NEW q \in Queues, NEW mode \in BOOLEAN, Add(q, mode) PROVE TypeOK'
  <2>1. qcnt[Dir(q)] \in 0 .. QMax /\ qcnt[Dir(q)] + 1 \in 0 .. QMax
    BY <1>1, CountBounds, SizeAssumption DEF Add
  <2>2. qcnt' \in [Dirs -> 0 .. QMax]
    BY <1>0, <1>1, <2>1 DEF TypeOK, Add
  <2>3. cdev' \in [0 .. QMax - 1 -> SUBSET Dirs]
    BY <1>0, <1>1, QueueParts DEF TypeOK, Add
  <2> QED
    BY <1>0, <1>1, <2>2, <2>3 DEF TypeOK, Add
<1>2. ASSUME NEW q \in Queues, NEW mode \in BOOLEAN, AddPrepFails(q, mode) PROVE TypeOK'
  BY <1>0, <1>2
  DEF TypeOK, Requests, Steps, AddPrepFails, Rewound, Dir, Idx
<1>3. ASSUME NEW q \in Queues, Start(q) PROVE TypeOK'
  BY <1>0, <1>3
  DEF TypeOK, Requests, Steps, Start
<1>4. ASSUME StartAlloc PROVE TypeOK'
  <2>1. intrId' \in [Queues -> Vectors \cup {0}]
    BY <1>0, <1>4, LeastUsedExists DEF TypeOK, StartAlloc
  <2>2. intrCnt' \in [Vectors -> 0 .. MaxIrq]
    <3>1. intrCnt[LeastUsed] < MaxIrq => intrCnt[LeastUsed] + 1 \in 0 .. MaxIrq
      BY <1>0, LeastUsedExists, UseAssumption DEF TypeOK
    <3> QED
      BY <1>0, <1>4, <3>1, LeastUsedExists DEF TypeOK, StartAlloc
  <2>3. ctl' \in Requests /\ ctl.q \in Queues
    BY <1>0, <1>4, GoRequest DEF StartAlloc, At, Steps
  <2>4. desc' \in [Queues -> BOOLEAN]
    BY <1>0, <1>4 DEF TypeOK, StartAlloc
  <2> QED
    BY <1>0, <1>4, <2>1, <2>2, <2>3, <2>4 DEF TypeOK, StartAlloc, Requests, Steps
<1>5. ASSUME StartFails PROVE TypeOK'
  BY <1>0, <1>5
  DEF TypeOK, Requests, Steps, StartFails, Undone, At
<1>6. ASSUME StartProg PROVE TypeOK'
  BY <1>0, <1>6, GoRequest
  DEF TypeOK, Requests, Steps, StartProg, At
<1>7. ASSUME NEW t \in Threads, JoinThread(t) PROVE TypeOK'
  BY <1>0, <1>7, GoRequest
  DEF TypeOK, Requests, Steps, JoinThread, AfterThread, At
<1>8. ASSUME Assign PROVE TypeOK'
  BY <1>0, <1>8, GoRequest
  DEF TypeOK, Requests, Steps, Assign, At
<1>9. ASSUME JoinIntr PROVE TypeOK'
  BY <1>0, <1>9, GoRequest
  DEF TypeOK, Requests, Steps, JoinIntr, At
<1>10. ASSUME NEW q \in Queues, Stop(q) PROVE TypeOK'
  BY <1>0, <1>10
  DEF TypeOK, Requests, Steps, Stop
<1>11. ASSUME NEW t \in Threads, LeaveThread(t) PROVE TypeOK'
  BY <1>0, <1>11, GoRequest
  DEF TypeOK, Requests, Steps, LeaveThread, AfterThread, At
<1>12. ASSUME LeaveIntr PROVE TypeOK'
  BY <1>0, <1>12, GoRequest
  DEF TypeOK, Requests, Steps, LeaveIntr, At
<1>13. ASSUME ClearContext PROVE TypeOK'
  BY <1>0, <1>13, GoRequest
  DEF TypeOK, Requests, Steps, ClearContext, Cleared, At
<1>14. ASSUME FreeRings PROVE TypeOK'
  BY <1>0, <1>14, GoRequest
  DEF TypeOK, Requests, Steps, FreeRings, At
<1>15. ASSUME Offline PROVE TypeOK'
  BY <1>0, <1>15
  DEF TypeOK, Requests, Steps, Offline, At
<1>16. ASSUME NEW q \in Queues, Remove(q) PROVE TypeOK'
  <2>1. qcnt[Dir(q)] \in 0 .. QMax /\ qcnt[Dir(q)] - 1 \in 0 .. QMax
    BY <1>16, CountBounds, SizeAssumption DEF Remove
  <2>2. qcnt' \in [Dirs -> 0 .. QMax]
    BY <1>0, <1>16, <2>1 DEF TypeOK, Remove
  <2>3. cdev' \in [0 .. QMax - 1 -> SUBSET Dirs]
    BY <1>0, <1>16, QueueParts DEF TypeOK, Remove
  <2>4. intrCnt' \in [Vectors -> 0 .. MaxIrq]
    BY <1>0, <1>16, UseAssumption DEF TypeOK, Remove, IrqFreed
  <2> QED
    BY <1>0, <1>16, <2>2, <2>3, <2>4 DEF TypeOK, Remove
<1>17. ASSUME NEW q \in Users, Submit(q) PROVE TypeOK'
  BY <1>0, <1>17, UsersAssumption
  DEF TypeOK, Requests, Steps, Submit, Queues, Dirs
<1>18. ASSUME NEW q \in Queues, CallerDone(q) PROVE TypeOK'
  BY <1>0, <1>18
  DEF TypeOK, Requests, Steps, CallerDone
<1>19. ASSUME NEW t \in Threads, NEW q \in Queues, Visit(t, q) PROVE TypeOK'
  BY <1>0, <1>19
  DEF TypeOK, Requests, Steps, Visit
<1>20. ASSUME NEW t \in Threads, Visited(t) PROVE TypeOK'
  <2>1. visit[t] \in Queues
    BY <1>0, <1>20 DEF TypeOK, Visited
  <2>2. list' \in [Queues -> {"none", "work", "pend"}] /\ busy' \in [Queues -> BOOLEAN]
    BY <1>0, <1>20, <2>1 DEF TypeOK, Visited, Post, Complete
  <2> QED
    BY <1>0, <1>20, <2>2 DEF TypeOK, Visited
<1>21. ASSUME NEW q \in Queues, Interrupt(q) PROVE TypeOK'
  BY <1>0, <1>21
  DEF TypeOK, Requests, Steps, Interrupt
<1>22. ASSUME NEW q \in Queues, IntrWork(q) PROVE TypeOK'
  <2>1. list' \in [Queues -> {"none", "work", "pend"}] /\ busy' \in [Queues -> BOOLEAN]
    BY <1>0, <1>22 DEF TypeOK, IntrWork, Complete
  <2>2. work' \in [Queues -> BOOLEAN]
    BY <1>0, <1>22 DEF TypeOK, IntrWork
  <2> QED
    BY <1>0, <1>22, <2>1, <2>2 DEF TypeOK, IntrWork
<1>23. ASSUME UNCHANGED vars PROVE TypeOK'
  BY <1>0, <1>23
  DEF TypeOK, Requests, Steps, vars
<1> QED
  BY <1>1, <1>2, <1>3, <1>4, <1>5, <1>6, <1>7, <1>8, <1>9, <1>10, <1>11, <1>12, <1>13, <1>14,
     <1>15, <1>16, <1>17, <1>18, <1>19, <1>20, <1>21, <1>22, <1>23, StepCases

\* Every step of a request takes its queue to the next stage, and no other
\* step touches what a stage says.
LEMMA LifeCycleKept ==
  ASSUME LifeInv, [Next]_vars
  PROVE  LifeCycle'
<1> USE DEF device, flags, counts, members, traffic, Set
<1>0. TypeOK /\ LifeCycle /\ InUse
  BY DEF LifeInv, CountsExact
<1>1. ASSUME NEW q \in Queues, NEW mode \in BOOLEAN, Add(q, mode) PROVE LifeCycle'
  BY <1>0, <1>1, NoneAssumption, IdleRequest
  DEF TypeOK, LifeCycle, Settled, Starting, Stopping, Has, Wanted, Threads, Steps, Add,
      Configured, Queues, Dirs
<1>2. ASSUME NEW q \in Queues, NEW mode \in BOOLEAN, AddPrepFails(q, mode) PROVE LifeCycle'
  BY <1>0, <1>2, NoneAssumption, IdleRequest
  DEF TypeOK, LifeCycle, Settled, Starting, Stopping, Has, Wanted, Threads, Steps,
      AddPrepFails, Rewound, Queues, Dirs
<1>3. ASSUME NEW q \in Queues, Start(q) PROVE LifeCycle'
  BY <1>0, <1>3, NoneAssumption, IdleRequest
  DEF TypeOK, LifeCycle, Settled, Starting, Stopping, Has, Wanted, Threads, Steps, Start,
      Queues, Dirs
<1>4. ASSUME StartAlloc PROVE LifeCycle'
  BY <1>0, <1>4, NoneAssumption, IdleRequest, GoRequest
  DEF TypeOK, LifeCycle, Settled, Starting, Stopping, Has, Wanted, Threads, Steps,
      StartAlloc, At, Queues, Dirs
<1>5. ASSUME StartFails PROVE LifeCycle'
  <2>1. ctl.q \in Queues /\ Starting(ctl.q) /\ ctl.at \in {"alloc", "prog"}
    BY <1>0, <1>5, IdleRequest DEF LifeCycle, StartFails, At
  <2>2. \A p \in Queues : p # ctl.q => Settled(p)
    BY <1>0 DEF LifeCycle
  <2>3. ctl' = Idle /\ ctl'.q \notin Queues
    BY <1>5, IdleRequest, NoneAssumption DEF StartFails, Queues, Dirs
  <2>4. ASSUME NEW p \in Queues, p = ctl.q PROVE Settled(p)'
    BY <1>0, <1>5, <2>1, <2>4 DEF TypeOK, Settled, Starting, Has, StartFails, Undone
  <2>5. ASSUME NEW p \in Queues, p # ctl.q PROVE Settled(p)'
    BY <1>0, <1>5, <2>2, <2>5 DEF TypeOK, Settled, Has, Wanted, StartFails, Undone
  <2> QED
    BY <2>3, <2>4, <2>5 DEF LifeCycle
<1>6. ASSUME StartProg PROVE LifeCycle'
  BY <1>0, <1>6, NoneAssumption, IdleRequest, GoRequest
  DEF TypeOK, LifeCycle, Settled, Starting, Stopping, Has, Wanted, Threads, Steps,
      StartProg, At, Queues, Dirs
<1>7. ASSUME NEW t \in Threads, JoinThread(t) PROVE LifeCycle'
  <2>1. ctl.q \in Queues /\ Starting(ctl.q) /\ ctl.op = "start" /\ ctl.at = t
    BY <1>0, <1>7, IdleRequest DEF LifeCycle, JoinThread, At
  <2>2. \A p \in Queues : p # ctl.q => Settled(p)
    BY <1>0 DEF LifeCycle
  <2>3. /\ ctl'.op = "start" /\ ctl'.q = ctl.q
        /\ ctl'.at = AfterThread(t, "assign")
    BY <1>0, <1>7, <2>1, GoRequest DEF JoinThread, AfterThread, Steps
  <2>4. /\ onThread'[ctl.q] = onThread[ctl.q] \cup {t}
        /\ \A p \in Queues : p # ctl.q => onThread'[p] = onThread[p]
    BY <1>0, <1>7, <2>1 DEF TypeOK, JoinThread
  <2>5. onThread'[ctl.q] = IF ctl'.at = "assign" THEN Wanted ELSE {"request"}
    BY <1>0, <1>7, <2>1, <2>3, <2>4 DEF Starting, AfterThread, Wanted, Threads
  <2>6. Starting(ctl.q)'
    BY <1>0, <1>7, <2>1, <2>3, <2>5
    DEF TypeOK, Starting, Has, JoinThread, AfterThread, Threads, Wanted
  <2>7. ASSUME NEW p \in Queues, p # ctl.q PROVE Settled(p)'
    BY <1>0, <1>7, <2>2, <2>4, <2>7 DEF TypeOK, Settled, Has, Wanted, JoinThread
  <2> QED
    BY <2>1, <2>3, <2>6, <2>7 DEF LifeCycle
<1>8. ASSUME Assign PROVE LifeCycle'
  BY <1>0, <1>8, NoneAssumption, IdleRequest, GoRequest
  DEF TypeOK, LifeCycle, Settled, Starting, Stopping, Has, Wanted, Threads, Steps, Assign,
      At, Queues, Dirs
<1>9. ASSUME JoinIntr PROVE LifeCycle'
  BY <1>0, <1>9, NoneAssumption, IdleRequest, GoRequest
  DEF TypeOK, LifeCycle, Settled, Starting, Stopping, Has, Wanted, Threads, Steps, JoinIntr,
      At, Queues, Dirs
<1>10. ASSUME NEW q \in Queues, Stop(q) PROVE LifeCycle'
  BY <1>0, <1>10, NoneAssumption, IdleRequest
  DEF TypeOK, LifeCycle, Settled, Starting, Stopping, Has, Wanted, Threads, Steps, Stop,
      Queues, Dirs
<1>11. ASSUME NEW t \in Threads, LeaveThread(t) PROVE LifeCycle'
  BY <1>0, <1>11, NoneAssumption, IdleRequest, GoRequest
  DEF TypeOK, LifeCycle, Settled, Starting, Stopping, Has, Wanted, Threads, Steps,
      LeaveThread, AfterThread, At, Queues, Dirs
<1>12. ASSUME LeaveIntr PROVE LifeCycle'
  BY <1>0, <1>12, NoneAssumption, IdleRequest, GoRequest
  DEF TypeOK, LifeCycle, Settled, Starting, Stopping, Has, Wanted, Threads, Steps,
      LeaveIntr, At, Queues, Dirs
<1>13. ASSUME ClearContext PROVE LifeCycle'
  BY <1>0, <1>13, NoneAssumption, IdleRequest, GoRequest
  DEF TypeOK, LifeCycle, Settled, Starting, Stopping, Has, Wanted, Threads, Steps,
      ClearContext, Cleared, At, Queues, Dirs
<1>14. ASSUME FreeRings PROVE LifeCycle'
  BY <1>0, <1>14, NoneAssumption, IdleRequest, GoRequest
  DEF TypeOK, LifeCycle, Settled, Starting, Stopping, Has, Wanted, Threads, Steps,
      FreeRings, At, Queues, Dirs
<1>15. ASSUME Offline PROVE LifeCycle'
  <2>1. ctl.q \in Queues /\ Stopping(ctl.q) /\ ctl.at = "flags"
    BY <1>0, <1>15, IdleRequest DEF LifeCycle, Offline, At
  <2>2. \A p \in Queues : p # ctl.q => Settled(p)
    BY <1>0 DEF LifeCycle
  <2>3. ctl' = Idle /\ ctl'.q \notin Queues
    BY <1>15, IdleRequest, NoneAssumption DEF Offline, Queues, Dirs
  <2>4. ASSUME NEW p \in Queues, p = ctl.q PROVE Settled(p)'
    BY <1>0, <1>15, <2>1, <2>4 DEF TypeOK, Settled, Stopping, Has, Offline
  <2>5. ASSUME NEW p \in Queues, p # ctl.q PROVE Settled(p)'
    BY <1>0, <1>15, <2>2, <2>5 DEF TypeOK, Settled, Has, Wanted, Offline
  <2> QED
    BY <2>3, <2>4, <2>5 DEF LifeCycle
<1>16. ASSUME NEW q \in Queues, Remove(q) PROVE LifeCycle'
  BY <1>0, <1>16, NoneAssumption, IdleRequest
  DEF TypeOK, LifeCycle, Settled, Starting, Stopping, Has, Wanted, Threads, Steps, Remove,
      IrqFreed, Configured, Queues, Dirs
<1>17. ASSUME NEW q \in Users, Submit(q) PROVE LifeCycle'
  BY <1>0, <1>17, NoneAssumption, IdleRequest, UsersAssumption
  DEF TypeOK, LifeCycle, Settled, Starting, Stopping, Has, Wanted, Threads, Steps, Submit,
      Queues, Dirs
<1>18. ASSUME NEW q \in Queues, CallerDone(q) PROVE LifeCycle'
  BY <1>0, <1>18, NoneAssumption, IdleRequest
  DEF TypeOK, LifeCycle, Settled, Starting, Stopping, Has, Wanted, Threads, Steps,
      CallerDone, Queues, Dirs
<1>19. ASSUME NEW t \in Threads, NEW q \in Queues, Visit(t, q) PROVE LifeCycle'
  BY <1>0, <1>19, NoneAssumption, IdleRequest
  DEF TypeOK, LifeCycle, Settled, Starting, Stopping, Has, Wanted, Threads, Steps, Visit,
      Queues, Dirs
<1>20. ASSUME NEW t \in Threads, Visited(t) PROVE LifeCycle'
  BY <1>0, <1>20, NoneAssumption, IdleRequest
  DEF TypeOK, LifeCycle, Settled, Starting, Stopping, Has, Wanted, Threads, Steps, Visited,
      Post, Complete, Queues, Dirs
<1>21. ASSUME NEW q \in Queues, Interrupt(q) PROVE LifeCycle'
  BY <1>0, <1>21, NoneAssumption, IdleRequest
  DEF TypeOK, LifeCycle, Settled, Starting, Stopping, Has, Wanted, Threads, Steps,
      Interrupt, Queues, Dirs
<1>22. ASSUME NEW q \in Queues, IntrWork(q) PROVE LifeCycle'
  BY <1>0, <1>22, NoneAssumption, IdleRequest
  DEF TypeOK, LifeCycle, Settled, Starting, Stopping, Has, Wanted, Threads, Steps, IntrWork,
      Complete, Queues, Dirs
<1>23. ASSUME UNCHANGED vars PROVE LifeCycle'
  BY <1>0, <1>23, NoneAssumption, IdleRequest
  DEF TypeOK, LifeCycle, Settled, Starting, Stopping, Has, Wanted, Threads, Steps, vars,
      Queues, Dirs
<1> QED
  BY <1>1, <1>2, <1>3, <1>4, <1>5, <1>6, <1>7, <1>8, <1>9, <1>10, <1>11, <1>12, <1>13, <1>14,
     <1>15, <1>16, <1>17, <1>18, <1>19, <1>20, <1>21, <1>22, <1>23, StepCases

\* A queue that is stopped is used by nobody, and nobody starts to.
LEMMA InUseKept ==
  ASSUME LifeInv, [Next]_vars
  PROVE  InUse'
<1> USE DEF device, flags, counts, members, traffic, Set
<1>0. TypeOK /\ LifeCycle /\ InUse
  BY DEF LifeInv, CountsExact
<1>1. ASSUME NEW q \in Queues, NEW mode \in BOOLEAN, Add(q, mode) PROVE InUse'
  BY <1>0, <1>1, NoneAssumption, IdleRequest
  DEF TypeOK, LifeCycle, Settled, Starting, Stopping, Has, InUse, Wanted, Threads, Steps,
      Add, Configured, Queues, Dirs
<1>2. ASSUME NEW q \in Queues, NEW mode \in BOOLEAN, AddPrepFails(q, mode) PROVE InUse'
  BY <1>0, <1>2, NoneAssumption, IdleRequest
  DEF TypeOK, LifeCycle, Settled, Starting, Stopping, Has, InUse, Wanted, Threads, Steps,
      AddPrepFails, Rewound, Queues, Dirs
<1>3. ASSUME NEW q \in Queues, Start(q) PROVE InUse'
  BY <1>0, <1>3, NoneAssumption, IdleRequest
  DEF TypeOK, LifeCycle, Settled, Starting, Stopping, Has, InUse, Wanted, Threads, Steps,
      Start, Queues, Dirs
<1>4. ASSUME StartAlloc PROVE InUse'
  BY <1>0, <1>4, NoneAssumption, IdleRequest, GoRequest
  DEF TypeOK, LifeCycle, Settled, Starting, Stopping, Has, InUse, Wanted, Threads, Steps,
      StartAlloc, At, Queues, Dirs
<1>5. ASSUME StartFails PROVE InUse'
  BY <1>0, <1>5, NoneAssumption, IdleRequest
  DEF TypeOK, LifeCycle, Settled, Starting, Stopping, Has, InUse, Wanted, Threads, Steps,
      StartFails, Undone, At, Queues, Dirs
<1>6. ASSUME StartProg PROVE InUse'
  BY <1>0, <1>6, NoneAssumption, IdleRequest, GoRequest
  DEF TypeOK, LifeCycle, Settled, Starting, Stopping, Has, InUse, Wanted, Threads, Steps,
      StartProg, At, Queues, Dirs
<1>7. ASSUME NEW t \in Threads, JoinThread(t) PROVE InUse'
  BY <1>0, <1>7, NoneAssumption, IdleRequest, GoRequest
  DEF TypeOK, LifeCycle, Settled, Starting, Stopping, Has, InUse, Wanted, Threads, Steps,
      JoinThread, AfterThread, At, Queues, Dirs
<1>8. ASSUME Assign PROVE InUse'
  BY <1>0, <1>8, NoneAssumption, IdleRequest, GoRequest
  DEF TypeOK, LifeCycle, Settled, Starting, Stopping, Has, InUse, Wanted, Threads, Steps,
      Assign, At, Queues, Dirs
<1>9. ASSUME JoinIntr PROVE InUse'
  BY <1>0, <1>9, NoneAssumption, IdleRequest, GoRequest
  DEF TypeOK, LifeCycle, Settled, Starting, Stopping, Has, InUse, Wanted, Threads, Steps,
      JoinIntr, At, Queues, Dirs
<1>10. ASSUME NEW q \in Queues, Stop(q) PROVE InUse'
  BY <1>0, <1>10, NoneAssumption, IdleRequest
  DEF TypeOK, LifeCycle, Settled, Starting, Stopping, Has, InUse, Wanted, Threads, Steps,
      Stop, Queues, Dirs
<1>11. ASSUME NEW t \in Threads, LeaveThread(t) PROVE InUse'
  BY <1>0, <1>11, NoneAssumption, IdleRequest, GoRequest
  DEF TypeOK, LifeCycle, Settled, Starting, Stopping, Has, InUse, Wanted, Threads, Steps,
      LeaveThread, AfterThread, At, Queues, Dirs
<1>12. ASSUME LeaveIntr PROVE InUse'
  BY <1>0, <1>12, NoneAssumption, IdleRequest, GoRequest
  DEF TypeOK, LifeCycle, Settled, Starting, Stopping, Has, InUse, Wanted, Threads, Steps,
      LeaveIntr, At, Queues, Dirs
<1>13. ASSUME ClearContext PROVE InUse'
  BY <1>0, <1>13, NoneAssumption, IdleRequest, GoRequest
  DEF TypeOK, LifeCycle, Settled, Starting, Stopping, Has, InUse, Wanted, Threads, Steps,
      ClearContext, Cleared, At, Queues, Dirs
<1>14. ASSUME FreeRings PROVE InUse'
  BY <1>0, <1>14, NoneAssumption, IdleRequest, GoRequest
  DEF TypeOK, LifeCycle, Settled, Starting, Stopping, Has, InUse, Wanted, Threads, Steps,
      FreeRings, At, Queues, Dirs
<1>15. ASSUME Offline PROVE InUse'
  BY <1>0, <1>15, NoneAssumption, IdleRequest
  DEF TypeOK, LifeCycle, Settled, Starting, Stopping, Has, InUse, Wanted, Threads, Steps,
      Offline, At, Queues, Dirs
<1>16. ASSUME NEW q \in Queues, Remove(q) PROVE InUse'
  BY <1>0, <1>16, NoneAssumption, IdleRequest
  DEF TypeOK, LifeCycle, Settled, Starting, Stopping, Has, InUse, Wanted, Threads, Steps,
      Remove, IrqFreed, Configured, Queues, Dirs
<1>17. ASSUME NEW q \in Users, Submit(q) PROVE InUse'
  BY <1>0, <1>17, NoneAssumption, IdleRequest, UsersAssumption
  DEF TypeOK, LifeCycle, Settled, Starting, Stopping, Has, InUse, Wanted, Threads, Steps,
      Submit, Queues, Dirs
<1>18. ASSUME NEW q \in Queues, CallerDone(q) PROVE InUse'
  BY <1>0, <1>18, NoneAssumption, IdleRequest
  DEF TypeOK, LifeCycle, Settled, Starting, Stopping, Has, InUse, Wanted, Threads, Steps,
      CallerDone, Queues, Dirs
<1>19. ASSUME NEW t \in Threads, NEW q \in Queues, Visit(t, q) PROVE InUse'
  BY <1>0, <1>19, NoneAssumption, IdleRequest
  DEF TypeOK, LifeCycle, Settled, Starting, Stopping, Has, InUse, Wanted, Threads, Steps,
      Visit, Queues, Dirs
<1>20. ASSUME NEW t \in Threads, Visited(t) PROVE InUse'
  BY <1>0, <1>20, NoneAssumption, IdleRequest
  DEF TypeOK, LifeCycle, Settled, Starting, Stopping, Has, InUse, Wanted, Threads, Steps,
      Visited, Post, Complete, Queues, Dirs
<1>21. ASSUME NEW q \in Queues, Interrupt(q) PROVE InUse'
  BY <1>0, <1>21, NoneAssumption, IdleRequest
  DEF TypeOK, LifeCycle, Settled, Starting, Stopping, Has, InUse, Wanted, Threads, Steps,
      Interrupt, Queues, Dirs
<1>22. ASSUME NEW q \in Queues, IntrWork(q) PROVE InUse'
  BY <1>0, <1>22, NoneAssumption, IdleRequest
  DEF TypeOK, LifeCycle, Settled, Starting, Stopping, Has, InUse, Wanted, Threads, Steps,
      IntrWork, Complete, Queues, Dirs
<1>23. ASSUME UNCHANGED vars PROVE InUse'
  BY <1>0, <1>23, NoneAssumption, IdleRequest
  DEF TypeOK, LifeCycle, Settled, Starting, Stopping, Has, InUse, Wanted, Threads, Steps,
      vars, Queues, Dirs
<1> QED
  BY <1>1, <1>2, <1>3, <1>4, <1>5, <1>6, <1>7, <1>8, <1>9, <1>10, <1>11, <1>12, <1>13, <1>14,
     <1>15, <1>16, <1>17, <1>18, <1>19, <1>20, <1>21, <1>22, <1>23, StepCases

\* What the counts and the modes depend on changes when a queue is added or
\* deleted only.
LEMMA OtherSteps ==
  ASSUME [Next]_vars,
         \A q \in Queues : ~Remove(q) /\ \A mode \in BOOLEAN : ~Add(q, mode) /\ ~AddPrepFails(q, mode)
  PROVE  UNCHANGED <<enabled, st, qcnt, cdev, ranged>>
<1> USE DEF device, flags, counts
<1>1. ASSUME StartAlloc \/ StartFails \/ StartProg \/ Assign \/ JoinIntr
             \/ LeaveIntr \/ ClearContext \/ FreeRings \/ Offline
      PROVE  UNCHANGED <<enabled, st, qcnt, cdev, ranged>>
  BY <1>1 DEF StartAlloc, StartFails, StartProg, Assign, JoinIntr, LeaveIntr, ClearContext,
              FreeRings, Offline
<1>2. ASSUME NEW q \in Queues \cup Users, NEW t \in Threads,
             \/ Start(q) \/ Stop(q) \/ Submit(q) \/ CallerDone(q) \/ Interrupt(q) \/ IntrWork(q)
             \/ JoinThread(t) \/ LeaveThread(t) \/ Visit(t, q) \/ Visited(t)
      PROVE  UNCHANGED <<enabled, st, qcnt, cdev, ranged>>
  BY <1>2 DEF Start, Stop, Submit, CallerDone, Interrupt, IntrWork, JoinThread, LeaveThread,
              Visit, Visited
<1>3. ASSUME UNCHANGED vars PROVE UNCHANGED <<enabled, st, qcnt, cdev, ranged>>
  BY <1>3 DEF vars
<1>4. "request" \in Threads /\ <<"h2c", 0>> \in Queues
  BY SizeAssumption DEF Threads, Queues, Dirs
<1> QED
  BY <1>1, <1>2, <1>3, <1>4, StepCases

\* A queue that was not known is added to the table and to the count, a known
\* one is taken from both.
LEMMA CountsKept ==
  ASSUME LifeInv, [Next]_vars, TypeOK'
  PROVE  CountsExact'
<1> USE DEF device, flags, counts, Set
<1> DEFINE Known(d) == {q \in Queues : Dir(q) = d /\ Configured(q)}
<1>0. /\ TypeOK /\ SamePairMode /\ NoModes
      /\ \A d \in Dirs : qcnt[d] = Cardinality(Known(d)) /\ IsFiniteSet(Known(d))
      /\ \A q \in Queues : Configured(q) => enabled[q]
  <2>1. \A d \in Dirs : IsFiniteSet(Known(d))
    BY QueuesFinite, FS_Subset
  <2>2. "h2c" \in Dirs
    BY DEF Dirs
  <2> QED
    BY <2>1, <2>2 DEF LifeInv, CountsExact
<1>1. ASSUME NEW q \in Queues, NEW mode \in BOOLEAN, Add(q, mode) PROVE CountsExact'
  <2>1. /\ enabled' = [enabled EXCEPT ![q] = TRUE] /\ st' = [st EXCEPT ![q] = mode]
        /\ enabled[Pair(q)] => st[Pair(q)] = mode
        /\ ~enabled[q] /\ ~Configured(q)
    BY <1>0, <1>1 DEF Add, PairFits
  <2>2. SamePairMode'
    BY <1>0, <2>1, PairIsQueue DEF TypeOK, SamePairMode
  <2>3. \A p \in Queues : Configured(p)' <=> Configured(p) \/ p = q
    <3> TAKE p \in Queues
    <3>1. /\ Idx(p) \in 0 .. QMax - 1 /\ Idx(q) \in 0 .. QMax - 1
          /\ p = q <=> Idx(p) = Idx(q) /\ Dir(p) = Dir(q)
      BY QueueParts
    <3>2. cdev'[Idx(p)] = IF Idx(p) = Idx(q) THEN cdev[Idx(p)] \cup {Dir(q)} ELSE cdev[Idx(p)]
      BY <1>0, <1>1, <3>1 DEF TypeOK, Add
    <3> QED
      BY <3>1, <3>2 DEF Configured
  <2>4. \A p \in Queues : Configured(p)' => enabled'[p]
    BY <1>0, <2>1, <2>3 DEF TypeOK
  <2>5. ASSUME NEW d \in Dirs PROVE qcnt'[d] = Cardinality(Known(d)')
    <3>1. CASE d = Dir(q)
      <4>1. Known(d)' = Known(d) \cup {q} /\ q \notin Known(d)
        BY <3>1, <2>1, <2>3
      <4>2. qcnt'[d] = qcnt[d] + 1
        BY <1>0, <1>1, <3>1 DEF TypeOK, Add
      <4> QED
        BY <1>0, <4>1, <4>2, FS_AddElement
    <3>2. CASE d # Dir(q)
      <4>1. Known(d)' = Known(d)
        BY <3>2, <2>3
      <4>2. qcnt'[d] = qcnt[d]
        BY <1>0, <1>1, <3>2 DEF TypeOK, Add
      <4> QED
        BY <1>0, <4>1, <4>2
    <3> QED
      BY <3>1, <3>2
  <2> QED
    BY <2>2, <2>4, <2>5 DEF CountsExact
<1>2. ASSUME NEW q \in Queues, NEW mode \in BOOLEAN, AddPrepFails(q, mode) PROVE CountsExact'
  <2>1. /\ enabled' = [enabled EXCEPT ![q] = TRUE]
        /\ UNCHANGED <<st, cdev, qcnt>>
        /\ ~ranged
    BY <1>2 DEF AddPrepFails, Rewound
  <2>2. \A p \in Queues : ~st[p]
    BY <1>0, <2>1 DEF NoModes
  <2>3. SamePairMode'
    BY <1>0, <2>1, <2>2, PairIsQueue DEF TypeOK, SamePairMode
  <2>4. \A p \in Queues : Configured(p)' <=> Configured(p)
    BY <2>1 DEF Configured
  <2>5. \A d \in Dirs : Known(d)' = Known(d)
    BY <2>4
  <2>6. \A p \in Queues : Configured(p)' => enabled'[p]
    BY <1>0, <2>1, <2>4 DEF TypeOK
  <2> QED
    BY <1>0, <2>1, <2>3, <2>5, <2>6 DEF CountsExact
<1>3. ASSUME NEW q \in Queues, Remove(q) PROVE CountsExact'
  <2>1. /\ enabled' = [enabled EXCEPT ![q] = FALSE] /\ st' = st
        /\ Configured(q)
    BY <1>3 DEF Remove
  <2>2. SamePairMode'
    BY <1>0, <2>1, PairIsQueue DEF TypeOK, SamePairMode
  <2>3. \A p \in Queues : Configured(p)' <=> Configured(p) /\ p # q
    <3> TAKE p \in Queues
    <3>1. /\ Idx(p) \in 0 .. QMax - 1 /\ Idx(q) \in 0 .. QMax - 1
          /\ p = q <=> Idx(p) = Idx(q) /\ Dir(p) = Dir(q)
      BY QueueParts
    <3>2. cdev'[Idx(p)] = IF Idx(p) = Idx(q) THEN cdev[Idx(p)] \ {Dir(q)} ELSE cdev[Idx(p)]
      BY <1>0, <1>3, <3>1 DEF TypeOK, Remove
    <3> QED
      BY <3>1, <3>2 DEF Configured
  <2>4. \A p \in Queues : Configured(p)' => enabled'[p]
    BY <1>0, <2>1, <2>3 DEF TypeOK
  <2>5. ASSUME NEW d \in Dirs PROVE qcnt'[d] = Cardinality(Known(d)')
    <3>1. CASE d = Dir(q)
      <4>1. Known(d)' = Known(d) \ {q} /\ q \in Known(d)
        BY <3>1, <2>1, <2>3
      <4>2. qcnt'[d] = qcnt[d] - 1
        BY <1>0, <1>3, <3>1 DEF TypeOK, Remove
      <4> QED
        BY <1>0, <4>1, <4>2, FS_RemoveElement, ZenonT(40)
    <3>2. CASE d # Dir(q)
      <4>1. Known(d)' = Known(d)
        BY <3>2, <2>3
      <4>2. qcnt'[d] = qcnt[d]
        BY <1>0, <1>3, <3>2 DEF TypeOK, Remove
      <4> QED
        BY <1>0, <4>1, <4>2
    <3> QED
      BY <3>1, <3>2
  <2> QED
    BY <2>2, <2>4, <2>5 DEF CountsExact
<1>4. ASSUME UNCHANGED <<enabled, st, qcnt, cdev, ranged>> PROVE CountsExact'
  <2>1. \A p \in Queues : Configured(p)' <=> Configured(p)
    BY <1>4 DEF Configured
  <2>2. \A d \in Dirs : Known(d)' = Known(d)
    BY <2>1
  <2> QED
    BY <1>0, <1>4, <2>1, <2>2 DEF CountsExact, SamePairMode
<1> QED
  BY <1>1, <1>2, <1>3, <1>4, OtherSteps

\* The first queue that gets a mode is one for which there is a queue range.
LEMMA NoModesKept ==
  ASSUME LifeInv, [Next]_vars
  PROVE  NoModes'
<1>1. ASSUME NEW q \in Queues, NEW mode \in BOOLEAN, Add(q, mode) PROVE NoModes'
  BY <1>1 DEF Add, NoModes
<1>2. ASSUME NEW q \in Queues, NEW mode \in BOOLEAN, AddPrepFails(q, mode) PROVE NoModes'
  BY <1>2 DEF LifeInv, AddPrepFails, NoModes, device
<1>3. ASSUME NEW q \in Queues, Remove(q) PROVE NoModes'
  BY <1>3 DEF LifeInv, Remove, NoModes, device
<1>4. ASSUME UNCHANGED <<enabled, st, qcnt, cdev, ranged>> PROVE NoModes'
  BY <1>4 DEF LifeInv, NoModes
<1> QED
  BY <1>1, <1>2, <1>3, <1>4, OtherSteps

-----------------------------------------------------------------------------
(* The theorems.                                                           *)

\* Before the first request there are no queues.
LEMMA InitLife ==
  ASSUME Init
  PROVE  LifeInv
<1> DEFINE Known(d) == {q \in Queues : Dir(q) = d /\ Configured(q)}
<1>1. TypeOK
  <2>1. 0 \in 0 .. QMax /\ 0 \in 0 .. MaxIrq
    BY SizeAssumption, UseAssumption
  <2>2. {enabled, inited, online, st, desc, wrkthp, onIntr, ctx, work, busy} = {enabled}
        /\ enabled \in [Queues -> BOOLEAN]
    BY DEF Init
  <2> QED
    BY <2>1, <2>2, IdleRequest DEF Init, TypeOK, Requests, Steps
<1>2. ASSUME NEW q \in Queues PROVE ~Configured(q) /\ ~enabled[q] /\ ~st[q]
  BY QueueParts DEF Init, Configured
<1>3. \A d \in Dirs : Known(d) = {}
  BY <1>2
<1>4. \A d \in Dirs : qcnt[d] = Cardinality(Known(d))
  BY <1>3, FS_EmptySet DEF Init
<1>5. CountsExact
  BY <1>1, <1>2, <1>4 DEF CountsExact, SamePairMode
<1>6. LifeCycle
  BY IdleRequest, NoneAssumption DEF Init, LifeCycle, Settled, Has, Queues, Dirs
<1>7. InUse
  BY NoneAssumption DEF Init, InUse, Queues, Dirs
<1> QED
  BY <1>2, <1>5, <1>6, <1>7 DEF LifeInv, NoModes

\* The inductive invariant holds in every state.
THEOREM LifeInvariant == Spec => []LifeInv
<1>1. Init => LifeInv
  BY InitLife
<1>2. LifeInv /\ [Next]_vars => LifeInv'
  <2> SUFFICES ASSUME LifeInv, [Next]_vars PROVE LifeInv'
    OBVIOUS
  <2> QED
    BY TypesKept, LifeCycleKept, InUseKept, CountsKept, NoModesKept DEF LifeInv
<1> QED
  BY <1>1, <1>2, PTL DEF Spec

\* The counts that limit the queues of each direction count the queues the
\* module knows: xpdev_queue_add(), qdma_queue_add() and qdma_queue_remove()
\* take every count back when they fail half way.
THEOREM CountsCorrect == Spec => []CountsExact
BY LifeInvariant, PTL DEF LifeInv

\* No thread, no work and no context is ever left with a queue whose rings
\* qdma_queue_stop() or a start that failed freed.
THEOREM RingsCorrect == Spec => []RingsBacked
<1>1. LifeInv => RingsBacked
  <2> SUFFICES ASSUME LifeInv, NEW q \in Queues,
                      \/ ctx[q]
                      \/ \E t \in Threads : visit[t] = q
                      \/ work[q] /\ busy[q]
               PROVE  desc[q]
    BY DEF RingsBacked
  <2>1. Settled(q) \/ (ctl.q = q /\ (Starting(q) \/ Stopping(q)))
    BY DEF LifeInv, LifeCycle
  <2>2. CASE ctx[q]
    BY <2>1, <2>2 DEF Settled, Starting, Stopping, Has
  <2>3. CASE \E t \in Threads : visit[t] = q
    <3>1. onThread[q] # {}
      BY <2>3 DEF LifeInv, InUse
    <3> QED
      BY <2>1, <3>1 DEF Settled, Starting, Stopping, Has
  <2>4. CASE busy[q]
    <3>1. online[q] /\ ctl.q # q
      BY <2>4 DEF LifeInv, InUse
    <3> QED
      BY <2>1, <3>1 DEF Settled, Has
  <2> QED
    BY <2>2, <2>3, <2>4
<1> QED
  BY <1>1, LifeInvariant, PTL

\* Between two netlink requests every queue is started completely or not at
\* all, whatever became of the requests before.
THEOREM StartsCorrect == Spec => []AllOrNothing
<1>1. LifeInv => AllOrNothing
  <2> SUFFICES ASSUME LifeInv, ctl = Idle, NEW q \in Queues
               PROVE  /\ inited[q] = online[q] /\ desc[q] = online[q] /\ ctx[q] = online[q]
                      /\ wrkthp[q] = online[q]
                      /\ onIntr[q] = (online[q] /\ ~polled)
                      /\ onThread[q] = IF online[q] THEN Wanted ELSE {}
    BY DEF AllOrNothing
  <2>1. /\ inited[q] \in BOOLEAN /\ online[q] \in BOOLEAN /\ desc[q] \in BOOLEAN
        /\ ctx[q] \in BOOLEAN /\ wrkthp[q] \in BOOLEAN /\ onIntr[q] \in BOOLEAN
        /\ polled \in BOOLEAN
    BY DEF LifeInv, CountsExact, TypeOK
  <2>2. Settled(q)
    BY IdleRequest, NoneAssumption DEF LifeInv, LifeCycle, Queues, Dirs
  <2> QED
    BY <2>1, <2>2 DEF Settled, Has
<1> QED
  BY <1>1, LifeInvariant, PTL

=============================================================================
