-------------------------------- MODULE Aio --------------------------------
(***************************************************************************)
(* The character device of a pair of queues (cdev.c): blocking reads and   *)
(* writes, and asynchronous ones whose parts, one per segment of the       *)
(* vector, are worked off by a work queue of the device.  At most one      *)
(* transfer per direction is under way; a part that cannot have the lock   *)
(* of its direction, or its own lock, goes to the end of the queue again.  *)
(* The kernel may cancel a request; the device is destroyed when its files *)
(* are closed, with parts still queued.                                    *)
(***************************************************************************)
EXTENDS Integers, Sequences, FiniteSets

CONSTANTS
  Iocbs,       \* asynchronous requests, each submitted at most once
  Segs,        \* nr_segs of each of them
  Callers,     \* blocking calls of read() and write()
  Dir,         \* the direction of each of both kinds
  Cpus,        \* processors: create_workqueue() runs one work on each
  Cancellable, \* the requests somebody may cancel
  MapFails,    \* may map_user_buf_to_sgl() fail?
  None

ASSUME SegsAssumption == Segs \in [Iocbs -> Nat \ {0}]
ASSUME DirAssumption  == Dir \in [Iocbs \cup Callers -> {"h2c", "c2h"}]
ASSUME NamesAssumption ==
  /\ Iocbs \cap Callers = {} /\ Cpus \cap (Iocbs \cup Callers) = {}
  /\ None \notin Cpus \cup Callers \cup Iocbs
  /\ Cancellable \subseteq Iocbs /\ MapFails \in BOOLEAN

\* struct cdev_async_io: one for each segment of a request.
Parts == UNION {{i} \X (1 .. Segs[i]) : i \in Iocbs}
Dirs  == {"h2c", "c2h"}

ASSUME PartsAssumption == None \notin Parts /\ Callers \cap Parts = {}

VARIABLES
  \* struct cdev_async_io of the parts
  part,     \* not queued yet, live, or given back to cdev_cache
  cancel,   \* the parts with the cancel flag
  lock,     \* who holds the lock of a part
  pinned,   \* whose user pages are pinned and mapped
  \* struct kiocb
  call,     \* the call that submits it, and where it is with the next part
  nr,       \* parts it has queued
  private,  \* iocb->private
  completed,\* calls of ki_complete()
  canceler, \* a cancellation: where it is
  target,   \* ... and the part it found in iocb->private
  early,    \* history: it was found before its flag and its lock were set up
  \* the work queue
  wq,       \* works waiting on each processor
  cur,      \* the part whose work runs on the processor
  pc,       \* where async_io_handler() is
  \* struct qdma_cdev
  dirLock,  \* h2c_lock and c2h_lock: the processor or the caller holding it
  rw,       \* where a blocking call is
  dev,      \* live, being destroyed, or freed
  moved     \* the parts that were transferred

caio    == <<part, cancel, lock>>
kiocb   == <<call, nr, private, completed>>
cancels == <<canceler, target, early>>
work    == <<wq, cur, pc>>
vars == <<caio, pinned, kiocb, cancels, work, dirLock, rw, dev, moved>>

PartDir(p) == Dir[p[1]]

Init ==
  /\ part = [p \in Parts |-> "none"] /\ cancel = {}
  /\ lock = [p \in Parts |-> None]
  /\ pinned = {}
  /\ call = [i \in Iocbs |-> "idle"] /\ nr = [i \in Iocbs |-> 0]
  /\ private = [i \in Iocbs |-> None] /\ completed = [i \in Iocbs |-> 0]
  /\ canceler = [i \in Iocbs |-> "idle"] /\ target = [i \in Iocbs |-> None]
  /\ early = {}
  /\ wq = [c \in Cpus |-> <<>>] /\ cur = [c \in Cpus |-> None]
  /\ pc = [c \in Cpus |-> "idle"]
  /\ dirLock = [d \in Dirs |-> None]
  /\ rw = [t \in Callers |-> "idle"]
  /\ dev = "live" /\ moved = {}

-----------------------------------------------------------------------------
(* cdev_aio_write() and cdev_aio_read(): three steps of the loop a part.  *)

Submit(i) ==
  /\ dev = "live" /\ call[i] = "idle"
  /\ call' = [call EXCEPT ![i] = "submit"]
  /\ UNCHANGED <<caio, pinned, nr, private, completed, cancels, work, dirLock, rw, dev,
                 moved>>

\* Was the part for segment k the last one?
AllQueued(i, k) == k = Segs[i]

\* The part of the next segment.
NextPart(i) == <<i, nr[i] + 1>>

\* The pages are pinned and the part is written to iocb->private: a cancellation
\* finds it from now on, but what it finds is not set up yet.
SubmitPart(i) ==
  /\ call[i] = "submit"
  /\ pinned' = pinned \cup {NextPart(i)}
  /\ private' = [private EXCEPT ![i] = NextPart(i)]
  /\ call' = [call EXCEPT ![i] = "flag"]
  /\ UNCHANGED <<caio, nr, completed, cancels, work, dirLock, rw, dev, moved>>

\* caio->cancel = false, whatever it was.
SubmitFlag(i) ==
  /\ call[i] = "flag"
  /\ cancel' = cancel \ {NextPart(i)}
  /\ call' = [call EXCEPT ![i] = "queue"]
  /\ UNCHANGED <<part, lock, pinned, nr, private, completed, cancels, work, dirLock, rw, dev,
                 moved>>

\* spin_lock_init(), whoever holds the lock, kiocb_set_cancel_fn(), and
\* queue_work() on the processor the caller runs on.
SubmitQueue(i) ==
  /\ call[i] = "queue"
  /\ lock' = [lock EXCEPT ![NextPart(i)] = None]
  /\ part' = [part EXCEPT ![NextPart(i)] = "live"]
  /\ nr' = [nr EXCEPT ![i] = @ + 1]
  /\ call' = [call EXCEPT ![i] = IF AllQueued(i, nr'[i]) THEN "queued" ELSE "submit"]
  /\ \E c \in Cpus : wq' = [wq EXCEPT ![c] = Append(@, NextPart(i))]
  /\ UNCHANGED <<cancel, pinned, private, completed, cancels, cur, pc, dirLock, rw, dev,
                 moved>>

\* The pages of a segment cannot be had: the call fails, the parts before it
\* stay queued.
SubmitFails(i) ==
  /\ MapFails /\ call[i] = "submit"
  /\ call' = [call EXCEPT ![i] = "failed"]
  /\ UNCHANGED <<caio, pinned, nr, private, completed, cancels, work, dirLock, rw, dev,
                 moved>>

-----------------------------------------------------------------------------
(* caio_cancel(), called by the kernel for a request not completed.        *)

\* The function was registered with the first part that was queued.
Registered(i) == nr[i] > 0

Cancel(i) ==
  /\ i \in Cancellable /\ canceler[i] = "idle"
  /\ Registered(i) /\ completed[i] = 0
  /\ canceler' = [canceler EXCEPT ![i] = "spin"]
  /\ target' = [target EXCEPT ![i] = private[i]]
  /\ early' = IF call[i] \in {"flag", "queue"} THEN early \cup {i} ELSE early
  /\ UNCHANGED <<caio, pinned, kiocb, work, dirLock, rw, dev, moved>>

CancelLock(i) ==
  /\ canceler[i] = "spin" /\ lock[target[i]] = None
  /\ lock' = [lock EXCEPT ![target[i]] = i]
  /\ canceler' = [canceler EXCEPT ![i] = "locked"]
  /\ UNCHANGED <<part, cancel, pinned, kiocb, target, early, work, dirLock, rw, dev, moved>>

CancelUnlock(i) ==
  /\ canceler[i] = "locked"
  /\ cancel' = cancel \cup {target[i]}
  /\ lock' = [lock EXCEPT ![target[i]] = None]
  /\ canceler' = [canceler EXCEPT ![i] = "done"]
  /\ UNCHANGED <<part, pinned, kiocb, target, early, work, dirLock, rw, dev, moved>>

-----------------------------------------------------------------------------
(* async_io_handler().                                                     *)

Goto(c, from, to) == pc[c] = from /\ pc' = [pc EXCEPT ![c] = to]

\* The work queue (external) runs the works of a processor one by one.
Take(c) ==
  /\ wq[c] # <<>>
  /\ Goto(c, "idle", "lock")
  /\ cur' = [cur EXCEPT ![c] = Head(wq[c])]
  /\ wq' = [wq EXCEPT ![c] = Tail(@)]
  /\ UNCHANGED <<caio, pinned, kiocb, cancels, dirLock, rw, dev, moved>>

\* Mutant: a part that has to wait is forgotten.
RequeueNot(c) == UNCHANGED wq

\* requeue_aio_work(): to the end of the queue of the same processor.
Requeue(c) == wq' = [wq EXCEPT ![c] = Append(@, cur[c])]

Leave(c) == cur' = [cur EXCEPT ![c] = None]

\* spin_trylock() of the part; a cancellation holds it for a moment.
LockPart(c) ==
  /\ Goto(c, "lock", "check")
  /\ lock[cur[c]] = None
  /\ lock' = [lock EXCEPT ![cur[c]] = c]
  /\ UNCHANGED <<part, cancel, pinned, kiocb, cancels, wq, cur, dirLock, rw, dev, moved>>

LockPartFails(c) ==
  /\ Goto(c, "lock", "idle")
  /\ lock[cur[c]] # None
  /\ Requeue(c) /\ Leave(c)
  /\ UNCHANGED <<caio, pinned, kiocb, cancels, dirLock, rw, dev, moved>>

\* Mutant: the flag is not looked at.
SkipsNot(p) == FALSE

\* Was the part cancelled before its work came to run?
Skips(p) == p \in cancel

\* A cancelled part is only freed.
Skip(c) ==
  /\ Goto(c, "check", "free")
  /\ Skips(cur[c])
  /\ UNCHANGED <<caio, pinned, kiocb, cancels, wq, cur, dirLock, rw, dev, moved>>

\* spin_trylock() of the direction.
DirFree(d) == dirLock[d] = None

\* The transfer of the part begins.
LockDir(c) ==
  LET d == PartDir(cur[c])
  IN /\ Goto(c, "check", "move")
     /\ ~Skips(cur[c]) /\ DirFree(d)
     /\ dirLock' = [dirLock EXCEPT ![d] = c]
     /\ UNCHANGED <<caio, pinned, kiocb, cancels, wq, cur, rw, dev, moved>>

\* Another transfer has the direction: unlock the part, try again later.
LockDirFails(c) ==
  /\ Goto(c, "check", "idle")
  /\ ~Skips(cur[c]) /\ ~DirFree(PartDir(cur[c]))
  /\ lock' = [lock EXCEPT ![cur[c]] = None]
  /\ Requeue(c) /\ Leave(c)
  /\ UNCHANGED <<part, cancel, pinned, kiocb, cancels, dirLock, rw, dev, moved>>

\* fp_rw() returns, with an error or not, and the kernel is told.
Complete(c) ==
  LET p == cur[c]
  IN /\ Goto(c, "move", "unmap")
     /\ moved' = moved \cup {p}
     /\ completed' = [completed EXCEPT ![p[1]] = @ + 1]
     /\ UNCHANGED <<caio, pinned, call, nr, private, cancels, wq, cur, dirLock, rw, dev>>

\* Mutant: the pages are not put.
UnpinnedNot(p) == pinned

\* unmap_user_buf().
Unpinned(p) == pinned \ {p}

Unmap(c) ==
  /\ Goto(c, "unmap", "free")
  /\ pinned' = Unpinned(cur[c])
  /\ dirLock' = [dirLock EXCEPT ![PartDir(cur[c])] = None]
  /\ UNCHANGED <<caio, kiocb, cancels, wq, cur, rw, dev, moved>>

\* The part is unlocked, then freed.
Unlock(c) ==
  /\ Goto(c, "free", "release")
  /\ lock' = [lock EXCEPT ![cur[c]] = None]
  /\ UNCHANGED <<part, cancel, pinned, kiocb, cancels, wq, cur, dirLock, rw, dev, moved>>

Free(c) ==
  /\ Goto(c, "release", "idle")
  /\ part' = [part EXCEPT ![cur[c]] = "freed"]
  /\ Leave(c)
  /\ UNCHANGED <<cancel, lock, pinned, kiocb, cancels, wq, dirLock, rw, dev, moved>>

-----------------------------------------------------------------------------
(* cdev_gen_read_write().                                                  *)

RwLock(t) ==
  /\ dev = "live" /\ rw[t] = "idle" /\ DirFree(Dir[t])
  /\ rw' = [rw EXCEPT ![t] = "map"]
  /\ dirLock' = [dirLock EXCEPT ![Dir[t]] = t]
  /\ UNCHANGED <<caio, pinned, kiocb, cancels, work, dev, moved>>

\* The direction is in use: the call fails at once.
RwRefused(t) ==
  /\ dev = "live" /\ rw[t] = "idle" /\ ~DirFree(Dir[t])
  /\ rw' = [rw EXCEPT ![t] = "returned"]
  /\ UNCHANGED <<caio, pinned, kiocb, cancels, work, dirLock, dev, moved>>

RwMap(t) ==
  /\ rw[t] = "map"
  /\ rw' = [rw EXCEPT ![t] = "move"]
  /\ pinned' = pinned \cup {t}
  /\ UNCHANGED <<caio, kiocb, cancels, work, dirLock, dev, moved>>

\* Mutant: the error return keeps the lock.
RwUnlockNot(t) == UNCHANGED dirLock

RwUnlock(t) == dirLock' = [dirLock EXCEPT ![Dir[t]] = None]

RwMapFails(t) ==
  /\ MapFails /\ rw[t] = "map"
  /\ rw' = [rw EXCEPT ![t] = "returned"]
  /\ RwUnlock(t)
  /\ UNCHANGED <<caio, pinned, kiocb, cancels, work, dev, moved>>

\* The blocking request returned: unmap and unlock.
RwDone(t) ==
  /\ rw[t] = "move"
  /\ rw' = [rw EXCEPT ![t] = "returned"]
  /\ pinned' = pinned \ {t}
  /\ RwUnlock(t)
  /\ UNCHANGED <<caio, kiocb, cancels, work, dev, moved>>

-----------------------------------------------------------------------------
(* qdma_cdev_destroy(), after the files of the device were closed.         *)

Destroy ==
  /\ dev = "live"
  /\ \A i \in Iocbs : call[i] \in {"idle", "queued", "failed"}
  /\ \A t \in Callers : rw[t] \in {"idle", "returned"}
  /\ dev' = "drain"
  /\ UNCHANGED <<caio, pinned, kiocb, cancels, work, dirLock, rw, moved>>

\* destroy_workqueue() waits for all works, those they queue again included.
Drained == \A c \in Cpus : pc[c] = "idle" /\ wq[c] = <<>>

DestroyDone ==
  /\ dev = "drain" /\ Drained
  /\ dev' = "freed"
  /\ UNCHANGED <<caio, pinned, kiocb, cancels, work, dirLock, rw, moved>>

-----------------------------------------------------------------------------
SubmitStep(i) ==
  SubmitPart(i) \/ SubmitFails(i) \/ SubmitFlag(i) \/ SubmitQueue(i)

CancelStep(i) == CancelLock(i) \/ CancelUnlock(i)

HandlerStep(c) ==
  \/ Take(c) \/ LockPart(c) \/ LockPartFails(c) \/ Skip(c) \/ LockDir(c)
  \/ LockDirFails(c) \/ Complete(c) \/ Unmap(c) \/ Unlock(c) \/ Free(c)

RwStep(t) == RwMap(t) \/ RwMapFails(t) \/ RwDone(t)

Next ==
  \/ \E i \in Iocbs : Submit(i) \/ SubmitStep(i) \/ Cancel(i) \/ CancelStep(i)
  \/ \E c \in Cpus : HandlerStep(c)
  \/ \E t \in Callers : RwLock(t) \/ RwRefused(t) \/ RwStep(t)
  \/ Destroy \/ DestroyDone

Spec == Init /\ [][Next]_vars

\* What was started runs on: system calls, cancellations, the works of each
\* processor (a transfer ends, at the latest with its time out of ten
\* seconds), and the destruction. Nobody has to make calls.
Fairness ==
  /\ \A i \in Iocbs : WF_vars(SubmitStep(i)) /\ WF_vars(CancelStep(i))
  /\ \A c \in Cpus : WF_vars(HandlerStep(c))
  /\ \A t \in Callers : WF_vars(RwStep(t))
  /\ WF_vars(DestroyDone)

FairSpec == Spec /\ Fairness

-----------------------------------------------------------------------------
(* Properties.                                                             *)

\* The variables have their types.
TypeOK ==
  /\ part \in [Parts -> {"none", "live", "freed"}]
  /\ cancel \subseteq Parts
  /\ lock \in [Parts -> Cpus \cup Iocbs \cup {None}]
  /\ pinned \subseteq Parts \cup Callers
  /\ call \in [Iocbs -> {"idle", "submit", "flag", "queue", "queued", "failed"}]
  /\ nr \in [Iocbs -> Nat] /\ completed \in [Iocbs -> Nat]
  /\ private \in [Iocbs -> Parts \cup {None}] /\ target \in [Iocbs -> Parts \cup {None}]
  /\ early \subseteq Iocbs
  /\ canceler \in [Iocbs -> {"idle", "spin", "locked", "done"}]
  /\ wq \in [Cpus -> Seq(Parts)] /\ cur \in [Cpus -> Parts \cup {None}]
  /\ pc \in [Cpus -> {"idle", "lock", "check", "move", "unmap", "free", "release"}]
  /\ dirLock \in [Dirs -> Cpus \cup Callers \cup {None}]
  /\ rw \in [Callers -> {"idle", "map", "move", "returned"}]
  /\ dev \in {"live", "drain", "freed"} /\ moved \subseteq Parts

\* Who transfers data in direction d right now.
Moving(d) ==
  {c \in Cpus : pc[c] = "move" /\ PartDir(cur[c]) = d}
  \cup {t \in Callers : rw[t] = "move" /\ Dir[t] = d}

\* The queue of a direction is used by one transfer at a time, blocking or
\* asynchronous, and only with the lock of the direction.
OneTransfer == \A d \in Dirs : \A x \in Moving(d) : dirLock[d] = x

\* Where a part is: in the work queue once, or in a handler, never in both.
Places(p) ==
  (UNION {{c} \X {k \in DOMAIN wq[c] : wq[c][k] = p} : c \in Cpus})
  \cup ({c \in Cpus : cur[c] = p} \X {0})

\* A part that was submitted is in exactly one place until it is freed, and
\* in none after that, or before: no part is run twice, none is forgotten,
\* and nothing of the device is left to run when it is freed. The variables
\* have their types, and a direction has one transfer at a time.
PartsExact ==
  /\ TypeOK /\ OneTransfer
  /\ \A p \in Parts : part[p] = "live" <=> \E x \in Places(p) : Places(p) = {x}
  /\ \A p \in Parts : part[p] # "live" => Places(p) = {}
  /\ dev = "freed" => \A p \in Parts : part[p] # "live"

\* User pages are pinned while they are transferred. When a part is freed it
\* was transferred, the kernel was told once for it, and its pages were
\* released; or it was cancelled, nobody was told and its pages stay pinned.
EndsProperly ==
  /\ \A d \in Dirs : \A x \in Moving(d) :
       (IF x \in Cpus THEN cur[x] ELSE x) \in pinned
  /\ \A p \in Parts : part[p] = "freed" =>
       IF p \in moved THEN p \notin pinned ELSE p \in cancel /\ p \in pinned
  /\ \A i \in Iocbs : completed[i] = Cardinality({p \in moved : p[1] = i})
  /\ \A t \in Callers : rw[t] = "returned" => t \notin pinned

\* A part for which caio_cancel() returned before its transfer is never
\* transferred, whatever the work is doing with its lock: unless the part was
\* found in iocb->private before it was set up, which takes a request of more
\* than one segment. Then the flag may be lost, or the lock with it.
CancelledNotMoved ==
  [][\A p \in moved' \ moved :
       canceler[p[1]] = "done" /\ target[p[1]] = p => p[1] \in early]_vars

\* Every part comes to its end: those that wait for the lock of a direction,
\* or meet a cancellation, are tried again until they get it.
EveryPartEnds == \A p \in Parts : part[p] = "live" ~> part[p] = "freed"
=============================================================================
