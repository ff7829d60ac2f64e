------------------------------- MODULE Device -------------------------------
(***************************************************************************)
(* The life of one PCI function in the driver: probe and remove, online    *)
(* and offline, function-level reset, PCIe errors, the sysfs settings,     *)
(* SR-IOV, and the queues added, started, stopped and deleted in batches   *)
(* over netlink.                                                           *)
(*                                                                         *)
(* All of these are sequences of steps that acquire and release resources, *)
(* and most acquiring steps can fail, which continues at the label their   *)
(* goto names. An operation is therefore a sequence of steps in `todo', of *)
(* which one is taken at a time: each state in between is one in which an  *)
(* interrupt can arrive. Operations do not overlap: the driver core holds  *)
(* the lock of the device around its callbacks, and netlink requests are   *)
(* handled one by one.                                                     *)
(***************************************************************************)
EXTENDS Integers, Sequences, FiniteSets

CONSTANTS
  TableSize,  \* xpdev->qmax: indices the queue table of the module has
  Qsets,      \* numbers of queues per direction the hardware or sysfs may give
  Vectors,    \* interrupt vectors of the function, num_vecs
  Modes,      \* "poll", "direct", "aggregate": poll_mode and intr_agg
  ResetModes, \* the modes in which the function is reset
  MaxMisused, \* bound: queues stopped or deleted out of order at any time
  Faults      \* what may fail: names of resources and checks (not "xdev": without
              \* memory for it qdma_device_open() returns 0 and a null handle)

ASSUME QsetsAssumption == Qsets \subseteq 0 .. TableSize /\ TableSize \in Nat /\ Vectors \in Nat
ASSUME FaultsAssumption == "xdev" \notin Faults
ASSUME ModesAssumption == Modes \subseteq {"poll", "direct", "aggregate"} /\ ResetModes \subseteq Modes

Dirs   == {"h2c", "c2h"}
Queues == Dirs \X (0 .. TableSize - 1)
Dir(q) == q[1]
Idx(q) == q[2]

\* What is held by name; pci_enable_device() is counted, in `enables'.
Resources == {"regions", "xdev", "bars", "irqs", "qdev", "vfs", "xpdev", "chrdev",
              "sysfs", "drvdata"}

VARIABLES
  mode,     \* conf.poll_mode, conf.intr_agg
  op,       \* the operation under way
  todo,     \* its steps still to take, pairs <<verb, object>>
  res,      \* resources held
  enables,  \* the count of pci_enable_device()
  qsets,    \* conf.qsets_max
  ranged,   \* qdev->init_qrange
  coalEn,   \* xdev->intr_coal_en
  coal,     \* what xdev->intr_coal_list points to: "none", "live" or "freed" memory
  queue,    \* the queues of qdev: "free", "added" or "started"
  ctx,      \* queues whose hardware contexts are programmed
  node,     \* intr_list of a queue: "fresh", "listed", "removed" (list_del() leaves
            \* its pointers poisoned), or "torn": added or removed twice in a row
  misused,  \* history: queues stopped that did not run, or deleted while they ran,
            \* since the arrays were allocated; without them, those with contexts
  table,    \* queues in xpdev->qdata
  cdev,     \* dir_init of the character device of each pair, {}: no device
  bad       \* what was released or used when it was not held

queues == <<ranged, coalEn, coal, queue, ctx, node, misused>>
module == <<table, cdev>>
vars   == <<mode, op, todo, res, enables, qsets, queues, module, bad>>

Free  == [q \in Queues |-> "free"]
Fresh == [q \in Queues |-> "fresh"]

Init ==
  /\ mode \in Modes
  /\ op = "none" /\ todo = <<>>
  /\ res = {} /\ enables = 0
  /\ qsets \in Qsets
  /\ ranged = FALSE /\ coalEn = FALSE /\ coal = "none"
  /\ queue = Free /\ ctx = {} /\ node = Fresh /\ misused = {}
  /\ table = {} /\ cdev = [i \in 0 .. TableSize - 1 |-> {}]
  /\ bad = {}

-----------------------------------------------------------------------------
(* The operations as sequences of steps.                                   *)

\* Mutant: the rings are freed before the queues that use them are stopped.
CleanupRingFirst == << <<"drop", "coal">>, <<"stop_all", "device">>, <<"drop", "irqs">>, <<"drop", "qdev">> >>

\* Mutant: the queues are left running.
CleanupNoStop == << <<"drop", "irqs">>, <<"drop", "coal">>, <<"drop", "qdev">> >>

\* qdma_device_cleanup() of a device that has its queue arrays.
Cleanup == << <<"stop_all", "device">>, <<"drop", "irqs">>, <<"drop", "coal">>, <<"drop", "qdev">> >>

\* qdma_device_init().
InitDevice == << <<"take", "irqs">>, <<"check", "queues">>, <<"take", "qdev">> >>

\* qdma_device_online(): virtual functions are enabled later, over sysfs.
Online == InitDevice

\* qdma_device_offline().
Offline == << <<"drop", "vfs">>, <<"cleanup", "device">> >>

\* qdma_device_close().
Close == Offline \o << <<"drop", "bars">>, <<"drop", "regions">>, <<"drop", "pci">>, <<"drop", "xdev">> >>

\* probe_one() with qdma_device_open() and qdma_device_online().
Probe ==
  << <<"take", "regions">>, <<"take", "pci">>, <<"check", "mask">>, <<"take", "xdev">>,
     <<"take", "bars">>, <<"check", "interface">> >>
  \o Online
  \o << <<"take", "xpdev">>, <<"take", "chrdev">>, <<"take", "sysfs">>, <<"take", "drvdata">> >>

\* The qdata of the table as xpdev_device_cleanup() goes through them, all
\* h2c queues first, and as xpdev_queue_delete_all() does, pair by pair.
TableOrder ==
  [k \in 1 .. 2 * TableSize |->
     <<IF k <= TableSize THEN "h2c" ELSE "c2h", (k - 1) % TableSize>>]
PairOrder ==
  [k \in 1 .. 2 * TableSize |->
     <<IF k % 2 = 1 THEN "h2c" ELSE "c2h", (k - 1) \div 2>>]

For(verb, order) == [k \in DOMAIN order |-> <<verb, order[k]>>]

\* remove_one().
Remove ==
  << <<"drop", "sysfs">>, <<"drop", "chrdev">> >> \o For("forget", TableOrder)
  \o Close \o << <<"drop", "xpdev">>, <<"drop", "drvdata">> >>

\* qdma_reset_prepare() and qdma_reset_done().
Reset == Offline \o For("delete", PairOrder) \o Online

\* qdma_error_detected() in the frozen state, qdma_slot_reset().
FrozenError == << <<"drop", "pci">>, <<"take", "reenable">> >>

\* qdma_set_qmax().
SetQmax(n) == << <<"cleanup", "device">>, <<"set", n>> >> \o InitDevice

\* The queues a netlink request names: num from index first, one direction
\* or, for a pair, c2h and then h2c.
Batch(verb, first, num, dirs) ==
  [k \in 1 .. num * Len(dirs) |->
     <<verb, <<dirs[((k - 1) % Len(dirs)) + 1], first + ((k - 1) \div Len(dirs))>>>>]

\* xpdev_queue_add() is qdma_queue_add() and then the character device.
AddBatch(first, num, dirs) ==
  [k \in 1 .. 2 * num * Len(dirs) |->
     LET q == Batch("add", first, num, dirs)[(k + 1) \div 2][2]
     IN  <<IF k % 2 = 1 THEN "add" ELSE "cdev", q>>]

-----------------------------------------------------------------------------
(* Where a failing step continues.                                         *)

ReleaseRegions == << <<"drop", "regions">> >>
DisableDevice  == << <<"drop", "pci">> >> \o ReleaseRegions
UnmapBars      == << <<"drop", "bars">>, <<"drop", "xdev">> >> \o DisableDevice
CleanupQdma    == << <<"cleanup", "device">> >> \o Offline \o UnmapBars
CloseDevice    == Close

\* Mutant: xpdev is not freed when the device numbers run out.
ProbeFailedKeeps(s) ==
  CASE s = "regions" -> <<>>
    [] s = "pci" -> ReleaseRegions
    [] s = "mask" -> DisableDevice
    [] s \in {"bars", "interface"} -> UnmapBars
    [] s \in {"irqs", "queues", "qdev"} -> CleanupQdma
    [] s \in {"xpdev", "chrdev", "sysfs"} -> CloseDevice

\* The label probe_one() or qdma_device_open() jumps to when step s failed.
ProbeFailed(s) ==
  CASE s = "regions" -> <<>>
    [] s = "pci" -> ReleaseRegions
    [] s = "mask" -> DisableDevice
    [] s \in {"bars", "interface"} -> UnmapBars
    [] s \in {"irqs", "queues", "qdev"} -> CleanupQdma
    [] s = "xpdev" -> CloseDevice
    [] s \in {"chrdev", "sysfs"} -> CloseDevice \o << <<"drop", "xpdev">> >>

\* qdma_device_init() gives its interrupts back when the arrays cannot be
\* allocated, but not when there are no queues to allocate.
InitUndone(s) == IF s = "qdev" THEN << <<"drop", "irqs">> >> ELSE <<>>

\* Where operation o continues after step s failed.
Failed(o, s) ==
  CASE o = "probe" -> InitUndone(s) \o ProbeFailed(s)
    [] o \in {"reset", "set_qmax"} -> InitUndone(s) \o << <<"cleanup", "device">> >>
    [] o = "error" -> Remove
    [] o \in {"netlink", "sriov"} -> <<>>

-----------------------------------------------------------------------------
(* The operations begin.                                                   *)

Attached == "drvdata" \in res

Begin(o, steps) ==
  /\ todo = <<>>
  /\ op' = o /\ todo' = steps
  /\ UNCHANGED <<mode, res, enables, queues, module, bad>>

\* The driver is bound to a function; qdma_device_attributes_get() reads how
\* many queues it has.
ProbeOne  == ~Attached /\ Begin("probe", Probe) /\ qsets' \in Qsets
RemoveOne == Attached /\ Begin("remove", Remove) /\ UNCHANGED qsets

ResetFunction ==
  /\ Attached /\ mode \in ResetModes
  /\ Begin("reset", Reset) /\ UNCHANGED qsets

ErrorDetected == Attached /\ Begin("error", FrozenError) /\ UNCHANGED qsets

\* sriov_config(): nothing to do when virtual functions are enabled already.
SriovConfig(on) ==
  /\ Attached /\ ~(on /\ "vfs" \in res)
  /\ Begin("sriov", << <<IF on THEN "take" ELSE "drop", "vfs">> >>)
  /\ UNCHANGED qsets

\* set_qmax() takes a smaller number while no queue was added.
QmaxFree(n) == ~ranged /\ n < qsets

SysfsSetQmax(n) ==
  /\ Attached /\ "qdev" \in res /\ QmaxFree(n)
  /\ Begin("set_qmax", SetQmax(n)) /\ UNCHANGED qsets

\* A stop of a queue that does not run, a delete of one that does.
OutOfOrder(verb, q) ==
  \/ verb = "stop" /\ queue[q] = "added"
  \/ verb = "delete" /\ queue[q] = "started"

\* A netlink request for num queues. The library does not look whether the
\* device has its queue arrays; it is asked only when it has. Bound: requests
\* out of order name no more than MaxMisused queues.
QueueDirs == {<<"h2c">>, <<"c2h">>, <<"c2h", "h2c">>}
Netlink(verb, first, num, dirs) ==
  /\ Attached /\ "qdev" \in res
  /\ first + num <= TableSize
  /\ LET named == {dirs[k] : k \in DOMAIN dirs} \X (first .. first + num - 1)
     IN  Cardinality(misused \cup {q \in named : OutOfOrder(verb, q)}) <= MaxMisused
  /\ Begin("netlink", IF verb = "add" THEN AddBatch(first, num, dirs) ELSE Batch(verb, first, num, dirs))
  /\ UNCHANGED qsets

-----------------------------------------------------------------------------
(* The steps.                                                              *)

Verb   == todo[1][1]
Object == todo[1][2]
On(v)  == todo # <<>> /\ Verb = v
Advance == todo' = Tail(todo)

\* pci_enable_device() and pci_disable_device() count.
IsPci(r) == r \in {"pci", "reenable"}

\* In polled mode no interrupt is requested or freed.
Vacuous(r) == r = "irqs" /\ (mode = "poll" \/ Vectors = 0)

Take ==
  /\ On("take") /\ Advance
  /\ enables' = IF IsPci(Object) THEN enables + 1 ELSE enables
  /\ res' = IF IsPci(Object) \/ Vacuous(Object) THEN res ELSE res \cup {Object}
  /\ IF Object = "xdev"
     THEN coal' = "none" /\ coalEn' = FALSE
     ELSE UNCHANGED <<coal, coalEn>>
  /\ UNCHANGED <<mode, op, qsets, ranged, queue, ctx, node, misused, module, bad>>

Check ==
  /\ On("check") /\ Advance
  /\ Object = "queues" => qsets > 0
  /\ UNCHANGED <<mode, op, res, enables, qsets, queues, module, bad>>

\* A step that acquires or checks something fails.
Fail ==
  /\ todo # <<>> /\ Verb \in {"take", "check"}
  /\ \/ Object \in Faults /\ ~Vacuous(Object)
     \/ Object = "queues" /\ qsets = 0
  /\ todo' = Failed(op, Object)
  /\ UNCHANGED <<mode, op, res, enables, qsets, queues, module, bad>>

\* These are released only when they are there: regs, cdev_major, vf_info.
Guarded == {"bars", "chrdev", "vfs"}

Drop ==
  /\ On("drop") /\ Object # "coal" /\ Advance
  /\ res' = res \ {Object}
  /\ enables' = IF Object = "pci" /\ enables > 0 THEN enables - 1 ELSE enables
  /\ LET missing == IF Object = "pci" THEN enables = 0 ELSE Object \notin res
     IN  bad' = IF missing /\ Object \notin Guarded /\ ~Vacuous(Object) THEN bad \cup {Object} ELSE bad
  /\ IF Object = "qdev"
     THEN queue' = Free /\ node' = Fresh /\ ranged' = FALSE /\ misused' = misused \cap ctx
     ELSE UNCHANGED <<queue, node, ranged, misused>>
  /\ UNCHANGED <<mode, op, qsets, coalEn, coal, ctx, module>>

\* intr_ring_teardown(): the pointer to the list and intr_coal_en stay.
DropRings ==
  /\ On("drop") /\ Object = "coal" /\ Advance
  /\ coal' = IF coalEn /\ coal = "live" THEN "freed" ELSE coal
  /\ bad' = IF coalEn /\ coal = "freed" THEN bad \cup {"coal"} ELSE bad
  /\ UNCHANGED <<mode, op, res, enables, qsets, ranged, coalEn, queue, ctx, node, misused,
                 module>>

\* qdma_device_cleanup() without queue arrays returns at once.
CleanupBegins ==
  /\ On("cleanup")
  /\ todo' = (IF "qdev" \in res THEN Cleanup ELSE <<>>) \o Tail(todo)
  /\ UNCHANGED <<mode, op, res, enables, qsets, queues, module, bad>>

SetNumber ==
  /\ On("set") /\ Advance
  /\ qsets' = Object
  /\ UNCHANGED <<mode, op, res, enables, queues, module, bad>>

\* qdma_queue_start() and qdma_queue_stop() put a queue on the list of its
\* interrupt vector and take it off, without looking whether it is there.
Interrupts == mode # "poll" /\ Vectors > 0
Linked(n)   == IF n \in {"fresh", "removed"} THEN "listed" ELSE "torn"
Unlinked(n) == IF n \in {"fresh", "listed"} THEN "removed" ELSE "torn"

\* qdma_queue_stop() of the queues in S, which does not look whether they run.
Stop(S) ==
  /\ queue' = [q \in Queues |-> IF q \in S THEN "added" ELSE queue[q]]
  /\ ctx' = ctx \ S
  /\ node' = [q \in Queues |-> IF q \in S /\ Interrupts THEN Unlinked(node[q]) ELSE node[q]]
  /\ misused' = misused \cup {q \in S : queue[q] # "started"}

\* Every queue that was added and not deleted is stopped.
StopAll ==
  /\ On("stop_all") /\ Advance
  /\ Stop({q \in Queues : queue[q] # "free"})
  /\ UNCHANGED <<mode, op, res, enables, qsets, ranged, coalEn, coal, module, bad>>

\* A queue is wanted that is not there, or one is added that is: the rest of
\* the batch is not handled.
BatchFails(ok) ==
  /\ ~ok
  /\ todo' = <<>>
  /\ UNCHANGED <<mode, op, res, enables, qsets, queues, module, bad>>

\* intr_ring_setup(): rings are used when there are more queues than vectors.
Aggregates == mode = "aggregate" /\ Vectors > 0 /\ Vectors < qsets

\* qdma_queue_add() with qdma_device_prep_q_resource(), which sets the
\* device up for the first queue; the rings are taken to be allocated.
Addable(q) == Idx(q) < qsets /\ queue[q] = "free"
AddQueue ==
  /\ On("add") /\ Addable(Object) /\ Advance
  /\ queue' = [queue EXCEPT ![Object] = "added"]
  /\ ranged' = TRUE
  /\ IF ranged
     THEN UNCHANGED <<coalEn, coal>>
     ELSE coalEn' = Aggregates /\ coal' = IF Aggregates THEN "live" ELSE "none"
  /\ UNCHANGED <<mode, op, res, enables, qsets, ctx, node, misused, module, bad>>
AddFails == On("add") /\ BatchFails(Addable(Object))

\* Mutant: the second queue does not mark its direction.
JoinedNot(q) == IF cdev[Idx(q)] = {} THEN {Dir(q)} ELSE cdev[Idx(q)]

\* There is one character device for a pair, created for its first queue.
Joined(q) == cdev[Idx(q)] \cup {Dir(q)}

AddCdev ==
  /\ On("cdev") /\ Advance
  /\ cdev' = [cdev EXCEPT ![Idx(Object)] = Joined(Object)]
  /\ table' = table \cup {Object}
  /\ UNCHANGED <<mode, op, res, enables, qsets, queues, bad>>

StartQueue ==
  /\ On("start") /\ Object \in table /\ queue[Object] = "added" /\ Advance
  /\ queue' = [queue EXCEPT ![Object] = "started"]
  /\ ctx' = ctx \cup {Object}
  /\ node' = IF Interrupts THEN [node EXCEPT ![Object] = Linked(@)] ELSE node
  /\ UNCHANGED <<mode, op, res, enables, qsets, ranged, coalEn, coal, misused, module, bad>>

\* The queue is not there, runs already, or its start fails; when programming
\* its contexts failed they are cleared.
StartFails ==
  /\ On("start")
  /\ LET startable == Object \in table /\ queue[Object] = "added"
     IN  /\ startable => "start" \in Faults
         /\ ctx' \in {ctx} \cup (IF startable THEN {ctx \ {Object}} ELSE {})
  /\ todo' = <<>>
  /\ UNCHANGED <<mode, op, res, enables, qsets, ranged, coalEn, coal, queue, node, misused,
                 module, bad>>

Stoppable(q) == q \in table /\ queue[q] # "free"
StopQueue ==
  /\ On("stop") /\ Stoppable(Object) /\ Advance
  /\ Stop({Object})
  /\ UNCHANGED <<mode, op, res, enables, qsets, ranged, coalEn, coal, module, bad>>
StopFails == On("stop") /\ BatchFails(Stoppable(Object))

\* xpdev_queue_delete(): the character device goes with the last queue of the
\* pair; the library removes the queue if it has one. qdma_queue_remove() resets
\* `inited' before qdma_descq_cleanup() looks at it: the contexts of a queue
\* that runs are not cleared, and it stays on the list of its vector.
DeleteQueue ==
  /\ On("delete") /\ Object \in table /\ Advance
  /\ bad' = IF cdev[Idx(Object)] = {} THEN bad \cup {"cdev"} ELSE bad
  /\ cdev' = [cdev EXCEPT ![Idx(Object)] = @ \ {Dir(Object)}]
  /\ table' = table \ {Object}
  /\ queue' = [queue EXCEPT ![Object] = "free"]
  /\ misused' = IF queue[Object] = "started" THEN misused \cup {Object} ELSE misused
  /\ UNCHANGED <<mode, op, res, enables, qsets, ranged, coalEn, coal, ctx, node>>
\* xpdev_queue_delete_all() goes on, a netlink request ends.
DeleteNone ==
  /\ On("delete") /\ Object \notin table
  /\ todo' = IF op = "reset" THEN Tail(todo) ELSE <<>>
  /\ UNCHANGED <<mode, op, res, enables, qsets, queues, module, bad>>

\* Mutant: the device goes with the first queue of the pair.
ShiftedOut(dirs) == {}

\* dir_init >>= 1; h2c is bit 0.
Shifted(dirs) == IF "c2h" \in dirs THEN {"h2c"} ELSE {}

\* xpdev_device_cleanup() of one entry: the character device is destroyed
\* at the last direction.
ForgetQueue ==
  /\ On("forget") /\ Object \in table /\ Advance
  /\ LET dirs == cdev[Idx(Object)]
     IN  /\ bad' = IF dirs = {} THEN bad \cup {"cdev"} ELSE bad
         /\ cdev' = [cdev EXCEPT ![Idx(Object)] =
                       IF Cardinality(dirs) = 1 THEN {} ELSE Shifted(dirs)]
  /\ table' = table \ {Object}
  /\ UNCHANGED <<mode, op, res, enables, qsets, queues>>
ForgetNone ==
  /\ On("forget") /\ Object \notin table /\ Advance
  /\ UNCHANGED <<mode, op, res, enables, qsets, queues, module, bad>>

Next ==
  \/ ProbeOne \/ RemoveOne \/ ResetFunction \/ ErrorDetected
  \/ \E on \in BOOLEAN : SriovConfig(on)
  \/ \E n \in Qsets : SysfsSetQmax(n)
  \/ \E verb \in {"add", "start", "stop", "delete"}, dirs \in QueueDirs,
        first \in 0 .. TableSize - 1, num \in 1 .. TableSize : Netlink(verb, first, num, dirs)
  \/ Take \/ Check \/ Fail \/ Drop \/ DropRings \/ CleanupBegins \/ SetNumber \/ StopAll
  \/ AddQueue \/ AddFails \/ AddCdev
  \/ StartQueue \/ StartFails \/ StopQueue \/ StopFails
  \/ DeleteQueue \/ DeleteNone \/ ForgetQueue \/ ForgetNone

Spec == Init /\ [][Next]_vars

-----------------------------------------------------------------------------
Idle == todo = <<>>

Running == {q \in Queues : queue[q] = "started"}

\* The variables have their types; the PCI device is never enabled twice.
TypeOK ==
  /\ mode \in Modes /\ qsets \in Qsets
  /\ res \subseteq Resources /\ enables \in 0 .. 1
  /\ ranged \in BOOLEAN /\ coalEn \in BOOLEAN /\ coal \in {"none", "live", "freed"}
  /\ queue \in [Queues -> {"free", "added", "started"}]
  /\ ctx \subseteq Queues /\ table \subseteq Queues /\ misused \subseteq Queues
  /\ node \in [Queues -> {"fresh", "listed", "removed", "torn"}]
  /\ cdev \in [0 .. TableSize - 1 -> SUBSET Dirs]

\* After a probe that failed anywhere, and after a remove, nothing is held:
\* no resource, no interrupt ring, no character device, and no hardware
\* context but of a queue that was deleted while it ran, which the driver
\* leaves behind. The variables have their types; the PCI device is enabled
\* once at most.
NothingLeft ==
  /\ TypeOK
  /\ Idle /\ ~Attached =>
    /\ res = {} /\ enables = 0 /\ ctx \subseteq misused
    /\ coal # "live" /\ table = {} /\ \A i \in DOMAIN cdev : cdev[i] = {}

\* Whatever failed before, nothing is released twice, no character device is
\* used after it was destroyed, and no queue is put on or taken off the list of
\* its vector twice in a row, if it was never stopped, by a request or with its
\* device, when it did not run, and never deleted while it ran: the driver
\* does not look.
ReleasedOnce ==
  /\ bad = {}
  /\ \A q \in Queues : node[q] = "torn" => q \in misused

\* At every moment at which an interrupt can arrive its handler finds the
\* device and its registers, the queues that run on the lists of the vectors
\* and, but for a misused queue, no other; when queues run in aggregated mode
\* it also finds the queue arrays and the interrupt rings.
InterruptSafe ==
  /\ "irqs" \in res => {"xdev", "bars"} \subseteq res
  /\ Interrupts => \A q \in Queues \ misused : node[q] = "listed" <=> queue[q] = "started"
  /\ Running \cup (ctx \ misused) # {} /\ coalEn => "qdev" \in res /\ coal = "live"

\* A queue that runs has its contexts, on a device that is there and has its
\* interrupts; and the hardware knows no other queue, but one that was deleted
\* while it ran: no other context survives the queue arrays.
ContextsBacked ==
  /\ Running # {} => {"qdev", "bars"} \subseteq res
  /\ Running # {} /\ mode # "poll" /\ Vectors > 0 => "irqs" \in res
  /\ Running \subseteq ctx /\ ctx \ Running \subseteq misused
  /\ \A q \in Running : Idx(q) < qsets

\* Between operations there is a character device for exactly the pairs that
\* have a queue in the table, with exactly their directions; a queue of the
\* table exists in the library while the device is online.
CdevsExact ==
  Idle =>
    /\ \A i \in DOMAIN cdev : cdev[i] = {d \in Dirs : <<d, i>> \in table}
    /\ "qdev" \in res => \A q \in table : queue[q] # "free"
=============================================================================
