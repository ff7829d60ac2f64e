# TLA+ models of the QDMA Linux driver (libqdma)

The repository holds a Linux kernel driver for the Xilinx QDMA, a PCIe DMA
engine with many queues: the core library `src/libqdma`, the module and
character device `src/drv`, and user space tools. This directory models the
parts of it in which several contexts (system calls, kernel threads,
interrupts, timers, the hardware, other PCIe functions) work on shared state,
checks the models with TLC and proves theorems about them with TLAPS.

    tlc -config DescQueue.cfg MCDescQueue      # model-check one instance
    tlapm DescQueueProofs.tla                  # check the proofs of one module

Contents: 1 inventory of the system, 2 modules, 3 runs, 4 proofs, 5 results,
6 what is not modelled, 7 plan.

## 1. The system

| Component | Sources | State | Operations |
|---|---|---|---|
| Descriptor queue (MM, ST H2C) | `libqdma_export.c`, `qdma_descq.[ch]` | `work_list`, `pend_list`, ring, `pidx`, `cidx`, `avail`, `credit`; per request `offset`, `desc_nr`, `done`, `status` | `qdma_request_submit`, `qdma_request_wait_for_cmpl`, `qdma_descq_proc_sgt_request`, `qdma_descq_service_wb` |
| Worker threads | `thread.c`, `qdma_thread.c` | a list of queues, the task state | `xthread_main`, `qdma_kthread_wakeup`, add and remove work |
| ST C2H queue | `qdma_st_c2h.c`, `libqdma_export.c` | free list of pages (`pidx`, `pidx_pend`, `avail`, `sdesc`, `sdesc_info`), completion ring (`cidx_wrb`, `cidx_wrb_pend`, `color`), waiting readers | `qdma_request_submit_st_c2h`, `descq_process_completion_st_c2h`, `descq_st_c2h_read`, refill |
| Queue life cycle | `libqdma_export.c`, `qdma_descq.c`, `qdma_device.c` | `enabled`, `inited`, `online`, queue counts, vector counts, queue range of the function | add, config, start, stop, remove |
| Mailbox, SR-IOV | `qdma_mbox.c`, `qdma_sriov.c`, `qdma_device.c` | one message each way, `m_req`, `m_resp`, the table of virtual functions | send, receive timer, HELLO, BYE, FMAP, CSR |
| Interrupts | `qdma_intr.c` | aggregation ring per vector (`cidx`, `color`), work items | direct and aggregated handlers, set up |
| Device | `xdev.c`, `qdma_device.c`, `drv/qdma_mod.c` | device list, online and offline flags, queue arrays, queue tables of the module | open, close, online, offline, probe, remove, PCIe error handlers |
| Contexts, registers | `qdma_context.c`, `qdma_regs.c` | hardware contexts behind an indirect command register | program, clear, read |
| Character device | `drv/cdev.c` | asynchronous requests, a work queue, a lock per direction | read, write, aio |
| Netlink, tools, scripts | `drv/nl.c`, `user`, `tools`, `scripts` | none of their own | formatting and parsing |

How they interact. A system call on the character device (or a user of the
library) calls `qdma_request_submit()`. For MM and ST H2C queues it appends the
request to the `work_list` of the queue and wakes the *request thread*, which
writes descriptors and the PIDX register, and moves the request to `pend_list`.
The hardware executes descriptors and writes its consumer index to memory. The
*writeback thread* (polled mode) or a work item scheduled by the interrupt
handler (interrupt mode) turns this index into credit and completes requests.
For ST C2H the roles are turned around: pages are posted beforehand, the
hardware fills them and writes completion entries, and the service routine
hands the data to waiting readers. Queues are created and started from the
netlink interface; a virtual function asks the physical one for its range of
queues and for contexts through the mailbox.

What is hard, and what makes each component correct:

- *Descriptor queue.* Four contexts share the ring under one lock that is
  released between their steps, the hardware moves on at any time, requests are
  posted in parts, writebacks cover parts of requests, callers give up. Correct
  means: descriptors are neither lost nor overwritten, a request is completed
  exactly when all its data was moved and in order, memory stays mapped while
  the hardware uses it, and nothing waits forever.
- *Worker threads.* A wakeup must not fall between the check for work and the
  sleep.
- *ST C2H queue.* Readers take data in two critical sections, packets cover
  several pages, reads end within packets, entries of a former lap lie in the
  ring. Correct means: the stream is delivered in order and once, pages and
  entries go back to the hardware when, and only when, they were read.
- *Queue life cycle.* The state is checked and changed in several critical
  sections, and steps can fail half way. Correct means: counts agree with flags,
  resources exist exactly while the queue is started.
- *Mailbox.* Messages are answered late or not at all, senders time out. Correct
  means: an answer belongs to its question, virtual functions get disjoint
  ranges of queues, a table entry belongs to one function.
- *Interrupts.* The color of entries changes at each lap, interrupts are merged at
  three places, errors happen while errors are handled. Correct means: each entry
  is handled once, no queue and no error is forgotten.
- *Character device.* Works of one device run on several processors, give way to
  each other by queueing themselves again, and may be cancelled at any moment.
  Correct means: each part ends once, one transfer per direction, pages pinned
  while they are used.
- *Device.* Long sequences of steps that can fail, undone at labels, and repeated
  by reset, error recovery and sysfs. Correct means: what is held is released
  once, in an order in which interrupts and the hardware find what they use.
- *Contexts.* One indirect register is shared by the queues of all functions, and
  one context by both directions of a pair. Correct means: a queue that runs has
  its own contexts and keeps them, one that does not has none that points to it.

## 2. Modules

| Module | Models |
|---|---|
| `DescQueue` | one MM or ST H2C queue: callers, request thread, writeback thread or interrupt work, hardware |
| `DmaService` | what a caller may rely on: requests are executed one after the other; refined by `DescQueue` |
| `StC2h` | one ST C2H queue in default mode: readers, service routine, hardware |
| `QueueLife` | the control plane of the queues of one function: add, start, stop, delete, against threads, interrupt work and callers |
| `Mbox` | messages between virtual functions and their physical function: online and offline, queue ranges, contexts, settings |
| `MboxService` | what a virtual function may rely on: messages handled once and in order, success only when true; refined by `Mbox` |
| `IntrAggr` | the interrupts of one function: direct, through an aggregation ring, errors |
| `Aio` | the character device of a pair: blocking and asynchronous calls, cancellation |
| `Device` | one function from probe to remove: resources, failures, reset, errors, sysfs, batches of queues |
| `Contexts` | the contexts of queues behind the indirect register, used by two threads |
| `DescQueueProofs`, `StC2hProofs`, `QueueLifeProofs`, `MboxProofs`, `IntrAggrProofs`, `AioProofs`, `DeviceProofs`, `ContextsProofs` | theorems about the module they are named after |
| `MCDescQueue`, `MCStC2h`, `MCQueueLife`, `MCMbox`, `MCIntrAggr`, `MCAio`, `MCDevice`, `MCContexts` | instances for TLC |

Each module takes a part of the system whose other parts it simplifies: the
request of `QueueLife` is one token, `DescQueue` has the details; `DescQueue` and
`StC2h` may be interrupted after each writeback, `IntrAggr` says which interrupts
come; a start of `Device` is one step, `QueueLife` has its critical sections and
`Contexts` the commands it sends; the steps of a call are in `Aio` one transfer,
in `DescQueue` a request.

### DescQueue

A variable has the name of the field it models. Requests are members of `Reqs`;
a scatter-gather entry is at most a page and takes one descriptor, so a request
is its number of entries `NDesc[r]`, and `offset`, `descNr` count entries. The
contents of a descriptor is the request it moves data of. `status` merges
`cb->done` and `cb->status`. `polled` (chosen in `Init`) is `num_vecs = 0`.

One action is one stretch of code between two points at which another context
can interfere. The queue lock is a variable only where the code holds it across
several steps with visible effects in between (`WrkLock .. WrkUnlock`,
`WbTake .. WbUnlock`): the hardware sees the doorbell after each request of
`work_list`, and executes while the lock is held. Critical sections of one step
just ask for `lock = "free"`.

| Action | Code |
|---|---|
| `Submit`, `Kick` | `qdma_request_submit()` until the lock is released; the wakeup and the choice between waiting and returning after it |
| `WaitOver`, `Recheck`, `Unmap` | `qdma_request_wait_for_cmpl()`: the wait ends (done, time out or signal), the second look under the lock that unlinks a request not done, the error exit |
| `PrepareSleep`, `CheckWork`, `Resume`, `SleepTimeout` | `xthread_main()` with `set_current_state`, `fpending`, `schedule` and `schedule_timeout` |
| `WrkLock`, `WrkPost`, `WrkReject`, `WrkUnlock` | `qdma_thread_wrk_proc()` and `descq_mm_proc_request()` / `descq_proc_st_h2c_request()` for the first request of the list |
| `WbNothing`, `WbTake`, `WbComplete`, `WbCharge`, `WbUnlock` | `descq_mm_n_h2c_wb()`, `descq_wb_credit()`, `req_update_pend()` |
| `Interrupt` | handler and `schedule_work`, which does nothing while the work is pending |
| `HwExecute`, `HwWriteback` | the hardware (external): it executes up to the doorbell and writes its index back now and then, with an interrupt in interrupt mode |

A task in state "sleeping" that is not yet off the processor is modelled as
Linux does it: `Wakeup` sets it running, and `Resume` is then possible at once.

### StC2h

Data is counted in units numbered in the order of arrival, so that the order of
delivery can be stated; `out` records the units in the order in which they were
copied to readers. A page holds `PgSz` units. `info` holds the end-of-packet
flag and `cidx`, the entry after the one of the packet. `svc` holds the local
variables of `descq_process_completion_st_c2h()`, in particular the new `pidx`
that becomes visible only after the batch was parsed.

| Action | Code |
|---|---|
| `ReadBuffered`, `Enqueue`, `WaitOver` | `qdma_request_submit_st_c2h()`: two critical sections with a gap between them; then the wait |
| `ServiceStart`, `ParseBad`, `RcvPkt`, `RcvUddOnly`, `ParseDone`, `ServeReader`, `Refill` | `descq_process_completion_st_c2h()`, `rcv_pkt()`, `rcv_udd_only()`, `qdma_c2h_packets_proc_dflt()`, all with the lock held |
| `Restart` | `qdma_queue_stop()` and `qdma_queue_start()` as one step, while no caller has a request: what `qdma_descq_config_complete()`, `_alloc_resource()` and `_prog_hw()` set, and what they leave |
| `HwPacket`, `HwOther`, `HwStatus`, `HwInterrupt` | the hardware (external): packets, entries without a packet or with an error, the written back index, the interrupt |

The hardware's interrupt is modelled from how the driver uses it: every write
of the CIDX register carries `irq_en`, and one interrupt is raised after such a
write once there are entries the driver has not released.

### QueueLife

A queue is `<<dir, idx>>`; the two queues of an index are a pair. The fields of
`struct qdma_descq` are functions of queues. `cdev[i]` is `dir_init` of the
character device of pair `i`, which is also the entry of a queue in the table of
the module (`xpdev_queue_get()`): a queue can only be deleted, started and
stopped through it. `ranged` is `init_qrange`: the queue range of the function is
set up with the first queue that is added. Netlink handles one request at a time;
`ctl` is the request and where it stands. Its steps interleave with the threads,
the interrupt work and callers.

| Action | Code |
|---|---|
| `Add`, `AddAny`, `AddPrepFails` | `xpdev_queue_add()` and `qdma_queue_add()`, with an index or `QDMA_QUEUE_IDX_INVALID`; the queue range cannot be set up. One step each: nobody uses a queue that was not added |
| `Start`, `StartAlloc`, `StartProg`, `JoinThread`, `Assign`, `JoinIntr`, `StartFails` | `qdma_queue_start()`: state and indices, rings and vector, contexts, `qdma_thread_add_work()`, the interrupt list; its error exits |
| `Stop`, `LeaveThread`, `LeaveIntr`, `ClearContext`, `FreeRings`, `Offline` | `qdma_queue_stop()` and `qdma_thread_remove_work()` |
| `Remove` | `xpdev_queue_delete()`, `qdma_queue_remove()`, `desc_free_irq()` |
| `Visit`, `Visited` | a thread goes through its list with the list locked (`visit`) |
| `Submit`, `CallerDone` | `qdma_request_submit()` of a blocking caller |
| `Interrupt`, `IntrWork` | `data_intr_direct()` for all queues of the vector, `intr_work()` |

The data path is one request per queue, on `work_list`, then in the ring, then
done; `DescQueue` has the details. A queue is used after its start returned and
stopped after its callers returned, as the README of the driver and its scripts
do.

### Mbox

Each virtual function has a register set for the message it sent (`outbox`) and
one for what it was sent (`inbox`). `qdma_mbox_send_msg()` of a virtual function
keeps `mbox_lock` until it returns, so a function has one call at a time
(`call`): "send" until the message is in the registers, "wait" for the response.
`prompt`, chosen in `Init`, says whether everything is read within the second the
driver spins for it. When it is false, calls may run into the time outs and
responses may be late. The number of messages sent (`sent`), the last message
handled (`done`) and the last call that returned (`last`) are history variables
for the refinement of `MboxService`; the code has no numbers of messages.

| Action | Code |
|---|---|
| `Online`, `SetQrange`, `CsrGet`, `StartQueue`, `StopQueue`, `Offline` | a call is made: `qdma_device_online()`, `device_set_qrange()`, `qdma_csr_msg()`, `qdma_descq_context_setup()` and `_clear()`, `qdma_device_offline()` |
| `Send`, `SendBusy`, `Receive`, `TimedOut` | `qdma_mbox_send_msg()`, `mbox_send()`, `mbox_read()`, `mbox_proc_rcv()`, and what the caller does with the result (`Return...`) |
| `Process`, `Respond`, `RespondBusy`, `TimerDone` | `qdma_mbox_proc()` of the physical function, with `xdev_sriov_vf_online()`, `_offline()`, `hw_set_fmap()` and the programming of contexts |
| `PfSetQmax`, `PfSetQrange` | `qdma_set_qmax()` and the first queue of the physical function |

Two details of the code matter: `qdma_device_online()` does not start the timer of
a virtual function, and `qdma_mbox_timer_init()` acknowledges a message only when
there is none. So nothing removes a late response but the next call.

### IntrAggr

`coal` (chosen in `Init`) says whether the vectors are aggregated. `level` leaves
open what the code does not tell of the hardware: whether the global error status
shows what the other registers hold at the moment, or keeps a bit until it is
written. `log` and `reported` are history variables. A handler runs in a thread
of the interrupt under `xdev->lock`: there is one at a time, `pc` is its place.

| Action | Code |
|---|---|
| `DirectIntr` | `data_intr_handler()`, `data_intr_direct()`: the work of every queue of the vector |
| `AggregateStart`, `AggregateQueue`, `AggregateError`, `AggregateEnd`, `AggregateUpdate` | `data_intr_aggregate()`, an entry a step, and `intr_cidx_update()` at its end |
| `ErrorIntr`, `ErrRead`, `ErrClear`, `ErrDone` | `error_intr_handler()`, `err_stat_handler()`: a register is read, reported and written back; the global one is written a second time and the interrupt armed (`qdma_err_intr_setup()`) |
| `Work` | `intr_work()` of one queue |
| `HwEvent`, `HwError`, `HwErrorIrq`, `HwEntry`, `HwDirect` | the hardware (external) |

### Aio

A request has a part for each segment (`Parts`), `struct cdev_async_io`; `wq` is
the queue of its works on each processor. The lock of a part and the lock of a
direction are taken with `spin_trylock()`, which makes waiting a matter of queueing
again. A critical section is several steps, because other contexts try the lock
meanwhile. The loop of a submission is split where a cancellation may come: from
the second part on the cancel function is registered while the next part is set
up. `early` is a history variable, the requests whose cancellation found a part
published and not set up.

| Action | Code |
|---|---|
| `Submit`, `SubmitPart`, `SubmitFlag`, `SubmitQueue`, `SubmitFails` | `cdev_aio_write()` and `cdev_aio_read()`, a round of the loop in three steps: pages pinned and the part published in `iocb->private`; its cancel flag reset; its lock initialised, the cancel function registered, the work queued. `map_user_buf_to_sgl()` fails |
| `Cancel`, `CancelLock`, `CancelUnlock` | `caio_cancel()`, for the part `iocb->private` holds |
| `Take`, `LockPart`, `Skip`, `LockDir`, `Complete`, `Unmap`, `Unlock`, `Free` | `async_io_handler()` with `ki_complete()` and `unmap_user_buf()` |
| `LockPartFails`, `LockDirFails` | its two `goto`s to `requeue_aio_work()` |
| `RwLock`, `RwRefused`, `RwMap`, `RwMapFails`, `RwDone` | `cdev_gen_read_write()` |
| `Destroy`, `DestroyDone` | `qdma_cdev_destroy()` with `destroy_workqueue()` |

### Device

An operation is a sequence of steps, pairs of a verb and an object, that begins
in `todo` and is worked off one step at a time. The operators `Probe`, `Remove`,
`Online`, `Offline`, `Close`, `Cleanup`, `Reset`, `FrozenError`, `SetQmax` are the
functions of the code as such sequences; `ProbeFailed`, `InitUndone` and `Failed`
say where the code continues when a step fails, which replaces the rest. `res`
holds the names of what is acquired, `bad` of what was released or used without
being there. `node` is the `intr_list` of each queue, by which it hangs on the
list of its vector. Stopping and deleting do not look at the state of a queue: the
same body runs for a queue that was never started or is stopped already, and a
delete of a running queue leaves its contexts and its `node`. The history variable
`misused` holds the queues to which that happened.

| Action | Code |
|---|---|
| `ProbeOne`, `RemoveOne` | `probe_one()`, `remove_one()`, with `qdma_device_open()` and `qdma_device_close()` |
| `ResetFunction`, `ErrorDetected` | `qdma_reset_prepare()` and `_done()`; `qdma_error_detected()` and `qdma_slot_reset()` |
| `SriovConfig`, `SysfsSetQmax` | `sriov_config()`; `set_qmax()` of sysfs and `qdma_set_qmax()` |
| `Netlink` | a request for a number of queues, of one direction or in pairs |
| `Take`, `Check`, `Fail`, `Drop`, `DropRings`, `CleanupBegins`, `SetNumber`, `StopAll` | the steps of the above, one resource each |
| `AddQueue`, `AddCdev`, `StartQueue`, `StopQueue`, `DeleteQueue`, `ForgetQueue` and the `...Fails`, `...None` beside them | the steps of a batch: `xpdev_queue_add()`, `qdma_queue_start()`, `_stop()`, `xpdev_queue_delete()`, `xpdev_device_cleanup()`. `StopAll` is `qdma_queue_stop()` of every queue that was added; `StopFails` is a queue the table does not have |

### Contexts

Each operation on a queue is a sequence of commands (`Setup`, `Program`, `Clear`,
`ReadAll`, `Undo`); each command is `hw_indirect_ctext_prog()`. A context is
abstracted to where it points: to a ring, or to nothing (`Cleared`, `Invalid`), or
it is in use (`Used`). The QID2VEC context of an id holds a vector for each
direction, the reason why it is read before it is written.

| Action | Code |
|---|---|
| `Start`, `Stop`, `Dump` | `qdma_descq_prog_hw()`, `qdma_descq_context_clear()`, `qdma_descq_context_read()`, called for the physical function or by the mailbox |
| `Write`, `Issue`, `ReadBack`, `Done`, `Mismatch`, `Timeout` | `hw_indirect_ctext_prog()` with the lock, `hw_monitor_reg()`, the comparison of what was written; what the callers do with an error (`Fails`) |
| `HwWrite`, `HwLose`, `HwRead`, `HwClear`, `HwRuns` | the hardware (external) |

## 3. Runs

`DescQueue`, `StC2h`, `QueueLife`, `Mbox`, `IntrAggr` and `Aio` are checked with
`CHECK_DEADLOCK FALSE`: with every request done and no data arriving the system
rightly stops. `Device` and `Contexts` are checked for deadlocks.

| Run | Configuration | States | What it shows |
|---|---|---|---|
| `queue_safety` | `DescQueue.cfg` | 444 thousand | ring and credit accounting, completion, mapping, and that the queue implements `DmaService` |
| `queue_live` | `DescQueueLive.cfg` | 84 thousand | with callers that give up: nothing is left on the lists, every request completes or was given up, every caller returns |
| `abort_credit` | `DescQueueAbortCredit.cfg` | violation | see finding 1 |
| `c2h_safety` | `StC2h.cfg` | 5.68 million | stream order, exact counters, pages and entries released when read |
| `c2h_entries` | `StC2hLive.cfg` | 350 thousand | completion entries parsed once, in order, and at last |
| `c2h_part` | `StC2hPart.cfg` | violation | see finding 2 |
| `life_safety` | `QueueLife.cfg` | 2.05 million | rings outlive their users; a queue is started completely or not at all; counts agree with queues; pairs have one mode |
| `mbox_safety` | `Mbox.cfg` | 853 thousand | ranges, table and contexts agree with what virtual functions believe; calls return; the mailbox implements `MboxService` |
| `intr_aggr` | `IntrAggr.cfg` | 129 thousand | entries handled once and in order; no queue and no error forgotten |
| `aio` | `Aio.cfg` | 387 thousand | each part ends, once and properly; one transfer per direction; a part cancelled after it was set up is not moved |
| `device` | `Device.cfg` | 1.90 million | nothing held after remove or a failed probe, nothing released twice; interrupts and contexts always backed, but for what queues stopped or deleted out of order leave; character devices match the table |
| `ctx` | `Contexts.cfg` | 2.18 million | a started queue has all its contexts, a stopped one none that points to its rings |

Bounds of `DescQueue`. The ring has three slots, two of them usable. One request
is longer than the ring, so that it is posted in parts and waits for room on
`work_list` while its credit arrives; one fits; one is empty. The indices go
round the ring. Both modes are explored. The run for liveness
uses two requests, whose second caller may time out or catch a signal at any moment.

Bounds of `StC2h`. Packets of three units take two pages of two, the second one
partly filled; packets of length zero take one page. In `c2h_safety` the ring
has five slots and five entries are written, one lap; a reader of six units gets
the data of two packets, the other one may give up. Readers ask for whole
packets: a read that ends within a page is `c2h_part`. In `c2h_entries` the
ring has three entries and `MaxCmpl = 5` takes it into its second lap, so that
the color changes and old entries lie around. Budgets 0 (no limit, the threads)
and 1 (`qdma_queue_service()` with a budget) are tried. The queue is started at most
twice (`MaxStarts`), in `c2h_part` once.

Bounds of `QueueLife`. Two pairs of queues, so that a request for any index has
to skip an index of the other mode, and one vector that all queues share; polled
mode and interrupt mode. `MaxIrq = 2` bounds the count of the vector, which every
start raises: two queues run at once, or one is started again. Callers use one
queue, so that the interrupt for it also schedules work of another one. The
function is a virtual one whose queue range may fail to be set up any number of
times before it succeeds. 

Bounds of `Mbox`. Two virtual functions, one queue each. The first one sends up
to four messages of its own accord, enough to go online, offline and online
again, or to get its range, start its queue and go offline; the second one two,
enough to go online and ask for its range. Clearing a context after that is not
counted. The physical function has two queues and may give one up.

Bounds of `IntrAggr`. Two queues on one vector, three errors in two registers,
two of them in one. Up to four entries, two of queues and two of errors, in a ring
of three: the color changes, and the ring is full for a while. Two errors suffice
for one that happens while another is handled, in its register or the other one.

Bounds of `Aio`. A request of one segment and one of two, so that there is a part
before, at and after the one cancelled; a blocking call for each direction; two
processors, so that two works meet at a lock.

Bounds of `Device`. Two pairs and at most two queues per direction, one vector, so
that in aggregated mode the rings are used with two queues and not with one. Each
step of `MCFaults` may fail, any number of times. The faults left out leave
something behind or cannot be told from success: section 5. `MaxMisused = 1`: a
netlink request stops a queue that does not run, or deletes one that does, only if
no other queue is misused; with one such queue every order of operations on it, and
on the queues that share its pair and vector, is explored. A reset or a removal
stops any number of queues that do not run.

Bounds of `Contexts`. A pair of the physical function, whose directions share
QID2VEC, and a streaming queue of a virtual one with all five contexts. One
command times out and one write is lost, anywhere in a start. One address of a
ring per queue (`Rings`): with two (19.5 million states, checked once) the same
properties hold.

The properties, and the hazards they are aimed at, are listed with comments at
the end of each module. Some of them need a word:

- `CursorOrder` orders five indices on the ring. That the writeback never seems
  to go backwards and never counts a descriptor not executed rests on it.
- `NoStrayCredit` says between critical sections that left-over credit belongs
  to the oldest request and does not cover it. If it did, that request would
  wait for another writeback that may never come.
- `ImplementsService` maps the abstract queue to `pendList \o workList` and the
  result to `status`.
- `FreeListExact` and `CmplReturned` exempt a queue halted by a bad entry: pages of
  good packets parsed before it in the same batch are off `avail` and never become
  visible. Starting the queue again repairs the counters (`halted`), but not `err`.
- `CmplReturned` exempts entries without a packet that came last: the driver
  releases entries with the data of packets, an entry without a packet is
  released with the next packet that is read.
- `RingsBacked` also says that no context is valid without rings: the hardware
  would fetch descriptors from memory that was freed.
- `CountsExact` relates three owners of the same fact: the counters of the
  library, its `enabled` flags and the table of the module. It says that the
  counters count the queues of the table and that those are enabled;
  that an enabled queue is in the table does not hold (section 5).
- `RangeAgreed`, `TableExact`, `QueueBacked` and `ImplementsService` are claimed for
  prompt answers only (`prompt => ...`, and `timely` in `MboxService`). Without them
  they do not hold: see the remarks in section 5. `EveryCallReturns` is claimed
  for both; with prompt answers no time out helps, so that it says that functions
  do not wait for each other in a circle.
- `NoErrorLost` and `ErrorsHandled` are claims about bits: an error that happens
  again while its bit is set cannot be told from the first. `ErrorsHandled` says
  that an error leaves its register at last, also one that happens during the
  handling of others, where the global status shows what the other registers hold:
  it fails if the interrupt is not armed again. Where the global status
  keeps its bits this is claimed only of errors shown while the handler is not
  between its first read and its last write: see section 5, *Interrupts*.
- `CancelledNotMoved` and the parts of `AioInv` about locks exempt requests in
  `early`: section 5, *Character device*.
- `EndsProperly` says what happens to a cancelled part, also that nobody is told
  and that its pages stay pinned: see the remarks in section 5.
- `InterruptSafe` and `ContextsBacked` hold at every step of every operation, that
  is, also between the steps of an error path. What they, `NothingLeft` and
  `ReleasedOnce` say of the contexts and the list of a single queue excludes the
  misused ones; that a queue which runs has its contexts, its interrupts, the
  arrays and the rings is said of all. Section 5, *Device*, tells what becomes of
  the misused ones.
- `Programmed` claims the vector for queues of the physical function only: for a
  virtual one it writes zero.
- `EntriesParsed` exempts, in interrupt mode, states with entries parsed but not
  released. There the driver may stall: an interrupt raised early, for an entry
  that was parsed before, finds `pend = 0` and returns before the CIDX register
  is written, so the interrupt is not enabled again (`qdma_st_c2h.c:552-554`).
  This needs entries without a packet, or data that was received between the
  two critical sections of a reader.

### Fairness

`FairSpec` of `DescQueue`: weak fairness of what each caller does by itself
(`CallerProgress`), each thread, the interrupt work and the hardware's execution and
writeback. Nobody has to give up: while a request is pending, the end of its wait by
time out or signal may come or not, so that the request longer than the ring must
complete if its caller goes on waiting. Kernel threads and
work items that can run are scheduled; the sleep of a writeback thread is
bounded because `qdma_threads_create()` sets `timeout = 5` for it (`TimedThreads`);
request threads have no time out, and none is assumed. Submission is not fair.

`FairSpec` of `StC2h`: weak fairness of the service routine as a whole, of the
writeback of the index and of the interrupt. No fairness for readers, nor for
the arrival of packets.

`FairSpec` of `Mbox`: weak fairness of each call of a virtual function that was
made and of the timer of the physical function, which is started again after
each run (`qdma_mbox_timer_start`). Nobody has to make calls.

`FairSpec` of `IntrAggr`: weak fairness of the handler (interrupt threads are
scheduled), of each work item, and of the hardware for each interrupt it owes. No
fairness for events and errors.

`FairSpec` of `Aio`: weak fairness of each call and cancellation that was begun, of
the work queue of each processor, and of the destruction. A transfer ends, because
`fp_rw` waits with a time out. The locks need no more than this: works that find
one taken are queued again, and whoever holds it goes on.

`Device` and `Contexts` have safety properties only; that operations end is the
check for deadlock.

## 4. Proofs

TLC checks the instances of section 3; the theorems hold for every value of the
constants that satisfies the `ASSUME`s of the modules: any ring size from two on,
any number of requests, queues, functions, vectors, registers, processors.

| Module | Theorem | States |
|---|---|---|
| `DescQueueProofs` | `TypeCorrect` | `TypeOK`; with it `0 <= avail < RngSz`, `credit` and `descNr` never negative |
| | `RingAccounted`, `CursorsOrdered` | `RingAccounting`, `CursorOrder` |
| | `DescriptorsKept` | `NoOverwrite` |
| | `ListsCorrect` | `ListsLive`, with callers that give up |
| | `DataInvariant` | `DataInv`, see below; this one and those that follow without callers that give up |
| | `CompletionsCorrect`, `MappingsCorrect`, `CreditCorrect` | `NoEarlyCompletion`, `MappedWhileInRing`, `NoStrayCredit` |
| | `ServiceRefined` | `ImplementsService`: `DescQueue` implements `DmaService` |
| `StC2hProofs` | `StC2hInvariant` | `Inv(W)`, see below |
| | `TypeCorrect` | `TypeOK`; with it the counters never become negative |
| | `CountersCorrect`, `ReturnedCorrect`, `EntriesCorrect` | `FreeListExact`, `CmplReturned`, `EntriesInOrder` |
| | `PagesKept` | `UnreadKept` |
| | `StreamCorrect`, `WholePackets`, `WholePages` | `StreamInOrder`, for packets and reads that do not end within a page of another |
| `QueueLifeProofs` | `LifeInvariant` | `LifeInv` |
| | `CountsCorrect`, `RingsCorrect`, `StartsCorrect` | `CountsExact`, `RingsBacked`, `AllOrNothing` |
| `MboxProofs` | `MboxInvariant` | `MboxInv` |
| | `RangesCorrect`, `TableCorrect`, `BackedCorrect` | `RangeAgreed`, `TableExact`, `QueueBacked` |
| | `ServiceRefined` | `ImplementsService`: `Mbox` implements `MboxService` |
| `IntrAggrProofs` | `IntrInvariant` | `IntrInv` |
| | `EntriesCorrect`, `ErrorsReported` | `EntriesInOrder`, `NoErrorLost` |
| `AioProofs` | `AioInvariant` | `AioInv` |
| | `PartsCorrect`, `EndsCorrect`, `CancelCorrect` | `PartsExact`, `EndsProperly`, `CancelledNotMoved` |
| `DeviceProofs` | `DeviceInvariant` | `DevInv`; this one and those that follow for `MayFail`, see below |
| | `ListInvariant` | `ListInv`, contexts and vector lists of single queues |
| | `InterruptsCorrect`, `ContextsCorrect`, `CdevsCorrect` | `InterruptSafe`, `ContextsBacked`, `CdevsExact`, wherever an operation fails |
| | `NothingCorrect`, `ReleasesCorrect` | `NothingLeft`, `ReleasedOnce`, without the failures that violate them |
| `ContextsProofs` | `ContextsInvariant` | `CtxInv` |
| | `ProgrammedCorrect`, `NothingPointsCorrect` | `Programmed`, `NothingPoints` |

Each proof has the same layout: the inductive invariant as a conjunction of named
parts, lemmas about the operators, one lemma per action or group of actions that
shows the parts kept, and the theorems, which combine them with PTL. The
invariants were first checked with TLC on the instances of section 3.

### DescQueue

*The ring.* None of its properties is inductive alone: that `avail` stays in its
range after a writeback needs that the index in memory lies between `cidx` and
`pidx`; that needs the order of the cursors, and to keep this order when
descriptors are posted one needs that `avail` bounds their number. Hence

    RingInv == TypeOK /\ RingAccounting /\ CursorOrder /\ DoorbellRung

where `DoorbellRung` is `doorbell = pidx`: each place that moves `pidx` rings the
doorbell in the same critical section. `DeltaRange`, `DeltaIncr`, `DeltaRebase` and
`CreditIsDelta` collect the modular arithmetic (`ring_idx_delta`, `ring_idx_incr`,
`descq_wb_credit`). `DescriptorsKept` uses `RingInv`: the slots `WrkPost` writes
start at the producer index and are at most `avail`, hence lie outside the part the
hardware owns.

*The lists.* `ListInv` says that a request is on a list, and once, exactly while its
caller waits for it or it is asynchronous and pending. With `Held` (who is between
taking and releasing the queue lock) it is inductive also with callers that give up
at any moment, which is `ListsCorrect`.

*The data.* Which request a writeback completes depends on numbers only: the
properties need to know whose descriptor is in which slot. `DataInv` says that
there is a count `f` such that `f[i]` descriptors are those of the first `i` requests
of `Queue`, which is `pendList \o workList`:

- `Counts(f)`: `f` grows by `descNr` of each request, and ends with the descriptors in
  the ring and the credit that was taken and not charged yet;
- `Owners(f)`: the slots hold the descriptors of the requests in this order;
- `Moved(f)`: what is missing of a request's data is in the slots not executed;
- `Filled`, `Rest`, `Kept`: only the first request of `work_list` is partly posted,
  left-over credit does not cover the oldest request, buffers of waiting
  requests are mapped.

The lemmas `QueueAppend`, `QueueShift`, `QueueTail` and `QueueCut` say what the four
ways to change the lists do to `Queue`, and `SubmitSpread` to `ChargeSpread` give the
`f` of the next state for each action. `f` is a witness carried along, not a sum over
a list: what sums are needed is in its increments, so that no induction over lists
is needed.

The hypothesis `Impatient = {}` is what finding 1 (section 5) requires: with a caller
that gives up, its credit goes to the next request and `NoEarlyCompletion` is
violated. The run `queue_safety` has the same hypothesis.

*Refinement.* `HwExecute` is `Move` of the request that owns the slot (`Owners`),
`WbComplete` is `Complete` (when the credit covers the first request, `Moved` says
that all its data was moved), `WrkReject` is `Reject` of the request after those on
`pend_list`, `Submit` is `Submit`, all other steps stutter.

### StC2h

    Inv(W) == Types /\ Locking /\ PageOrder /\ PageCount
              /\ CmplOrder /\ CmplFresh /\ Owners /\ Witness(W)

The two rings are used by three parties each, and the service routine works on a
batch whose new `pidx` nobody else sees yet (`Cursor`).

- `PageOrder`, `CmplOrder`: the order of the indices of both rings. The driver never
  parses more than the written back index allows, and the hardware never gets a page
  that was not read to its end: `doorbell` is one before `Base`, the first page with
  units left.
- `PageCount`: each page is either counted in `avail` or holds data, and the pages
  given back have their full length again. After a bad entry in the middle of a batch
  the pages before it in the batch are lost until the queue is started again; there
  (`halted`) and there only an inequality takes the place of the equation.
- `CmplFresh`: numbers, colors and contents of the entries not parsed, as in
  `IntrAggrProofs`.
- `Owners`: the `cidx` of a page is the entry after that of its packet, in order, and every
  packet not released has its last page among those not read. This is why
  releasing the entries up to the `cidx` of the last page read returns all of them
  (`ReturnedCorrect`) and none too early.
- `Witness(W)`: there are `pb` and `first` where `pb[s]` units came before page `s` (`Content`:
  the pages hold just those between their numbers; `Lengths`: what the driver takes
  them to hold is true; so `dlen` is the number of units not read) and `first[e]` is the
  page at which the packet of entry `e` starts (`Link`). They are not variables of the
  model but witnesses carried from state to state, as `f` is in `DescQueueProofs`.

`CountersCorrect`, `ReturnedCorrect`, `EntriesCorrect`, `PagesKept` and `TypeCorrect` need
no hypothesis at all. `StreamInOrder` does: when a read ends within a page the driver
moves on to the wrong unit (finding 2, section 5). `StreamCorrect` therefore takes a
set `W` of numbers of units, closed under addition and subtraction, that has the lengths of all
packets and all requests, and in which no number falls within a page of a packet
(`Closed`); `Whole` then says that all ends of packets and reads are in `W`. Two kinds of
use satisfy it: `WholePackets`, all packets of one length or empty and requests for a
number of packets, which the run `c2h_safety` is an instance of, and `WholePages`,
packets and requests of whole pages.

What a read takes is a loop over the pages, for any number of them. It is written
as a function of the number of turns left (`ReadPages`). In place of an induction
over it, the lemma `Recursion` gets the defining equation of such a function, and
`NatMin` the first turn at which a fact about it fails; `CopyUnits` and the lemmas
after it say what one turn does and what the loop has done after any number.

### QueueLife

    LifeInv == CountsExact /\ LifeCycle /\ InUse /\ NoModes

That rings can be freed at one step of a stop needs what the steps before did:
`LifeCycle` says, for each step of a start and of a stop, which of rings, contexts, lists
and threads a queue has, and that all other queues are settled. `InUse` says who
may be using a queue. `CountsExact` is part of it because a count that could be
zero when a queue is deleted would not have its type. That `desc_alloc_irq()` and
`QDMA_QUEUE_IDX_INVALID` find a vector and an index is shown with
`NatMin`, which gets the least member of a set of numbers from the library's
`WFMin` in place of an induction.

### Mbox

    MboxInv == TypeOK /\ Timer /\ Bounds /\ Calls
               /\ (prompt => OneMessage /\ Counted /\ Sender /\ Told /\ Ranges /\ Table)

A virtual function knows only what it was told, so that each property needs what
the message and the answer under way will make true. `OneMessage` says where the
message of a call is, `Sender` whose it is, `Told` (`Truthful`) what an answer means;
`Known` in `Table` is the life of a function as the physical one has heard of it, up to
the message in the mailbox. As in the runs the second group is claimed for prompt
answers (section 5). The range of function `v` starts at `PfQueues + (v - 1) * PerVf`
(`First`); that the ranges of different functions are disjoint is
`ProductLess`. `ServiceRefined` takes a message that needs no answer to `Post`, one that
does to `Ask`, its handling by the timer to `Do`, and the end of a call to `Return`.

### IntrAggr

    IntrInv == TypeOK /\ Handled /\ Room /\ Filled /\ Walking /\ Clearing

`ColorOf(n)` is the color of the lap of entry `n + 1`. `Handled` ties index and color of the
driver to the number of entries handled, `Filled` the contents of the slots to the
number written, and `Room` says that the hardware is less than a lap ahead of the
index it was given: without it an old entry could have the color of a new one. The
lemma `Laps` has the arithmetic. For the error registers `Clearing` says that what will
be written back was reported.

### Aio

    AioInv == TypeOK /\ Placed /\ Calls /\ Found /\ Closed /\ Locks /\ Progress /\ Readied /\ Told

`Placed`: a part is live exactly when it waits in one work queue, once, or is in the
hands of one handler. `Found` says which part a cancellation has: one that is set up,
whose flag then stays, unless the request is in `early`. `Locks`: whoever is between
lock and unlock has the lock; with it a part cannot be cancelled between the look at
the mark and the transfer. This too exempts `early`: there the lock may be initialised
while it is held. What does not depend on the locks of parts, the places of parts, the
locks of directions, pages and completions, holds for all requests. `Readied`: pages
are pinned before a part is set up. `Progress` says what became of a part at each step
of the handler; `Told` counts the calls of `ki_complete()` against the parts transferred.

### Device

    DevInv == Typed /\ todo \in Seq(Steps) /\ Kept /\ QueuesBacked /\ Rings /\ Cdevs
              /\ Handled /\ RunsBacked /\ Plan

An operation is a sequence of steps of which any may fail, and what is held in
between says nothing alone: the invariant relates it to the steps still to be taken.
`Plan` says so for each kind of operation. A device rests (`Settled`), climbs through
its probe (`Climbing`: what is held is what the steps of the probe before this one
acquire), is disabled and enabled by the error handlers (`Striking`), gets virtual functions
(`Virtualising`), has queues added (`Adding`) or started, stopped and deleted
(`Batching`), or gets its queue arrays again (`Initialising`). All the rest, the labels of
`probe_one()`, `remove_one()`, the first part of a reset and of a change of the number
of queues, is one form:

- `Cleaning(n)`: the first `n` steps are the end of `qdma_device_cleanup()`, with what is
  left to it; it may come before any other plan.
- `Releasing(n)`: the steps after them drop each thing that is held, once, nothing else,
  and `forget` each queue of the table; the cleanup comes before registers and device
  are dropped.
- `Rebuilding(n)`: the steps after them give back the arrays and end with those of
  `qdma_device_init()`.

As `Releasing` and `Rebuilding` are conditions on what is left and not a list of
sequences, one lemma for a step that drops something serves all operations.
`QueuesBacked` and `Rings` say what queues, arrays and interrupt rings have to do with each
other. `Cdevs` tells which pairs have a device also where the directions noted are
wrong: of a device of two directions `xpdev_device_cleanup()` keeps H2C (`dir_init >>= 1`),
whichever it has just taken out of the table.

`Handled` and `RunsBacked` are what the properties say of queues that run. What they say
of the contexts and the list of each queue is a second invariant, `ListInv`: a queue that
was never misused is on the list of its vector exactly while it runs, has contexts only
then, and its node was never added or removed twice in a row. It is inductive given
`DevInv`, which has the one fact it needs from the plans: when the arrays are freed, and
the nodes with them, no queue runs (`ArraysQuiet`). The four theorems on interrupts,
contexts, what is left and releases follow from both.

Hypotheses: `MayFail` says which steps may fail, all but the check of the number of
queues and setting the pointer in the device, and that hardware and sysfs give at least one queue (section
5, *Device*). `ListInvariant`, `InterruptsCorrect`, `ContextsCorrect` and `CdevsCorrect`
need no more; none needs the bound `MaxMisused`.
`NothingCorrect` also needs that the sysfs group can be created, and `ReleasesCorrect`
that a slot reset can enable the device again and that no function is reset in aggregated
mode: the remarks of section 5 are why. `DevInv` itself holds without these three; it
has in `Leak` and `Twice` what then is left behind or released twice, and no more. The
run `device` has all these hypotheses; `DevInv` and `ListInv` were also checked with all of
the failures of `MayFail` and with resets in aggregated mode (6.7 million states), and
without vectors.

### Contexts

    CtxInv == TypeOK /\ Working /\ Register /\ Plans /\ Pointers
              /\ FreshStart /\ Complete /\ NothingPoints

An operation is a sequence of commands, and what it ends with depends on what each
command has left behind. `Plans` says it for every point: the commands that are left
(`StartPlan`, `ClearPlan`), and what those that are not left have done (`Written`,
`Emptied`), with the vector of the other direction among it: both directions of an id
belong to one thread. `Register` says whose command, data or answer the registers hold.
`ClearPlanned`, `SetupPlanned` and `ReadPlanned` show it for the sequences as they
begin.

Hypotheses: `ClearsSucceed`, no command of a stop or of an error exit times out, and
`ReadsSucceed`, neither does the read of QID2VEC for a start. The code ignores these
results (section 5), and without them neither property holds. All other commands
may time out, and writes be lost, at any time; the run `ctx` has the same hypotheses.

### What only TLC checks

- Liveness (`EveryRequestCompletes`, `EveryCallerReturns`, `EveryCallReturns`,
  `EntriesParsed`, `QueuesServed`, `ErrorsHandled`, `EveryPartEnds`) and the absence of
  deadlocks: fairness and ENABLED are out of the prover's reach.
- `DescQueue` with callers that give up, beyond the ring and the lists, `Mbox` with late
  answers, `Contexts` with results that are ignored, `Device` with the failures left out above:
  the properties do not hold there.

One gap in a model came to light in a proof: `TypeOK` of `Mbox` did not say that
`sent` is a number for every function, and `Counted` needs it.

## 5. Results

1. *Credit of a caller that gave up* (`abort_credit`). The request is taken off
   `pend_list` but its descriptors stay in the ring; `req_update_pend()` charges
   their credit to the next request, which is reported as complete before its
   data was moved, and its buffers are unmapped. Without aborting callers the
   property holds (`queue_safety`).
2. *A page read in two parts* (`c2h_part`). `descq_st_c2h_read()` remembers where
   the next read has to start (`fsg->offset`) but copies from the start of the
   page. Reads of whole packets are right (`c2h_safety`).

The rest are remarks: behaviour the models show, or conditions without which
their properties do not hold.

*Queues.* `qdma_queue_add()` enables the queue, then asks for the resources of the
function; when that fails, the count is taken back and `enabled` is not (the
comment at `libqdma_export.c:512`, "need to rewind if failed later", is about the
count). The
queue can be neither added again nor deleted. Only a virtual function can fail
there without aggregated interrupts, and only until its range is set up.
A start counts the queue on its vector (`qdma_descq.c:464`); a stop, or a start
that fails later, does not take it back, only the removal does, and once (431).
The vector `desc_alloc_irq()` picks as the one with the fewest queues (446) may then
have more running queues than another one. Counts never go below zero.

*ST C2H queues.* A bad entry sets `descq->err` (`qdma_st_c2h.c:420`), which nothing but
the set up of the whole device clears: a queue that is stopped and started again
looks new, and never gets data. `qdma_descq_free_resource()` frees the descriptor
ring (`qdma_descq.c:655`) before the pages (664), whose release writes zero to the
descriptors of the freed ring (`qdma_st_c2h.c:57`).

*ST H2C queues.* `descq_proc_st_h2c_request()` or-s SOP and EOP into the flags of a
descriptor (`qdma_descq.c:265`) and nothing clears them but the set up of the ring:
from the second lap on, a descriptor may carry the flags of its last use. `DescQueue`
leaves the flags out.

*Ranges.* The range of a virtual function starts after `conf.qsets_max` queues of
the physical one, computed when it asks (`qdma_mbox.c:432-435`). `qdma_set_qmax()`
may lower this number between two virtual functions, because it looks only at its
own function's `init_qrange` (`libqdma_config.c:49-53`). The two ranges may then
overlap.

Remarks on the mailbox, from the conditions of its properties. A call that gets
no message within a second returns 0, which is no error: the context operations
then check `hdr->ack`, but `device_set_qrange()` takes queue base 0 from the
cleared `m_req`, and `qdma_csr_msg()` takes zeros for the settings. A late response
is read by the next call; if the operation is the same it is taken for the
response of that call. `status` of the physical function's timer is not reset
between messages, so that an error of one function is also reported to the
others it serves in the same run; the reverse, success for a message that
failed, does not occur (`ImplementsService`).

*Interrupts.* `IntrAggr` has one data vector. The code changes the color of
`xdev->intr_coal_list`, the first ring, whichever ring went round
(`qdma_intr.c:264`): with more than one data vector the first ring's color is wrong
after the lap of another. An entry for an id without a queue ends the handler
without an update of the index (246-251). `error_intr_handler()` writes the global
error status back a second time after it has handled what it read first, and then
arms the interrupt (170-171). If the global register keeps its bits until they are
written, an error that happens in between, after the register of its block was read,
loses its global bit there: it stays in the register of its block, not reported, and no
interrupt comes for it until another error happens. `ErrorsHandled` without its exception
is violated there. If the global register shows the state of the others, the
bit comes back and so does the interrupt. Nothing in the repository says which it is.

*Character device.* A cancelled part is freed without `unmap_user_buf()` and without
`ki_complete()`; a request of several segments calls `ki_complete()` once for each.
`caio_cancel()` may wait for the lock of a part that is freed when it gets it; it
cancels the part submitted last only. A request's `count` is the length of the first
segment for all parts. The loop that submits a request publishes a part in
`iocb->private` (`cdev.c:454` for writes) before it resets its cancel flag (457) and
initialises its lock (458). For the second part and later ones the cancel function is
registered already (460), so that `caio_cancel()` may run in between: its mark is
overwritten, or the lock it holds is initialised under it, and a part whose
cancellation returned success is transferred although the flag is meant as
"Safeguarding for cancel requests" (97). `CancelledNotMoved` without `early` is
violated there. When the pages of a segment cannot be mapped, the number of
pages is set to the error code, and the parts before it stay queued.

*Device.* With zero queues, read from the hardware or set by sysfs, `qdma_device_init()`
fails after the interrupts were requested; they stay, on a device that is freed,
although closing "disables all the interrupts" (`libqdma_export.h:176-178`): `Qsets`
has positive numbers. Also: `qdma_set_qmax()` returns success when the set up failed;
without memory for `xdev`, `qdma_device_open()` returns 0 and a null handle; a failed
creation of the sysfs group leaves the device numbers ("sysfs"); a slot reset that
fails disables the device that the removal disables again ("reenable"); in
aggregated mode, a second tear down with no queue added since frees the list of
rings again (`ResetModes`). Stopping and deleting do not look at the state of a queue.
`qdma_queue_remove()` sets `inited = 0` (`libqdma_export.c:273`) before it calls
`qdma_descq_cleanup()`, which then returns without clearing the contexts
(`qdma_descq.c:568`), while the rings are freed: a queue deleted while it runs leaves its
contexts valid in the hardware, also after the removal of the function, and stays on
the list of its vector and of its threads. `qdma_queue_stop()` (755-792) takes a queue off
the list of its vector wherever it was (766-771), and closing and resetting stop each queue that was added, so
that a queue that is added, started, stopped and then meets the removal of its
function is taken off twice, with pointers that `list_del()` has poisoned; in the model
its node is then "torn". Deleted while running, added and started again, it is put on the
list twice. The properties exclude these queues as `misused`, and say that nothing of
the kind happens to others. Operations are one at a time in the model; nothing in the
code orders sysfs, netlink, the mailbox timer and the removal among each other:
`qdma_queue_add()` uses `qdev` without a check (`libqdma_export.c:479`),
`qdma_set_qmax()` frees it, `qdma_mbox_timer_stop()` does not wait, and
`qdma_sriov_disable()` frees the table the timer uses.

*Contexts.* `hw_prg_lock` is a plain spin lock, taken by the netlink thread and by the
mailbox timer, which may interrupt it: with `Cpus = {"same"}` TLC finds the deadlock.
The run has `Cpus = {"other"}`. When the read of QID2VEC fails, the other direction's
vector is written as zero (`qdma_context.c:527` has the result ignored); in the run
the read for a start does not fail (`MCTimeoutOps`). `qdma_queue_stop()` ignores a
failed clear and frees the rings, and so does the error exit of a start. A command
that timed out is taken to be dropped by the hardware.

## 6. Not modelled

- Within `DescQueue`: resuming inside a scatter-gather entry (`sg_offset` is zero
  whenever it is used), SOP and EOP flags, several queues per thread (and the
  list lock of a thread), the doorbell as the event that enables the interrupt
  again: the hardware may interrupt after each writeback.
- Within `StC2h`: a packet handler of the application, `qdma_queue_packet_read()`,
  failing allocation of pages, ring sizes of pages and entries that differ, `cidx`
  of the free list.
- Within `StC2h` also asynchronous reads (`fp_done`), which are like waiting
  readers that do not return.
- Within `QueueLife`: callers of the library other than the module, which are not
  serialised by netlink; stopping a queue that does not run and deleting one that
  does (steps of `Device`, for what the device keeps of the queue); requests still
  on the lists when a queue is stopped; a failing configuration or character device;
  removal of the whole device; aggregated interrupts; several threads of a kind.
- Within `Mbox`: several callers on one virtual function (netlink serialises
  them), reading contexts, `INTR_CTXT` and `RESET`, which the receiver does not
  support, waiting calls of the physical function, which nobody makes, disabling
  SR-IOV, the loss of a virtual function without BYE.
- Within `IntrAggr`: user interrupts, choosing vectors, several data vectors. Which
  ring of which vector a queue is given is in `QueueLife` without aggregation only.
- Within `Aio`: contents and offsets, seeking, the time out of a transfer as such
  (a transfer ends), other ioctls.
- Within `Device`: operations at the same time, the tables of global settings, a
  failing set up of interrupt rings, of a character device, of a queue's memory.
- Within `Contexts`: the contexts of interrupt rings, FMAP (`Mbox` has it), the CSR
  registers, the layouts.
- Dumps, statistics, debug output; netlink attributes; user space tools; the bit
  layouts of contexts and registers.
- Module initialisation (`libqdma_init()`: straight-line), user space tools, scripts
  and build files: they keep no state of the protocol. Netlink beyond the batches
  in `Device`: parsing and listing.

## 7. Plan

Done: all modules of section 2, and the theorems of section 4.

To be modelled: `H2cFrames`, the SOP and EOP flags over laps of the ring; the packet
handler mode of `StC2h`; several queues on one thread.
