------------------------------ MODULE Contexts ------------------------------
(***************************************************************************)
(* The hardware contexts of the queues and the indirect register through   *)
(* which the physical function programs, clears and reads them.            *)
(*                                                                         *)
(* Two threads use the register: the one that handles netlink requests,    *)
(* for the queues of the physical function, and the mailbox timer, for     *)
(* those of the virtual functions. Each operation is a sequence of         *)
(* commands; each command holds hw_prg_lock while it writes the data and   *)
(* the command register, polls until the hardware is done, and picks up    *)
(* the answer. A context that starts a queue is written, read back and     *)
(* compared.                                                               *)
(***************************************************************************)
EXTENDS Integers, Sequences

CONSTANTS
  Queues,      \* pairs <<direction, hardware queue id>>
  Streaming,   \* the ids in streaming mode
  Virtual,     \* the ids of virtual functions
  Rings,       \* addresses the rings of a queue may have
  Cleared, Invalid, Used, \* what else a context may hold
  Cpus,        \* where the timer runs: "other", or "same" as the netlink thread
  TimeoutOps,  \* pairs <<operation, command>>: commands that may time out
  MaxTimeouts, MaxLost \* bounds: how many commands time out, how many writes are lost

ASSUME QueuesAssumption == Queues \subseteq {"h2c", "c2h"} \X Nat
ASSUME RingsAssumption ==
  {Cleared, Invalid, Used} \cap Rings = {} /\ Cleared # Invalid /\ Cleared # Used
ASSUME TimeoutAssumption ==
  /\ TimeoutOps \subseteq {"start", "stop", "undo", "dump"} \X {"WR", "RD", "CLR", "INV"}
  /\ MaxTimeouts \in Nat /\ MaxLost \in Nat
ASSUME CpusAssumption == Cpus \subseteq {"same", "other"} /\ Cpus # {}

Dir(q)  == q[1]
Id(q)   == q[2]
Ids     == {Id(q) : q \in Queues}
Dirs    == {"h2c", "c2h"}
Threads == {"netlink", "timer"}
Thread(q)   == IF Id(q) \in Virtual THEN "timer" ELSE "netlink"
StC2h(q)    == Dir(q) = "c2h" /\ Id(q) \in Streaming
OwnVec      == 1          \* the vector of a queue, 0 where none was written
NoVecs      == [d \in Dirs |-> 0]

VARIABLES
  state,   \* what its function knows of a queue: "stopped", "starting",
           \* "started" or "stopping"
  ring,    \* the address of its ring
  th,      \* the operation of each thread
  cpu,     \* the processor of the timer
  lock,    \* hw_prg_lock
  \* the registers
  data, cmd,
  \* the contexts in the hardware
  ctx,     \* software, hardware, credit, prefetch and writeback contexts
  vec,     \* QID2VEC, one for both directions of an id
  timeouts, lost

registers == <<lock, data, cmd>>
hardware  == <<ctx, vec>>
vars      == <<state, ring, th, cpu, registers, hardware, timeouts, lost>>

\* An operation of a thread before its first command; none at all.
Task(op, q, todo) == [op |-> op, q |-> q, todo |-> todo, stage |-> "lock", rd |-> NoVecs]
Idle    == Task("idle", <<>>, <<>>)

NoCmd   == [op |-> "none", sel |-> "", q |-> <<>>]
Selects == {"sw", "hw", "cr", "pftch", "wrb"}

Init ==
  /\ state = [q \in Queues |-> "stopped"]
  /\ ring \in [Queues -> Rings]
  /\ th = [t \in Threads |-> Idle]
  /\ cpu \in Cpus
  /\ lock = "free" /\ data = Cleared /\ cmd = NoCmd
  /\ ctx = [q \in Queues |-> [s \in Selects |-> Cleared]]
  /\ vec = [i \in Ids |-> NoVecs]
  /\ timeouts = 0 /\ lost = 0

-----------------------------------------------------------------------------
(* The operations as sequences of commands.                                *)

Command(op, sel) == [op |-> op, sel |-> sel]

\* Mutant: the writeback context of the last run stays.
ClearNoWrb(q, first) ==
  <<Command(first, "sw"), Command("CLR", "hw"), Command("CLR", "cr")>>

\* qdma_descq_context_clear(): the software context is cleared or only
\* invalidated.
Clear(q, first) ==
  <<Command(first, "sw"), Command("CLR", "hw"), Command("CLR", "cr")>>
  \o (IF StC2h(q) THEN <<Command("CLR", "pftch"), Command("CLR", "wrb")>> ELSE <<>>)

\* qdma_descq_context_program().
Program(q) ==
  Clear(q, "CLR") \o <<Command("WR", "sw"), Command("WR", "qid2vec")>>
  \o (IF StC2h(q) THEN <<Command("WR", "pftch"), Command("WR", "wrb")>> ELSE <<>>)

\* qdma_descq_context_setup(); of a virtual function, MBOX_OP_QCTXT_WRT,
\* which does not read QID2VEC.
Setup(q) ==
  Clear(q, "CLR")
  \o (IF Id(q) \in Virtual THEN <<>> ELSE <<Command("RD", "qid2vec")>>)
  \o Program(q)

\* qdma_descq_context_read().
ReadAll(q) ==
  <<Command("RD", "sw"), Command("RD", "hw"), Command("RD", "cr"), Command("RD", "qid2vec")>>
  \o (IF StC2h(q) THEN <<Command("RD", "wrb"), Command("RD", "pftch")>> ELSE <<>>)

\* A start that failed clears; a virtual function has it done by a message
\* MBOX_OP_QCTXT_CLR, which invalidates.
Undo(q) == Clear(q, IF Id(q) \in Virtual THEN "INV" ELSE "CLR")

-----------------------------------------------------------------------------
(* Operations begin.                                                       *)

Begin(q, op, todo) ==
  LET t == Thread(q)
  IN  /\ th[t].op = "idle"
      /\ th' = [th EXCEPT ![t] = Task(op, q, todo)]
      /\ IF t = "timer" THEN cpu' \in Cpus ELSE UNCHANGED cpu
      /\ UNCHANGED <<registers, hardware, timeouts, lost>>

\* qdma_descq_prog_hw() of a queue with a new ring.
Start(q) ==
  /\ state[q] = "stopped"
  /\ Begin(q, "start", Setup(q))
  /\ state' = [state EXCEPT ![q] = "starting"]
  /\ \E r \in Rings : ring' = [ring EXCEPT ![q] = r]

Stop(q) ==
  /\ state[q] = "started"
  /\ Begin(q, "stop", Clear(q, "INV"))
  /\ state' = [state EXCEPT ![q] = "stopping"]
  /\ UNCHANGED ring

Dump(q) == Begin(q, "dump", ReadAll(q)) /\ UNCHANGED <<state, ring>>

-----------------------------------------------------------------------------
(* hw_indirect_ctext_prog().                                               *)

Cmd(t) == th[t].todo[1]
Q(t)   == th[t].q

\* A timer that runs on the processor of the netlink thread lets it go on
\* only when it is done.
Runs(t) == t = "netlink" /\ cpu = "same" => th["timer"].op = "idle"

\* Mutant: the vector of the other direction is not kept.
VectorsOnly(t) == [NoVecs EXCEPT ![Dir(Q(t))] = OwnVec]

\* make_qid2vec_context() puts the vector next to the one that was read; a
\* virtual function sends no QID2VEC.
Vectors(t) ==
  IF Id(Q(t)) \in Virtual THEN NoVecs ELSE [th[t].rd EXCEPT ![Dir(Q(t))] = OwnVec]

\* What a command writes.
Content(t) == IF Cmd(t).sel = "qid2vec" THEN Vectors(t) ELSE ring[Q(t)]

LockFree == lock = "free"

Write(t) ==
  /\ th[t].todo # <<>> /\ th[t].stage = "lock" /\ Runs(t)
  /\ LockFree /\ lock' = t
  /\ data' = IF Cmd(t).op = "WR" THEN Content(t) ELSE data
  /\ th' = [th EXCEPT ![t].stage = "cmd"]
  /\ UNCHANGED <<state, ring, cpu, cmd, hardware, timeouts, lost>>

Issue(t) ==
  /\ th[t].stage = "cmd" /\ Runs(t)
  /\ cmd' = [op |-> Cmd(t).op, sel |-> Cmd(t).sel, q |-> Q(t)]
  /\ th' = [th EXCEPT ![t].stage = "wait"]
  /\ UNCHANGED <<state, ring, cpu, lock, data, hardware, timeouts, lost>>

\* The command was carried out; a write is read back.
NeedsVerify(t) == Cmd(t).op = "WR"

ReadBack(t) ==
  /\ th[t].stage = "wait" /\ cmd = NoCmd /\ NeedsVerify(t) /\ Runs(t)
  /\ cmd' = [op |-> "RD", sel |-> Cmd(t).sel, q |-> Q(t)]
  /\ th' = [th EXCEPT ![t].stage = "verify"]
  /\ UNCHANGED <<state, ring, cpu, lock, data, hardware, timeouts, lost>>

\* The last command of the operation of thread t was carried out.
Ended(t) ==
  /\ th' = [th EXCEPT ![t] = Idle]
  /\ state' = [state EXCEPT ![Q(t)] =
                 CASE th[t].op = "start" -> "started"
                   [] th[t].op \in {"stop", "undo"} -> "stopped"
                   [] th[t].op = "dump" -> @]

GoesOn(t, rd) ==
  /\ lock' = "free"
  /\ IF Len(th[t].todo) = 1
     THEN Ended(t)
     ELSE /\ th' = [th EXCEPT ![t].todo = Tail(@), ![t].stage = "lock", ![t].rd = rd]
          /\ UNCHANGED state

\* memcmp() of what was written and what was read back.
Same(t) == data = Content(t)

Done(t) ==
  /\ cmd = NoCmd /\ Runs(t)
  /\ \/ th[t].stage = "wait" /\ ~NeedsVerify(t)
     \/ th[t].stage = "verify" /\ Same(t)
  /\ LET read == Cmd(t).op = "RD" /\ Cmd(t).sel = "qid2vec"
     IN  GoesOn(t, IF read THEN data ELSE th[t].rd)
  /\ UNCHANGED <<ring, cpu, data, cmd, hardware, timeouts, lost>>

\* qdma_queue_start() clears the contexts when programming them failed.
StartFails(t) ==
  /\ th' = [th EXCEPT ![t] = Task("undo", Q(t), Undo(Q(t)))]
  /\ UNCHANGED state

\* A command failed: the operation ends, whatever it left undone; the failed
\* read of QID2VEC for a start goes unnoticed.
Fails(t) ==
  \/ th[t].op = "start" /\ Cmd(t).op = "RD" /\ GoesOn(t, NoVecs)
  \/ th[t].op = "start" /\ Cmd(t).op # "RD" /\ StartFails(t) /\ lock' = "free"
  \/ th[t].op # "start" /\ Ended(t) /\ lock' = "free"

Mismatch(t) ==
  /\ th[t].stage = "verify" /\ cmd = NoCmd /\ ~Same(t) /\ Runs(t)
  /\ Fails(t)
  /\ UNCHANGED <<ring, cpu, data, cmd, hardware, timeouts, lost>>

\* hw_monitor_reg() gives up; the hardware has dropped the command.
Timeout(t) ==
  /\ th[t].stage \in {"wait", "verify"} /\ cmd # NoCmd /\ Runs(t)
  /\ <<th[t].op, Cmd(t).op>> \in TimeoutOps /\ timeouts < MaxTimeouts
  /\ timeouts' = timeouts + 1
  /\ cmd' = NoCmd
  /\ Fails(t)
  /\ UNCHANGED <<ring, cpu, data, hardware, lost>>

-----------------------------------------------------------------------------
(* The hardware (external).                                                *)

IsVec == cmd.sel = "qid2vec"

HwWrite ==
  /\ cmd.op = "WR" /\ cmd' = NoCmd
  /\ IF IsVec
     THEN vec' = [vec EXCEPT ![Id(cmd.q)] = data] /\ UNCHANGED ctx
     ELSE ctx' = [ctx EXCEPT ![cmd.q][cmd.sel] = data] /\ UNCHANGED vec
  /\ UNCHANGED <<state, ring, th, cpu, lock, data, timeouts, lost>>

\* A write that does not reach the context.
HwLose ==
  /\ cmd.op = "WR" /\ lost < MaxLost
  /\ cmd' = NoCmd /\ lost' = lost + 1
  /\ UNCHANGED <<state, ring, th, cpu, lock, data, hardware, timeouts>>

Stored == IF IsVec THEN vec[Id(cmd.q)] ELSE ctx[cmd.q][cmd.sel]

HwRead ==
  /\ cmd.op = "RD" /\ cmd' = NoCmd
  /\ data' = Stored
  /\ UNCHANGED <<state, ring, th, cpu, lock, hardware, timeouts, lost>>

HwClear ==
  /\ cmd.op \in {"CLR", "INV"} /\ cmd' = NoCmd
  /\ ctx' = [ctx EXCEPT ![cmd.q][cmd.sel] = IF cmd.op = "CLR" THEN Cleared ELSE Invalid]
  /\ UNCHANGED <<state, ring, th, cpu, lock, data, vec, timeouts, lost>>

\* A queue that runs has state in its hardware and credit contexts.
HwRuns(q) ==
  /\ state[q] = "started" /\ ctx[q]["sw"] \in Rings
  /\ ctx' = [ctx EXCEPT ![q]["hw"] = Used, ![q]["cr"] = Used]
  /\ UNCHANGED <<state, ring, th, cpu, registers, vec, timeouts, lost>>

HwCommand == HwWrite \/ HwLose \/ HwRead \/ HwClear

Step(t) == Write(t) \/ Issue(t) \/ ReadBack(t) \/ Done(t) \/ Mismatch(t) \/ Timeout(t)

Next ==
  \/ \E q \in Queues : Start(q) \/ Stop(q) \/ Dump(q) \/ HwRuns(q)
  \/ \E t \in Threads : Step(t)
  \/ HwCommand

Spec == Init /\ [][Next]_vars

-----------------------------------------------------------------------------
\* The variables have their types.
TypeOK ==
  /\ state \in [Queues -> {"stopped", "starting", "started", "stopping"}]
  /\ ring \in [Queues -> Rings] /\ cpu \in Cpus
  /\ \A t \in Threads :
       /\ th[t].op \in {"idle", "start", "stop", "undo", "dump"}
       /\ th[t].stage \in {"lock", "cmd", "wait", "verify"}
       /\ th[t].op = "idle" <=> th[t].todo = <<>>
  /\ lock \in Threads \cup {"free"}
  /\ ctx \in [Queues -> [Selects -> Rings \cup {Cleared, Invalid, Used}]]
  /\ vec \in [Ids -> [Dirs -> {0, OwnVec}]]

\* When the software context becomes valid, nothing is left in the hardware
\* and credit contexts of what the queue did before.
FreshStart ==
  \A q \in Queues : state[q] = "starting" /\ ctx[q]["sw"] \in Rings =>
    ctx[q]["hw"] = Cleared /\ ctx[q]["cr"] = Cleared

\* The answer a thread finds in the data register is that of its own command,
\* unless it asked for a context the running queue changes.
OwnAnswer ==
  \A t \in Threads :
    /\ cmd = NoCmd
    /\ th[t].stage = "verify" \/ (th[t].stage = "wait" /\ Cmd(t).op = "RD")
    /\ Cmd(t).sel \notin {"hw", "cr"}
    => data = IF Cmd(t).sel = "qid2vec" THEN vec[Id(Q(t))] ELSE ctx[Q(t)][Cmd(t).sel]

\* A queue that was started has its contexts, all of them, with the ring of
\* this start, and keeps them whatever happens to other queues, to the other
\* direction of its pair, and on the mailbox; the interrupts of a queue of
\* the physical function go to its vector. It started without remains of its
\* last run, each thread got its own answers, the variables have their types.
Programmed ==
  /\ TypeOK /\ FreshStart /\ OwnAnswer
  /\ \A q \in Queues : state[q] = "started" =>
       /\ ctx[q]["sw"] = ring[q]
       /\ StC2h(q) => ctx[q]["pftch"] = ring[q] /\ ctx[q]["wrb"] = ring[q]
       /\ Id(q) \notin Virtual => vec[Id(q)][Dir(q)] = OwnVec

\* A queue that is stopped, or whose start failed at any command, has no
\* context that points to the rings the driver frees.
NothingPoints ==
  \A q \in Queues : state[q] = "stopped" => \A s \in Selects : ctx[q][s] \notin Rings
=============================================================================
