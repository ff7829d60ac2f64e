------------------------------ MODULE IntrAggr ------------------------------
(***************************************************************************)
(* The interrupts of one function, from the hardware to the work items of  *)
(* the queues.  With interrupt aggregation the hardware writes an entry    *)
(* for each interrupt to a ring in host memory, and the handler walks the  *)
(* ring until the color of an entry is not the one of this lap; without,   *)
(* the handler schedules the work of all queues of the vector.  An error   *)
(* comes with a vector of its own, or as an entry of the ring, and the     *)
(* handler collects the bits of all the status registers.                  *)
(*                                                                         *)
(* Handlers run in interrupt threads under xdev->lock, so there is one at  *)
(* a time; the hardware writes entries and status bits at any moment.      *)
(***************************************************************************)
EXTENDS Integers, Sequences

CONSTANTS
  Queues,    \* the started queues of the function
  Errors,    \* the enabled hardware errors, bits of the status registers
  NRegs,     \* status registers below the global one: HW_ERRS - 1
  Reg,       \* the register that shows an error
  Error,     \* in the place of a queue: the error_int flag of an entry
  Entries,   \* intr_rng_num_entries
  MaxEvents, \* bound: how often queues have something new to report
  MaxErrors  \* bound: how often an error happens

ASSUME ErrorAssumption   == Error \notin Queues
ASSUME EntriesAssumption == Entries \in Nat /\ Entries >= 2
ASSUME RegAssumption     == NRegs \in Nat /\ Reg \in [Errors -> 1 .. NRegs]
ASSUME BoundAssumption   == MaxEvents \in Nat /\ MaxErrors \in Nat

VARIABLES
  coal,       \* xdev->intr_coal_en
  level,      \* does the global status show what the other registers hold, or
              \* is it set by each error and cleared by itself?
  \* the hardware
  news,       \* the queues with something their work has not looked at
  events,     \* how often queues had news, errors not counted
  errors,     \* how often an error happened
  want,       \* interrupts the hardware has to raise: queues, or Error
  ring,       \* the aggregation ring: color, source and number of an entry
  written,    \* entries written so far
  cidxReg,    \* QDMA_REG_INT_CIDX: the next entry the driver wants
  msi,        \* state of the data vector: idle, raised, or being handled
  stat,       \* the bits of the error status registers
  glbl,       \* the bits of the global error status register
  armed,      \* the error interrupt is armed, for one shot
  errIrq,     \* the error vector was raised
  \* struct intr_coal_conf and the work items
  cidx,       \* next entry of the ring
  color,      \* color of the entries of this lap
  queued,     \* works that were scheduled and did not start yet
  \* the handler
  pc,         \* idle, at an entry or after the last one, at a status register
  found,      \* descq # NULL: at least one entry was handled
  reg,        \* err_stat_handler(): the register, 0 is the global one
  bits,       \* what was read from it and has to be written back
  glbBits,    \* glb_err_stat
  \* history
  log,        \* the numbers of the entries in the order they were handled
  reported    \* the errors that were printed, since each happened

hwQueues == <<news, events, want>>
hwRing   == <<ring, written, cidxReg, msi>>
hwErrors == <<errors, stat, glbl, armed, errIrq, reported>>
coalConf == <<cidx, color, log>>
handler  == <<pc, found, reg, bits, glbBits>>
vars == <<coal, level, hwQueues, hwRing, hwErrors, coalConf, queued, handler>>

Slots == 0 .. Entries - 1

\* The global register, in both kinds of hardware.
Glbl == IF level THEN {Reg[e] : e \in stat} ELSE glbl

\* What a read of register i finds; the global one has a bit per register.
StatusOf(i) == IF i = 0 THEN Glbl ELSE {e \in stat : Reg[e] = i}

-----------------------------------------------------------------------------
\* intr_ring_alloc() clears the ring: entries of color 0 are old at first.
EmptyRing == [s \in Slots |-> [color |-> 0, from |-> Error, nr |-> 0]]

\* intr_ring_setup(), or no aggregation; qdma_err_intr_setup() arms.
Init ==
  /\ coal \in BOOLEAN /\ level \in BOOLEAN
  /\ news = {} /\ events = 0 /\ errors = 0 /\ want = {}
  /\ ring = EmptyRing /\ written = 0 /\ cidxReg = 0 /\ msi = "idle"
  /\ stat = {} /\ glbl = {} /\ armed = TRUE /\ errIrq = FALSE
  /\ cidx = 0 /\ color = 1
  /\ queued = {}
  /\ pc = "idle" /\ found = FALSE /\ reg = 0 /\ bits = {} /\ glbBits = {}
  /\ log = <<>> /\ reported = {}

-----------------------------------------------------------------------------
(* The hardware (external), modelled from what the driver relies on.       *)

\* A writeback or a completion: the queue asks for an interrupt.
HwEvent(q) ==
  /\ events < MaxEvents
  /\ events' = events + 1
  /\ news' = news \cup {q}
  /\ want' = want \cup {q}
  /\ UNCHANGED <<coal, level, hwRing, hwErrors, coalConf, queued, handler>>

\* An error sets its bit; it counts as not reported from now on.
HwError(e) ==
  /\ errors < MaxErrors
  /\ e \notin stat
  /\ errors' = errors + 1
  /\ stat' = stat \cup {e}
  /\ glbl' = glbl \cup {Reg[e]}
  /\ reported' = reported \ {e}
  /\ UNCHANGED <<coal, level, hwQueues, hwRing, armed, errIrq, coalConf, queued,
                 handler>>

\* The armed error interrupt fires while the global register shows an error.
HwErrorIrq ==
  /\ armed /\ Glbl # {}
  /\ armed' = FALSE
  /\ IF coal
     THEN want' = want \cup {Error} /\ UNCHANGED errIrq
     ELSE errIrq' = TRUE /\ UNCHANGED want
  /\ UNCHANGED <<coal, level, news, events, hwRing, errors, stat, glbl, reported,
                 coalConf, queued, handler>>

\* An entry is written while the ring has room, in the color of the lap; the
\* vector is raised once, until the driver writes the index register.
HwEntry(s) ==
  /\ coal /\ s \in want
  /\ (written + 1) % Entries # cidxReg
  /\ ring' = [ring EXCEPT ![written % Entries] =
                [color |-> IF (written \div Entries) % 2 = 0 THEN 1 ELSE 0,
                 from |-> s, nr |-> written + 1]]
  /\ written' = written + 1
  /\ want' = want \ {s}
  /\ msi' = IF msi = "idle" THEN "raised" ELSE msi
  /\ UNCHANGED <<coal, level, news, events, cidxReg, hwErrors, coalConf, queued,
                 handler>>

\* Without aggregation the vector of the queue is raised each time.
HwDirect(q) ==
  /\ ~coal /\ q \in want
  /\ want' = want \ {q}
  /\ msi' = "raised"
  /\ UNCHANGED <<coal, level, news, events, ring, written, cidxReg, hwErrors,
                 coalConf, queued, handler>>

-----------------------------------------------------------------------------
(* data_intr_handler() and data_intr_aggregate().                          *)

\* schedule_work(): nothing happens for a work that waits to be run.
Scheduled(qs) == queued' = queued \cup qs

\* data_intr_direct() walks the list of the vector.
VectorQueues == Queues

DirectIntr ==
  /\ ~coal /\ pc = "idle" /\ msi = "raised"
  /\ msi' = "idle"
  /\ Scheduled(VectorQueues)
  /\ UNCHANGED <<coal, level, hwQueues, ring, written, cidxReg, hwErrors, coalConf,
                 handler>>

AggregateStart ==
  /\ coal /\ pc = "idle" /\ msi = "raised"
  /\ msi' = "handled"
  /\ pc' = "entry" /\ found' = FALSE
  /\ UNCHANGED <<coal, level, hwQueues, ring, written, cidxReg, hwErrors, coalConf,
                 queued, reg, bits, glbBits>>

\* Is the entry the handler looks at one of this lap?
NewEntry == ring[cidx].color = color

\* Mutant: the color is changed an entry too early.
LapOverEarly == cidx + 2 = Entries

\* Is the entry the last one of the ring?
LapOver == cidx + 1 = Entries

\* The entry after this one.
NextIndex == IF cidx + 1 = Entries THEN 0 ELSE cidx + 1

\* The entry was handled: the next one, in the other color after a lap.
Advance ==
  /\ cidx' = NextIndex
  /\ color' = IF LapOver THEN 1 - color ELSE color
  /\ log' = Append(log, ring[cidx].nr)
  /\ found' = TRUE

\* An entry of a queue schedules its work.
AggregateQueue ==
  /\ pc = "entry" /\ NewEntry
  /\ ring[cidx].from # Error
  /\ Scheduled({ring[cidx].from})
  /\ Advance
  /\ UNCHANGED <<coal, level, hwQueues, hwRing, hwErrors, pc, reg, bits, glbBits>>

\* An entry with error_int: err_stat_handler() is called first.
AggregateError ==
  /\ pc = "entry" /\ NewEntry
  /\ ring[cidx].from = Error
  /\ pc' = "read" /\ reg' = 0 /\ glbBits' = {}
  /\ UNCHANGED <<coal, level, hwQueues, hwRing, hwErrors, coalConf, queued, found,
                 bits>>

\* Mutant: all that was written is acknowledged, not what was handled.
IndexToWriteAll == written % Entries

\* intr_cidx_update().
IndexToWrite == cidx

\* The entry is one of the last lap, or was never written.
AggregateEnd ==
  /\ pc = "entry" /\ ~NewEntry
  /\ pc' = IF found THEN "update" ELSE "idle"
  /\ UNCHANGED <<coal, level, hwQueues, hwRing, hwErrors, coalConf, queued, found,
                 reg, bits, glbBits>>

\* The index goes to the hardware, which raises the vector again for entries
\* it has written since the handler looked.
AggregateUpdate ==
  /\ pc = "update"
  /\ pc' = "idle"
  /\ cidxReg' = IndexToWrite
  /\ msi' = IF written % Entries # cidxReg' THEN "raised" ELSE "idle"
  /\ UNCHANGED <<coal, level, hwQueues, ring, written, hwErrors, coalConf, queued,
                 found, reg, bits, glbBits>>

-----------------------------------------------------------------------------
(* err_stat_handler().                                                     *)

\* error_intr_handler(), with the vector of its own.
ErrorIntr ==
  /\ pc = "idle" /\ errIrq
  /\ errIrq' = FALSE
  /\ pc' = "read" /\ reg' = 0 /\ glbBits' = {}
  /\ UNCHANGED <<coal, level, hwQueues, hwRing, errors, stat, glbl, armed, reported,
                 coalConf, queued, found, bits>>

\* A register is read; what it holds is printed before it is written back.
ErrRead ==
  LET read == StatusOf(reg)
  IN /\ pc = "read" /\ reg <= NRegs
     /\ IF reg = 0 THEN glbBits' = read /\ UNCHANGED reported
                   ELSE reported' = reported \cup read /\ UNCHANGED glbBits
     /\ IF read = {} THEN reg' = reg + 1 /\ UNCHANGED <<pc, bits>>
                     ELSE pc' = "clear" /\ bits' = read /\ UNCHANGED reg
     /\ UNCHANGED <<coal, level, hwQueues, hwRing, errors, stat, glbl, armed, errIrq,
                    coalConf, queued, found>>

\* Mutant: all the bits of the register are cleared.
BitsToClearAll == IF reg = 0 THEN 1 .. NRegs ELSE {e \in Errors : Reg[e] = reg}

\* Bits are cleared by writing ones: those that were read.
BitsToClear == bits

ErrClear ==
  /\ pc = "clear"
  /\ IF reg = 0 THEN glbl' = glbl \ BitsToClear /\ UNCHANGED stat
                ELSE stat' = stat \ BitsToClear /\ UNCHANGED glbl
  /\ pc' = "read" /\ reg' = reg + 1 /\ bits' = {}
  /\ UNCHANGED <<coal, level, hwQueues, hwRing, errors, armed, errIrq, reported,
                 coalConf, queued, found, glbBits>>

\* Mutant: the interrupt is not armed again.
RearmNot == armed

\* qdma_err_intr_setup(xdev, 1).
Rearm == TRUE

\* The global bits read at first are cleared again and the interrupt armed;
\* then the handler goes on with the ring, if it came from there.
ErrDone ==
  /\ pc = "read" /\ reg > NRegs
  /\ IF glbBits # {}
     THEN glbl' = glbl \ glbBits /\ armed' = Rearm
     ELSE UNCHANGED <<glbl, armed>>
  /\ reg' = 0 /\ glbBits' = {}
  /\ IF coal THEN pc' = "entry" /\ Advance
             ELSE pc' = "idle" /\ UNCHANGED <<coalConf, found>>
  /\ UNCHANGED <<coal, level, hwQueues, hwRing, errors, stat, errIrq, reported, queued,
                 bits>>

-----------------------------------------------------------------------------
\* intr_work() looks at the queue; a queue with more news asks again.
Work(q) ==
  /\ q \in queued
  /\ queued' = queued \ {q}
  /\ news' = news \ {q}
  /\ UNCHANGED <<coal, level, events, want, hwRing, hwErrors, coalConf, handler>>

Handler ==
  \/ DirectIntr
  \/ AggregateStart \/ AggregateQueue \/ AggregateError
  \/ AggregateEnd \/ AggregateUpdate
  \/ ErrorIntr \/ ErrRead \/ ErrClear \/ ErrDone

HwInterrupts == HwErrorIrq \/ \E s \in Queues \cup {Error} : HwEntry(s) \/ HwDirect(s)

Next ==
  \/ \E q \in Queues : HwEvent(q) \/ Work(q)
  \/ \E e \in Errors : HwError(e)
  \/ HwInterrupts
  \/ Handler

Spec == Init /\ [][Next]_vars

\* Raised interrupts are handled, scheduled works run, and the hardware
\* raises the interrupts it owes, each of them.
Fairness ==
  /\ WF_vars(Handler)
  /\ \A q \in Queues : WF_vars(Work(q))
  /\ WF_vars(HwErrorIrq)
  /\ \A s \in Queues \cup {Error} : WF_vars(HwEntry(s)) /\ WF_vars(HwDirect(s))

FairSpec == Spec /\ Fairness

-----------------------------------------------------------------------------
(* Properties.                                                             *)

\* The variables have their types.
TypeOK ==
  /\ coal \in BOOLEAN /\ level \in BOOLEAN
  /\ news \subseteq Queues /\ queued \subseteq Queues
  /\ want \subseteq Queues \cup {Error}
  /\ events \in 0 .. MaxEvents /\ errors \in 0 .. MaxErrors
  /\ ring \in [Slots -> [color : {0, 1}, from : Queues \cup {Error}, nr : Nat]]
  /\ written \in Nat /\ cidxReg \in Slots /\ cidx \in Slots /\ color \in {0, 1}
  /\ msi \in {"idle", "raised", "handled"}
  /\ stat \subseteq Errors /\ reported \subseteq Errors
  /\ glbl \subseteq 1 .. NRegs /\ glbBits \subseteq 1 .. NRegs
  /\ armed \in BOOLEAN /\ errIrq \in BOOLEAN
  /\ pc \in {"idle", "entry", "update", "read", "clear"}
  /\ found \in BOOLEAN
  /\ reg \in 0 .. NRegs + 1
  /\ bits \subseteq Errors \cup 1 .. NRegs
  /\ log \in Seq(Nat)

\* Every entry of the aggregation ring is handled once and in the order in
\* which the hardware wrote them, lap after lap: an entry of the last lap is
\* never taken for a new one and no new one is passed over. The variables,
\* the consumer index among them, have their types.
EntriesInOrder ==
  /\ TypeOK
  /\ \A i \in DOMAIN log : log[i] = i
  /\ Len(log) <= written

\* An error bit is cleared only after the error was reported; one that
\* happens between the read and the write of its register stays for the next
\* interrupt.
NoErrorLost == [][\A e \in stat : e \notin stat' => e \in reported]_vars

\* A queue with something new is looked at in the end: interrupts that are
\* merged, by the hardware or by schedule_work(), cover what came before.
QueuesServed == \A q \in Queues : q \in news ~> q \notin news

\* An error is reported and cleared in the end, also one that happens while
\* others are handled: the interrupt comes again for it. Where the global bits
\* are sticky this needs that the bit is shown when the handler is not at work:
\* for an error that comes after its register was read, the second write of
\* the global register takes the bit away.
ErrorsHandled ==
  \A e \in Errors :
    /\ e \in stat /\ level ~> e \notin stat
    /\ e \in stat /\ Reg[e] \in glbl /\ pc \notin {"read", "clear"} ~> e \notin stat
=============================================================================
