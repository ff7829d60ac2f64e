-------------------------------- MODULE Mbox --------------------------------
(***************************************************************************)
(* The mailbox between virtual functions and their physical function, and  *)
(* what is done with it: going online and offline, the mapping of queues   *)
(* to functions (FMAP), queue contexts and settings of the device (CSR).   *)
(*                                                                         *)
(* A virtual function sends one message at a time and holds mbox_lock      *)
(* until it has read a response or a second is over. The timer of the      *)
(* physical function reads, handles and answers messages until there are   *)
(* none. Each function has a register for the message it sent and one for  *)
(* the message it was sent. Virtual functions have no timer running        *)
(* (qdma_device_online() leaves it out), so that a late response stays     *)
(* where it is until the next call. The physical function sends responses  *)
(* only. Each virtual function has one queue, added with its range. What   *)
(* vf_info says of ranges is left out, nothing reads it.                   *)
(***************************************************************************)
EXTENDS Integers, FiniteSets

CONSTANTS
  VFs,       \* the virtual functions, numbered from 1 (hdr->src - QDMA_PF_MAX + 1)
  PfQueues,  \* queues of the physical function at first, conf.qsets_max
  PerVf,     \* QDMA_Q_PER_VF_MAX
  MaxSent,   \* bound on the messages each function sends on its own accord
  None

ASSUME VFsAssumption   == VFs \subseteq Nat \ {0} /\ IsFiniteSet(VFs) /\ None \notin VFs
ASSUME SizeAssumption  == {PfQueues, PerVf} \subseteq Nat \ {0}
ASSUME BoundAssumption == MaxSent \in [VFs -> Nat]

VARIABLES
  prompt,   \* is every message and response read within a second?
  \* each virtual function
  life,     \* "off", "on" or "closing"
  ranged,   \* qdev->init_qrange
  qbase,    \* qdev->qbase
  started,  \* its queue was started
  call,     \* qdma_mbox_send_msg(): [at, op]
  sent,     \* number of messages sent
  last,     \* the last message whose call returned, and whether with success
  \* the mailbox
  outbox, inbox,   \* what each function sent and was sent
  \* the physical function
  pf,       \* its timer: [at, to, good, answer]
  done,     \* the last message of each function that was handled
  slots,    \* xdev->vf_info, a table as long as there are functions
  pfMax,    \* conf.qsets_max
  pfRanged, \* its own init_qrange
  \* the hardware
  fmap,     \* queues mapped to each function
  ctx       \* queues with a valid context

view == <<life, ranged, qbase, started>>
mbox == <<outbox, inbox>>
tabs == <<slots, fmap, ctx>>
conf == <<pfMax, pfRanged>>
vars == <<prompt, view, call, sent, last, mbox, pf, done, tabs, conf>>

Ops       == {"HELLO", "BYE", "FMAP", "CSR", "QCTXT_WRT", "QCTXT_CLR"}
Waits(op) == op \notin {"HELLO", "BYE"}
SlotIds   == 1 .. Cardinality(VFs)
LastVf    == CHOOSE m \in VFs : \A v \in VFs : v <= m
Queues    == 0 .. PfQueues + PerVf * LastVf - 1   \* those the hardware has
Messages  == [op : Ops, qid : Queues]
Responses == [op : Ops, good : BOOLEAN, base : Queues]
Nothing   == [n |-> 0, good |-> TRUE]
Free      == [at |-> "idle", op |-> "none"]
TimerOff  == [at |-> "idle", to |-> None, good |-> TRUE, answer |-> None]

\* A register without a message differs from one with any.
ASSUME NoneAssumption == None \notin Messages \cup Responses

Init ==
  /\ prompt \in BOOLEAN
  /\ life = [v \in VFs |-> "off"]
  /\ ranged = [v \in VFs |-> FALSE] /\ started = ranged
  /\ qbase = [v \in VFs |-> 0] /\ sent = qbase
  /\ call = [v \in VFs |-> Free]
  /\ last = [v \in VFs |-> Nothing] /\ done = last
  /\ outbox = [v \in VFs |-> None] /\ inbox = outbox
  /\ pf = TimerOff
  /\ slots = [s \in SlotIds |-> None]
  /\ pfMax = PfQueues /\ pfRanged = FALSE
  /\ fmap = [v \in VFs |-> {}] /\ ctx = {}

-----------------------------------------------------------------------------
(* The virtual functions.                                                  *)

Request(v, op) == call' = [call EXCEPT ![v] = [at |-> "send", op |-> op]]

Wish(v) == call[v] = Free /\ sent[v] < MaxSent[v]

\* qdma_device_online()
Online(v) ==
  /\ Wish(v) /\ life[v] = "off"
  /\ Request(v, "HELLO")
  /\ UNCHANGED <<prompt, view, sent, last, mbox, pf, done, tabs, conf>>

\* device_set_qrange(), for the first queue that is added.
SetQrange(v) ==
  /\ Wish(v) /\ life[v] = "on" /\ ~ranged[v]
  /\ Request(v, "FMAP")
  /\ UNCHANGED <<prompt, view, sent, last, mbox, pf, done, tabs, conf>>

\* qdma_csr_msg()
CsrGet(v) ==
  /\ Wish(v) /\ life[v] = "on" /\ ranged[v]
  /\ Request(v, "CSR")
  /\ UNCHANGED <<prompt, view, sent, last, mbox, pf, done, tabs, conf>>

\* qdma_descq_context_setup() of qdma_queue_start()
StartQueue(v) ==
  /\ Wish(v) /\ life[v] = "on" /\ ranged[v] /\ ~started[v]
  /\ Request(v, "QCTXT_WRT")
  /\ UNCHANGED <<prompt, view, sent, last, mbox, pf, done, tabs, conf>>

\* qdma_descq_context_clear() of qdma_queue_stop()
StopQueue(v) ==
  /\ Wish(v) /\ life[v] = "on" /\ started[v]
  /\ started' = [started EXCEPT ![v] = FALSE]
  /\ Request(v, "QCTXT_CLR")
  /\ UNCHANGED <<prompt, life, ranged, qbase, sent, last, mbox, pf, done, tabs, conf>>

\* qdma_device_offline() says BYE first and stops the queues then.
Offline(v) ==
  /\ Wish(v) /\ life[v] = "on"
  /\ life' = [life EXCEPT ![v] = "closing"]
  /\ Request(v, "BYE")
  /\ UNCHANGED <<prompt, ranged, qbase, started, sent, last, mbox, pf, done, tabs, conf>>

\* A call of function v returns, with a number from the response.
ReturnOnline(v, good) ==
  /\ life' = [life EXCEPT ![v] = IF good THEN "on" ELSE "closing"]
  /\ IF good THEN call' = [call EXCEPT ![v] = Free] ELSE Request(v, "BYE")
  /\ UNCHANGED <<ranged, qbase, started>>

ReturnOffline(v) ==
  IF ranged[v]
  THEN Request(v, "QCTXT_CLR") /\ UNCHANGED view
  ELSE /\ life' = [life EXCEPT ![v] = "off"]
       /\ call' = [call EXCEPT ![v] = Free]
       /\ UNCHANGED <<ranged, qbase, started>>

ReturnQrange(v, good, base) ==
  /\ ranged' = [ranged EXCEPT ![v] = good]
  /\ qbase' = [qbase EXCEPT ![v] = IF good THEN base ELSE @]
  /\ call' = [call EXCEPT ![v] = Free]
  /\ UNCHANGED <<life, started>>

\* A start that failed clears the context.
ReturnStart(v, good) ==
  /\ started' = [started EXCEPT ![v] = good]
  /\ IF good THEN call' = [call EXCEPT ![v] = Free] ELSE Request(v, "QCTXT_CLR")
  /\ UNCHANGED <<life, ranged, qbase>>

\* The result of clearing a context is not looked at. A function that goes
\* offline forgets its range.
ReturnClear(v) ==
  /\ call' = [call EXCEPT ![v] = Free]
  /\ IF life[v] = "closing"
     THEN /\ life' = [life EXCEPT ![v] = "off"]
          /\ ranged' = [ranged EXCEPT ![v] = FALSE]
          /\ qbase' = [qbase EXCEPT ![v] = 0]
          /\ started' = [started EXCEPT ![v] = FALSE]
     ELSE UNCHANGED view

Return(v, good, base) ==
  CASE call[v].op = "HELLO"     -> ReturnOnline(v, good)
    [] call[v].op = "BYE"       -> ReturnOffline(v)
    [] call[v].op = "FMAP"      -> ReturnQrange(v, good, base)
    [] call[v].op = "CSR"       -> call' = [call EXCEPT ![v] = Free] /\ UNCHANGED view
    [] call[v].op = "QCTXT_WRT" -> ReturnStart(v, good)
    [] call[v].op = "QCTXT_CLR" -> ReturnClear(v)

-----------------------------------------------------------------------------
(* qdma_mbox_send_msg() of a virtual function.                             *)

OutFree(v) == outbox[v] = None

\* mbox_send(): the message is in the registers. A call that does not wait
\* returns; for the others m_req is cleared.
Send(v) ==
  /\ call[v].at = "send" /\ OutFree(v)
  /\ outbox' = [outbox EXCEPT ![v] = [op |-> call[v].op, qid |-> qbase[v]]]
  /\ sent' = [sent EXCEPT ![v] = @ + 1]
  /\ IF Waits(call[v].op)
     THEN call' = [call EXCEPT ![v].at = "wait"] /\ UNCHANGED <<view, last>>
     ELSE /\ last' = [last EXCEPT ![v] = [n |-> sent[v] + 1, good |-> TRUE]]
          /\ Return(v, TRUE, 0)
  /\ UNCHANGED <<prompt, inbox, pf, done, tabs, conf>>

\* The last message was not read for a second.
SendBusy(v) ==
  /\ ~prompt
  /\ call[v].at = "send" /\ ~OutFree(v)
  /\ Return(v, FALSE, 0)
  /\ UNCHANGED <<prompt, sent, last, mbox, pf, done, tabs, conf>>

\* mbox_proc_rcv() for one message: a response of another operation is an
\* error, one of the same operation is taken for the response of this call.
Receive(v) ==
  /\ call[v].at = "wait" /\ inbox[v] # None
  /\ \E good \in {inbox[v].op = call[v].op /\ inbox[v].good} :
       /\ Return(v, good, inbox[v].base)
       /\ last' = [last EXCEPT ![v] = [n |-> sent[v], good |-> good]]
  /\ inbox' = [inbox EXCEPT ![v] = None]
  /\ UNCHANGED <<prompt, sent, outbox, pf, done, tabs, conf>>

\* Nothing came for a second. mbox_proc_rcv() returns the number of messages,
\* 0, which is no error: callers that do not check hdr->ack take the cleared
\* m_req for the response.
TimedOut(v) ==
  /\ ~prompt
  /\ call[v].at = "wait" /\ inbox[v] = None
  /\ \E good \in {call[v].op \in {"FMAP", "CSR"}} :
       /\ Return(v, good, 0)
       /\ last' = [last EXCEPT ![v] = [n |-> sent[v], good |-> good]]
  /\ UNCHANGED <<prompt, sent, mbox, pf, done, tabs, conf>>

-----------------------------------------------------------------------------
(* The timer of the physical function.                                     *)

\* xdev_sriov_vf_online(): the first free entry of the table, if any.
FreeSlots == {s \in SlotIds : slots[s] = None}
Entered(v) ==
  IF FreeSlots = {} THEN slots
  ELSE [slots EXCEPT ![CHOOSE s \in FreeSlots : \A t \in FreeSlots : s <= t] = v]

\* Mutant: the entry stays.
LeftNot(v) == slots

\* xdev_sriov_vf_offline()
Left(v) == [s \in SlotIds |-> IF slots[s] = v THEN None ELSE slots[s]]

\* The range of a virtual function that does not ask for a certain one.
Base(v) == pfMax + (v - 1) * PerVf

QRange(base) == base .. base + PerVf - 1

\* Mutant: the range the function asked for, which is none.
AnsweredBaseOld(v, op) == 0

\* fmap->qbase of the response
AnsweredBase(v, op) == IF op = "FMAP" THEN Base(v) ELSE 0

Hello(v) == slots' = Entered(v) /\ UNCHANGED <<fmap, ctx>>

Bye(v) ==
  /\ fmap' = [fmap EXCEPT ![v] = {}]
  /\ slots' = Left(v)
  /\ UNCHANGED ctx

SetFmap(v) == fmap' = [fmap EXCEPT ![v] = QRange(Base(v))] /\ UNCHANGED <<slots, ctx>>

\* Mutant: the context is cleared after it was written.
WrittenThenCleared(qid) == ctx \ {qid}

\* The context is cleared first and written then.
Written(qid) == ctx \cup {qid}

\* Contexts are written through a command register that may time out; the
\* state of the context is not known then.
WriteContext(qid, ok) ==
  /\ IF ok THEN ctx' = Written(qid) ELSE ctx' \in {ctx, ctx \ {qid}, ctx \cup {qid}}
  /\ UNCHANGED <<slots, fmap>>

ClearContext(qid, ok) ==
  /\ IF ok THEN ctx' = ctx \ {qid} ELSE ctx' \in {ctx, ctx \ {qid}}
  /\ UNCHANGED <<slots, fmap>>

Handle(v, m, ok) ==
  CASE m.op = "HELLO"     -> ok /\ Hello(v)
    [] m.op = "BYE"       -> ok /\ Bye(v)
    [] m.op = "FMAP"      -> ok /\ SetFmap(v)
    [] m.op = "CSR"       -> ok /\ UNCHANGED tabs
    [] m.op = "QCTXT_WRT" -> WriteContext(m.qid, ok)
    [] m.op = "QCTXT_CLR" -> ClearContext(m.qid, ok)

\* Mutant: what happened to this message does not matter.
StatusKept(good, ok) == good

\* status is not reset between the messages of one run of the timer: after
\* an error, all responses until the end of the run tell of an error.
Status(good, ok) == good /\ ok

\* Mutant: errors are not answered.
AnswersGoodOnly(m, ok) == Waits(m.op) /\ ok

\* hdr->wait: the sender waits for a response, also for an error.
Answers(m, ok) == Waits(m.op)

\* mbox_read() of a message of function v, and what is done with it.
Process(v) ==
  /\ pf.at \in {"idle", "loop"} /\ outbox[v] # None
  /\ \E ok \in BOOLEAN, m \in {outbox[v]} :
       /\ Handle(v, m, ok)
       /\ done' = [done EXCEPT ![v] = [n |-> sent[v], good |-> ok]]
       /\ pf' = IF Answers(m, ok)
                THEN [at |-> "respond", to |-> v, good |-> Status(pf.good, ok),
                      answer |-> [op |-> m.op, good |-> Status(pf.good, ok),
                                  base |-> AnsweredBase(v, m.op)]]
                ELSE [pf EXCEPT !.at = "loop"]
  /\ outbox' = [outbox EXCEPT ![v] = None]
  /\ UNCHANGED <<prompt, view, call, sent, last, inbox, conf>>

Respond ==
  /\ pf.at = "respond" /\ inbox[pf.to] = None
  /\ inbox' = [inbox EXCEPT ![pf.to] = pf.answer]
  /\ pf' = [TimerOff EXCEPT !.at = "loop", !.good = pf.good]
  /\ UNCHANGED <<prompt, view, call, sent, last, outbox, done, tabs, conf>>

\* The last response was not read for a second: this one is dropped.
RespondBusy ==
  /\ ~prompt
  /\ pf.at = "respond" /\ inbox[pf.to] # None
  /\ pf' = TimerOff
  /\ UNCHANGED <<prompt, view, call, sent, last, mbox, done, tabs, conf>>

TimerDone ==
  /\ pf.at = "loop" /\ \A v \in VFs : outbox[v] = None
  /\ pf' = TimerOff
  /\ UNCHANGED <<prompt, view, call, sent, last, mbox, done, tabs, conf>>

\* qdma_set_qmax() of the physical function, before it has queues itself: the
\* number can only be made smaller.
PfSetQmax ==
  /\ ~pfRanged
  /\ pfMax' \in 1 .. pfMax - 1
  /\ UNCHANGED <<prompt, view, call, sent, last, mbox, pf, done, tabs, pfRanged>>

\* qdma_device_prep_q_resource() of the physical function
PfSetQrange ==
  /\ ~pfRanged
  /\ pfRanged' = TRUE
  /\ UNCHANGED <<prompt, view, call, sent, last, mbox, pf, done, tabs, pfMax>>

-----------------------------------------------------------------------------
VfStep(v) == Send(v) \/ SendBusy(v) \/ Receive(v) \/ TimedOut(v)
PfStep    == (\E v \in VFs : Process(v)) \/ Respond \/ RespondBusy \/ TimerDone

Next ==
  \/ \E v \in VFs : \/ Online(v) \/ SetQrange(v) \/ CsrGet(v)
                    \/ StartQueue(v) \/ StopQueue(v) \/ Offline(v)
                    \/ VfStep(v)
  \/ PfStep \/ PfSetQmax \/ PfSetQrange

Spec == Init /\ [][Next]_vars

\* Callers spin for a second at most, and the timer of the physical function
\* is started again after each run.
FairSpec == Spec /\ WF_vars(PfStep) /\ \A v \in VFs : WF_vars(VfStep(v))

-----------------------------------------------------------------------------
(* Properties.                                                             *)

\* The types of the variables; ranges lie within the queues of the hardware,
\* and messages are handled after they were sent.
TypeOK ==
  /\ {prompt, pfRanged} \subseteq BOOLEAN
  /\ life \in [VFs -> {"off", "on", "closing"}]
  /\ {ranged, started} \subseteq [VFs -> BOOLEAN]
  /\ qbase \in [VFs -> Queues]
  /\ call \in [VFs -> [at : {"send", "wait"}, op : Ops] \cup {Free}]
  /\ {last, done} \subseteq [VFs -> [n : Nat, good : BOOLEAN]]
  /\ outbox \in [VFs -> Messages \cup {None}]
  /\ inbox \in [VFs -> Responses \cup {None}]
  /\ pf.at \in {"idle", "loop", "respond"} /\ (pf.at = "respond") = (pf.to # None)
  /\ slots \in [SlotIds -> VFs \cup {None}]
  /\ pfMax \in 1 .. PfQueues
  /\ fmap \in [VFs -> SUBSET Queues] /\ ctx \subseteq Queues
  /\ sent \in [VFs -> Nat]
  /\ \A v \in VFs : done[v].n <= sent[v] /\ last[v].n <= sent[v] /\ sent[v] <= MaxSent[v] + 1

\* A function that thinks it has a range has the one the hardware maps to it;
\* and the variables have their types.
RangeAgreed ==
  /\ TypeOK
  /\ \A v \in VFs : prompt /\ life[v] = "on" /\ ranged[v] => fmap[v] = QRange(qbase[v])

\* The table has exactly the functions that are online, each of them once,
\* when no message of the function is on its way.
TableExact ==
  \A v \in VFs :
    prompt /\ outbox[v] = None /\ call[v] = Free =>
      Cardinality({s \in SlotIds : slots[s] = v}) = IF life[v] = "on" THEN 1 ELSE 0

\* The context of a queue that a virtual function has started is valid, as
\* long as the number of queues of the physical function was not changed.
QueueBacked ==
  \A v \in VFs : prompt /\ pfMax = PfQueues /\ started[v] /\ life[v] = "on" => qbase[v] \in ctx

\* Every call returns: functions do not wait for each other forever, also
\* when nothing times out.
EveryCallReturns == \A v \in VFs : call[v] # Free ~> call[v] = Free

\* With answers in time, the mailbox is a reliable procedure call.
Service == INSTANCE MboxService WITH timely <- prompt, asked <- sent, returned <- last
ImplementsService == Service!Spec
=============================================================================
