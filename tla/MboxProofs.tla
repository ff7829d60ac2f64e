----------------------------- MODULE MboxProofs -----------------------------
(***************************************************************************)
(* Proofs about Mbox for any number of virtual functions, of queues, and   *)
(* of messages.                                                            *)
(***************************************************************************)
EXTENDS Mbox, FiniteSetTheorems, WellFoundedInduction, TLAPS

-----------------------------------------------------------------------------
(* Facts about natural numbers.                                            *)

\* A set of natural numbers has a least one: otherwise the intervals from
\* zero to its members would have no minimal one.
LEMMA NatMin ==
  ASSUME NEW T, T \subseteq Nat, T # {}
  PROVE  \E x \in T : \A y \in T : x <= y
<1> DEFINE D == {0 .. n : n \in T}
<1>1. D \subseteq FiniteSubsetsOf(Nat)
  <2> SUFFICES ASSUME NEW n \in T PROVE 0 .. n \in SUBSET Nat /\ IsFiniteSet(0 .. n)
    BY DEF FiniteSubsetsOf
  <2> QED
    BY FS_Interval
<1>2. PICK d \in D : \A e \in D : <<e, d>> \notin StrictSubsetOrdering(Nat)
  <2>1. D # {}
    OBVIOUS
  <2> HIDE DEF D
  <2> QED
    BY <1>1, <2>1, WFMin, FS_StrictSubsetOrderingWellFounded
<1>3. PICK m \in T : d = 0 .. m
  OBVIOUS
<1>4. ASSUME NEW n \in T, n < m PROVE FALSE
  <2>1. 0 .. n \in D
    OBVIOUS
  <2>2. /\ 0 .. n \in SUBSET Nat /\ d \in SUBSET Nat
        /\ 0 .. n \subseteq d /\ m \in d /\ m \notin 0 .. n
    BY <1>3, <1>4
  <2>3. <<0 .. n, d>> \in StrictSubsetOrdering(Nat)
    BY <2>2 DEF StrictSubsetOrdering
  <2> QED
    BY <1>2, <2>1, <2>3
<1> QED
  BY <1>4

\* A finite set of natural numbers has a greatest one: the set of those that
\* are greater than it is a minimal one of its kind.
LEMMA NatMax ==
  ASSUME NEW T, T \subseteq Nat, T # {}, IsFiniteSet(T)
  PROVE  \E x \in T : \A y \in T : y <= x
<1> DEFINE Above(x) == {y \in T : y > x}
           D        == {Above(x) : x \in T}
<1>1. D \subseteq FiniteSubsetsOf(Nat)
  <2> SUFFICES ASSUME NEW x \in T PROVE Above(x) \in SUBSET Nat /\ IsFiniteSet(Above(x))
    BY DEF FiniteSubsetsOf
  <2> QED
    BY FS_Subset
<1>2. PICK d \in D : \A e \in D : <<e, d>> \notin StrictSubsetOrdering(Nat)
  <2>1. D # {}
    OBVIOUS
  <2> HIDE DEF D
  <2> QED
    BY <1>1, <2>1, WFMin, FS_StrictSubsetOrderingWellFounded
<1>3. PICK m \in T : d = Above(m)
  OBVIOUS
<1>4. ASSUME NEW n \in T, n > m PROVE FALSE
  <2>1. Above(n) \in D
    OBVIOUS
  <2>2. m \in Nat /\ n \in Nat /\ \A y \in T : y \in Nat /\ (y > n => y > m) /\ ~(n > n)
    BY <1>4
  <2>3. /\ Above(n) \in SUBSET Nat /\ d \in SUBSET Nat
        /\ Above(n) \subseteq d /\ n \in d /\ n \notin Above(n)
    BY <1>3, <1>4, <2>2
  <2>4. <<Above(n), d>> \in StrictSubsetOrdering(Nat)
    BY <2>3 DEF StrictSubsetOrdering
  <2> QED
    BY <1>2, <2>1, <2>4
<1>5. ASSUME NEW y \in T, ~(y <= m) PROVE FALSE
  BY <1>4, <1>5
<1> QED
  BY <1>5

\* A product grows with its first factor.
LEMMA ProductLe ==
  ASSUME NEW a \in Nat, NEW b \in Nat, NEW c \in Nat, a <= b
  PROVE  a * c <= b * c
<1> DEFINE d == b - a
<1>1. d \in Nat /\ b = a + d
  OBVIOUS
<1>2. b * c = a * c + d * c
  BY <1>1
<1>3. d * c \in Nat /\ a * c \in Nat
  BY <1>1
<1> QED
  BY <1>2, <1>3

\* ... strictly, when the second one is not zero.
LEMMA ProductLess ==
  ASSUME NEW a \in Nat, NEW b \in Nat, NEW c \in Nat \ {0}, a < b
  PROVE  a * c + c <= b * c
<1>1. (a + 1) * c <= b * c
  BY ProductLe
<1>2. (a + 1) * c = a * c + c
  OBVIOUS
<1> QED
  BY <1>1, <1>2

-----------------------------------------------------------------------------
(* The inductive invariant.                                                *)

\* The timer of the physical function has an answer when it is to respond.
Timer ==
  /\ pf \in [at : {"idle", "loop", "respond"}, to : VFs \cup {None}, good : BOOLEAN,
             answer : Responses \cup {None}]
  /\ pf.at = "respond" => pf.to \in VFs /\ pf.answer \in Responses

\* Clearing a context is the only message beyond the bound.
Bounds ==
  \A v \in VFs :
    /\ call[v].at = "send" =>
         sent[v] <= MaxSent[v] /\ (call[v].op # "QCTXT_CLR" => sent[v] < MaxSent[v])
    /\ call[v].at = "wait" /\ call[v].op # "QCTXT_CLR" => sent[v] <= MaxSent[v]

\* What a function may call in each part of its life.
Calls ==
  \A v \in VFs :
    /\ call[v].at = "wait" => Waits(call[v].op)
    /\ call[v].at = "send" => call[v].op \in Ops
    /\ life[v] = "off" => ~ranged[v] /\ (call[v] = Free \/ call[v].op = "HELLO")
    /\ life[v] = "on" => call[v] = Free \/ Waits(call[v].op)
    /\ life[v] = "closing" => call[v].op \in {"BYE", "QCTXT_CLR"}
    /\ started[v] => ranged[v]
    /\ call[v].op = "FMAP" => ~ranged[v]
    /\ call[v].op \in {"CSR", "QCTXT_WRT", "QCTXT_CLR"} => ranged[v]
    /\ call[v].op = "QCTXT_WRT" \/ (call[v].op = "QCTXT_CLR" /\ life[v] = "on") => ~started[v]

\* The physical function is about to answer function v.
Answering(v) == pf.at = "respond" /\ pf.to = v

\* A call that waits has its message in the mailbox, being answered, or the
\* response is there: nobody waits for two things at once.
OneMessage ==
  \A v \in VFs :
    /\ call[v].at # "wait" => ~Answering(v) /\ inbox[v] = None
    /\ call[v].at = "wait" => outbox[v] # None \/ Answering(v) \/ inbox[v] # None
    /\ ~(outbox[v] # None /\ (Answering(v) \/ inbox[v] # None))
    /\ ~(Answering(v) /\ inbox[v] # None)

\* The messages that are handled and answered, against those that were sent.
Counted ==
  \A v \in VFs :
    /\ done[v].n = IF outbox[v] = None THEN sent[v] ELSE sent[v] - 1
    /\ last[v].n = IF call[v].at = "wait" THEN sent[v] - 1 ELSE sent[v]

\* Whose message it is.
Sender ==
  \A v \in VFs :
    outbox[v] # None =>
      CASE outbox[v].op = "HELLO" ->
             call[v].at # "wait" /\ (life[v] = "on" \/ (life[v] = "closing" /\ call[v].op = "BYE"))
        [] outbox[v].op = "BYE" ->
             call[v].at # "wait" /\ (life[v] = "off" \/ (life[v] = "closing" /\ call[v].op = "QCTXT_CLR"))
        [] OTHER ->
             call[v].at = "wait" /\ outbox[v].op = call[v].op /\ outbox[v].qid = qbase[v]

\* The range of function v as long as the number of queues of the physical
\* function is what it was.
First(v) == PfQueues + (v - 1) * PerVf

\* What the response a means to function v, which waits for it.
Truthful(v, a) ==
  /\ a.op = call[v].op
  /\ a.good => done[v].good
  /\ a.op = "FMAP" => fmap[v] = QRange(a.base) /\ (pfMax = PfQueues => a.base = First(v))
  /\ a.op = "QCTXT_WRT" /\ a.good /\ pfMax = PfQueues => qbase[v] \in ctx

Told ==
  \A v \in VFs : /\ Answering(v) => Truthful(v, pf.answer)
                 /\ inbox[v] # None => Truthful(v, inbox[v])

\* The range of a function, and its queue.
Ranges ==
  \A v \in VFs :
    /\ life[v] = "on" /\ ranged[v] => fmap[v] = QRange(qbase[v])
    /\ ranged[v] /\ pfMax = PfQueues => qbase[v] = First(v)
    /\ life[v] = "on" /\ started[v] /\ pfMax = PfQueues => qbase[v] \in ctx

\* The physical function has heard that v is online, and not that it no longer is.
Known(v) ==
  \/ outbox[v] # None /\ outbox[v].op = "BYE"
  \/ /\ ~(outbox[v] # None /\ outbox[v].op = "HELLO")
     /\ life[v] = "on" \/ (life[v] = "closing" /\ call[v].op = "BYE")

Table ==
  /\ \A s, t \in SlotIds : slots[s] # None /\ slots[s] = slots[t] => s = t
  /\ \A v \in VFs : Known(v) <=> \E s \in SlotIds : slots[s] = v

\* The first three parts always hold, the others as long as every message and
\* response is read in time.
MboxInv ==
  /\ TypeOK /\ Timer /\ Bounds /\ Calls
  /\ prompt => OneMessage /\ Counted /\ Sender /\ Told /\ Ranges /\ Table

-----------------------------------------------------------------------------
(* Ranges, records and calls.                                              *)

\* The virtual function with the highest number.
LEMMA LastIsLast ==
  ASSUME NEW v \in VFs
  PROVE  LastVf \in VFs /\ LastVf \in Nat \ {0} /\ v <= LastVf /\ v \in Nat \ {0}
<1>1. \E m \in VFs : \A w \in VFs : w <= m
  BY VFsAssumption, NatMax
<1> QED
  BY <1>1, VFsAssumption DEF LastVf

\* Ranges lie within the queues of the hardware.
LEMMA BaseInRange ==
  ASSUME NEW v \in VFs, pfMax \in 1 .. PfQueues
  PROVE  Base(v) \in Queues /\ QRange(Base(v)) \subseteq Queues /\ 0 \in Queues
<1>1. PfQueues \in Nat \ {0} /\ PerVf \in Nat \ {0} /\ v \in Nat \ {0} /\ LastVf \in Nat \ {0}
  BY SizeAssumption, LastIsLast
<1>2. (v - 1) * PerVf \in Nat /\ LastVf * PerVf \in Nat /\ PerVf * LastVf = LastVf * PerVf
  BY <1>1
<1>3. (v - 1) * PerVf + PerVf <= LastVf * PerVf
  <2>1. v - 1 \in Nat /\ v - 1 < LastVf
    BY <1>1, LastIsLast
  <2> QED
    BY <1>1, <2>1, ProductLess
<1> QED
  BY <1>1, <1>2, <1>3 DEF Base, QRange, Queues

\* Different functions have different ranges.
LEMMA BasesDiffer ==
  ASSUME NEW v \in VFs, NEW w \in VFs, v # w
  PROVE  First(v) # First(w)
<1>1. PfQueues \in Nat /\ PerVf \in Nat \ {0} /\ v \in Nat \ {0} /\ w \in Nat \ {0}
  BY SizeAssumption, VFsAssumption
<1>2. (v - 1) * PerVf \in Nat /\ (w - 1) * PerVf \in Nat
  BY <1>1
<1>3. CASE v < w
  <2>1. (v - 1) * PerVf + PerVf <= (w - 1) * PerVf
    BY <1>1, <1>3, ProductLess
  <2> QED
    BY <1>1, <1>2, <2>1 DEF First
<1>4. CASE w < v
  <2>1. (w - 1) * PerVf + PerVf <= (v - 1) * PerVf
    BY <1>1, <1>4, ProductLess
  <2> QED
    BY <1>1, <1>2, <2>1 DEF First
<1> QED
  BY <1>1, <1>3, <1>4

\* The range a function is given, then.
LEMMA BaseIsFirst ==
  ASSUME NEW v \in VFs, pfMax = PfQueues
  PROVE  Base(v) = First(v)
BY DEF Base, First

\* What is known of the record that stands for no call.
LEMMA FreeCall == Free.at = "idle" /\ Free.op = "none"
BY DEF Free

\* What a call of function v that returns leaves behind: no other function is
\* touched, and the next call, if there is one, undoes what failed.
Returned(v) ==
  /\ life' \in [VFs -> {"off", "on", "closing"}]
  /\ ranged' \in [VFs -> BOOLEAN] /\ started' \in [VFs -> BOOLEAN]
  /\ qbase' \in [VFs -> Queues]
  /\ call' \in [VFs -> [at : {"send", "wait"}, op : Ops] \cup {Free}]
  /\ \A w \in VFs : w # v =>
       /\ life'[w] = life[w] /\ ranged'[w] = ranged[w] /\ started'[w] = started[w]
       /\ qbase'[w] = qbase[w] /\ call'[w] = call[w]
  /\ \/ call'[v] = Free
     \/ call[v].op = "HELLO" /\ call'[v] = [at |-> "send", op |-> "BYE"]
     \/ call[v].op \in {"BYE", "QCTXT_WRT"} /\ call'[v] = [at |-> "send", op |-> "QCTXT_CLR"]

\* A call that returns has such an effect, and leaves a call that its life
\* allows.
LEMMA CallReturns ==
  ASSUME TypeOK, Calls, NEW v \in VFs, call[v] # Free,
         NEW good \in BOOLEAN, NEW base \in Queues, Return(v, good, base)
  PROVE  Returned(v) /\ Calls'
<1> USE DEF view
<1>0. /\ life \in [VFs -> {"off", "on", "closing"}]
      /\ ranged \in [VFs -> BOOLEAN] /\ started \in [VFs -> BOOLEAN]
      /\ qbase \in [VFs -> Queues]
      /\ call \in [VFs -> [at : {"send", "wait"}, op : Ops] \cup {Free}]
      /\ call[v].op \in Ops /\ life[v] \in {"off", "on", "closing"}
  BY FreeCall DEF TypeOK
<1>1. CASE call[v].op = "HELLO"
  <2>1. ReturnOnline(v, good)
    BY <1>1 DEF Return
  <2>2. /\ life' \in [VFs -> {"off", "on", "closing"}]
        /\ ranged' \in [VFs -> BOOLEAN] /\ started' \in [VFs -> BOOLEAN]
        /\ qbase' \in [VFs -> Queues]
        /\ call' \in [VFs -> [at : {"send", "wait"}, op : Ops] \cup {Free}]
    BY <1>0, <2>1 DEF ReturnOnline, Request, Ops
  <2>3. \A w \in VFs : w # v =>
          /\ life'[w] = life[w] /\ ranged'[w] = ranged[w] /\ started'[w] = started[w]
          /\ qbase'[w] = qbase[w] /\ call'[w] = call[w]
    BY <1>0, <2>1 DEF ReturnOnline, Request
  <2>4. Calls'
    BY <1>0, <1>1, <2>1, <2>3, FreeCall DEF Calls, Waits, Ops, ReturnOnline, Request
  <2>5. \/ call'[v] = Free
        \/ call[v].op = "HELLO" /\ call'[v] = [at |-> "send", op |-> "BYE"]
        \/ call[v].op \in {"BYE", "QCTXT_WRT"} /\ call'[v] = [at |-> "send", op |-> "QCTXT_CLR"]
    BY <1>0, <1>1, <2>1 DEF ReturnOnline, Request
  <2> QED
    BY <2>2, <2>3, <2>4, <2>5 DEF Returned
<1>2. CASE call[v].op = "BYE"
  <2>1. ReturnOffline(v)
    BY <1>2 DEF Return
  <2>2. /\ life' \in [VFs -> {"off", "on", "closing"}]
        /\ ranged' \in [VFs -> BOOLEAN] /\ started' \in [VFs -> BOOLEAN]
        /\ qbase' \in [VFs -> Queues]
        /\ call' \in [VFs -> [at : {"send", "wait"}, op : Ops] \cup {Free}]
    BY <1>0, <2>1 DEF ReturnOffline, Request, Ops
  <2>3. \A w \in VFs : w # v =>
          /\ life'[w] = life[w] /\ ranged'[w] = ranged[w] /\ started'[w] = started[w]
          /\ qbase'[w] = qbase[w] /\ call'[w] = call[w]
    BY <1>0, <2>1 DEF ReturnOffline, Request
  <2>4. Calls'
    BY <1>0, <1>2, <2>1, <2>3, FreeCall DEF Calls, Waits, Ops, ReturnOffline, Request
  <2>5. \/ call'[v] = Free
        \/ call[v].op = "HELLO" /\ call'[v] = [at |-> "send", op |-> "BYE"]
        \/ call[v].op \in {"BYE", "QCTXT_WRT"} /\ call'[v] = [at |-> "send", op |-> "QCTXT_CLR"]
    BY <1>0, <1>2, <2>1 DEF ReturnOffline, Request
  <2> QED
    BY <2>2, <2>3, <2>4, <2>5 DEF Returned
<1>3. CASE call[v].op = "FMAP"
  <2>1. ReturnQrange(v, good, base)
    BY <1>3 DEF Return
  <2>2. /\ life' \in [VFs -> {"off", "on", "closing"}]
        /\ ranged' \in [VFs -> BOOLEAN] /\ started' \in [VFs -> BOOLEAN]
        /\ qbase' \in [VFs -> Queues]
        /\ call' \in [VFs -> [at : {"send", "wait"}, op : Ops] \cup {Free}]
    BY <1>0, <2>1 DEF ReturnQrange, Ops
  <2>3. \A w \in VFs : w # v =>
          /\ life'[w] = life[w] /\ ranged'[w] = ranged[w] /\ started'[w] = started[w]
          /\ qbase'[w] = qbase[w] /\ call'[w] = call[w]
    BY <1>0, <2>1 DEF ReturnQrange
  <2>4. Calls'
    BY <1>0, <1>3, <2>1, <2>3, FreeCall DEF Calls, Waits, Ops, ReturnQrange
  <2>5. \/ call'[v] = Free
        \/ call[v].op = "HELLO" /\ call'[v] = [at |-> "send", op |-> "BYE"]
        \/ call[v].op \in {"BYE", "QCTXT_WRT"} /\ call'[v] = [at |-> "send", op |-> "QCTXT_CLR"]
    BY <1>0, <1>3, <2>1 DEF ReturnQrange
  <2> QED
    BY <2>2, <2>3, <2>4, <2>5 DEF Returned
<1>4. CASE call[v].op = "CSR"
  <2>1. call' = [call EXCEPT ![v] = Free] /\ UNCHANGED view
    BY <1>4 DEF Return
  <2>2. /\ life' \in [VFs -> {"off", "on", "closing"}]
        /\ ranged' \in [VFs -> BOOLEAN] /\ started' \in [VFs -> BOOLEAN]
        /\ qbase' \in [VFs -> Queues]
        /\ call' \in [VFs -> [at : {"send", "wait"}, op : Ops] \cup {Free}]
    BY <1>0, <2>1 DEF Ops
  <2>3. \A w \in VFs : w # v =>
          /\ life'[w] = life[w] /\ ranged'[w] = ranged[w] /\ started'[w] = started[w]
          /\ qbase'[w] = qbase[w] /\ call'[w] = call[w]
    BY <1>0, <2>1
  <2>4. Calls'
    BY <1>0, <1>4, <2>1, <2>3, FreeCall DEF Calls, Waits, Ops
  <2>5. \/ call'[v] = Free
        \/ call[v].op = "HELLO" /\ call'[v] = [at |-> "send", op |-> "BYE"]
        \/ call[v].op \in {"BYE", "QCTXT_WRT"} /\ call'[v] = [at |-> "send", op |-> "QCTXT_CLR"]
    BY <1>0, <1>4, <2>1
  <2> QED
    BY <2>2, <2>3, <2>4, <2>5 DEF Returned
<1>5. CASE call[v].op = "QCTXT_WRT"
  <2>1. ReturnStart(v, good)
    BY <1>5 DEF Return
  <2>2. /\ life' \in [VFs -> {"off", "on", "closing"}]
        /\ ranged' \in [VFs -> BOOLEAN] /\ started' \in [VFs -> BOOLEAN]
        /\ qbase' \in [VFs -> Queues]
        /\ call' \in [VFs -> [at : {"send", "wait"}, op : Ops] \cup {Free}]
    BY <1>0, <2>1 DEF ReturnStart, Request, Ops
  <2>3. \A w \in VFs : w # v =>
          /\ life'[w] = life[w] /\ ranged'[w] = ranged[w] /\ started'[w] = started[w]
          /\ qbase'[w] = qbase[w] /\ call'[w] = call[w]
    BY <1>0, <2>1 DEF ReturnStart, Request
  <2>4. Calls'
    BY <1>0, <1>5, <2>1, <2>3, FreeCall DEF Calls, Waits, Ops, ReturnStart, Request
  <2>5. \/ call'[v] = Free
        \/ call[v].op = "HELLO" /\ call'[v] = [at |-> "send", op |-> "BYE"]
        \/ call[v].op \in {"BYE", "QCTXT_WRT"} /\ call'[v] = [at |-> "send", op |-> "QCTXT_CLR"]
    BY <1>0, <1>5, <2>1 DEF ReturnStart, Request
  <2> QED
    BY <2>2, <2>3, <2>4, <2>5 DEF Returned
<1>6. CASE call[v].op = "QCTXT_CLR"
  <2>1. ReturnClear(v)
    BY <1>6 DEF Return
  <2>2. /\ life' \in [VFs -> {"off", "on", "closing"}]
        /\ ranged' \in [VFs -> BOOLEAN] /\ started' \in [VFs -> BOOLEAN]
        /\ qbase' \in [VFs -> Queues]
        /\ call' \in [VFs -> [at : {"send", "wait"}, op : Ops] \cup {Free}]
    <3>1. call' \in [VFs -> [at : {"send", "wait"}, op : Ops] \cup {Free}]
      BY <1>0, <2>1 DEF ReturnClear
    <3>2. CASE life[v] = "closing"
      BY <1>0, <2>1, <3>1, <3>2, BaseInRange, ZenonT(40) DEF ReturnClear, TypeOK
    <3>3. CASE life[v] # "closing"
      BY <1>0, <2>1, <3>1, <3>3 DEF ReturnClear
    <3> QED
      BY <3>2, <3>3
  <2>3. \A w \in VFs : w # v =>
          /\ life'[w] = life[w] /\ ranged'[w] = ranged[w] /\ started'[w] = started[w]
          /\ qbase'[w] = qbase[w] /\ call'[w] = call[w]
    BY <1>0, <2>1 DEF ReturnClear
  <2>4. Calls'
    BY <1>0, <1>6, <2>1, <2>3, FreeCall DEF Calls, Waits, Ops, ReturnClear
  <2>5. \/ call'[v] = Free
        \/ call[v].op = "HELLO" /\ call'[v] = [at |-> "send", op |-> "BYE"]
        \/ call[v].op \in {"BYE", "QCTXT_WRT"} /\ call'[v] = [at |-> "send", op |-> "QCTXT_CLR"]
    BY <1>0, <1>6, <2>1 DEF ReturnClear
  <2> QED
    BY <2>2, <2>3, <2>4, <2>5 DEF Returned
<1> QED
  BY <1>0, <1>1, <1>2, <1>3, <1>4, <1>5, <1>6 DEF Ops

\* ... and which steps are such returns.
LEMMA StepReturns ==
  ASSUME TypeOK, Timer, Calls, NEW v \in VFs,
         (Send(v) /\ ~Waits(call[v].op)) \/ SendBusy(v) \/ Receive(v) \/ TimedOut(v)
  PROVE  Returned(v) /\ Calls'
<1>1. v \in VFs /\ 0 \in Queues /\ inbox[v] \in Responses \cup {None}
  BY BaseInRange DEF TypeOK
<1>2. CASE Send(v) /\ ~Waits(call[v].op)
  BY <1>1, <1>2, CallReturns, FreeCall DEF Send
<1>3. CASE SendBusy(v)
  BY <1>1, <1>3, CallReturns, FreeCall DEF SendBusy
<1>4. CASE Receive(v)
  <2>1. PICK good \in {inbox[v].op = call[v].op /\ inbox[v].good} : Return(v, good, inbox[v].base)
    BY <1>4 DEF Receive
  <2>2. good \in BOOLEAN /\ inbox[v].base \in Queues /\ call[v] # Free
    BY <1>1, <1>4, <2>1, FreeCall DEF Receive, Responses
  <2> QED
    BY <2>1, <2>2, CallReturns
<1>5. CASE TimedOut(v)
  <2>1. PICK good \in {call[v].op \in {"FMAP", "CSR"}} : Return(v, good, 0)
    BY <1>5 DEF TimedOut
  <2>2. good \in BOOLEAN /\ call[v] # Free
    BY <1>5, FreeCall DEF TimedOut
  <2> QED
    BY <1>1, <2>1, <2>2, CallReturns
<1> QED
  BY <1>2, <1>3, <1>4, <1>5

-----------------------------------------------------------------------------
(* What the physical function does with a message.                         *)

\* A function that goes online gets the first free entry of the table.
LEMMA SlotTaken ==
  ASSUME FreeSlots # {}
  PROVE  \E s \in SlotIds : slots[s] = None /\ \A v : Entered(v) = [slots EXCEPT ![s] = v]
<1>1. FreeSlots \subseteq Nat
  <2>1. Cardinality(VFs) \in Nat
    BY VFsAssumption, FS_CardinalityType
  <2> QED
    BY <2>1 DEF FreeSlots, SlotIds
<1>2. \E s \in FreeSlots : \A t \in FreeSlots : s <= t
  BY <1>1, NatMin
<1> QED
  BY <1>2 DEF FreeSlots, Entered

\* The effect of a message of function v that is handled, with success or not.
Handled(v, ok) ==
  /\ pf.at \in {"idle", "loop"} /\ outbox[v] \in Messages
  /\ outbox' = [outbox EXCEPT ![v] = None]
  /\ done' = [done EXCEPT ![v] = [n |-> sent[v], good |-> ok]]
  /\ UNCHANGED <<prompt, view, call, sent, last, inbox, conf>>
  /\ slots' = CASE outbox[v].op = "HELLO" -> Entered(v)
                [] outbox[v].op = "BYE"   -> Left(v)
                [] OTHER                  -> slots
  /\ fmap' = CASE outbox[v].op = "BYE"  -> [fmap EXCEPT ![v] = {}]
               [] outbox[v].op = "FMAP" -> [fmap EXCEPT ![v] = QRange(Base(v))]
               [] OTHER                 -> fmap
  /\ ctx' \subseteq Queues
  /\ outbox[v].op \notin {"QCTXT_WRT", "QCTXT_CLR"} => ctx' = ctx
  /\ \A q \in Queues : q # outbox[v].qid => (q \in ctx' <=> q \in ctx)
  /\ outbox[v].op = "QCTXT_WRT" /\ ok => outbox[v].qid \in ctx'
  /\ IF Waits(outbox[v].op)
     THEN /\ pf'.at = "respond" /\ pf'.to = v /\ pf'.answer \in Responses
          /\ pf' = [at |-> "respond", to |-> v, good |-> pf'.good, answer |-> pf'.answer]
          /\ pf'.good \in BOOLEAN
          /\ pf'.answer.op = outbox[v].op /\ (pf'.answer.good => ok)
          /\ outbox[v].op = "FMAP" => pf'.answer.base = Base(v)
     ELSE pf' = [pf EXCEPT !.at = "loop"]

\* What Process does is one of these effects.
LEMMA MessageHandled ==
  ASSUME TypeOK, Timer, NEW v \in VFs, Process(v)
  PROVE  \E ok \in BOOLEAN : Handled(v, ok)
<1> USE DEF view, mbox, tabs, conf
<1> DEFINE m == outbox[v]
<1>1. PICK ok \in BOOLEAN :
        /\ Handle(v, m, ok)
        /\ done' = [done EXCEPT ![v] = [n |-> sent[v], good |-> ok]]
        /\ pf' = IF Answers(m, ok)
                 THEN [at |-> "respond", to |-> v, good |-> Status(pf.good, ok),
                       answer |-> [op |-> m.op, good |-> Status(pf.good, ok),
                                   base |-> AnsweredBase(v, m.op)]]
                 ELSE [pf EXCEPT !.at = "loop"]
  BY DEF Process
<1>2. /\ pf.at \in {"idle", "loop"} /\ m \in Messages /\ m.op \in Ops /\ m.qid \in Queues
      /\ outbox' = [outbox EXCEPT ![v] = None]
      /\ UNCHANGED <<prompt, view, call, sent, last, inbox, conf>>
      /\ ctx \subseteq Queues /\ pf.good \in BOOLEAN
      /\ Base(v) \in Queues /\ 0 \in Queues
  BY BaseInRange DEF Process, TypeOK, Timer, Messages
<1> HIDE DEF m
<1>3. /\ slots' = CASE m.op = "HELLO" -> Entered(v) [] m.op = "BYE" -> Left(v) [] OTHER -> slots
      /\ fmap' = CASE m.op = "BYE"  -> [fmap EXCEPT ![v] = {}]
                   [] m.op = "FMAP" -> [fmap EXCEPT ![v] = QRange(Base(v))]
                   [] OTHER         -> fmap
  BY <1>1, <1>2 DEF Handle, Ops, Hello, Bye, SetFmap, WriteContext, ClearContext
<1>4. /\ ctx' \subseteq Queues
      /\ m.op \notin {"QCTXT_WRT", "QCTXT_CLR"} => ctx' = ctx
      /\ \A q \in Queues : q # m.qid => (q \in ctx' <=> q \in ctx)
      /\ m.op = "QCTXT_WRT" /\ ok => m.qid \in ctx'
  BY <1>1, <1>2 DEF Handle, Ops, Hello, Bye, SetFmap, WriteContext, ClearContext, Written
<1>5. CASE Waits(m.op)
  <2> DEFINE a == [op |-> m.op, good |-> Status(pf.good, ok), base |-> AnsweredBase(v, m.op)]
  <2>1. a \in Responses /\ (a.good => ok) /\ a.op = m.op /\ (m.op = "FMAP" => a.base = Base(v))
    BY <1>2 DEF Responses, Status, AnsweredBase
  <2>2. pf' = [at |-> "respond", to |-> v, good |-> Status(pf.good, ok), answer |-> a]
    BY <1>1, <1>5 DEF Answers
  <2>3. Status(pf.good, ok) \in BOOLEAN
    BY <1>2 DEF Status
  <2> HIDE DEF a
  <2>4. /\ pf'.at = "respond" /\ pf'.to = v /\ pf'.answer \in Responses /\ pf'.good \in BOOLEAN
        /\ pf' = [at |-> "respond", to |-> v, good |-> pf'.good, answer |-> pf'.answer]
        /\ pf'.answer.op = m.op /\ (pf'.answer.good => ok)
        /\ m.op = "FMAP" => pf'.answer.base = Base(v)
    BY <2>1, <2>2, <2>3
  <2> QED
    BY <1>1, <1>2, <1>3, <1>4, <1>5, <2>4 DEF Handled, m
<1>6. CASE ~Waits(m.op)
  <2>1. pf' = [pf EXCEPT !.at = "loop"]
    BY <1>1, <1>6 DEF Answers
  <2> QED
    BY <1>1, <1>2, <1>3, <1>4, <1>6, <2>1 DEF Handled, m
<1> QED
  BY <1>5, <1>6

-----------------------------------------------------------------------------
(* Each part of the invariant is kept by every step.                       *)

\* The types.
LEMMA TypesKept ==
  ASSUME MboxInv, [Next]_vars
  PROVE  TypeOK'
<1> USE DEF view, mbox, tabs, conf
<1>0. TypeOK /\ Timer /\ Bounds /\ Calls
  BY DEF MboxInv
<1>1. ASSUME NEW v \in VFs, Online(v) PROVE TypeOK'
  BY <1>0, <1>1, FreeCall, NoneAssumption, BoundAssumption
  DEF TypeOK, Bounds, Ops, Messages, Responses, Online, Wish, Request
<1>2. ASSUME NEW v \in VFs, SetQrange(v) PROVE TypeOK'
  BY <1>0, <1>2, FreeCall, NoneAssumption, BoundAssumption
  DEF TypeOK, Bounds, Ops, Messages, Responses, SetQrange, Wish, Request
<1>3. ASSUME NEW v \in VFs, CsrGet(v) PROVE TypeOK'
  BY <1>0, <1>3, FreeCall, NoneAssumption, BoundAssumption
  DEF TypeOK, Bounds, Ops, Messages, Responses, CsrGet, Wish, Request
<1>4. ASSUME NEW v \in VFs, StartQueue(v) PROVE TypeOK'
  BY <1>0, <1>4, FreeCall, NoneAssumption, BoundAssumption
  DEF TypeOK, Bounds, Ops, Messages, Responses, StartQueue, Wish, Request
<1>5. ASSUME NEW v \in VFs, StopQueue(v) PROVE TypeOK'
  BY <1>0, <1>5, FreeCall, NoneAssumption, BoundAssumption
  DEF TypeOK, Bounds, Ops, Messages, Responses, StopQueue, Wish, Request
<1>6. ASSUME NEW v \in VFs, Offline(v) PROVE TypeOK'
  BY <1>0, <1>6, FreeCall, NoneAssumption, BoundAssumption
  DEF TypeOK, Bounds, Ops, Messages, Responses, Offline, Wish, Request
<1>7. ASSUME NEW v \in VFs, Send(v) PROVE TypeOK'
  <2>1. /\ outbox' = [outbox EXCEPT ![v] = [op |-> call[v].op, qid |-> qbase[v]]]
        /\ sent' = [sent EXCEPT ![v] = @ + 1]
        /\ call[v].at = "send" /\ outbox[v] = None
        /\ UNCHANGED <<prompt, inbox, pf, done, tabs, conf>>
    BY <1>7 DEF Send, OutFree
  <2>2. /\ call[v].op \in Ops /\ qbase[v] \in Queues
        /\ sent[v] <= MaxSent[v] /\ MaxSent \in [VFs -> Nat]
    BY <1>0, <2>1, FreeCall, BoundAssumption DEF TypeOK, Bounds
  <2>3. /\ outbox' \in [VFs -> Messages \cup {None}]
        /\ sent' \in [VFs -> Nat] /\ sent'[v] = sent[v] + 1 /\ \A w \in VFs : w # v => sent'[w] = sent[w]
    BY <1>0, <2>1, <2>2 DEF TypeOK, Messages
  <2>4. \A w \in VFs : done'[w].n <= sent'[w] /\ sent'[w] <= MaxSent[w] + 1
    <3> SUFFICES ASSUME NEW w \in VFs PROVE done'[w].n <= sent'[w] /\ sent'[w] <= MaxSent[w] + 1
      OBVIOUS
    <3>1. done'[w] = done[w] /\ done[w].n \in Nat /\ sent[w] \in Nat /\ done[w].n <= sent[w]
      BY <1>0, <2>1 DEF TypeOK
    <3> QED
      BY <1>0, <2>2, <2>3, <3>1, SMTT(40) DEF TypeOK
  <2>5. CASE Waits(call[v].op)
    <3>1. /\ call' = [call EXCEPT ![v].at = "wait"] /\ UNCHANGED <<view, last>>
      BY <1>7, <2>5 DEF Send
    <3>2. call' \in [VFs -> [at : {"send", "wait"}, op : Ops] \cup {Free}]
      BY <1>0, <2>1, <2>2, <3>1, FreeCall, SMTT(40) DEF TypeOK
    <3>3. \A w \in VFs : last'[w].n <= sent'[w]
      BY <1>0, <2>3, <3>1, SMTT(40) DEF TypeOK
    <3> QED
      BY <1>0, <2>1, <2>3, <2>4, <3>1, <3>2, <3>3 DEF TypeOK
  <2>6. CASE ~Waits(call[v].op)
    <3>1. Returned(v)
      BY <1>0, <1>7, <2>6, StepReturns
    <3>2. last' = [last EXCEPT ![v] = [n |-> sent[v] + 1, good |-> TRUE]]
      BY <1>7, <2>6 DEF Send
    <3>3. last' \in [VFs -> [n : Nat, good : BOOLEAN]] /\ \A w \in VFs : last'[w].n <= sent'[w]
      BY <1>0, <2>3, <3>2 DEF TypeOK
    <3> QED
      BY <1>0, <2>1, <2>3, <2>4, <3>1, <3>3 DEF TypeOK, Returned
  <2> QED
    BY <2>5, <2>6
<1>8. ASSUME NEW v \in VFs, SendBusy(v) PROVE TypeOK'
  <2>1. Returned(v)
    BY <1>0, <1>8, StepReturns
  <2>2. /\ ~prompt /\ call[v].at = "send" /\ outbox[v] # None
        /\ UNCHANGED <<prompt, sent, last, mbox, pf, done, tabs, conf>>
    BY <1>8 DEF SendBusy, OutFree
  <2> QED
    BY <1>0, <2>1, <2>2, FreeCall, NoneAssumption, BoundAssumption
    DEF TypeOK, Bounds, Ops, Messages, Responses, Returned
<1>9. ASSUME NEW v \in VFs, Receive(v) PROVE TypeOK'
  <2>1. Returned(v)
    BY <1>0, <1>9, StepReturns
  <2>2. PICK good \in BOOLEAN :
          /\ good <=> inbox[v].op = call[v].op /\ inbox[v].good
          /\ Return(v, good, inbox[v].base)
          /\ last' = [last EXCEPT ![v] = [n |-> sent[v], good |-> good]]
          /\ call[v].at = "wait" /\ inbox[v] # None
          /\ inbox' = [inbox EXCEPT ![v] = None]
          /\ UNCHANGED <<prompt, sent, outbox, pf, done, tabs, conf>>
    <3>1. (inbox[v].op = call[v].op /\ inbox[v].good) \in BOOLEAN
      OBVIOUS
    <3> QED
      BY <1>9, <3>1 DEF Receive
  <2> QED
    BY <1>0, <2>1, <2>2, FreeCall, NoneAssumption, BoundAssumption
    DEF TypeOK, Bounds, Ops, Messages, Responses, Returned
<1>10. ASSUME NEW v \in VFs, TimedOut(v) PROVE TypeOK'
  <2>1. Returned(v)
    BY <1>0, <1>10, StepReturns
  <2>2. PICK good \in BOOLEAN :
          /\ last' = [last EXCEPT ![v] = [n |-> sent[v], good |-> good]]
          /\ ~prompt /\ call[v].at = "wait" /\ inbox[v] = None
          /\ UNCHANGED <<prompt, sent, mbox, pf, done, tabs, conf>>
    <3>1. (call[v].op \in {"FMAP", "CSR"}) \in BOOLEAN
      OBVIOUS
    <3> QED
      BY <1>10, <3>1 DEF TimedOut
  <2> QED
    BY <1>0, <2>1, <2>2, FreeCall, NoneAssumption, BoundAssumption
    DEF TypeOK, Bounds, Ops, Messages, Responses, Returned
<1>11. ASSUME NEW v \in VFs, Process(v) PROVE TypeOK'
  <2>1. PICK ok \in BOOLEAN : Handled(v, ok)
    BY <1>0, <1>11, MessageHandled
  <2>2. slots' \in [SlotIds -> VFs \cup {None}]
    BY <1>0, <2>1, SlotTaken DEF TypeOK, Handled, Entered, Left
  <2>3. fmap' \in [VFs -> SUBSET Queues]
    BY <1>0, <2>1, BaseInRange DEF TypeOK, Handled
  <2>4. /\ pf'.at \in {"idle", "loop", "respond"} /\ (pf'.at = "respond" <=> pf'.to # None)
        /\ done' \in [VFs -> [n : Nat, good : BOOLEAN]] /\ outbox' \in [VFs -> Messages \cup {None}]
    BY <1>0, <2>1, VFsAssumption DEF TypeOK, Timer, Handled
  <2> QED
    BY <1>0, <2>1, <2>2, <2>3, <2>4 DEF TypeOK, Handled
<1>12. ASSUME Respond PROVE TypeOK'
  <2>1. pf.to \in VFs /\ pf.answer \in Responses /\ inbox' = [inbox EXCEPT ![pf.to] = pf.answer]
    BY <1>0, <1>12 DEF Respond, Timer
  <2>2. inbox' \in [VFs -> Responses \cup {None}]
    BY <1>0, <2>1 DEF TypeOK
  <2>3. pf'.at = "loop" /\ pf'.to = None
    BY <1>12 DEF Respond, TimerOff
  <2> QED
    BY <1>0, <1>12, <2>2, <2>3 DEF TypeOK, Respond
<1>13. ASSUME RespondBusy PROVE TypeOK'
  BY <1>0, <1>13, FreeCall, NoneAssumption, BoundAssumption
  DEF TypeOK, Bounds, Ops, Messages, Responses, RespondBusy, TimerOff
<1>14. ASSUME TimerDone PROVE TypeOK'
  BY <1>0, <1>14, FreeCall, NoneAssumption, BoundAssumption
  DEF TypeOK, Bounds, Ops, Messages, Responses, TimerDone, TimerOff
<1>15. ASSUME PfSetQmax PROVE TypeOK'
  <2>1. pfMax' \in 1 .. PfQueues
    BY <1>0, <1>15, SizeAssumption DEF TypeOK, PfSetQmax
  <2> QED
    BY <1>0, <1>15, <2>1 DEF TypeOK, PfSetQmax
<1>16. ASSUME PfSetQrange PROVE TypeOK'
  BY <1>0, <1>16, FreeCall, NoneAssumption, BoundAssumption
  DEF TypeOK, Bounds, Ops, Messages, Responses, PfSetQrange
<1>17. ASSUME UNCHANGED vars PROVE TypeOK'
  BY <1>0, <1>17, FreeCall, NoneAssumption, BoundAssumption
  DEF TypeOK, Bounds, Ops, Messages, Responses, vars
<1> QED
  BY <1>1, <1>2, <1>3, <1>4, <1>5, <1>6, <1>7, <1>8, <1>9, <1>10, <1>11, <1>12, <1>13,
     <1>14, <1>15, <1>16, <1>17
  DEF Next, VfStep, PfStep

\* The timer has what it needs for its next step.
LEMMA TimerKept ==
  ASSUME MboxInv, [Next]_vars
  PROVE  Timer'
<1> USE DEF view, mbox, tabs, conf
<1>0. TypeOK /\ Timer /\ Calls
  BY DEF MboxInv
<1>1. ASSUME NEW v \in VFs, Online(v) PROVE Timer'
  BY <1>0, <1>1, FreeCall, NoneAssumption DEF TypeOK, Timer, Online, Wish, Request
<1>2. ASSUME NEW v \in VFs, SetQrange(v) PROVE Timer'
  BY <1>0, <1>2, FreeCall, NoneAssumption DEF TypeOK, Timer, SetQrange, Wish, Request
<1>3. ASSUME NEW v \in VFs, CsrGet(v) PROVE Timer'
  BY <1>0, <1>3, FreeCall, NoneAssumption DEF TypeOK, Timer, CsrGet, Wish, Request
<1>4. ASSUME NEW v \in VFs, StartQueue(v) PROVE Timer'
  BY <1>0, <1>4, FreeCall, NoneAssumption DEF TypeOK, Timer, StartQueue, Wish, Request
<1>5. ASSUME NEW v \in VFs, StopQueue(v) PROVE Timer'
  BY <1>0, <1>5, FreeCall, NoneAssumption DEF TypeOK, Timer, StopQueue, Wish, Request
<1>6. ASSUME NEW v \in VFs, Offline(v) PROVE Timer'
  BY <1>0, <1>6, FreeCall, NoneAssumption DEF TypeOK, Timer, Offline, Wish, Request
<1>7. ASSUME NEW v \in VFs, Send(v) PROVE Timer'
  <2>1. CASE Waits(call[v].op)
    BY <1>0, <1>7, <2>1, FreeCall, NoneAssumption DEF TypeOK, Timer, Send, OutFree
  <2>2. CASE ~Waits(call[v].op)
    <3>1. Returned(v)
      BY <1>0, <1>7, <2>2, StepReturns
    <3>2. /\ outbox' = [outbox EXCEPT ![v] = [op |-> call[v].op, qid |-> qbase[v]]]
          /\ sent' = [sent EXCEPT ![v] = @ + 1]
          /\ last' = [last EXCEPT ![v] = [n |-> sent[v] + 1, good |-> TRUE]]
          /\ call[v].at = "send" /\ outbox[v] = None
          /\ UNCHANGED <<prompt, inbox, pf, done, tabs, conf>>
      BY <1>7, <2>2 DEF Send, OutFree
    <3> QED
      BY <1>0, <2>2, <3>1, <3>2, FreeCall, NoneAssumption DEF TypeOK, Timer, Returned
  <2> QED
    BY <2>1, <2>2
<1>8. ASSUME NEW v \in VFs, SendBusy(v) PROVE Timer'
  <2>1. Returned(v)
    BY <1>0, <1>8, StepReturns
  <2>2. /\ ~prompt /\ call[v].at = "send" /\ outbox[v] # None
        /\ UNCHANGED <<prompt, sent, last, mbox, pf, done, tabs, conf>>
    BY <1>8 DEF SendBusy, OutFree
  <2> QED
    BY <1>0, <2>1, <2>2, FreeCall, NoneAssumption DEF TypeOK, Timer, Returned
<1>9. ASSUME NEW v \in VFs, Receive(v) PROVE Timer'
  <2>1. Returned(v)
    BY <1>0, <1>9, StepReturns
  <2>2. PICK good \in BOOLEAN :
          /\ good <=> inbox[v].op = call[v].op /\ inbox[v].good
          /\ Return(v, good, inbox[v].base)
          /\ last' = [last EXCEPT ![v] = [n |-> sent[v], good |-> good]]
          /\ call[v].at = "wait" /\ inbox[v] # None
          /\ inbox' = [inbox EXCEPT ![v] = None]
          /\ UNCHANGED <<prompt, sent, outbox, pf, done, tabs, conf>>
    <3>1. (inbox[v].op = call[v].op /\ inbox[v].good) \in BOOLEAN
      OBVIOUS
    <3> QED
      BY <1>9, <3>1 DEF Receive
  <2> QED
    BY <1>0, <2>1, <2>2, FreeCall, NoneAssumption DEF TypeOK, Timer, Returned
<1>10. ASSUME NEW v \in VFs, TimedOut(v) PROVE Timer'
  <2>1. Returned(v)
    BY <1>0, <1>10, StepReturns
  <2>2. PICK good \in BOOLEAN :
          /\ last' = [last EXCEPT ![v] = [n |-> sent[v], good |-> good]]
          /\ ~prompt /\ call[v].at = "wait" /\ inbox[v] = None
          /\ UNCHANGED <<prompt, sent, mbox, pf, done, tabs, conf>>
    <3>1. (call[v].op \in {"FMAP", "CSR"}) \in BOOLEAN
      OBVIOUS
    <3> QED
      BY <1>10, <3>1 DEF TimedOut
  <2> QED
    BY <1>0, <2>1, <2>2, FreeCall, NoneAssumption DEF TypeOK, Timer, Returned
<1>11. ASSUME NEW v \in VFs, Process(v) PROVE Timer'
  <2>1. PICK ok \in BOOLEAN : Handled(v, ok)
    BY <1>0, <1>11, MessageHandled
  <2>2. CASE Waits(outbox[v].op)
    BY <1>0, <2>1, <2>2 DEF Timer, Handled
  <2>3. CASE ~Waits(outbox[v].op)
    BY <1>0, <2>1, <2>3 DEF Timer, Handled
  <2> QED
    BY <2>2, <2>3
<1>12. ASSUME Respond PROVE Timer'
  BY <1>0, <1>12, FreeCall, NoneAssumption DEF TypeOK, Timer, Respond, TimerOff
<1>13. ASSUME RespondBusy PROVE Timer'
  BY <1>0, <1>13, FreeCall, NoneAssumption DEF TypeOK, Timer, RespondBusy, TimerOff
<1>14. ASSUME TimerDone PROVE Timer'
  BY <1>0, <1>14, FreeCall, NoneAssumption DEF TypeOK, Timer, TimerDone, TimerOff
<1>15. ASSUME PfSetQmax PROVE Timer'
  BY <1>0, <1>15, FreeCall, NoneAssumption DEF TypeOK, Timer, PfSetQmax
<1>16. ASSUME PfSetQrange PROVE Timer'
  BY <1>0, <1>16, FreeCall, NoneAssumption DEF TypeOK, Timer, PfSetQrange
<1>17. ASSUME UNCHANGED vars PROVE Timer'
  BY <1>0, <1>17, FreeCall, NoneAssumption DEF TypeOK, Timer, vars
<1> QED
  BY <1>1, <1>2, <1>3, <1>4, <1>5, <1>6, <1>7, <1>8, <1>9, <1>10, <1>11, <1>12, <1>13,
     <1>14, <1>15, <1>16, <1>17
  DEF Next, VfStep, PfStep

\* The bound on messages is not exceeded but to clear a context.
LEMMA BoundsKept ==
  ASSUME MboxInv, [Next]_vars
  PROVE  Bounds'
<1> USE DEF view, mbox, tabs, conf
<1>0. TypeOK /\ Timer /\ Bounds /\ Calls /\ sent \in [VFs -> Nat] /\ MaxSent \in [VFs -> Nat]
      /\ call \in [VFs -> [at : {"send", "wait"}, op : Ops] \cup {Free}]
  BY BoundAssumption DEF MboxInv, TypeOK
<1>1. ASSUME NEW v \in VFs, Online(v) PROVE Bounds'
  BY <1>0, <1>1, FreeCall DEF Bounds, Calls, Waits, Ops, Online, Wish, Request
<1>2. ASSUME NEW v \in VFs, SetQrange(v) PROVE Bounds'
  BY <1>0, <1>2, FreeCall DEF Bounds, Calls, Waits, Ops, SetQrange, Wish, Request
<1>3. ASSUME NEW v \in VFs, CsrGet(v) PROVE Bounds'
  BY <1>0, <1>3, FreeCall DEF Bounds, Calls, Waits, Ops, CsrGet, Wish, Request
<1>4. ASSUME NEW v \in VFs, StartQueue(v) PROVE Bounds'
  BY <1>0, <1>4, FreeCall DEF Bounds, Calls, Waits, Ops, StartQueue, Wish, Request
<1>5. ASSUME NEW v \in VFs, StopQueue(v) PROVE Bounds'
  BY <1>0, <1>5, FreeCall DEF Bounds, Calls, Waits, Ops, StopQueue, Wish, Request
<1>6. ASSUME NEW v \in VFs, Offline(v) PROVE Bounds'
  BY <1>0, <1>6, FreeCall DEF Bounds, Calls, Waits, Ops, Offline, Wish, Request
<1>7. ASSUME NEW v \in VFs, Send(v) PROVE Bounds'
  <2>1. CASE Waits(call[v].op)
    BY <1>0, <1>7, <2>1, FreeCall DEF Bounds, Calls, Waits, Ops, Send, OutFree
  <2>2. CASE ~Waits(call[v].op)
    <3>1. Returned(v)
      BY <1>0, <1>7, <2>2, StepReturns
    <3>2. /\ outbox' = [outbox EXCEPT ![v] = [op |-> call[v].op, qid |-> qbase[v]]]
          /\ sent' = [sent EXCEPT ![v] = @ + 1]
          /\ last' = [last EXCEPT ![v] = [n |-> sent[v] + 1, good |-> TRUE]]
          /\ call[v].at = "send" /\ outbox[v] = None
          /\ UNCHANGED <<prompt, inbox, pf, done, tabs, conf>>
      BY <1>7, <2>2 DEF Send, OutFree
    <3>3. call[v].op = "HELLO" => call'[v] = Free
      BY <1>0, <1>7, <2>2 DEF Send, Return, ReturnOnline
    <3> QED
      BY <1>0, <2>2, <3>1, <3>2, <3>3, FreeCall DEF Bounds, Calls, Waits, Ops, Returned
  <2> QED
    BY <2>1, <2>2
<1>8. ASSUME NEW v \in VFs, SendBusy(v) PROVE Bounds'
  <2>1. Returned(v)
    BY <1>0, <1>8, StepReturns
  <2>2. /\ ~prompt /\ call[v].at = "send" /\ outbox[v] # None
        /\ UNCHANGED <<prompt, sent, last, mbox, pf, done, tabs, conf>>
    BY <1>8 DEF SendBusy, OutFree
  <2> QED
    BY <1>0, <2>1, <2>2, FreeCall DEF Bounds, Calls, Waits, Ops, Returned
<1>9. ASSUME NEW v \in VFs, Receive(v) PROVE Bounds'
  <2>1. Returned(v)
    BY <1>0, <1>9, StepReturns
  <2>2. PICK good \in BOOLEAN :
          /\ good <=> inbox[v].op = call[v].op /\ inbox[v].good
          /\ Return(v, good, inbox[v].base)
          /\ last' = [last EXCEPT ![v] = [n |-> sent[v], good |-> good]]
          /\ call[v].at = "wait" /\ inbox[v] # None
          /\ inbox' = [inbox EXCEPT ![v] = None]
          /\ UNCHANGED <<prompt, sent, outbox, pf, done, tabs, conf>>
    <3>1. (inbox[v].op = call[v].op /\ inbox[v].good) \in BOOLEAN
      OBVIOUS
    <3> QED
      BY <1>9, <3>1 DEF Receive
  <2> QED
    BY <1>0, <2>1, <2>2, FreeCall DEF Bounds, Calls, Waits, Ops, Returned
<1>10. ASSUME NEW v \in VFs, TimedOut(v) PROVE Bounds'
  <2>1. Returned(v)
    BY <1>0, <1>10, StepReturns
  <2>2. PICK good \in BOOLEAN :
          /\ last' = [last EXCEPT ![v] = [n |-> sent[v], good |-> good]]
          /\ ~prompt /\ call[v].at = "wait" /\ inbox[v] = None
          /\ UNCHANGED <<prompt, sent, mbox, pf, done, tabs, conf>>
    <3>1. (call[v].op \in {"FMAP", "CSR"}) \in BOOLEAN
      OBVIOUS
    <3> QED
      BY <1>10, <3>1 DEF TimedOut
  <2> QED
    BY <1>0, <2>1, <2>2, FreeCall DEF Bounds, Calls, Waits, Ops, Returned
<1>11. ASSUME NEW v \in VFs, Process(v) PROVE Bounds'
  <2>1. PICK ok \in BOOLEAN : Handled(v, ok)
    BY <1>0, <1>11, MessageHandled
  <2> QED
    BY <1>0, <2>1, FreeCall DEF Bounds, Calls, Waits, Ops, Handled
<1>12. ASSUME Respond PROVE Bounds'
  BY <1>0, <1>12, FreeCall DEF Bounds, Calls, Waits, Ops, Respond, TimerOff
<1>13. ASSUME RespondBusy PROVE Bounds'
  BY <1>0, <1>13, FreeCall DEF Bounds, Calls, Waits, Ops, RespondBusy, TimerOff
<1>14. ASSUME TimerDone PROVE Bounds'
  BY <1>0, <1>14, FreeCall DEF Bounds, Calls, Waits, Ops, TimerDone, TimerOff
<1>15. ASSUME PfSetQmax PROVE Bounds'
  BY <1>0, <1>15, FreeCall DEF Bounds, Calls, Waits, Ops, PfSetQmax
<1>16. ASSUME PfSetQrange PROVE Bounds'
  BY <1>0, <1>16, FreeCall DEF Bounds, Calls, Waits, Ops, PfSetQrange
<1>17. ASSUME UNCHANGED vars PROVE Bounds'
  BY <1>0, <1>17, FreeCall DEF Bounds, Calls, Waits, Ops, vars
<1> QED
  BY <1>1, <1>2, <1>3, <1>4, <1>5, <1>6, <1>7, <1>8, <1>9, <1>10, <1>11, <1>12, <1>13,
     <1>14, <1>15, <1>16, <1>17
  DEF Next, VfStep, PfStep

\* Calls fit the life of the function.
LEMMA CallsKept ==
  ASSUME MboxInv, [Next]_vars
  PROVE  Calls'
<1> USE DEF view, mbox, tabs, conf
<1>0. TypeOK /\ Timer /\ Calls
  BY DEF MboxInv
<1>1. ASSUME NEW v \in VFs, Online(v) PROVE Calls'
  BY <1>0, <1>1, FreeCall DEF TypeOK, Calls, Waits, Ops, Online, Wish, Request
<1>2. ASSUME NEW v \in VFs, SetQrange(v) PROVE Calls'
  BY <1>0, <1>2, FreeCall DEF TypeOK, Calls, Waits, Ops, SetQrange, Wish, Request
<1>3. ASSUME NEW v \in VFs, CsrGet(v) PROVE Calls'
  BY <1>0, <1>3, FreeCall DEF TypeOK, Calls, Waits, Ops, CsrGet, Wish, Request
<1>4. ASSUME NEW v \in VFs, StartQueue(v) PROVE Calls'
  BY <1>0, <1>4, FreeCall DEF TypeOK, Calls, Waits, Ops, StartQueue, Wish, Request
<1>5. ASSUME NEW v \in VFs, StopQueue(v) PROVE Calls'
  BY <1>0, <1>5, FreeCall DEF TypeOK, Calls, Waits, Ops, StopQueue, Wish, Request
<1>6. ASSUME NEW v \in VFs, Offline(v) PROVE Calls'
  BY <1>0, <1>6, FreeCall DEF TypeOK, Calls, Waits, Ops, Offline, Wish, Request
<1>7. ASSUME NEW v \in VFs, Send(v) PROVE Calls'
  <2>1. CASE Waits(call[v].op)
    BY <1>0, <1>7, <2>1, FreeCall DEF TypeOK, Calls, Ops, Send, Waits, OutFree
  <2>2. CASE ~Waits(call[v].op)
    BY <1>0, <1>7, <2>2, StepReturns
  <2> QED
    BY <2>1, <2>2
<1>8. ASSUME NEW v \in VFs, SendBusy(v) PROVE Calls'
  BY <1>0, <1>8, StepReturns
<1>9. ASSUME NEW v \in VFs, Receive(v) PROVE Calls'
  BY <1>0, <1>9, StepReturns
<1>10. ASSUME NEW v \in VFs, TimedOut(v) PROVE Calls'
  BY <1>0, <1>10, StepReturns
<1>11. ASSUME NEW v \in VFs, Process(v) PROVE Calls'
  <2>1. PICK ok \in BOOLEAN : Handled(v, ok)
    BY <1>0, <1>11, MessageHandled
  <2> QED
    BY <1>0, <2>1, FreeCall DEF TypeOK, Calls, Waits, Ops, Handled
<1>12. ASSUME Respond PROVE Calls'
  BY <1>0, <1>12, FreeCall DEF TypeOK, Calls, Waits, Ops, Respond, TimerOff
<1>13. ASSUME RespondBusy PROVE Calls'
  BY <1>0, <1>13, FreeCall DEF TypeOK, Calls, Waits, Ops, RespondBusy, TimerOff
<1>14. ASSUME TimerDone PROVE Calls'
  BY <1>0, <1>14, FreeCall DEF TypeOK, Calls, Waits, Ops, TimerDone, TimerOff
<1>15. ASSUME PfSetQmax PROVE Calls'
  BY <1>0, <1>15, FreeCall DEF TypeOK, Calls, Waits, Ops, PfSetQmax
<1>16. ASSUME PfSetQrange PROVE Calls'
  BY <1>0, <1>16, FreeCall DEF TypeOK, Calls, Waits, Ops, PfSetQrange
<1>17. ASSUME UNCHANGED vars PROVE Calls'
  BY <1>0, <1>17, FreeCall DEF TypeOK, Calls, Waits, Ops, vars
<1> QED
  BY <1>1, <1>2, <1>3, <1>4, <1>5, <1>6, <1>7, <1>8, <1>9, <1>10, <1>11, <1>12, <1>13,
     <1>14, <1>15, <1>16, <1>17
  DEF Next, VfStep, PfStep

\* A message is in one place; steps of a function do not disturb those of others.
LEMMA OneMessageKept ==
  ASSUME MboxInv, prompt, [Next]_vars
  PROVE  OneMessage'
<1> USE DEF view, mbox, tabs, conf
<1>0. prompt /\ TypeOK /\ Timer /\ Calls /\ OneMessage /\ Sender
  BY DEF MboxInv
<1>1. ASSUME NEW v \in VFs, Online(v) PROVE OneMessage'
  BY <1>0, <1>1, FreeCall, NoneAssumption
  DEF TypeOK, OneMessage, Answering, Sender, Online, Wish, Request
<1>2. ASSUME NEW v \in VFs, SetQrange(v) PROVE OneMessage'
  BY <1>0, <1>2, FreeCall, NoneAssumption
  DEF TypeOK, OneMessage, Answering, Sender, SetQrange, Wish, Request
<1>3. ASSUME NEW v \in VFs, CsrGet(v) PROVE OneMessage'
  BY <1>0, <1>3, FreeCall, NoneAssumption
  DEF TypeOK, OneMessage, Answering, Sender, CsrGet, Wish, Request
<1>4. ASSUME NEW v \in VFs, StartQueue(v) PROVE OneMessage'
  BY <1>0, <1>4, FreeCall, NoneAssumption
  DEF TypeOK, OneMessage, Answering, Sender, StartQueue, Wish, Request
<1>5. ASSUME NEW v \in VFs, StopQueue(v) PROVE OneMessage'
  BY <1>0, <1>5, FreeCall, NoneAssumption
  DEF TypeOK, OneMessage, Answering, Sender, StopQueue, Wish, Request
<1>6. ASSUME NEW v \in VFs, Offline(v) PROVE OneMessage'
  BY <1>0, <1>6, FreeCall, NoneAssumption
  DEF TypeOK, OneMessage, Answering, Sender, Offline, Wish, Request
<1>7. ASSUME NEW v \in VFs, Send(v) PROVE OneMessage'
  <2>1. CASE Waits(call[v].op)
    <3>1. /\ call'[v].at = "wait" /\ outbox'[v] # None
          /\ \A w \in VFs : w # v => call'[w] = call[w] /\ outbox'[w] = outbox[w]
          /\ call[v].at = "send" /\ UNCHANGED <<inbox, pf>>
      BY <1>0, <1>7, <2>1, FreeCall, NoneAssumption DEF TypeOK, Send, Messages
    <3> QED
      BY <1>0, <3>1 DEF OneMessage, Answering
  <2>2. CASE ~Waits(call[v].op)
    <3>1. Returned(v)
      BY <1>0, <1>7, <2>2, StepReturns
    <3>2. /\ \A w \in VFs : w # v => call'[w] = call[w] /\ outbox'[w] = outbox[w]
          /\ call'[v].at # "wait" /\ call[v].at # "wait" /\ UNCHANGED <<inbox, pf>>
      BY <1>0, <1>7, <2>2, <3>1, FreeCall DEF TypeOK, Send, Returned
    <3> QED
      BY <1>0, <3>2 DEF OneMessage, Answering
  <2> QED
    BY <2>1, <2>2
<1>8. ASSUME NEW v \in VFs, SendBusy(v) PROVE OneMessage'
  BY <1>0, <1>8 DEF SendBusy
<1>9. ASSUME NEW v \in VFs, Receive(v) PROVE OneMessage'
  <2>1. Returned(v)
    BY <1>0, <1>9, StepReturns
  <2>2. PICK good \in BOOLEAN :
          /\ good <=> inbox[v].op = call[v].op /\ inbox[v].good
          /\ Return(v, good, inbox[v].base)
          /\ last' = [last EXCEPT ![v] = [n |-> sent[v], good |-> good]]
          /\ call[v].at = "wait" /\ inbox[v] # None
          /\ inbox' = [inbox EXCEPT ![v] = None]
          /\ UNCHANGED <<prompt, sent, outbox, pf, done, tabs, conf>>
    <3>1. (inbox[v].op = call[v].op /\ inbox[v].good) \in BOOLEAN
      OBVIOUS
    <3> QED
      BY <1>9, <3>1 DEF Receive
  <2> QED
    BY <1>0, <2>1, <2>2, FreeCall, NoneAssumption
    DEF TypeOK, OneMessage, Answering, Sender, Returned
<1>10. ASSUME NEW v \in VFs, TimedOut(v) PROVE OneMessage'
  BY <1>0, <1>10 DEF TimedOut
<1>11. ASSUME NEW v \in VFs, Process(v) PROVE OneMessage'
  <2>1. PICK ok \in BOOLEAN : Handled(v, ok)
    BY <1>0, <1>11, MessageHandled
  <2>2. /\ outbox[v] # None /\ outbox'[v] = None /\ \A w \in VFs : w # v => outbox'[w] = outbox[w]
        /\ Waits(outbox[v].op) <=> call[v].at = "wait"
        /\ pf.at # "respond" /\ UNCHANGED <<call, inbox>>
    BY <1>0, <2>1, NoneAssumption DEF TypeOK, Handled, Sender, Calls, Waits
  <2>3. IF Waits(outbox[v].op) THEN pf'.at = "respond" /\ pf'.to = v ELSE pf'.at = "loop"
    BY <1>0, <2>1 DEF Handled, Timer
  <2> QED
    BY <1>0, <2>2, <2>3 DEF OneMessage, Answering
<1>12. ASSUME Respond PROVE OneMessage'
  <2>1. /\ pf.at = "respond" /\ pf.to \in VFs /\ inbox'[pf.to] # None /\ pf'.at = "loop"
        /\ \A w \in VFs : w # pf.to => inbox'[w] = inbox[w]
        /\ inbox[pf.to] = None
        /\ UNCHANGED <<outbox, call>>
    BY <1>0, <1>12, NoneAssumption DEF TypeOK, Timer, Respond, TimerOff
  <2> QED
    BY <1>0, <2>1 DEF OneMessage, Answering
<1>13. ASSUME RespondBusy PROVE OneMessage'
  BY <1>0, <1>13 DEF RespondBusy
<1>14. ASSUME TimerDone PROVE OneMessage'
  BY <1>0, <1>14, FreeCall, NoneAssumption
  DEF TypeOK, OneMessage, Answering, Sender, TimerDone, TimerOff
<1>15. ASSUME PfSetQmax PROVE OneMessage'
  BY <1>0, <1>15, FreeCall, NoneAssumption DEF TypeOK, OneMessage, Answering, Sender, PfSetQmax
<1>16. ASSUME PfSetQrange PROVE OneMessage'
  BY <1>0, <1>16, FreeCall, NoneAssumption
  DEF TypeOK, OneMessage, Answering, Sender, PfSetQrange
<1>17. ASSUME UNCHANGED vars PROVE OneMessage'
  BY <1>0, <1>17, FreeCall, NoneAssumption DEF TypeOK, OneMessage, Answering, Sender, vars
<1> QED
  BY <1>1, <1>2, <1>3, <1>4, <1>5, <1>6, <1>7, <1>8, <1>9, <1>10, <1>11, <1>12, <1>13,
     <1>14, <1>15, <1>16, <1>17
  DEF Next, VfStep, PfStep

\* Messages are counted when they are sent, handled and answered.
LEMMA CountedKept ==
  ASSUME MboxInv, prompt, [Next]_vars
  PROVE  Counted'
<1> USE DEF view, mbox, tabs, conf
<1>0. prompt /\ TypeOK /\ Timer /\ Calls /\ OneMessage /\ Sender /\ Counted
  BY DEF MboxInv
<1>1. ASSUME NEW v \in VFs, Online(v) PROVE Counted'
  BY <1>0, <1>1, FreeCall, NoneAssumption
  DEF TypeOK, OneMessage, Sender, Counted, Online, Wish, Request
<1>2. ASSUME NEW v \in VFs, SetQrange(v) PROVE Counted'
  BY <1>0, <1>2, FreeCall, NoneAssumption
  DEF TypeOK, OneMessage, Sender, Counted, SetQrange, Wish, Request
<1>3. ASSUME NEW v \in VFs, CsrGet(v) PROVE Counted'
  BY <1>0, <1>3, FreeCall, NoneAssumption
  DEF TypeOK, OneMessage, Sender, Counted, CsrGet, Wish, Request
<1>4. ASSUME NEW v \in VFs, StartQueue(v) PROVE Counted'
  BY <1>0, <1>4, FreeCall, NoneAssumption
  DEF TypeOK, OneMessage, Sender, Counted, StartQueue, Wish, Request
<1>5. ASSUME NEW v \in VFs, StopQueue(v) PROVE Counted'
  BY <1>0, <1>5, FreeCall, NoneAssumption
  DEF TypeOK, OneMessage, Sender, Counted, StopQueue, Wish, Request
<1>6. ASSUME NEW v \in VFs, Offline(v) PROVE Counted'
  BY <1>0, <1>6, FreeCall, NoneAssumption
  DEF TypeOK, OneMessage, Sender, Counted, Offline, Wish, Request
<1>7. ASSUME NEW v \in VFs, Send(v) PROVE Counted'
  <2>1. /\ outbox[v] = None /\ outbox'[v] # None /\ sent'[v] = sent[v] + 1 /\ call[v].at = "send"
        /\ \A w \in VFs : w # v => outbox'[w] = outbox[w] /\ sent'[w] = sent[w]
        /\ done' = done /\ sent[v] \in Nat /\ sent'[v] \in Nat
    BY <1>0, <1>7, FreeCall, NoneAssumption DEF TypeOK, Send, Messages, OutFree
  <2>2. CASE Waits(call[v].op)
    <3>1. call'[v].at = "wait" /\ last' = last /\ \A w \in VFs : w # v => call'[w] = call[w]
      BY <1>0, <1>7, <2>2, FreeCall DEF TypeOK, Send
    <3> QED
      BY <1>0, <2>1, <3>1 DEF Counted
  <2>3. CASE ~Waits(call[v].op)
    <3>1. Returned(v)
      BY <1>0, <1>7, <2>3, StepReturns
    <3>2. /\ call'[v].at # "wait" /\ last'[v].n = sent[v] + 1
          /\ \A w \in VFs : w # v => call'[w] = call[w] /\ last'[w] = last[w]
      BY <1>0, <1>7, <2>3, <3>1, FreeCall DEF TypeOK, Send, Returned
    <3> QED
      BY <1>0, <2>1, <3>2 DEF Counted
  <2> QED
    BY <2>2, <2>3
<1>8. ASSUME NEW v \in VFs, SendBusy(v) PROVE Counted'
  BY <1>0, <1>8 DEF SendBusy
<1>9. ASSUME NEW v \in VFs, Receive(v) PROVE Counted'
  <2>1. Returned(v)
    BY <1>0, <1>9, StepReturns
  <2>2. PICK good \in BOOLEAN :
          /\ good <=> inbox[v].op = call[v].op /\ inbox[v].good
          /\ Return(v, good, inbox[v].base)
          /\ last' = [last EXCEPT ![v] = [n |-> sent[v], good |-> good]]
          /\ call[v].at = "wait" /\ inbox[v] # None
          /\ inbox' = [inbox EXCEPT ![v] = None]
          /\ UNCHANGED <<prompt, sent, outbox, pf, done, tabs, conf>>
    <3>1. (inbox[v].op = call[v].op /\ inbox[v].good) \in BOOLEAN
      OBVIOUS
    <3> QED
      BY <1>9, <3>1 DEF Receive
  <2> QED
    BY <1>0, <2>1, <2>2, FreeCall, NoneAssumption
    DEF TypeOK, OneMessage, Sender, Counted, Returned
<1>10. ASSUME NEW v \in VFs, TimedOut(v) PROVE Counted'
  BY <1>0, <1>10 DEF TimedOut
<1>11. ASSUME NEW v \in VFs, Process(v) PROVE Counted'
  <2>1. PICK ok \in BOOLEAN : Handled(v, ok)
    BY <1>0, <1>11, MessageHandled
  <2> QED
    BY <1>0, <2>1, FreeCall, NoneAssumption DEF TypeOK, OneMessage, Sender, Counted, Handled
<1>12. ASSUME Respond PROVE Counted'
  BY <1>0, <1>12, FreeCall, NoneAssumption
  DEF TypeOK, OneMessage, Sender, Counted, Respond, TimerOff
<1>13. ASSUME RespondBusy PROVE Counted'
  BY <1>0, <1>13 DEF RespondBusy
<1>14. ASSUME TimerDone PROVE Counted'
  BY <1>0, <1>14, FreeCall, NoneAssumption
  DEF TypeOK, OneMessage, Sender, Counted, TimerDone, TimerOff
<1>15. ASSUME PfSetQmax PROVE Counted'
  BY <1>0, <1>15, FreeCall, NoneAssumption DEF TypeOK, OneMessage, Sender, Counted, PfSetQmax
<1>16. ASSUME PfSetQrange PROVE Counted'
  BY <1>0, <1>16, FreeCall, NoneAssumption DEF TypeOK, OneMessage, Sender, Counted, PfSetQrange
<1>17. ASSUME UNCHANGED vars PROVE Counted'
  BY <1>0, <1>17, FreeCall, NoneAssumption DEF TypeOK, OneMessage, Sender, Counted, vars
<1> QED
  BY <1>1, <1>2, <1>3, <1>4, <1>5, <1>6, <1>7, <1>8, <1>9, <1>10, <1>11, <1>12, <1>13,
     <1>14, <1>15, <1>16, <1>17
  DEF Next, VfStep, PfStep

\* A message in the registers is one its sender is known to wait for, or the
\* last one that told of the sender's coming or going.
LEMMA SenderKept ==
  ASSUME MboxInv, prompt, [Next]_vars
  PROVE  Sender'
<1> USE DEF view, mbox, tabs, conf
<1>0. prompt /\ TypeOK /\ Timer /\ Calls /\ OneMessage /\ Sender
  BY DEF MboxInv
<1>1. ASSUME NEW v \in VFs, Online(v) PROVE Sender'
  BY <1>0, <1>1, FreeCall, NoneAssumption
  DEF TypeOK, Calls, OneMessage, Sender, Waits, Ops, Online, Wish, Request
<1>2. ASSUME NEW v \in VFs, SetQrange(v) PROVE Sender'
  BY <1>0, <1>2, FreeCall, NoneAssumption
  DEF TypeOK, Calls, OneMessage, Sender, Waits, Ops, SetQrange, Wish, Request
<1>3. ASSUME NEW v \in VFs, CsrGet(v) PROVE Sender'
  BY <1>0, <1>3, FreeCall, NoneAssumption
  DEF TypeOK, Calls, OneMessage, Sender, Waits, Ops, CsrGet, Wish, Request
<1>4. ASSUME NEW v \in VFs, StartQueue(v) PROVE Sender'
  BY <1>0, <1>4, FreeCall, NoneAssumption
  DEF TypeOK, Calls, OneMessage, Sender, Waits, Ops, StartQueue, Wish, Request
<1>5. ASSUME NEW v \in VFs, StopQueue(v) PROVE Sender'
  BY <1>0, <1>5, FreeCall, NoneAssumption
  DEF TypeOK, Calls, OneMessage, Sender, Waits, Ops, StopQueue, Wish, Request
<1>6. ASSUME NEW v \in VFs, Offline(v) PROVE Sender'
  BY <1>0, <1>6, FreeCall, NoneAssumption
  DEF TypeOK, Calls, OneMessage, Sender, Waits, Ops, Offline, Wish, Request
<1>7. ASSUME NEW v \in VFs, Send(v) PROVE Sender'
  <2>1. /\ outbox[v] = None /\ outbox'[v].op = call[v].op /\ outbox'[v].qid = qbase[v]
        /\ outbox'[v] # None /\ call[v].at = "send" /\ call[v].op \in Ops
        /\ \A w \in VFs : w # v => outbox'[w] = outbox[w]
    BY <1>0, <1>7, FreeCall, NoneAssumption DEF TypeOK, Send, Messages, OutFree
  <2>2. CASE Waits(call[v].op)
    <3>1. /\ call'[v].at = "wait" /\ call'[v].op = call[v].op /\ UNCHANGED view
          /\ \A w \in VFs : w # v => call'[w] = call[w]
      BY <1>0, <1>7, <2>2, FreeCall DEF TypeOK, Send
    <3> QED
      BY <1>0, <2>1, <2>2, <3>1 DEF Sender, Waits
  <2>3. CASE ~Waits(call[v].op)
    <3>1. Returned(v) /\ Calls'
      BY <1>0, <1>7, <2>3, StepReturns
    <3>2. CASE call[v].op = "HELLO"
      <4>1. life'[v] = "on" /\ call'[v] = Free
        BY <1>0, <1>7, <3>2 DEF TypeOK, Send, Waits, Return, ReturnOnline
      <4> QED
        BY <1>0, <2>1, <3>1, <3>2, <4>1, FreeCall DEF Sender, Returned
    <3>3. CASE call[v].op = "BYE"
      <4>1. /\ call'[v].at # "wait"
            /\ life'[v] = "off" \/ (life'[v] = "closing" /\ call'[v].op = "QCTXT_CLR")
        <5>1. ReturnOffline(v)
          BY <1>7, <3>3 DEF Send, Waits, Return
        <5>2. life[v] = "closing"
          BY <1>0, <3>3, FreeCall DEF TypeOK, Calls, Waits
        <5> QED
          BY <1>0, <5>1, <5>2, FreeCall DEF TypeOK, ReturnOffline, Request
      <4> QED
        BY <1>0, <2>1, <3>1, <3>3, <4>1 DEF Sender, Returned
    <3> QED
      BY <2>1, <2>3, <3>2, <3>3 DEF Waits
  <2> QED
    BY <2>2, <2>3
<1>8. ASSUME NEW v \in VFs, SendBusy(v) PROVE Sender'
  BY <1>0, <1>8 DEF SendBusy
<1>9. ASSUME NEW v \in VFs, Receive(v) PROVE Sender'
  <2>1. Returned(v)
    BY <1>0, <1>9, StepReturns
  <2>2. PICK good \in BOOLEAN :
          /\ good <=> inbox[v].op = call[v].op /\ inbox[v].good
          /\ Return(v, good, inbox[v].base)
          /\ last' = [last EXCEPT ![v] = [n |-> sent[v], good |-> good]]
          /\ call[v].at = "wait" /\ inbox[v] # None
          /\ inbox' = [inbox EXCEPT ![v] = None]
          /\ UNCHANGED <<prompt, sent, outbox, pf, done, tabs, conf>>
    <3>1. (inbox[v].op = call[v].op /\ inbox[v].good) \in BOOLEAN
      OBVIOUS
    <3> QED
      BY <1>9, <3>1 DEF Receive
  <2> QED
    BY <1>0, <2>1, <2>2, FreeCall, NoneAssumption
    DEF TypeOK, Calls, OneMessage, Sender, Waits, Ops, Returned
<1>10. ASSUME NEW v \in VFs, TimedOut(v) PROVE Sender'
  BY <1>0, <1>10 DEF TimedOut
<1>11. ASSUME NEW v \in VFs, Process(v) PROVE Sender'
  <2>1. PICK ok \in BOOLEAN : Handled(v, ok)
    BY <1>0, <1>11, MessageHandled
  <2> QED
    BY <1>0, <2>1, FreeCall, NoneAssumption
    DEF TypeOK, Calls, OneMessage, Sender, Waits, Ops, Handled
<1>12. ASSUME Respond PROVE Sender'
  BY <1>0, <1>12, FreeCall, NoneAssumption
  DEF TypeOK, Calls, OneMessage, Sender, Waits, Ops, Respond, TimerOff
<1>13. ASSUME RespondBusy PROVE Sender'
  BY <1>0, <1>13 DEF RespondBusy
<1>14. ASSUME TimerDone PROVE Sender'
  BY <1>0, <1>14, FreeCall, NoneAssumption
  DEF TypeOK, Calls, OneMessage, Sender, Waits, Ops, TimerDone, TimerOff
<1>15. ASSUME PfSetQmax PROVE Sender'
  BY <1>0, <1>15, FreeCall, NoneAssumption
  DEF TypeOK, Calls, OneMessage, Sender, Waits, Ops, PfSetQmax
<1>16. ASSUME PfSetQrange PROVE Sender'
  BY <1>0, <1>16, FreeCall, NoneAssumption
  DEF TypeOK, Calls, OneMessage, Sender, Waits, Ops, PfSetQrange
<1>17. ASSUME UNCHANGED vars PROVE Sender'
  BY <1>0, <1>17, FreeCall, NoneAssumption
  DEF TypeOK, Calls, OneMessage, Sender, Waits, Ops, vars
<1> QED
  BY <1>1, <1>2, <1>3, <1>4, <1>5, <1>6, <1>7, <1>8, <1>9, <1>10, <1>11, <1>12, <1>13,
     <1>14, <1>15, <1>16, <1>17
  DEF Next, VfStep, PfStep

\* A response stays true until it is received: nobody else has a queue whose
\* context is at the same place.
LEMMA ToldKept ==
  ASSUME MboxInv, prompt, [Next]_vars
  PROVE  Told'
<1> USE DEF view, mbox, tabs, conf
<1>0. prompt /\ TypeOK /\ Timer /\ Calls /\ OneMessage /\ Sender /\ Told /\ Ranges
  BY DEF MboxInv
<1>1. ASSUME NEW v \in VFs, Online(v) PROVE Told'
  BY <1>0, <1>1, FreeCall, NoneAssumption, BaseIsFirst
  DEF TypeOK, Calls, OneMessage, Sender, Answering, Told, Truthful, Online, Wish, Request
<1>2. ASSUME NEW v \in VFs, SetQrange(v) PROVE Told'
  BY <1>0, <1>2, FreeCall, NoneAssumption, BaseIsFirst
  DEF TypeOK, Calls, OneMessage, Sender, Answering, Told, Truthful, SetQrange, Wish, Request
<1>3. ASSUME NEW v \in VFs, CsrGet(v) PROVE Told'
  BY <1>0, <1>3, FreeCall, NoneAssumption, BaseIsFirst
  DEF TypeOK, Calls, OneMessage, Sender, Answering, Told, Truthful, CsrGet, Wish, Request
<1>4. ASSUME NEW v \in VFs, StartQueue(v) PROVE Told'
  BY <1>0, <1>4, FreeCall, NoneAssumption, BaseIsFirst
  DEF TypeOK, Calls, OneMessage, Sender, Answering, Told, Truthful, StartQueue, Wish,
      Request
<1>5. ASSUME NEW v \in VFs, StopQueue(v) PROVE Told'
  BY <1>0, <1>5, FreeCall, NoneAssumption, BaseIsFirst
  DEF TypeOK, Calls, OneMessage, Sender, Answering, Told, Truthful, StopQueue, Wish, Request
<1>6. ASSUME NEW v \in VFs, Offline(v) PROVE Told'
  BY <1>0, <1>6, FreeCall, NoneAssumption, BaseIsFirst
  DEF TypeOK, Calls, OneMessage, Sender, Answering, Told, Truthful, Offline, Wish, Request
<1>7. ASSUME NEW v \in VFs, Send(v) PROVE Told'
  <2>1. /\ call[v].at = "send" /\ UNCHANGED <<inbox, pf, done, tabs, conf>>
        /\ \A w \in VFs : w # v => call'[w] = call[w] /\ qbase'[w] = qbase[w]
    <3>1. CASE Waits(call[v].op)
      BY <1>0, <1>7, <3>1, FreeCall DEF TypeOK, Send
    <3>2. CASE ~Waits(call[v].op)
      <4>1. Returned(v)
        BY <1>0, <1>7, <3>2, StepReturns
      <4> QED
        BY <1>7, <4>1 DEF Send, Returned
    <3> QED
      BY <3>1, <3>2
  <2>2. ~Answering(v)' /\ inbox'[v] = None
    BY <1>0, <2>1 DEF OneMessage, Answering
  <2> QED
    BY <1>0, <2>1, <2>2 DEF Told, Truthful, Answering
<1>8. ASSUME NEW v \in VFs, SendBusy(v) PROVE Told'
  BY <1>0, <1>8 DEF SendBusy
<1>9. ASSUME NEW v \in VFs, Receive(v) PROVE Told'
  <2>1. Returned(v)
    BY <1>0, <1>9, StepReturns
  <2>2. PICK good \in BOOLEAN :
          /\ good <=> inbox[v].op = call[v].op /\ inbox[v].good
          /\ Return(v, good, inbox[v].base)
          /\ last' = [last EXCEPT ![v] = [n |-> sent[v], good |-> good]]
          /\ call[v].at = "wait" /\ inbox[v] # None
          /\ inbox' = [inbox EXCEPT ![v] = None]
          /\ UNCHANGED <<prompt, sent, outbox, pf, done, tabs, conf>>
    <3>1. (inbox[v].op = call[v].op /\ inbox[v].good) \in BOOLEAN
      OBVIOUS
    <3> QED
      BY <1>9, <3>1 DEF Receive
  <2> QED
    BY <1>0, <2>1, <2>2, FreeCall, NoneAssumption, BaseIsFirst
    DEF TypeOK, Calls, OneMessage, Sender, Answering, Told, Truthful, Returned
<1>10. ASSUME NEW v \in VFs, TimedOut(v) PROVE Told'
  BY <1>0, <1>10 DEF TimedOut
<1>11. ASSUME NEW v \in VFs, Process(v) PROVE Told'
  <2>1. PICK ok \in BOOLEAN : Handled(v, ok)
    BY <1>0, <1>11, MessageHandled
  <2>2. /\ outbox[v] # None /\ inbox[v] = None
        /\ Waits(outbox[v].op) => call[v].at = "wait" /\ outbox[v].op = call[v].op
                                 /\ outbox[v].qid = qbase[v]
    BY <1>0, <2>1, NoneAssumption DEF TypeOK, Handled, Sender, OneMessage, Waits
  <2>3. ASSUME Answering(v)' PROVE Truthful(v, pf.answer)'
    <3>1. Waits(outbox[v].op)
      BY <1>0, <2>1, <2>3 DEF Handled, Timer, Answering
    <3>2. /\ pf'.answer.op = outbox[v].op /\ (pf'.answer.good => ok)
          /\ outbox[v].op = "FMAP" => pf'.answer.base = Base(v)
      BY <2>1, <3>1 DEF Handled
    <3>3. done'[v].good = ok /\ (outbox[v].op = "FMAP" => fmap'[v] = QRange(Base(v)))
      BY <1>0, <2>1 DEF TypeOK, Handled
    <3>4. outbox[v].op = "QCTXT_WRT" /\ ok => qbase'[v] \in ctx'
      BY <2>1, <2>2, <3>1 DEF Handled
    <3>5. call' = call /\ pfMax' = pfMax
      BY <2>1 DEF Handled
    <3> QED
      BY <2>2, <3>1, <3>2, <3>3, <3>4, <3>5, BaseIsFirst DEF Truthful
  <2>4. ASSUME NEW w \in VFs, w # v
        PROVE  ~Answering(w)' /\ (inbox'[w] # None => Truthful(w, inbox[w])')
    <3>1. ~Answering(w)'
      BY <1>0, <2>1, <2>4 DEF Handled, Answering, Timer
    <3>2. done'[w] = done[w] /\ fmap'[w] = fmap[w]
      BY <1>0, <2>1, <2>4 DEF TypeOK, Handled
    <3>3. UNCHANGED <<call, inbox, pfMax, qbase>>
      BY <2>1 DEF Handled
    <3>4. ASSUME call[w].op = "QCTXT_WRT", pfMax = PfQueues, qbase[w] \in ctx PROVE qbase[w] \in ctx'
      <4>1. CASE outbox[v].op \in {"QCTXT_WRT", "QCTXT_CLR"}
        <5>1. outbox[v].qid = qbase[v] /\ ranged[v] /\ ranged[w]
          BY <1>0, <2>2, <3>4, <4>1 DEF Waits, Calls
        <5>2. qbase[w] # qbase[v] /\ qbase[w] \in Queues
          BY <1>0, <2>4, <3>4, <5>1, BasesDiffer DEF Ranges, TypeOK
        <5> QED
          BY <2>1, <3>4, <5>1, <5>2 DEF Handled
      <4>2. CASE outbox[v].op \notin {"QCTXT_WRT", "QCTXT_CLR"}
        BY <2>1, <3>4, <4>2 DEF Handled
      <4> QED
        BY <4>1, <4>2
    <3> QED
      BY <1>0, <3>1, <3>2, <3>3, <3>4 DEF Told, Truthful
  <2>5. inbox' = inbox
    BY <2>1 DEF Handled
  <2> QED
    BY <2>2, <2>3, <2>4, <2>5 DEF Told
<1>12. ASSUME Respond PROVE Told'
  BY <1>0, <1>12, FreeCall, NoneAssumption, BaseIsFirst
  DEF TypeOK, Calls, OneMessage, Sender, Answering, Told, Truthful, Respond, TimerOff
<1>13. ASSUME RespondBusy PROVE Told'
  BY <1>0, <1>13 DEF RespondBusy
<1>14. ASSUME TimerDone PROVE Told'
  BY <1>0, <1>14, FreeCall, NoneAssumption, BaseIsFirst
  DEF TypeOK, Calls, OneMessage, Sender, Answering, Told, Truthful, TimerDone, TimerOff
<1>15. ASSUME PfSetQmax PROVE Told'
  BY <1>0, <1>15, FreeCall, NoneAssumption, BaseIsFirst
  DEF TypeOK, Calls, OneMessage, Sender, Answering, Told, Truthful, PfSetQmax
<1>16. ASSUME PfSetQrange PROVE Told'
  BY <1>0, <1>16, FreeCall, NoneAssumption, BaseIsFirst
  DEF TypeOK, Calls, OneMessage, Sender, Answering, Told, Truthful, PfSetQrange
<1>17. ASSUME UNCHANGED vars PROVE Told'
  BY <1>0, <1>17, FreeCall, NoneAssumption, BaseIsFirst
  DEF TypeOK, Calls, OneMessage, Sender, Answering, Told, Truthful, vars
<1> QED
  BY <1>1, <1>2, <1>3, <1>4, <1>5, <1>6, <1>7, <1>8, <1>9, <1>10, <1>11, <1>12, <1>13,
     <1>14, <1>15, <1>16, <1>17
  DEF Next, VfStep, PfStep

\* Ranges and contexts stay those of the function.
LEMMA RangesKept ==
  ASSUME MboxInv, prompt, [Next]_vars
  PROVE  Ranges'
<1> USE DEF view, mbox, tabs, conf
<1>0. prompt /\ TypeOK /\ Timer /\ Calls /\ Sender /\ Told /\ Ranges
  BY DEF MboxInv
<1>1. ASSUME NEW v \in VFs, Online(v) PROVE Ranges'
  BY <1>0, <1>1, FreeCall DEF TypeOK, Calls, Ranges, Online, Wish, Request
<1>2. ASSUME NEW v \in VFs, SetQrange(v) PROVE Ranges'
  BY <1>0, <1>2, FreeCall DEF TypeOK, Calls, Ranges, SetQrange, Wish, Request
<1>3. ASSUME NEW v \in VFs, CsrGet(v) PROVE Ranges'
  BY <1>0, <1>3, FreeCall DEF TypeOK, Calls, Ranges, CsrGet, Wish, Request
<1>4. ASSUME NEW v \in VFs, StartQueue(v) PROVE Ranges'
  BY <1>0, <1>4, FreeCall DEF TypeOK, Calls, Ranges, StartQueue, Wish, Request
<1>5. ASSUME NEW v \in VFs, StopQueue(v) PROVE Ranges'
  BY <1>0, <1>5, FreeCall DEF TypeOK, Calls, Ranges, StopQueue, Wish, Request
<1>6. ASSUME NEW v \in VFs, Offline(v) PROVE Ranges'
  BY <1>0, <1>6, FreeCall DEF TypeOK, Calls, Ranges, Offline, Wish, Request
<1>7. ASSUME NEW v \in VFs, Send(v) PROVE Ranges'
  <2>1. UNCHANGED <<fmap, ctx, pfMax>>
    BY <1>7 DEF Send
  <2>2. CASE Waits(call[v].op)
    <3>1. UNCHANGED view
      BY <1>7, <2>2 DEF Send
    <3> QED
      BY <1>0, <2>1, <3>1 DEF Ranges
  <2>3. CASE ~Waits(call[v].op)
    <3>1. Returned(v)
      BY <1>0, <1>7, <2>3, StepReturns
    <3>2. CASE call[v].op = "HELLO"
      <4>1. life[v] = "off"
        BY <1>0, <3>2, FreeCall DEF TypeOK, Calls, Waits
      <4>2. ~ranged'[v] /\ ~started'[v]
        BY <1>0, <1>7, <3>2, <4>1 DEF Calls, Send, Waits, Return, ReturnOnline
      <4> QED
        BY <1>0, <2>1, <3>1, <4>2 DEF Ranges, Returned
    <3>3. CASE call[v].op = "BYE"
      <4>1. ReturnOffline(v)
        BY <1>7, <3>3 DEF Send, Waits, Return
      <4>2. life[v] = "closing"
        BY <1>0, <3>3, FreeCall DEF TypeOK, Calls, Waits
      <4>3. life'[v] # "on" /\ ranged'[v] = ranged[v] /\ qbase'[v] = qbase[v]
        BY <1>0, <4>1, <4>2, FreeCall DEF TypeOK, ReturnOffline, Request
      <4> QED
        BY <1>0, <2>1, <3>1, <4>3 DEF Ranges, Returned
    <3>4. call[v].op \in Ops
      BY <1>0, <1>7, FreeCall DEF TypeOK, Send
    <3> QED
      BY <2>3, <3>2, <3>3, <3>4 DEF Waits
  <2> QED
    BY <2>2, <2>3
<1>8. ASSUME NEW v \in VFs, SendBusy(v) PROVE Ranges'
  BY <1>0, <1>8 DEF SendBusy
<1>9. ASSUME NEW v \in VFs, Receive(v) PROVE Ranges'
  <2>1. Returned(v)
    BY <1>0, <1>9, StepReturns
  <2>2. PICK good \in BOOLEAN :
          /\ good <=> inbox[v].op = call[v].op /\ inbox[v].good
          /\ Return(v, good, inbox[v].base)
          /\ call[v].at = "wait" /\ inbox[v] # None
          /\ UNCHANGED <<fmap, ctx, pfMax>>
    <3>1. (inbox[v].op = call[v].op /\ inbox[v].good) \in BOOLEAN
      OBVIOUS
    <3> QED
      BY <1>9, <3>1 DEF Receive
  <2>3. Truthful(v, inbox[v]) /\ Waits(call[v].op) /\ call[v].op \in Ops
    BY <1>0, <2>2, FreeCall DEF TypeOK, Told, Calls
  <2>4. /\ life'[v] = "on" /\ ranged'[v] => fmap[v] = QRange(qbase'[v])
        /\ ranged'[v] /\ pfMax = PfQueues => qbase'[v] = First(v)
        /\ life'[v] = "on" /\ started'[v] /\ pfMax = PfQueues => qbase'[v] \in ctx
    <3>1. CASE call[v].op = "FMAP"
      <4>1. ReturnQrange(v, good, inbox[v].base)
        BY <2>2, <3>1 DEF Return
      <4>2. ranged'[v] = good /\ (good => qbase'[v] = inbox[v].base) /\ ~started'[v]
        BY <1>0, <3>1, <4>1 DEF TypeOK, Calls, ReturnQrange
      <4> QED
        BY <2>2, <2>3, <3>1, <4>2 DEF Truthful
    <3>2. CASE call[v].op = "CSR"
      <4>1. UNCHANGED view
        BY <2>2, <3>2 DEF Return
      <4> QED
        BY <1>0, <4>1 DEF Ranges
    <3>3. CASE call[v].op = "QCTXT_WRT"
      <4>1. ReturnStart(v, good)
        BY <2>2, <3>3 DEF Return
      <4>2. UNCHANGED <<life, ranged, qbase>> /\ started'[v] = good
        BY <1>0, <4>1 DEF TypeOK, ReturnStart
      <4> QED
        BY <1>0, <2>2, <2>3, <3>3, <4>2 DEF Ranges, Truthful
    <3>4. CASE call[v].op = "QCTXT_CLR"
      <4>1. ReturnClear(v)
        BY <2>2, <3>4 DEF Return
      <4>2. CASE life[v] = "closing"
        <5>1. life'[v] = "off" /\ ~ranged'[v]
          BY <1>0, <4>1, <4>2 DEF TypeOK, ReturnClear
        <5> QED
          BY <5>1
      <4>3. CASE life[v] # "closing"
        <5>1. UNCHANGED view
          BY <4>1, <4>3 DEF ReturnClear
        <5> QED
          BY <1>0, <5>1 DEF Ranges
      <4> QED
        BY <4>2, <4>3
    <3> QED
      BY <2>3, <3>1, <3>2, <3>3, <3>4 DEF Waits, Ops
  <2> QED
    BY <1>0, <2>1, <2>2, <2>4 DEF Ranges, Returned
<1>10. ASSUME NEW v \in VFs, TimedOut(v) PROVE Ranges'
  BY <1>0, <1>10 DEF TimedOut
<1>11. ASSUME NEW v \in VFs, Process(v) PROVE Ranges'
  <2>1. PICK ok \in BOOLEAN : Handled(v, ok)
    BY <1>0, <1>11, MessageHandled
  <2>2. UNCHANGED <<view, pfMax>> /\ outbox[v] # None
    BY <2>1, NoneAssumption DEF Handled
  <2>3. ASSUME NEW w \in VFs, life[w] = "on", ranged[w] PROVE fmap'[w] = QRange(qbase[w])
    <3>1. w = v => outbox[v].op \notin {"BYE", "FMAP"}
      BY <1>0, <2>2, <2>3 DEF Sender, Calls
    <3>2. fmap'[w] = fmap[w]
      BY <1>0, <2>1, <3>1 DEF TypeOK, Handled
    <3> QED
      BY <1>0, <2>3, <3>2 DEF Ranges
  <2>4. ASSUME NEW w \in VFs, life[w] = "on", started[w], pfMax = PfQueues PROVE qbase[w] \in ctx'
    <3>1. qbase[w] \in ctx /\ qbase[w] \in Queues /\ ranged[w] /\ qbase[w] = First(w)
      BY <1>0, <2>4 DEF Ranges, Calls, TypeOK
    <3>2. CASE outbox[v].op \in {"QCTXT_WRT", "QCTXT_CLR"}
      <4>1. outbox[v].qid = qbase[v] /\ outbox[v].op = call[v].op /\ ranged[v] /\ qbase[v] = First(v)
        BY <1>0, <2>2, <2>4, <3>2 DEF Sender, Calls, Ranges
      <4>2. w # v
        BY <1>0, <2>4, <3>2, <4>1 DEF Calls
      <4> QED
        BY <2>1, <3>1, <4>1, <4>2, BasesDiffer DEF Handled
    <3>3. CASE outbox[v].op \notin {"QCTXT_WRT", "QCTXT_CLR"}
      BY <2>1, <3>1, <3>3 DEF Handled
    <3> QED
      BY <3>2, <3>3
  <2> QED
    BY <1>0, <2>2, <2>3, <2>4 DEF Ranges
<1>12. ASSUME Respond PROVE Ranges'
  BY <1>0, <1>12, FreeCall DEF TypeOK, Calls, Ranges, Respond, TimerOff
<1>13. ASSUME RespondBusy PROVE Ranges'
  BY <1>0, <1>13 DEF RespondBusy
<1>14. ASSUME TimerDone PROVE Ranges'
  BY <1>0, <1>14, FreeCall DEF TypeOK, Calls, Ranges, TimerDone, TimerOff
<1>15. ASSUME PfSetQmax PROVE Ranges'
  <2>1. pfMax' # PfQueues /\ UNCHANGED <<view, fmap>>
    BY <1>0, <1>15, SizeAssumption DEF TypeOK, PfSetQmax
  <2> QED
    BY <1>0, <2>1 DEF Ranges
<1>16. ASSUME PfSetQrange PROVE Ranges'
  BY <1>0, <1>16, FreeCall DEF TypeOK, Calls, Ranges, PfSetQrange
<1>17. ASSUME UNCHANGED vars PROVE Ranges'
  BY <1>0, <1>17, FreeCall DEF TypeOK, Calls, Ranges, vars
<1> QED
  BY <1>1, <1>2, <1>3, <1>4, <1>5, <1>6, <1>7, <1>8, <1>9, <1>10, <1>11, <1>12, <1>13,
     <1>14, <1>15, <1>16, <1>17
  DEF Next, VfStep, PfStep

\* There is a free entry for a function that is not in the table, which is as
\* long as there are functions.
LEMMA RoomInTable ==
  ASSUME TypeOK, Table, NEW v \in VFs, ~Known(v)
  PROVE  FreeSlots # {}
<1>1. SUFFICES ASSUME \A s \in SlotIds : slots[s] # None PROVE FALSE
  BY DEF FreeSlots
<1>2. \A s \in SlotIds : slots[s] \in VFs \ {v}
  BY <1>1 DEF TypeOK, Table
<1>3. slots \in [SlotIds -> VFs \ {v}]
  BY <1>2 DEF TypeOK
<1>4. Cardinality(VFs) \in Nat /\ IsFiniteSet(VFs \ {v}) /\ Cardinality(VFs \ {v}) = Cardinality(VFs) - 1
  BY VFsAssumption, FS_CardinalityType, FS_RemoveElement
<1>5. IsFiniteSet(SlotIds) /\ Cardinality(SlotIds) = Cardinality(VFs)
  BY <1>4, FS_Interval DEF SlotIds
<1>6. \E s, t \in SlotIds : s # t /\ slots[s] = slots[t]
  <2>1. Cardinality(VFs \ {v}) < Cardinality(SlotIds)
    BY <1>4, <1>5
  <2> QED
    BY <1>3, <1>4, <1>5, <2>1, FS_PigeonHole
<1> QED
  BY <1>1, <1>6 DEF Table

\* The table follows the messages that are handled.
LEMMA TableKept ==
  ASSUME MboxInv, prompt, [Next]_vars
  PROVE  Table'
<1> USE DEF view, mbox, tabs, conf
<1>0. prompt /\ TypeOK /\ Timer /\ Calls /\ Sender /\ Table
  BY DEF MboxInv
<1>1. ASSUME NEW v \in VFs, Online(v) PROVE Table'
  BY <1>0, <1>1, FreeCall DEF TypeOK, Calls, Table, Known, Online, Wish, Request
<1>2. ASSUME NEW v \in VFs, SetQrange(v) PROVE Table'
  BY <1>0, <1>2, FreeCall DEF TypeOK, Calls, Table, Known, SetQrange, Wish, Request
<1>3. ASSUME NEW v \in VFs, CsrGet(v) PROVE Table'
  BY <1>0, <1>3, FreeCall DEF TypeOK, Calls, Table, Known, CsrGet, Wish, Request
<1>4. ASSUME NEW v \in VFs, StartQueue(v) PROVE Table'
  BY <1>0, <1>4, FreeCall DEF TypeOK, Calls, Table, Known, StartQueue, Wish, Request
<1>5. ASSUME NEW v \in VFs, StopQueue(v) PROVE Table'
  BY <1>0, <1>5, FreeCall DEF TypeOK, Calls, Table, Known, StopQueue, Wish, Request
<1>6. ASSUME NEW v \in VFs, Offline(v) PROVE Table'
  BY <1>0, <1>6, FreeCall DEF TypeOK, Calls, Table, Known, Offline, Wish, Request
<1>7. ASSUME NEW v \in VFs, Send(v) PROVE Table'
  <2>1. UNCHANGED slots
    BY <1>7 DEF Send
  <2>2. \A w \in VFs : Known(w)' <=> Known(w)
    <3>1. /\ outbox[v] = None /\ outbox'[v] # None /\ outbox'[v].op = call[v].op
          /\ call[v].at = "send" /\ call[v].op \in Ops
          /\ \A w \in VFs : w # v => outbox'[w] = outbox[w]
      BY <1>0, <1>7, FreeCall, NoneAssumption DEF TypeOK, Send, Messages, OutFree
    <3>2. CASE Waits(call[v].op)
      <4>1. UNCHANGED view /\ \A w \in VFs : call'[w].op = call[w].op
        BY <1>0, <1>7, <3>2, FreeCall, SMTT(40) DEF TypeOK, Send
      <4> QED
        BY <3>1, <3>2, <4>1 DEF Known, Waits
    <3>3. CASE call[v].op = "HELLO"
      <4>1. Returned(v) /\ life[v] = "off"
        BY <1>0, <1>7, <3>3, StepReturns, FreeCall DEF Waits, TypeOK, Calls
      <4> QED
        BY <3>1, <3>3, <4>1 DEF Known, Returned
    <3>4. CASE call[v].op = "BYE"
      <4>1. Returned(v) /\ life[v] = "closing"
        BY <1>0, <1>7, <3>4, StepReturns, FreeCall DEF Waits, TypeOK, Calls
      <4> QED
        BY <3>1, <3>4, <4>1 DEF Known, Returned
    <3> QED
      BY <3>1, <3>2, <3>3, <3>4 DEF Waits
  <2> QED
    BY <1>0, <2>1, <2>2 DEF Table
<1>8. ASSUME NEW v \in VFs, SendBusy(v) PROVE Table'
  BY <1>0, <1>8 DEF SendBusy
<1>9. ASSUME NEW v \in VFs, Receive(v) PROVE Table'
  <2>1. Returned(v)
    BY <1>0, <1>9, StepReturns
  <2>2. /\ call[v].at = "wait" /\ UNCHANGED <<outbox, slots>>
        /\ Waits(call[v].op) /\ call[v].op \in Ops
    BY <1>0, <1>9, FreeCall DEF Receive, TypeOK, Calls
  <2>3. life[v] = "on" <=> life'[v] = "on" \/ (life'[v] = "closing" /\ call'[v].op = "BYE")
    <3>1. /\ life[v] = "on" \/ (life[v] = "closing" /\ call[v].op = "QCTXT_CLR")
          /\ call'[v].op # "BYE"
      BY <1>0, <2>1, <2>2, FreeCall DEF TypeOK, Calls, Waits, Returned
    <3>2. CASE life[v] = "on"
      <4>1. \E good \in BOOLEAN : \E base : Return(v, good, base)
        <5>1. (inbox[v].op = call[v].op /\ inbox[v].good) \in BOOLEAN
          OBVIOUS
        <5> QED
          BY <1>9, <5>1 DEF Receive
      <4>2. life'[v] = "on"
        BY <1>0, <2>2, <3>2, <4>1
        DEF TypeOK, Return, ReturnQrange, ReturnStart, ReturnClear, Waits, Ops
      <4> QED
        BY <3>2, <4>2
    <3>3. CASE life[v] = "closing"
      <4>1. ReturnClear(v)
        BY <1>0, <1>9, <3>1, <3>3 DEF Receive, Return
      <4>2. life'[v] = "off"
        BY <1>0, <3>3, <4>1 DEF TypeOK, ReturnClear
      <4> QED
        BY <3>3, <4>2
    <3> QED
      BY <3>1, <3>2, <3>3
  <2>4. \A w \in VFs : Known(w)' <=> Known(w)
    <3>1. call[v].op # "BYE" /\ (outbox[v] # None => outbox[v].op \notin {"HELLO", "BYE"})
      BY <1>0, <2>2 DEF Sender, Waits
    <3> QED
      BY <2>1, <2>2, <2>3, <3>1 DEF Known, Returned
  <2> QED
    BY <1>0, <2>2, <2>4 DEF Table
<1>10. ASSUME NEW v \in VFs, TimedOut(v) PROVE Table'
  BY <1>0, <1>10 DEF TimedOut
<1>11. ASSUME NEW v \in VFs, Process(v) PROVE Table'
  <2>1. PICK ok \in BOOLEAN : Handled(v, ok)
    BY <1>0, <1>11, MessageHandled
  <2>2. /\ UNCHANGED <<view, call>> /\ outbox[v] # None /\ outbox'[v] = None
        /\ \A w \in VFs : w # v => outbox'[w] = outbox[w]
        /\ v # None
    BY <1>0, <2>1, NoneAssumption, VFsAssumption DEF TypeOK, Handled
  <2>3. \A w \in VFs : w # v => (Known(w)' <=> Known(w))
    BY <2>2 DEF Known
  <2>4. CASE outbox[v].op = "HELLO"
    <3>1. ~Known(v) /\ Known(v)'
      BY <1>0, <2>2, <2>4 DEF Known, Sender
    <3>2. FreeSlots # {}
      BY <1>0, <3>1, RoomInTable
    <3>3. PICK s \in SlotIds : slots[s] = None /\ slots' = [slots EXCEPT ![s] = v]
      BY <2>1, <2>4, <3>2, SlotTaken DEF Handled
    <3>4. slots'[s] = v /\ \A t \in SlotIds : t # s => slots'[t] = slots[t]
      BY <1>0, <3>3 DEF TypeOK
    <3>5. \A t \in SlotIds : slots[t] # v
      BY <1>0, <3>1 DEF Table
    <3>6. \A t, u \in SlotIds : slots'[t] # None /\ slots'[t] = slots'[u] => t = u
      BY <1>0, <3>4, <3>5 DEF Table
    <3>7. \A w \in VFs : Known(w)' <=> \E t \in SlotIds : slots'[t] = w
      BY <1>0, <2>2, <2>3, <3>1, <3>3, <3>4, VFsAssumption DEF Table
    <3> QED
      BY <3>6, <3>7 DEF Table
  <2>5. CASE outbox[v].op = "BYE"
    <3>1. ~Known(v)'
      BY <1>0, <2>2, <2>5 DEF Known, Sender
    <3>2. slots' = [s \in SlotIds |-> IF slots[s] = v THEN None ELSE slots[s]]
      BY <2>1, <2>5 DEF Handled, Left
    <3>3. \A t \in SlotIds : slots'[t] = IF slots[t] = v THEN None ELSE slots[t]
      BY <3>2
    <3>4. \A t, u \in SlotIds : slots'[t] # None /\ slots'[t] = slots'[u] => t = u
      BY <1>0, <2>2, <3>3 DEF Table
    <3>5. \A w \in VFs : Known(w)' <=> \E t \in SlotIds : slots'[t] = w
      BY <1>0, <2>2, <2>3, <3>1, <3>3, VFsAssumption DEF Table
    <3> QED
      BY <3>4, <3>5 DEF Table
  <2>6. CASE outbox[v].op \notin {"HELLO", "BYE"}
    <3>1. (Known(v)' <=> Known(v)) /\ slots' = slots
      BY <2>1, <2>2, <2>6 DEF Known, Handled
    <3> QED
      BY <1>0, <2>3, <3>1 DEF Table
  <2> QED
    BY <2>4, <2>5, <2>6
<1>12. ASSUME Respond PROVE Table'
  BY <1>0, <1>12, FreeCall DEF TypeOK, Calls, Table, Known, Respond, TimerOff
<1>13. ASSUME RespondBusy PROVE Table'
  BY <1>0, <1>13 DEF RespondBusy
<1>14. ASSUME TimerDone PROVE Table'
  BY <1>0, <1>14, FreeCall DEF TypeOK, Calls, Table, Known, TimerDone, TimerOff
<1>15. ASSUME PfSetQmax PROVE Table'
  BY <1>0, <1>15, FreeCall DEF TypeOK, Calls, Table, Known, PfSetQmax
<1>16. ASSUME PfSetQrange PROVE Table'
  BY <1>0, <1>16, FreeCall DEF TypeOK, Calls, Table, Known, PfSetQrange
<1>17. ASSUME UNCHANGED vars PROVE Table'
  BY <1>0, <1>17, FreeCall DEF TypeOK, Calls, Table, Known, vars
<1> QED
  BY <1>1, <1>2, <1>3, <1>4, <1>5, <1>6, <1>7, <1>8, <1>9, <1>10, <1>11, <1>12, <1>13,
     <1>14, <1>15, <1>16, <1>17
  DEF Next, VfStep, PfStep

-----------------------------------------------------------------------------
(* The theorems.                                                           *)

\* The invariant holds at first.
LEMMA InitInv == Init => MboxInv
<1> SUFFICES ASSUME Init PROVE MboxInv
  OBVIOUS
<1> USE DEF Init
<1>1. \A v \in VFs : 0 \in Queues /\ call[v] = Free /\ outbox[v] = None /\ inbox[v] = None
                     /\ life[v] = "off" /\ sent[v] = 0
  BY BaseInRange, SizeAssumption
<1>2. TypeOK
  <2>1. /\ qbase \in [VFs -> Queues] /\ outbox \in [VFs -> Messages \cup {None}]
        /\ inbox \in [VFs -> Responses \cup {None}] /\ slots \in [SlotIds -> VFs \cup {None}]
        /\ fmap \in [VFs -> SUBSET Queues] /\ ctx \subseteq Queues
    BY <1>1
  <2>2. {last, done} \subseteq [VFs -> [n : Nat, good : BOOLEAN]] /\ sent \in [VFs -> Nat]
    BY DEF Nothing
  <2>3. \A v \in VFs : done[v].n <= sent[v] /\ last[v].n <= sent[v] /\ sent[v] <= MaxSent[v] + 1
    BY BoundAssumption DEF Nothing
  <2>4. pfMax \in 1 .. PfQueues /\ pf.at = "idle" /\ pf.to = None
    BY SizeAssumption DEF TimerOff
  <2> QED
    BY <2>1, <2>2, <2>3, <2>4 DEF TypeOK
<1>3. Timer /\ Bounds /\ Calls
  BY <1>1, FreeCall DEF Timer, TimerOff, Bounds, Calls, Waits
<1>4. OneMessage /\ Counted /\ Sender /\ Told
  BY <1>1, FreeCall DEF OneMessage, Answering, TimerOff, Counted, Nothing, Sender, Told
<1>5. Ranges /\ Table
  BY <1>1, VFsAssumption DEF Ranges, Table, Known
<1> QED
  BY <1>2, <1>3, <1>4, <1>5 DEF MboxInv

\* ... and every step keeps it.
LEMMA StepInv == MboxInv /\ [Next]_vars => MboxInv'
<1> SUFFICES ASSUME MboxInv, [Next]_vars PROVE MboxInv'
  OBVIOUS
<1>1. TypeOK' /\ Timer' /\ Bounds' /\ Calls'
  BY TypesKept, TimerKept, BoundsKept, CallsKept
<1>2. ASSUME prompt' PROVE prompt
  BY <1>2 DEF Next, VfStep, PfStep, Online, SetQrange, CsrGet, StartQueue, StopQueue, Offline,
              Send, SendBusy, Receive, TimedOut, Process, Respond, RespondBusy, TimerDone,
              PfSetQmax, PfSetQrange, vars
<1>3. ASSUME prompt
      PROVE  OneMessage' /\ Counted' /\ Sender' /\ Told' /\ Ranges' /\ Table'
  BY <1>3, OneMessageKept, CountedKept, SenderKept, ToldKept, RangesKept, TableKept
<1> QED
  BY <1>1, <1>2, <1>3 DEF MboxInv

\* The state of the mailbox, of its users and of the tables of the physical
\* function is what MboxInv says.
THEOREM MboxInvariant == Spec => []MboxInv
BY InitInv, StepInv, PTL DEF Spec

\* A virtual function that takes itself to have a range of queues has the one
\* that the hardware maps to it, for any number of functions and queues,
\* whatever the physical function does to its own range in the meantime.
THEOREM RangesCorrect == Spec => []RangeAgreed
<1>1. MboxInv => RangeAgreed
  BY DEF MboxInv, Ranges, RangeAgreed
<1> QED
  BY <1>1, MboxInvariant, PTL

\* The table of the physical function has each function that is online once
\* and no other, so that it never runs out of entries.
THEOREM TableCorrect == Spec => []TableExact
<1>1. ASSUME MboxInv PROVE TableExact
  <2> SUFFICES ASSUME NEW v \in VFs, prompt, outbox[v] = None, call[v] = Free
               PROVE  Cardinality({s \in SlotIds : slots[s] = v}) = IF life[v] = "on" THEN 1 ELSE 0
    BY DEF TableExact
  <2>1. v # None /\ Table /\ (Known(v) <=> life[v] = "on")
    BY <1>1, FreeCall, VFsAssumption DEF MboxInv, Known
  <2>2. CASE life[v] = "on"
    <3>1. PICK s \in SlotIds : slots[s] = v
      BY <2>1, <2>2 DEF Table
    <3>2. {t \in SlotIds : slots[t] = v} = {s}
      BY <2>1, <3>1 DEF Table
    <3> QED
      BY <2>2, <3>2, FS_Singleton
  <2>3. CASE life[v] # "on"
    <3>1. {t \in SlotIds : slots[t] = v} = {}
      BY <2>1, <2>3 DEF Table
    <3> QED
      BY <2>3, <3>1, FS_EmptySet
  <2> QED
    BY <2>2, <2>3
<1> QED
  BY <1>1, MboxInvariant, PTL

\* A queue that a virtual function has started has a valid context: the
\* contexts of other functions are never taken for its own.
THEOREM BackedCorrect == Spec => []QueueBacked
<1>1. MboxInv => QueueBacked
  BY DEF MboxInv, Ranges, QueueBacked
<1> QED
  BY <1>1, MboxInvariant, PTL

\* A step of the mailbox is one of the procedure call that MboxService
\* describes, or none that its callers can see.
LEMMA ServiceStep ==
  ASSUME MboxInv, [Next]_vars
  PROVE  [Service!Next]_(Service!vars)
<1> USE DEF view, mbox, tabs, conf, Service!vars
<1>1. CASE ~prompt
  <2>1. prompt' = prompt
    BY DEF Next, VfStep, PfStep, Online, SetQrange, CsrGet, StartQueue, StopQueue, Offline,
           Send, SendBusy, Receive, TimedOut, Process, Respond, RespondBusy, TimerDone,
           PfSetQmax, PfSetQrange, vars
  <2> QED
    BY <1>1, <2>1 DEF Service!Next
<1>2. CASE prompt
  <2>1. TypeOK /\ Timer /\ Calls /\ OneMessage /\ Counted /\ Sender /\ Told
    BY <1>2 DEF MboxInv
  <2>2. ASSUME NEW v \in VFs, Send(v) PROVE Service!Post(v) \/ Service!Ask(v)
    <3>1. /\ call[v].at = "send" /\ sent' = [sent EXCEPT ![v] = @ + 1]
          /\ UNCHANGED <<prompt, done>> /\ last[v].n = sent[v]
      BY <2>1, <2>2 DEF Send, Counted
    <3> QED
      BY <2>2, <3>1 DEF Send, Service!Post, Service!Ask
  <2>3. ASSUME NEW v \in VFs, Receive(v) PROVE \E good \in BOOLEAN : Service!Return(v, good)
    <3>1. /\ call[v].at = "wait" /\ inbox[v] # None /\ outbox[v] = None
          /\ done[v].n = sent[v] /\ last[v].n < sent[v] /\ (inbox[v].good => done[v].good)
      <4>1. sent[v] \in Nat
        BY <2>1 DEF TypeOK
      <4> QED
        BY <2>1, <2>3, <4>1 DEF Receive, OneMessage, Counted, Told, Truthful
    <3>2. PICK good \in BOOLEAN : /\ good => inbox[v].good
                                  /\ last' = [last EXCEPT ![v] = [n |-> sent[v], good |-> good]]
      <4>1. (inbox[v].op = call[v].op /\ inbox[v].good) \in BOOLEAN
        OBVIOUS
      <4> QED
        BY <2>3, <4>1 DEF Receive
    <3>3. UNCHANGED <<prompt, sent, done>>
      BY <2>3 DEF Receive
    <3> QED
      BY <3>1, <3>2, <3>3 DEF Service!Return
  <2>4. ASSUME NEW v \in VFs, Process(v) PROVE \E good \in BOOLEAN : Service!Do(v, good)
    <3>1. PICK ok \in BOOLEAN : Handled(v, ok)
      BY <2>1, <2>4, MessageHandled
    <3>2. sent[v] \in Nat /\ outbox[v] # None /\ done[v].n = sent[v] - 1
      BY <2>1, <3>1, NoneAssumption DEF TypeOK, Handled, Counted
    <3>3. done[v].n + 1 = sent[v] /\ done[v].n < sent[v]
      BY <3>2
    <3>4. done' = [done EXCEPT ![v] = [n |-> @.n + 1, good |-> ok]]
      BY <3>1, <3>3 DEF Handled
    <3>5. UNCHANGED <<prompt, sent, last>>
      BY <3>1 DEF Handled
    <3> QED
      BY <3>3, <3>4, <3>5 DEF Service!Do
  <2>5. CASE \/ \E v \in VFs : \/ Online(v) \/ SetQrange(v) \/ CsrGet(v)
                               \/ StartQueue(v) \/ StopQueue(v) \/ Offline(v)
             \/ Respond \/ TimerDone \/ PfSetQmax \/ PfSetQrange \/ UNCHANGED vars
    BY <2>5 DEF Online, SetQrange, CsrGet, StartQueue, StopQueue, Offline, Respond, TimerDone,
                PfSetQmax, PfSetQrange, vars
  <2>6. CASE RespondBusy \/ \E v \in VFs : SendBusy(v) \/ TimedOut(v)
    BY <1>2, <2>6 DEF RespondBusy, SendBusy, TimedOut
  <2> QED
    BY <2>2, <2>3, <2>4, <2>5, <2>6 DEF Next, VfStep, PfStep, Service!Next
<1> QED
  BY <1>1, <1>2 DEF MboxInv, TypeOK

\* With answers in time, messages are handled once and in order, and a call
\* that returns success was handled with success: the mailbox implements what
\* MboxService promises, for any number of functions and messages.
THEOREM ServiceRefined == Spec => ImplementsService
<1>1. Init => Service!Init
  BY DEF Init, Service!Init, Nothing, Service!Nothing
<1>2. MboxInv /\ [Next]_vars => [Service!Next]_(Service!vars)
  BY ServiceStep
<1> QED
  BY <1>1, <1>2, MboxInvariant, PTL DEF Spec, ImplementsService, Service!Spec
=============================================================================
