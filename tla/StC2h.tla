-------------------------------- MODULE StC2h --------------------------------
(***************************************************************************)
(* One streaming card-to-host (ST C2H) queue of libqdma without a packet   *)
(* handler of its own:                                                     *)
(*                                                                         *)
(*   - the driver gives the pages of a free list to the hardware, which    *)
(*     fills them with packets and writes one completion entry per packet  *)
(*     to the completion (writeback) ring;                                 *)
(*   - the service routine, run by the writeback thread or the interrupt   *)
(*     work, parses new completion entries and copies packet data to the   *)
(*     requests waiting on pend_list;                                      *)
(*   - a reader first takes data received earlier, and waits on pend_list  *)
(*     for the rest;                                                       *)
(*   - pages and completion entries go back to the hardware once all data  *)
(*     of a packet was read.                                               *)
(*                                                                         *)
(* Data is counted in units, numbered in the order of their arrival.       *)
(***************************************************************************)
EXTENDS Integers, Sequences, FiniteSetsExt

CONSTANTS
  Readers,   \* the read requests, each submitted at most once
  Count,     \* the units each of them asks for
  Impatient, \* the readers that may time out or catch a signal
  RngSz,     \* conf.rngsz = conf.rngsz_wrb, pages and completion entries
  PgSz,      \* units that fit on a page
  Lens,      \* lengths of packets
  Flawed,    \* may the hardware report a packet as bad?
  UddOnly,   \* may it send user defined data without a packet?
  Budgets,   \* budgets qdma_queue_service() is called with, 0: no limit
  MaxCmpl,   \* bound on the completion entries of a behaviour
  MaxStarts  \* bound: how often the queue is started

ASSUME ReaderAssumption == Count \in [Readers -> Nat \ {0}] /\ Impatient \subseteq Readers
ASSUME RingAssumption   == RngSz \in Nat /\ RngSz >= 2 /\ PgSz \in Nat \ {0}
ASSUME PacketAssumption == Lens \subseteq Nat /\ {Flawed, UddOnly} \subseteq BOOLEAN
ASSUME BudgetAssumption == 0 \in Budgets /\ Budgets \subseteq Nat /\ {MaxCmpl, MaxStarts} \subseteq Nat

VARIABLES
  polled,    \* xdev->num_vecs = 0
  \* struct qdma_descq and its free list flq, protected by the queue lock
  lock,      \* who holds the lock across several steps
  pendList,  \* requests waiting for data
  pidx,      \* first page not known to hold data
  pidxPend,  \* flq->pidx_pend, first page with data not read
  cidxWrb,   \* next completion entry to parse
  cidxPend,  \* cidx_wrb_pend, first entry whose packet was not read
  color,     \* color of new completion entries
  avail,     \* pages without data
  dlen,      \* flq->pkt_dlen, units received and not read
  err,       \* a bad completion entry halted the queue
  len,       \* sdesc->len of each page
  info,      \* sdesc_info of each page: is it the last of its packet, whose is it
  \* the requests
  left, got, status, pc,
  \* local variables of descq_process_completion_st_c2h()
  svc,
  \* the hardware
  page,      \* contents of the pages
  cmpl,      \* contents of the completion ring
  hwPidx,    \* next page to fill
  hwWrb, hwColor,  \* next completion entry and its color
  wbPidx,    \* index of the completion ring written back to host memory
  doorbell,  \* PIDX register: end of the pages given to the hardware
  wrbCidx,   \* WRB_CIDX register: end of the entries given to the hardware
  armed, irq,      \* interrupt of the queue enabled, raised
  sent, ncmpl,     \* units received from the card, completion entries written
  \* history
  out,       \* the units in the order in which they were read
  nparsed,   \* completion entries parsed
  starts,    \* how often the queue was started
  halted     \* a bad entry halted the queue since its last start

requests == <<left, got, status, pc>>
indices  == <<pidx, cidxWrb, color, err>>
flq      == <<pidxPend, cidxPend, avail, dlen, len, info>>
regs     == <<doorbell, wrbCidx, armed>>
hardware == <<page, cmpl, hwPidx, hwWrb, hwColor, wbPidx, sent, ncmpl>>
runs     == <<starts, halted>>
vars     == <<polled, lock, pendList, indices, flq, requests, svc, hardware, regs, irq, out, nparsed, runs>>

Slots == 0 .. RngSz - 1

-----------------------------------------------------------------------------
(* Ring arithmetic.                                                        *)

RingDelta(new, old) == IF new >= old THEN new - old ELSE new + (RngSz - old)
RingIncr(idx, cnt)  == IF idx + cnt >= RngSz THEN idx + cnt - RngSz ELSE idx + cnt
RingDecr(idx, cnt)  == IF idx >= cnt THEN idx - cnt ELSE RngSz - (cnt - idx)
Between(from, to)   == {s \in Slots : RingDelta(s, from) < RingDelta(to, from)}

NoInfo == [eop |-> FALSE, cidx |-> 0]
NoCmpl == [kind |-> "none", len |-> 0, color |-> 0, nr |-> 0]
Idle   == [phase |-> "idle", todo |-> 0, pidx |-> 0, old |-> 0]

Init ==
  /\ polled \in BOOLEAN
  /\ lock = "free" /\ pendList = <<>>
  /\ pidx = 0 /\ pidxPend = 0 /\ cidxWrb = 0 /\ cidxPend = 0 /\ color = 1
  /\ avail = RngSz - 1 /\ dlen = 0 /\ err = FALSE
  /\ len = [s \in Slots |-> PgSz]
  /\ info = [s \in Slots |-> NoInfo]
  /\ left = Count /\ got = [r \in Readers |-> <<>>]
  /\ status = [r \in Readers |-> "pending"] /\ pc = [r \in Readers |-> "idle"]
  /\ svc = Idle
  /\ page = [s \in Slots |-> <<>>]
  /\ cmpl = [s \in Slots |-> NoCmpl]
  /\ hwPidx = 0 /\ hwWrb = 0 /\ hwColor = 1 /\ wbPidx = 0
  /\ doorbell = RngSz - 1 /\ wrbCidx = 0 /\ armed = ~polled /\ irq = FALSE
  /\ sent = 0 /\ ncmpl = 0 /\ out = <<>> /\ nparsed = 0
  /\ starts = 1 /\ halted = FALSE

-----------------------------------------------------------------------------
(* descq_st_c2h_read(): copy what was received to a request.               *)

\* The pages with data not read, oldest first.
Unread == [k \in 1 .. RingDelta(pidx, pidxPend) |-> RingIncr(pidxPend, k - 1)]

\* One turn of the copy loop: from the start of page s, as much as is still
\* wanted. Counted are the pages drained and, for the last one, the units read.
ReadPage(acc, s) ==
  LET n       == Min({acc.want, len[s]})
      drained == n = len[s]
  IN  IF acc.want = 0 THEN acc
      ELSE [want  |-> acc.want - n,
            data  |-> acc.data \o SubSeq(page[s], 1, n),
            pages |-> IF drained THEN acc.pages + 1 ELSE acc.pages,
            part  |-> IF drained THEN 0 ELSE n,
            cidx  |-> IF drained /\ info[s].eop THEN info[s].cidx ELSE acc.cidx]

\* The whole loop, page after page.
ReadPages(r) ==
  LET acc[k \in 0 .. Len(Unread)] ==
        IF k = 0
        THEN [want |-> left[r], data |-> <<>>, pages |-> 0, part |-> 0, cidx |-> cidxPend]
        ELSE ReadPage(acc[k - 1], Unread[k])
  IN acc[Len(Unread)]

\* Mutant: the pages keep the lengths of the packets they held.
RecycledNot(first, n) == {}

\* qdma_flq_refill() with recycle: these pages are as good as new.
Recycled(first, n) == {s \in Slots : RingDelta(s, first) < n}

\* What a read does to request r and to the free list, the pages it drains
\* being recycled at once or later. (TLC evaluates a bound value once.)
Read(r, recycle) ==
  \E res \in {ReadPages(r)} :
    LET next == RingIncr(pidxPend, res.pages)
        back == IF recycle THEN Recycled(pidxPend, res.pages) ELSE {}
    IN /\ got' = [got EXCEPT ![r] = @ \o res.data]
       /\ out' = out \o res.data
       /\ left' = [left EXCEPT ![r] = res.want]
       /\ dlen' = dlen - Len(res.data)
       /\ pidxPend' = next
       /\ cidxPend' = res.cidx
       /\ len' = [s \in Slots |-> CASE s \in back -> PgSz
                                    [] s = next /\ res.part > 0 -> len[s] - res.part
                                    [] OTHER -> len[s]]
       /\ info' = [s \in Slots |-> IF s \in back THEN NoInfo ELSE info[s]]
       /\ avail' = avail + Cardinality(back)

\* Mutant: all pages the driver knows to hold data are given away.
PagesUpToReceived(p) == RingDecr(pidx, 1)

\* The index written to the PIDX register when p is the first page not read.
PagesUpTo(p) == RingDecr(p, 1)

\* Mutant: writing the register leaves the interrupt disabled.
RearmNot == FALSE

\* irq_en goes with every update of the WRB_CIDX register.
Rearm == ~polled

\* Mutant: everything the hardware wrote is released.
WrbUpdateAll(c) == wrbCidx' = wbPidx /\ armed' = Rearm

\* descq_wrb_cidx_update()
WrbUpdate(c) == wrbCidx' = c /\ armed' = Rearm

-----------------------------------------------------------------------------
(* qdma_request_submit_st_c2h()                                            *)

\* Under the lock: any received data not read yet?
ReadBuffered(r) ==
  /\ pc[r] = "idle"
  /\ lock = "free"
  /\ IF Unread = <<>>
     THEN UNCHANGED <<flq, left, got, doorbell, wrbCidx, armed, out>>
     ELSE /\ Read(r, TRUE)
          /\ doorbell' = PagesUpTo(pidxPend')
          /\ WrbUpdate(cidxPend')
  /\ pc' = [pc EXCEPT ![r] = IF left'[r] = 0 THEN "returned" ELSE "queue"]
  /\ status' = [status EXCEPT ![r] = IF left'[r] = 0 THEN "ok" ELSE @]
  /\ UNCHANGED <<polled, lock, pendList, indices, svc, hardware, irq, nparsed, runs>>

\* Under the lock again: wait for the rest.
Enqueue(r) ==
  /\ pc[r] = "queue"
  /\ lock = "free"
  /\ pendList' = Append(pendList, r)
  /\ WrbUpdate(cidxPend)
  /\ pc' = [pc EXCEPT ![r] = "wait"]
  /\ UNCHANGED <<polled, lock, indices, flq, left, got, status, svc, hardware, doorbell,
                 irq, out, nparsed, runs>>

\* list_del(), if r is on the list.
Unlink(l, r) ==
  IF \E i \in DOMAIN l : l[i] = r
  THEN LET i == CHOOSE j \in DOMAIN l : l[j] = r
       IN SubSeq(l, 1, i - 1) \o SubSeq(l, i + 1, Len(l))
  ELSE l

\* qdma_request_wait_for_cmpl(): done, or given up and taken off the list.
WaitOver(r) ==
  /\ pc[r] = "wait"
  /\ lock = "free"
  /\ status[r] # "pending" \/ r \in Impatient
  /\ pendList' = Unlink(pendList, r)
  /\ status' = [status EXCEPT ![r] = IF @ = "pending" THEN "error" ELSE @]
  /\ pc' = [pc EXCEPT ![r] = "returned"]
  /\ UNCHANGED <<polled, lock, indices, flq, left, got, svc, hardware, regs, irq, out, nparsed, runs>>

-----------------------------------------------------------------------------
(* descq_process_completion_st_c2h(), with the queue lock held throughout. *)

\* Entry: is there anything to do? An interrupt is over in any case.
ServiceStart(budget) ==
  LET pend == RingDelta(wbPidx, cidxWrb)
  IN /\ polled \/ irq
     /\ lock = "free"
     /\ irq' = FALSE
     /\ IF err \/ pendList = <<>> \/ pend = 0
        THEN UNCHANGED <<lock, svc>>
        ELSE /\ lock' = "service"
             /\ svc' = [phase |-> "parse", pidx |-> pidx, old |-> pidxPend,
                        todo |-> IF budget = 0 THEN pend ELSE Min({budget, pend})]
     /\ UNCHANGED <<polled, pendList, indices, flq, requests, hardware, regs, out, nparsed, runs>>

Entry == cmpl[cidxWrb]

\* parse_cmpl_entry(): a bad entry halts the queue, what was parsed before
\* in this call is forgotten.
ParseBad ==
  /\ svc.phase = "parse" /\ svc.todo > 0
  /\ Entry.kind = "bad"
  /\ err' = TRUE /\ halted' = TRUE
  /\ lock' = "free" /\ svc' = Idle
  /\ UNCHANGED <<polled, pendList, pidx, cidxWrb, color, flq, requests, hardware, regs,
                 irq, out, nparsed, starts>>

\* wrb_next(): the color changes with every lap.
NextColor == IF cidxWrb + 1 = RngSz THEN 1 - color ELSE color

WrbNext ==
  /\ cidxWrb' = RingIncr(cidxWrb, 1)
  /\ color' = NextColor
  /\ nparsed' = nparsed + 1

\* The loop goes on with another new entry.
MoreToParse == svc.todo > 0 /\ Entry.kind # "bad" /\ Entry.color = color

\* Pages taken by a packet; one of length zero takes a page as well.
PagesFor(n) == IF n = 0 THEN 1 ELSE (n + PgSz - 1) \div PgSz

\* Mutant: the entry after the next one is remembered.
EntryAfterNext == RingIncr(cidxWrb, 2)

\* The entry after the one of this packet.
EntryAfter == RingIncr(cidxWrb, 1)

\* rcv_pkt()
RcvPkt ==
  LET n    == PagesFor(Entry.len)
      used == {s \in Slots : RingDelta(s, svc.pidx) < n}
      last == RingIncr(svc.pidx, n - 1)
  IN /\ svc.phase = "parse" /\ MoreToParse /\ Entry.kind = "packet"
     /\ avail' = avail - n
     /\ len' = [len EXCEPT ![last] =
                   CASE Entry.len = 0          -> 0
                     [] Entry.len % PgSz # 0   -> Entry.len % PgSz
                     [] OTHER                  -> @]
     /\ info' = [s \in Slots |-> IF s \in used
                                 THEN [eop |-> s = last, cidx |-> EntryAfter]
                                 ELSE info[s]]
     /\ dlen' = dlen + Entry.len
     /\ svc' = [svc EXCEPT !.pidx = RingIncr(last, 1), !.todo = @ - 1]
     /\ WrbNext
     /\ UNCHANGED <<polled, lock, pendList, pidx, err, pidxPend, cidxPend, requests,
                    hardware, regs, irq, out, runs>>

\* rcv_udd_only(): no page was used.
RcvUddOnly ==
  /\ svc.phase = "parse" /\ MoreToParse /\ Entry.kind = "udd"
  /\ svc' = [svc EXCEPT !.todo = @ - 1]
  /\ WrbNext
  /\ UNCHANGED <<polled, lock, pendList, pidx, err, flq, requests, hardware, regs, irq,
                 out, runs>>

\* The new pages become visible.
ParseDone ==
  /\ svc.phase = "parse" /\ ~MoreToParse
  /\ svc.todo = 0 \/ Entry.kind # "bad"
  /\ pidx' = svc.pidx
  /\ svc' = [svc EXCEPT !.phase = "serve", !.todo = 0]
  /\ UNCHANGED <<polled, lock, pendList, cidxWrb, color, err, flq, requests, hardware,
                 regs, irq, out, nparsed, runs>>

\* qdma_c2h_packets_proc_dflt() for the first request: one that got all it
\* asked for is done, otherwise all there is was read.
ServeReader ==
  LET r == Head(pendList)
  IN /\ svc.phase = "serve" /\ pendList # <<>>
     /\ Read(r, FALSE)
     /\ IF left'[r] = 0
        THEN /\ pendList' = Tail(pendList)
             /\ status' = [status EXCEPT ![r] = "ok"]
             /\ svc' = svc
        ELSE /\ svc' = [svc EXCEPT !.phase = "refill"]
             /\ UNCHANGED <<pendList, status>>
     /\ UNCHANGED <<polled, lock, indices, pc, hardware, regs, irq, nparsed, runs>>

\* Pages drained since the lock was taken are recycled and given to the
\* hardware, and so are the completion entries of packets that were read.
Refill ==
  LET back == Recycled(svc.old, RingDelta(pidxPend, svc.old))
  IN /\ \/ svc.phase = "refill"
        \/ svc.phase = "serve" /\ pendList = <<>>
     /\ len' = [s \in Slots |-> IF s \in back THEN PgSz ELSE len[s]]
     /\ info' = [s \in Slots |-> IF s \in back THEN NoInfo ELSE info[s]]
     /\ avail' = avail + Cardinality(back)
     /\ doorbell' = IF pidxPend # svc.old THEN PagesUpTo(pidxPend) ELSE doorbell
     /\ WrbUpdate(cidxPend)
     /\ lock' = "free" /\ svc' = Idle
     /\ UNCHANGED <<polled, pendList, indices, pidxPend, cidxPend, dlen, requests,
                    hardware, irq, out, nparsed, runs>>

-----------------------------------------------------------------------------
(* The hardware (external): what libqdma relies on.                        *)

\* The entry for this and the next one do not meet the driver's index.
RoomForCmpl == RingIncr(hwWrb, 1) # wrbCidx

WriteCmpl(kind, n) ==
  /\ ncmpl < MaxCmpl
  /\ ncmpl' = ncmpl + 1
  /\ cmpl' = [cmpl EXCEPT ![hwWrb] = [kind |-> kind, len |-> n,
                                    color |-> hwColor, nr |-> ncmpl + 1]]
  /\ hwWrb' = RingIncr(hwWrb, 1)
  /\ hwColor' = IF hwWrb + 1 = RngSz THEN 1 - hwColor ELSE hwColor

\* A packet of n units fills pages, then its completion entry is written.
HwPacket(n) ==
  /\ RoomForCmpl
  /\ RingDelta(doorbell, hwPidx) >= PagesFor(n)
  /\ page' = [s \in Slots |->
        LET k == RingDelta(s, hwPidx)
        IN  IF k < PagesFor(n)
            THEN [j \in 1 .. Min({PgSz, n - k * PgSz}) |-> sent + k * PgSz + j]
            ELSE page[s]]
  /\ hwPidx' = RingIncr(hwPidx, PagesFor(n))
  /\ sent' = sent + n
  /\ WriteCmpl("packet", n)
  /\ UNCHANGED <<polled, lock, pendList, indices, flq, requests, svc, wbPidx, regs, irq,
                 out, nparsed, runs>>

\* Completion entries without a page.
HwOther(kind) ==
  /\ RoomForCmpl
  /\ IF kind = "bad" THEN Flawed ELSE UddOnly
  /\ WriteCmpl(kind, 0)
  /\ UNCHANGED <<polled, lock, pendList, indices, flq, requests, svc, page, hwPidx,
                 wbPidx, sent, regs, irq, out, nparsed, runs>>

\* The index of the completion ring is written back.
HwStatus ==
  /\ wbPidx # hwWrb
  /\ wbPidx' = hwWrb
  /\ UNCHANGED <<polled, lock, pendList, indices, flq, requests, svc, page, cmpl, hwPidx,
                 hwWrb, hwColor, sent, ncmpl, regs, irq, out, nparsed, runs>>

\* An enabled interrupt is raised when there are entries the driver has not
\* released, once until the WRB_CIDX register is written again.
HwInterrupt ==
  /\ armed /\ wbPidx # wrbCidx
  /\ irq' = TRUE /\ armed' = FALSE
  /\ UNCHANGED <<polled, lock, pendList, indices, flq, requests, svc, hardware, doorbell,
                 wrbCidx, out, nparsed, runs>>

-----------------------------------------------------------------------------
\* qdma_queue_stop() and qdma_queue_start(), while no caller has a request; the
\* queue gets rings and pages of its own, and its contexts in the hardware are
\* cleared. Data not read is lost; err is what it was. The steps, and who may
\* come in between, are in QueueLife.
Restart ==
  /\ starts < MaxStarts
  /\ lock = "free" /\ \A r \in Readers : pc[r] \in {"idle", "returned"}
  /\ starts' = starts + 1 /\ halted' = FALSE
  /\ pidx' = 0 /\ pidxPend' = 0 /\ cidxWrb' = 0 /\ cidxPend' = 0 /\ color' = 1
  /\ avail' = RngSz - 1 /\ dlen' = 0
  /\ len' = [s \in Slots |-> PgSz] /\ info' = [s \in Slots |-> NoInfo]
  /\ cmpl' = [s \in Slots |-> NoCmpl]
  /\ hwPidx' = 0 /\ hwWrb' = 0 /\ hwColor' = 1 /\ wbPidx' = 0
  /\ doorbell' = RngSz - 1 /\ WrbUpdate(0) /\ irq' = FALSE
  /\ sent' = Len(out) /\ ncmpl' = nparsed
  /\ UNCHANGED <<polled, lock, pendList, err, requests, svc, page, out, nparsed>>

Reader(r) == ReadBuffered(r) \/ Enqueue(r) \/ WaitOver(r)

Service ==
  \/ \E b \in Budgets : ServiceStart(b)
  \/ ParseBad \/ RcvPkt \/ RcvUddOnly \/ ParseDone \/ ServeReader \/ Refill

Hardware ==
  \/ \E n \in Lens : HwPacket(n)
  \/ \E kind \in {"bad", "udd"} : HwOther(kind)
  \/ HwStatus
  \/ HwInterrupt

Next ==
  \/ \E r \in Readers : Reader(r)
  \/ Service
  \/ Hardware
  \/ Restart

Spec == Init /\ [][Next]_vars

\* The service routine runs again and again when it is polled (the writeback
\* thread sleeps for five seconds at most) and after an interrupt otherwise, and
\* the hardware reports what it wrote. Nobody has to read, no packet to come.
Fairness ==
  /\ WF_vars(Service)
  /\ WF_vars(HwStatus)
  /\ WF_vars(HwInterrupt)

FairSpec == Spec /\ Fairness

-----------------------------------------------------------------------------
(* Properties.                                                             *)

\* The variables have their types.
TypeOK ==
  /\ polled \in BOOLEAN /\ lock \in {"free", "service"}
  /\ pendList \in Seq(Readers)
  /\ {pidx, pidxPend, cidxWrb, cidxPend} \subseteq Slots
  /\ color \in 0 .. 1 /\ err \in BOOLEAN
  /\ avail \in 0 .. RngSz - 1 /\ dlen \in Nat
  /\ len \in [Slots -> 0 .. PgSz]
  /\ info \in [Slots -> [eop : BOOLEAN, cidx : Slots]]
  /\ left \in [Readers -> Nat] /\ got \in [Readers -> Seq(Nat)]
  /\ status \in [Readers -> {"pending", "ok", "error"}]
  /\ pc \in [Readers -> {"idle", "queue", "wait", "returned"}]
  /\ svc \in [phase : {"idle", "parse", "serve", "refill"}, todo : Nat,
               pidx : Slots, old : Slots]
  /\ {hwPidx, hwWrb, wbPidx, doorbell, wrbCidx} \subseteq Slots
  /\ hwColor \in 0 .. 1 /\ {armed, irq} \subseteq BOOLEAN
  /\ sent \in Nat /\ {ncmpl, nparsed} \subseteq 0 .. MaxCmpl /\ out \in Seq(Nat)
  /\ starts \in Nat /\ halted \in BOOLEAN

\* Readers get the units of the stream in the order of their arrival, none
\* twice and none left out, however packets, pages and reads overlap; and the
\* variables have their types.
StreamInOrder ==
  /\ TypeOK
  /\ \A i \in DOMAIN out : out[i] = i

\* The hardware does not fill a page again before its data was read.
UnreadKept ==
  [][\A s \in Between(pidxPend, hwPidx) : page'[s] = page[s]]_vars

\* Every completion entry is parsed once, in the order in which they were
\* written: none is overwritten before, none of an earlier lap is taken again.
EntriesInOrder ==
  svc.phase = "parse" /\ svc.todo > 0 => Entry.nr = nparsed + 1 /\ Entry.color = color

\* Units on the first k pages with data not read.
UnitsOn[k \in 0 .. Len(Unread)] == IF k = 0 THEN 0 ELSE UnitsOn[k - 1] + len[Unread[k]]

\* Outside the critical sections the counters of the free list are exact:
\* qdma_queue_avail_desc() and qdma_queue_c2h_peek() tell the truth. A bad entry
\* in the middle of a batch spoils them until the queue is started again.
FreeListExact ==
  lock = "free" /\ ~halted =>
    /\ avail = RngSz - 1 - Len(Unread)
    /\ dlen = UnitsOn[Len(Unread)]

\* Once all data received was read, every completion entry is back with the
\* hardware, but those without a packet that came last.
CmplReturned ==
  lock = "free" /\ ~halted /\ Unread = <<>> =>
    \A e \in Between(wrbCidx, cidxWrb) : cmpl[e].kind = "udd"

\* While a reader waits, completion entries do not stay unparsed forever. In
\* interrupt mode this needs every parsed entry to be released: otherwise the
\* interrupt of the reader may come early, for an entry parsed before, and be
\* used up, as the service routine enables it only after parsing something.
EntriesParsed ==
  pendList # <<>> /\ cidxWrb # hwWrb ~>
    \/ pendList = <<>> \/ cidxWrb = hwWrb \/ err
    \/ ~polled /\ wrbCidx # cidxWrb
=============================================================================
