--------------------------- MODULE IntrAggrProofs ---------------------------
(***************************************************************************)
(* Proofs about IntrAggr for every set of queues and of errors, any number *)
(* of status registers and any size of the aggregation ring, with and      *)
(* without aggregation.                                                    *)
(***************************************************************************)
EXTENDS IntrAggr, TLAPS

-----------------------------------------------------------------------------
(* The inductive invariant.                                                *)

\* The color of the lap in which entry number n + 1 is written or handled.
ColorOf(n) == IF (n \div Entries) % 2 = 0 THEN 1 ELSE 0

\* As many entries were handled as there are numbers in the log, and the
\* handler is at the next one, with the color it has if it was written.
Handled ==
  /\ \A i \in 1 .. Len(log) : log[i] = i
  /\ Len(log) <= written
  /\ cidx = Len(log) % Entries /\ color = ColorOf(Len(log))

\* The index the hardware was given is that of an entry up to here, and the
\* hardware is less than a lap ahead of it.
Room == \E n \in 0 .. Len(log) : cidxReg = n % Entries /\ written < n + Entries

\* The slots hold the entries of the last lap, and nothing new before.
Filled ==
  /\ \A n \in Nat : n < written /\ written <= n + Entries =>
       ring[n % Entries].color = ColorOf(n) /\ ring[n % Entries].nr = n + 1
  /\ \A s \in Slots : written <= s => ring[s].color = 0

\* The handler walks the ring if there is one; an entry that has error_int
\* stays to be counted while the status registers are read.
Walking ==
  /\ ~coal => pc \notin {"entry", "update"}
  /\ coal => ~errIrq
  /\ coal /\ pc \in {"read", "clear"} => Len(log) < written

\* What will be written back to a status register was read from it; its
\* errors were reported and have not happened again.
Clearing ==
  pc = "clear" =>
    /\ reg <= NRegs
    /\ IF reg = 0 THEN bits \subseteq 1 .. NRegs ELSE bits \subseteq stat \cap reported

\* EntriesInOrder is not inductive alone: that the color tells old entries
\* from new ones needs that the hardware never laps the handler.
IntrInv == TypeOK /\ Handled /\ Room /\ Filled /\ Walking /\ Clearing

-----------------------------------------------------------------------------
(* Laps of the ring.                                                       *)

\* Numbers less than e apart have different remainders.
LEMMA LessThanLap ==
  ASSUME NEW e \in Nat \ {0}, NEW n \in Nat, NEW k \in 1 .. e - 1
  PROVE  (n + k) % e # n % e
<1> SUFFICES ASSUME (n + k) % e = n % e PROVE FALSE
  OBVIOUS
<1> DEFINE r == n % e
           q == n \div e
           p == (n + k) \div e
<1>1. r \in 0 .. e - 1 /\ q \in Nat /\ n = e * q + r
  OBVIOUS
<1>2. p \in Nat /\ n + k = e * p + r
  OBVIOUS
<1> HIDE DEF r, q, p
<1>3. CASE p > q
  <2>1. e * p >= e * (q + 1) /\ e * (q + 1) = e * q + e
    BY <1>1, <1>2, <1>3
  <2> QED
    BY <1>1, <1>2, <2>1
<1>4. CASE p <= q
  <2>1. e * p <= e * q
    BY <1>1, <1>2, <1>4
  <2> QED
    BY <1>1, <1>2, <2>1
<1> QED
  BY <1>1, <1>2, <1>3, <1>4

\* Slot and color of the next entry, and of the one a lap later; entries less
\* than a lap apart have different slots.
LEMMA Laps ==
  ASSUME NEW n \in Nat
  PROVE  /\ n % Entries \in Slots /\ ColorOf(n) \in {0, 1}
         /\ (n + 1) % Entries = (IF (n % Entries) + 1 = Entries THEN 0 ELSE (n % Entries) + 1)
         /\ ColorOf(n + 1) = (IF (n % Entries) + 1 = Entries THEN 1 - ColorOf(n) ELSE ColorOf(n))
         /\ (n + Entries) % Entries = n % Entries
         /\ ColorOf(n + Entries) = 1 - ColorOf(n)
         /\ \A k \in 1 .. Entries - 1 : (n + k) % Entries # n % Entries
<1>1. Entries \in Nat \ {0}
  BY EntriesAssumption
<1>2. n % Entries \in 0 .. Entries - 1 /\ n \div Entries \in Nat
  BY <1>1
<1>3. /\ (n + 1) % Entries = (IF (n % Entries) + 1 = Entries THEN 0 ELSE (n % Entries) + 1)
      /\ (n + 1) \div Entries = (IF (n % Entries) + 1 = Entries THEN (n \div Entries) + 1
                                 ELSE n \div Entries)
  BY <1>1
<1>4. (n + Entries) % Entries = n % Entries /\ (n + Entries) \div Entries = (n \div Entries) + 1
  BY <1>1
<1>5. \A k \in 1 .. Entries - 1 : (n + k) % Entries # n % Entries
  BY <1>1, LessThanLap
<1>6. \A m \in Nat : (m + 1) % 2 = 1 - (m % 2) /\ m % 2 \in {0, 1}
  OBVIOUS
<1>7. ColorOf(n) = 1 - ((n \div Entries) % 2)
  BY <1>2, <1>6 DEF ColorOf
<1>8. ColorOf(n + 1) = 1 - (((n + 1) \div Entries) % 2)
  BY <1>2, <1>3, <1>6 DEF ColorOf
<1>9. ColorOf(n + Entries) = 1 - (((n + Entries) \div Entries) % 2)
  BY <1>2, <1>4, <1>6 DEF ColorOf
<1>10. ColorOf(n) \in {0, 1}
  BY DEF ColorOf
<1>11. ColorOf(n + 1) = (IF (n % Entries) + 1 = Entries THEN 1 - ColorOf(n) ELSE ColorOf(n))
  BY <1>2, <1>3, <1>6, <1>7, <1>8
<1>12. ColorOf(n + Entries) = 1 - ColorOf(n)
  BY <1>2, <1>4, <1>6, <1>7, <1>9
<1> QED
  BY <1>2, <1>3, <1>4, <1>5, <1>10, <1>11, <1>12 DEF Slots

\* In the first lap the slot of an entry is its number.
LEMMA FirstLap ==
  ASSUME NEW n \in Nat, n < Entries
  PROVE  n % Entries = n /\ ColorOf(n) = 1
<1>1. Entries \in Nat \ {0} /\ n % Entries = n /\ n \div Entries = 0
  BY EntriesAssumption
<1> QED
  BY <1>1 DEF ColorOf

\* The color tells whether the entry the handler looks at was written: the
\* number of a new one is the next.
LEMMA ColorTells ==
  ASSUME IntrInv
  PROVE  /\ NewEntry <=> Len(log) < written
         /\ Len(log) < written => ring[cidx].nr = Len(log) + 1
<1> DEFINE h == Len(log)
<1>1. /\ h \in Nat /\ written \in Nat /\ h <= written /\ written < h + Entries
      /\ Entries \in Nat \ {0}
  BY EntriesAssumption DEF IntrInv, TypeOK, Handled, Room
<1>2. cidx = h % Entries /\ color = ColorOf(h) /\ ColorOf(h) \in {0, 1}
  BY <1>1, Laps DEF IntrInv, Handled
<1> HIDE DEF h
<1>3. CASE h < written
  BY <1>1, <1>2, <1>3 DEF IntrInv, Filled, NewEntry, h
<1>4. CASE h = written /\ h < Entries
  <2>1. cidx = h /\ color = 1 /\ cidx \in Slots
    BY <1>1, <1>2, <1>4, FirstLap DEF Slots
  <2>2. ring[cidx].color = 0
    BY <2>1, <1>1, <1>4 DEF IntrInv, Filled
  <2> QED
    BY <1>4, <2>1, <2>2 DEF NewEntry, h
<1>5. CASE h = written /\ h >= Entries
  <2> DEFINE n == h - Entries
  <2>1. n \in Nat /\ n < written /\ written <= n + Entries /\ h = n + Entries
    BY <1>1, <1>5
  <2>2. n % Entries = cidx /\ color = 1 - ColorOf(n) /\ ColorOf(n) \in {0, 1}
    BY <1>2, <2>1, Laps
  <2>3. ring[cidx].color = ColorOf(n)
    BY <2>1, <2>2 DEF IntrInv, Filled
  <2> QED
    BY <1>5, <2>2, <2>3 DEF NewEntry, h
<1> QED
  BY <1>1, <1>3, <1>4, <1>5 DEF h

-----------------------------------------------------------------------------
(* Every step keeps the invariant.                                         *)

\* A step that has to do with entries writes one, handles one, or writes the
\* index register; the others leave the ring alone.
LEMMA RingSteps ==
  ASSUME IntrInv, [Next]_vars
  PROVE  \/ \E s \in Queues \cup {Error} : HwEntry(s)
         \/ Advance /\ Len(log) < written /\ UNCHANGED <<ring, written, cidxReg>>
         \/ AggregateUpdate
         \/ UNCHANGED <<ring, written, cidxReg, cidx, color, log>>
<1> USE DEF hwQueues, hwRing, hwErrors, coalConf, handler
<1> DEFINE Same == UNCHANGED <<ring, written, cidxReg, cidx, color, log>>
<1>1. ASSUME NEW q \in Queues, HwEvent(q) \/ Work(q) PROVE Same
  BY <1>1 DEF HwEvent, Work
<1>2. ASSUME NEW e \in Errors, HwError(e) PROVE Same
  BY <1>2 DEF HwError
<1>3. ASSUME NEW s \in Queues \cup {Error}, HwDirect(s) PROVE Same
  BY <1>3 DEF HwDirect
<1>4. ASSUME \/ HwErrorIrq \/ DirectIntr \/ AggregateStart \/ AggregateError \/ AggregateEnd
             \/ ErrorIntr \/ ErrRead \/ ErrClear \/ UNCHANGED vars
      PROVE  Same
  BY <1>4 DEF HwErrorIrq, DirectIntr, AggregateStart, AggregateError, AggregateEnd, ErrorIntr,
              ErrRead, ErrClear, vars
<1>5. ASSUME AggregateQueue
      PROVE  Advance /\ Len(log) < written /\ UNCHANGED <<ring, written, cidxReg>>
  BY <1>5, ColorTells DEF AggregateQueue
<1>6. ASSUME ErrDone
      PROVE  \/ Advance /\ Len(log) < written /\ UNCHANGED <<ring, written, cidxReg>>
             \/ Same
  BY <1>6 DEF ErrDone, IntrInv, Walking
<1> QED
  BY <1>1, <1>2, <1>3, <1>4, <1>5, <1>6 DEF Next, HwInterrupts, Handler

\* Entries are handled one after the other.
LEMMA HandledKept ==
  ASSUME IntrInv, [Next]_vars
  PROVE  Handled'
<1>0. /\ TypeOK /\ Handled /\ log \in Seq(Nat) /\ Len(log) \in Nat /\ written \in Nat
      /\ Entries \in Nat
  BY EntriesAssumption DEF IntrInv, TypeOK
<1>1. ASSUME NEW s \in Queues \cup {Error}, HwEntry(s) PROVE Handled'
  <2>1. written' = written + 1 /\ UNCHANGED <<log, cidx, color>>
    BY <1>1 DEF HwEntry, coalConf
  <2> QED
    BY <1>0, <2>1 DEF Handled, ColorOf
<1>2. ASSUME Advance, Len(log) < written, UNCHANGED written PROVE Handled'
  <2>1. ring[cidx].nr = Len(log) + 1
    BY <1>2, ColorTells
  <2>2. log' = Append(log, Len(log) + 1) /\ Len(log') = Len(log) + 1
    BY <1>0, <1>2, <2>1 DEF Advance
  <2>3. \A i \in 1 .. Len(log') : log'[i] = i
    BY <1>0, <2>2 DEF Handled
  <2>4. cidx' = (Len(log) + 1) % Entries /\ color' = ColorOf(Len(log) + 1)
    BY <1>0, <1>2, Laps DEF Advance, NextIndex, LapOver, Handled
  <2> QED
    BY <1>0, <1>2, <2>2, <2>3, <2>4 DEF Handled, ColorOf
<1>3. ASSUME AggregateUpdate PROVE Handled'
  BY <1>0, <1>3 DEF AggregateUpdate, Handled, ColorOf, coalConf
<1>4. ASSUME UNCHANGED <<ring, written, cidxReg, cidx, color, log>> PROVE Handled'
  BY <1>0, <1>4 DEF Handled, ColorOf
<1> QED
  BY <1>1, <1>2, <1>3, <1>4, RingSteps

\* The hardware stops a slot before it would lap the index it was given.
LEMMA RoomKept ==
  ASSUME IntrInv, [Next]_vars
  PROVE  Room'
<1>0. /\ TypeOK /\ Handled /\ log \in Seq(Nat) /\ Len(log) \in Nat /\ written \in Nat
      /\ Entries \in Nat \ {0}
  <2>1. TypeOK /\ Handled /\ Entries \in Nat \ {0}
    BY EntriesAssumption DEF IntrInv
  <2> QED
    BY <2>1 DEF TypeOK
<1>1. PICK n \in 0 .. Len(log) : cidxReg = n % Entries /\ written < n + Entries
  BY DEF IntrInv, Room
<1>2. ASSUME NEW s \in Queues \cup {Error}, HwEntry(s) PROVE Room'
  <2>1. /\ written' = written + 1 /\ UNCHANGED <<log, cidxReg>>
        /\ (written + 1) % Entries # cidxReg
    BY <1>2 DEF HwEntry, coalConf
  <2>2. written + 1 # n + Entries
    <3>1. n \in Nat /\ (n + Entries) % Entries = n % Entries
      BY <1>0, Laps
    <3> QED
      BY <1>1, <2>1, <3>1
  <2> QED
    BY <1>0, <1>1, <2>1, <2>2 DEF Room
<1>3. ASSUME Advance, UNCHANGED <<written, cidxReg>> PROVE Room'
  <2>1. Len(log') = Len(log) + 1
    BY <1>0, <1>3 DEF Advance, TypeOK
  <2> QED
    BY <1>0, <1>1, <1>3, <2>1 DEF Room
<1>4. ASSUME AggregateUpdate PROVE Room'
  <2>1. /\ cidxReg' = Len(log) % Entries /\ UNCHANGED <<log, written>>
    BY <1>0, <1>4 DEF AggregateUpdate, IndexToWrite, Handled, coalConf
  <2>2. written < Len(log) + Entries
    BY <1>0, <1>1
  <2> QED
    BY <1>0, <2>1, <2>2 DEF Room
<1>5. ASSUME UNCHANGED <<ring, written, cidxReg, cidx, color, log>> PROVE Room'
  BY <1>1, <1>5 DEF Room
<1> QED
  BY <1>2, <1>3, <1>4, <1>5, RingSteps

\* A new entry goes to the slot of the oldest one.
LEMMA FilledKept ==
  ASSUME IntrInv, [Next]_vars
  PROVE  Filled'
<1>0. TypeOK /\ Filled /\ written \in Nat /\ Entries \in Nat \ {0}
  BY EntriesAssumption DEF IntrInv, TypeOK
<1>1. ASSUME NEW s \in Queues \cup {Error}, HwEntry(s) PROVE Filled'
  <2> DEFINE w == written
             new == [color |-> ColorOf(w), from |-> s, nr |-> w + 1]
  <2>1. ring' = [ring EXCEPT ![w % Entries] = new] /\ written' = w + 1
    BY <1>1 DEF HwEntry, ColorOf
  <2>2. ring'[w % Entries] = new /\ \A t \in Slots : t # w % Entries => ring'[t] = ring[t]
    BY <1>0, <2>1, Laps DEF TypeOK
  <2>3. ASSUME NEW n \in Nat, n < w + 1, w + 1 <= n + Entries
        PROVE  ring'[n % Entries].color = ColorOf(n) /\ ring'[n % Entries].nr = n + 1
    <3>1. CASE n = w
      BY <3>1, <2>2
    <3>2. CASE n # w
      <4>1. w - n \in 1 .. Entries - 1 /\ w = n + (w - n)
        BY <1>0, <2>3, <3>2
      <4>2. w % Entries # n % Entries /\ n % Entries \in Slots
        BY <4>1, Laps
      <4>3. ring[n % Entries].color = ColorOf(n) /\ ring[n % Entries].nr = n + 1
        BY <1>0, <2>3, <3>2 DEF Filled
      <4> QED
        BY <2>2, <4>2, <4>3
    <3> QED
      BY <3>1, <3>2
  <2>4. ASSUME NEW t \in Slots, w + 1 <= t PROVE ring'[t].color = 0
    <3>1. w < Entries /\ w < t /\ w \in Nat
      BY <1>0, <2>4 DEF Slots
    <3>2. w % Entries = w
      BY <3>1, FirstLap
    <3> QED
      BY <1>0, <2>2, <3>1, <3>2 DEF Filled, Slots
  <2> HIDE DEF w
  <2> QED
    BY <2>1, <2>3, <2>4 DEF Filled, ColorOf, Slots
<1>2. ASSUME UNCHANGED <<ring, written>> PROVE Filled'
  BY <1>0, <1>2 DEF Filled, ColorOf, Slots
<1>3. ASSUME AggregateUpdate PROVE Filled'
  BY <1>2, <1>3 DEF AggregateUpdate
<1> QED
  BY <1>1, <1>2, <1>3, RingSteps

\* What the handler counts when it goes on with the next entry.
LEMMA AdvanceTypes ==
  ASSUME TypeOK, Advance
  PROVE  cidx' \in Slots /\ color' \in {0, 1} /\ log' \in Seq(Nat) /\ found' \in BOOLEAN
<1>1. Entries \in Nat /\ Entries > 1 /\ cidx \in 0 .. Entries - 1 /\ color \in {0, 1}
  BY EntriesAssumption DEF TypeOK, Slots
<1>2. cidx' \in Slots
  BY <1>1 DEF Advance, NextIndex, Slots
<1>3. color' \in {0, 1}
  BY <1>1 DEF Advance
<1>4. ring[cidx].nr \in Nat
  BY DEF TypeOK
<1> QED
  BY <1>2, <1>3, <1>4 DEF Advance, TypeOK

\* The types: indices stay in the ring, registers are read up to the last.
LEMMA TypesKept ==
  ASSUME IntrInv, [Next]_vars
  PROVE  TypeOK'
<1> USE DEF hwQueues, hwRing, hwErrors, coalConf, handler
<1>0. /\ TypeOK /\ Clearing /\ NRegs \in Nat /\ Entries \in Nat \ {0}
      /\ \A e \in Errors : Reg[e] \in 1 .. NRegs
      /\ Entries > 1
  BY EntriesAssumption, RegAssumption DEF IntrInv
<1>1. ASSUME NEW q \in Queues, HwEvent(q) PROVE TypeOK'
  BY <1>0, <1>1, ErrorAssumption, BoundAssumption DEF TypeOK, HwEvent
<1>2. ASSUME NEW e \in Errors, HwError(e) PROVE TypeOK'
  <2>1. errors' \in 0 .. MaxErrors
    BY <1>0, <1>2, BoundAssumption DEF TypeOK, HwError
  <2>2. stat' \subseteq Errors /\ reported' \subseteq Errors /\ glbl' \subseteq 1 .. NRegs
    BY <1>0, <1>2 DEF TypeOK, HwError
  <2> QED
    BY <1>0, <1>2, <2>1, <2>2 DEF TypeOK, HwError
<1>3. ASSUME HwErrorIrq PROVE TypeOK'
  BY <1>0, <1>3, ErrorAssumption, BoundAssumption DEF TypeOK, HwErrorIrq, Glbl
<1>4. ASSUME NEW s \in Queues \cup {Error}, HwEntry(s) PROVE TypeOK'
  <2>1. written % Entries \in Slots /\ written + 1 \in Nat
    <3>1. written \in Nat
      BY <1>0 DEF TypeOK
    <3> QED
      BY <3>1, Laps
  <2>2. ring' \in [Slots -> [color : {0, 1}, from : Queues \cup {Error}, nr : Nat]]
    BY <1>0, <1>4, <2>1 DEF TypeOK, HwEntry
  <2> QED
    BY <1>0, <1>4, <2>1, <2>2 DEF TypeOK, HwEntry
<1>5. ASSUME NEW s \in Queues \cup {Error}, HwDirect(s) PROVE TypeOK'
  BY <1>0, <1>5, ErrorAssumption, BoundAssumption DEF TypeOK, HwDirect
<1>6. ASSUME DirectIntr PROVE TypeOK'
  BY <1>0, <1>6, ErrorAssumption, BoundAssumption
  DEF TypeOK, DirectIntr, Scheduled, VectorQueues
<1>7. ASSUME AggregateStart PROVE TypeOK'
  BY <1>0, <1>7, ErrorAssumption, BoundAssumption DEF TypeOK, AggregateStart
<1>8. ASSUME AggregateQueue PROVE TypeOK'
  <2>1. cidx' \in Slots /\ color' \in {0, 1} /\ log' \in Seq(Nat) /\ found' \in BOOLEAN
    BY <1>0, <1>8, AdvanceTypes DEF AggregateQueue
  <2>2. queued' \subseteq Queues
    BY <1>0, <1>8 DEF TypeOK, AggregateQueue, Scheduled
  <2> QED
    BY <1>0, <1>8, <2>1, <2>2 DEF TypeOK, AggregateQueue
<1>9. ASSUME AggregateError PROVE TypeOK'
  BY <1>0, <1>9, ErrorAssumption, BoundAssumption DEF TypeOK, AggregateError
<1>10. ASSUME AggregateEnd PROVE TypeOK'
  BY <1>0, <1>10, ErrorAssumption, BoundAssumption DEF TypeOK, AggregateEnd
<1>11. ASSUME AggregateUpdate PROVE TypeOK'
  BY <1>0, <1>11, ErrorAssumption, BoundAssumption DEF TypeOK, AggregateUpdate, IndexToWrite
<1>12. ASSUME ErrorIntr PROVE TypeOK'
  <2>1. reg' \in 0 .. NRegs + 1
    BY <1>0, <1>12 DEF ErrorIntr
  <2> QED
    BY <1>0, <1>12, <2>1 DEF TypeOK, ErrorIntr
<1>13. ASSUME ErrRead PROVE TypeOK'
  <2>1. StatusOf(reg) \subseteq IF reg = 0 THEN 1 .. NRegs ELSE Errors
    BY <1>0 DEF TypeOK, StatusOf, Glbl
  <2>2. reg' \in 0 .. NRegs + 1
    BY <1>0, <1>13 DEF TypeOK, ErrRead
  <2>3. /\ glbBits' \subseteq 1 .. NRegs /\ reported' \subseteq Errors
        /\ bits' \subseteq Errors \cup 1 .. NRegs
    BY <1>0, <1>13, <2>1 DEF TypeOK, ErrRead
  <2> QED
    BY <1>0, <1>13, <2>2, <2>3 DEF TypeOK, ErrRead
<1>14. ASSUME ErrClear PROVE TypeOK'
  <2>1. reg + 1 \in 0 .. NRegs + 1
    BY <1>0, <1>14 DEF TypeOK, Clearing, ErrClear
  <2> QED
    BY <1>0, <1>14, <2>1 DEF TypeOK, ErrClear, BitsToClear
<1>15. ASSUME ErrDone PROVE TypeOK'
  <2>1. cidx' \in Slots /\ color' \in {0, 1} /\ log' \in Seq(Nat) /\ found' \in BOOLEAN
    BY <1>0, <1>15, AdvanceTypes DEF ErrDone, TypeOK
  <2>2. glbl' \subseteq 1 .. NRegs /\ armed' \in BOOLEAN /\ pc' \in {"entry", "idle"}
    BY <1>0, <1>15 DEF TypeOK, ErrDone, Rearm
  <2> QED
    BY <1>0, <1>15, <2>1, <2>2 DEF TypeOK, ErrDone
<1>16. ASSUME NEW q \in Queues, Work(q) PROVE TypeOK'
  BY <1>0, <1>16, ErrorAssumption, BoundAssumption DEF TypeOK, Work
<1>17. ASSUME UNCHANGED vars PROVE TypeOK'
  BY <1>0, <1>17, ErrorAssumption, BoundAssumption DEF TypeOK, vars
<1> QED
  BY <1>1, <1>2, <1>3, <1>4, <1>5, <1>6, <1>7, <1>8, <1>9, <1>10, <1>11, <1>12, <1>13,
     <1>14, <1>15, <1>16, <1>17
  DEF Next, HwInterrupts, Handler

\* The handler reads status registers only for an entry that is there.
LEMMA WalkingKept ==
  ASSUME IntrInv, [Next]_vars
  PROVE  Walking'
<1> USE DEF hwQueues, hwRing, hwErrors, coalConf, handler
<1>0. TypeOK /\ Walking /\ (NewEntry <=> Len(log) < written) /\ written \in Nat
  BY ColorTells DEF IntrInv, TypeOK
<1>1. ASSUME NEW q \in Queues, HwEvent(q) PROVE Walking'
  BY <1>0, <1>1 DEF TypeOK, Walking, HwEvent
<1>2. ASSUME NEW e \in Errors, HwError(e) PROVE Walking'
  BY <1>0, <1>2 DEF TypeOK, Walking, HwError
<1>3. ASSUME HwErrorIrq PROVE Walking'
  BY <1>0, <1>3 DEF TypeOK, Walking, HwErrorIrq, Glbl
<1>4. ASSUME NEW s \in Queues \cup {Error}, HwEntry(s) PROVE Walking'
  BY <1>0, <1>4 DEF TypeOK, Walking, HwEntry
<1>5. ASSUME NEW s \in Queues \cup {Error}, HwDirect(s) PROVE Walking'
  BY <1>0, <1>5 DEF TypeOK, Walking, HwDirect
<1>6. ASSUME DirectIntr PROVE Walking'
  BY <1>0, <1>6 DEF TypeOK, Walking, DirectIntr, Scheduled, VectorQueues
<1>7. ASSUME AggregateStart PROVE Walking'
  BY <1>0, <1>7 DEF TypeOK, Walking, AggregateStart
<1>8. ASSUME AggregateQueue PROVE Walking'
  BY <1>0, <1>8 DEF TypeOK, Walking, AggregateQueue, Scheduled
<1>9. ASSUME AggregateError PROVE Walking'
  BY <1>0, <1>9 DEF TypeOK, Walking, AggregateError
<1>10. ASSUME AggregateEnd PROVE Walking'
  BY <1>0, <1>10 DEF TypeOK, Walking, AggregateEnd
<1>11. ASSUME AggregateUpdate PROVE Walking'
  BY <1>0, <1>11 DEF TypeOK, Walking, AggregateUpdate, IndexToWrite
<1>12. ASSUME ErrorIntr PROVE Walking'
  BY <1>0, <1>12 DEF TypeOK, Walking, ErrorIntr
<1>13. ASSUME ErrRead PROVE Walking'
  BY <1>0, <1>13 DEF TypeOK, Walking, ErrRead
<1>14. ASSUME ErrClear PROVE Walking'
  BY <1>0, <1>14 DEF TypeOK, Walking, ErrClear, BitsToClear
<1>15. ASSUME ErrDone PROVE Walking'
  BY <1>0, <1>15 DEF TypeOK, Walking, ErrDone, Rearm
<1>16. ASSUME NEW q \in Queues, Work(q) PROVE Walking'
  BY <1>0, <1>16 DEF TypeOK, Walking, Work
<1>17. ASSUME UNCHANGED vars PROVE Walking'
  BY <1>0, <1>17 DEF TypeOK, Walking, vars
<1> QED
  BY <1>1, <1>2, <1>3, <1>4, <1>5, <1>6, <1>7, <1>8, <1>9, <1>10, <1>11, <1>12, <1>13,
     <1>14, <1>15, <1>16, <1>17
  DEF Next, HwInterrupts, Handler

\* An error that happens again sets a bit that was not set.
LEMMA ClearingKept ==
  ASSUME IntrInv, [Next]_vars
  PROVE  Clearing'
<1> USE DEF hwQueues, hwRing, hwErrors, coalConf, handler
<1>0. TypeOK /\ Clearing /\ \A e \in Errors : Reg[e] \in 1 .. NRegs
  BY RegAssumption DEF IntrInv
<1>1. ASSUME NEW q \in Queues, HwEvent(q) PROVE Clearing'
  BY <1>0, <1>1 DEF TypeOK, Clearing, HwEvent
<1>2. ASSUME NEW e \in Errors, HwError(e) PROVE Clearing'
  BY <1>0, <1>2 DEF TypeOK, Clearing, HwError
<1>3. ASSUME HwErrorIrq PROVE Clearing'
  BY <1>0, <1>3 DEF TypeOK, Clearing, HwErrorIrq, Glbl
<1>4. ASSUME NEW s \in Queues \cup {Error}, HwEntry(s) PROVE Clearing'
  BY <1>0, <1>4 DEF TypeOK, Clearing, HwEntry
<1>5. ASSUME NEW s \in Queues \cup {Error}, HwDirect(s) PROVE Clearing'
  BY <1>0, <1>5 DEF TypeOK, Clearing, HwDirect
<1>6. ASSUME DirectIntr PROVE Clearing'
  BY <1>0, <1>6 DEF TypeOK, Clearing, DirectIntr, Scheduled, VectorQueues
<1>7. ASSUME AggregateStart PROVE Clearing'
  BY <1>0, <1>7 DEF TypeOK, Clearing, AggregateStart
<1>8. ASSUME AggregateQueue PROVE Clearing'
  BY <1>0, <1>8 DEF TypeOK, Clearing, AggregateQueue, Scheduled
<1>9. ASSUME AggregateError PROVE Clearing'
  BY <1>0, <1>9 DEF TypeOK, Clearing, AggregateError
<1>10. ASSUME AggregateEnd PROVE Clearing'
  BY <1>0, <1>10 DEF TypeOK, Clearing, AggregateEnd
<1>11. ASSUME AggregateUpdate PROVE Clearing'
  BY <1>0, <1>11 DEF TypeOK, Clearing, AggregateUpdate, IndexToWrite
<1>12. ASSUME ErrorIntr PROVE Clearing'
  BY <1>0, <1>12 DEF TypeOK, Clearing, ErrorIntr
<1>13. ASSUME ErrRead PROVE Clearing'
  <2>1. StatusOf(reg) \subseteq IF reg = 0 THEN 1 .. NRegs ELSE stat
    BY <1>0 DEF TypeOK, StatusOf, Glbl
  <2> QED
    BY <1>0, <1>13, <2>1 DEF TypeOK, Clearing, ErrRead
<1>14. ASSUME ErrClear PROVE Clearing'
  BY <1>0, <1>14 DEF TypeOK, Clearing, ErrClear, BitsToClear
<1>15. ASSUME ErrDone PROVE Clearing'
  BY <1>0, <1>15 DEF TypeOK, Clearing, ErrDone, Rearm
<1>16. ASSUME NEW q \in Queues, Work(q) PROVE Clearing'
  BY <1>0, <1>16 DEF TypeOK, Clearing, Work
<1>17. ASSUME UNCHANGED vars PROVE Clearing'
  BY <1>0, <1>17 DEF TypeOK, Clearing, vars
<1> QED
  BY <1>1, <1>2, <1>3, <1>4, <1>5, <1>6, <1>7, <1>8, <1>9, <1>10, <1>11, <1>12, <1>13,
     <1>14, <1>15, <1>16, <1>17
  DEF Next, HwInterrupts, Handler

\* Before the first interrupt the ring is empty.
LEMMA InitIntr ==
  ASSUME Init
  PROVE  IntrInv
<1>1. Entries \in Nat \ {0} /\ NRegs \in Nat /\ MaxEvents \in Nat /\ MaxErrors \in Nat
  BY EntriesAssumption, RegAssumption, BoundAssumption
<1>2. 0 \in Slots /\ 0 % Entries = 0 /\ ColorOf(0) = 1 /\ log = <<>> /\ Len(log) = 0
  BY <1>1, FirstLap DEF Init, Slots
<1>3. TypeOK
  <2>1. EmptyRing \in [Slots -> [color : {0, 1}, from : Queues \cup {Error}, nr : Nat]]
    BY DEF EmptyRing
  <2>2. 0 \in 0 .. NRegs + 1 /\ 0 \in 0 .. MaxEvents /\ 0 \in 0 .. MaxErrors
    BY <1>1
  <2>3. ring \in [Slots -> [color : {0, 1}, from : Queues \cup {Error}, nr : Nat]]
    BY <2>1 DEF Init
  <2>4. /\ events \in 0 .. MaxEvents /\ errors \in 0 .. MaxErrors /\ reg \in 0 .. NRegs + 1
        /\ written \in Nat /\ cidxReg \in Slots /\ cidx \in Slots /\ color \in {0, 1}
        /\ log \in Seq(Nat)
    BY <1>2, <2>2 DEF Init
  <2>5. /\ news = {} /\ queued = {} /\ want = {} /\ stat = {} /\ reported = {} /\ glbl = {}
        /\ glbBits = {} /\ bits = {}
    BY DEF Init
  <2> QED
    BY <2>3, <2>4, <2>5 DEF Init, TypeOK
<1>4. Handled
  BY <1>2 DEF Init, Handled
<1>5. Room
  BY <1>1, <1>2 DEF Init, Room
<1>6. Filled
  BY DEF Init, Filled, EmptyRing
<1>7. Walking /\ Clearing
  BY DEF Init, Walking, Clearing
<1> QED
  BY <1>3, <1>4, <1>5, <1>6, <1>7 DEF IntrInv

\* The inductive invariant holds in every state.
THEOREM IntrInvariant == Spec => []IntrInv
<1>1. Init => IntrInv
  BY InitIntr
<1>2. IntrInv /\ [Next]_vars => IntrInv'
  <2> SUFFICES ASSUME IntrInv, [Next]_vars PROVE IntrInv'
    OBVIOUS
  <2> QED
    BY TypesKept, HandledKept, RoomKept, FilledKept, WalkingKept, ClearingKept DEF IntrInv
<1> QED
  BY <1>1, <1>2, PTL DEF Spec

-----------------------------------------------------------------------------
(* The properties.                                                         *)

\* data_intr_aggregate() handles the entries of a ring of any size once each
\* and in the order the hardware wrote them, by their color alone.
THEOREM EntriesCorrect == Spec => []EntriesInOrder
<1>1. IntrInv => EntriesInOrder
  <2> SUFFICES ASSUME IntrInv PROVE EntriesInOrder
    OBVIOUS
  <2>1. log \in Seq(Nat) /\ DOMAIN log = 1 .. Len(log)
    BY DEF IntrInv, TypeOK
  <2> QED
    BY <2>1 DEF IntrInv, Handled, EntriesInOrder
<1> QED
  BY <1>1, IntrInvariant, PTL

\* err_stat_handler() takes back no error bit it has not reported.
THEOREM ErrorsReported == Spec => NoErrorLost
<1>1. IntrInv /\ [Next]_vars => \A e \in stat : e \notin stat' => e \in reported
  <2> SUFFICES ASSUME IntrInv, [Next]_vars, NEW e \in stat, e \notin stat' PROVE e \in reported
    OBVIOUS
  <2> USE DEF hwQueues, hwRing, hwErrors, coalConf, handler
  <2>1. ErrClear
    <3>1. ASSUME NEW q \in Queues \cup {Error}, HwEvent(q) \/ Work(q) \/ HwEntry(q) \/ HwDirect(q) PROVE FALSE
      BY <3>1 DEF HwEvent, Work, HwEntry, HwDirect
    <3>2. ASSUME NEW f \in Errors, HwError(f) PROVE FALSE
      BY <3>2 DEF HwError
    <3>3. ASSUME \/ HwErrorIrq \/ DirectIntr \/ AggregateStart \/ AggregateQueue
                 \/ AggregateError \/ AggregateEnd \/ AggregateUpdate \/ ErrorIntr \/ ErrRead
                 \/ ErrDone \/ UNCHANGED vars
          PROVE  FALSE
      BY <3>3 DEF HwErrorIrq, DirectIntr, AggregateStart, AggregateQueue, AggregateError,
                  AggregateEnd, AggregateUpdate, ErrorIntr, ErrRead, ErrDone, vars
    <3> QED
      BY <3>1, <3>2, <3>3 DEF Next, HwInterrupts, Handler
  <2> QED
    BY <2>1 DEF ErrClear, BitsToClear, IntrInv, Clearing
<1>2. IntrInv /\ [Next]_vars => [\A e \in stat : e \notin stat' => e \in reported]_vars
  BY <1>1
<1> QED
  BY <1>2, IntrInvariant, PTL DEF Spec, NoErrorLost

=============================================================================
