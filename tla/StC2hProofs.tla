----------------------------- MODULE StC2hProofs -----------------------------
(***************************************************************************)
(* Proofs about StC2h for every ring and page size, every set of readers,  *)
(* of packet lengths and of budgets, polled and by interrupts.             *)
(***************************************************************************)
EXTENDS StC2h, SequenceTheorems, FiniteSetTheorems, WellFoundedInduction, TLAPS

-----------------------------------------------------------------------------
(* Facts about natural numbers.                                            *)

\* A set of natural numbers has a least one: otherwise the intervals from
\* zero to its members would have no minimal one.
LEMMA NatMin ==
  ASSUME NEW T, T \subseteq Nat, T # {}
  PROVE  \E x \in T : \A y \in T : x <= y
<1> DEFINE D == {0 .. n : n \in T}
<1>1. D \subseteq FiniteSubsetsOf(Nat)
  <2> SUFFICES ASSUME NEW n \in T PROVE 0 .. n \in SUBSET Nat /\ IsFiniteSet(0 .. n)
    BY DEF FiniteSubsetsOf
  <2> QED
    BY FS_Interval
<1>2. PICK d \in D : \A e \in D : <<e, d>> \notin StrictSubsetOrdering(Nat)
  <2>1. D # {}
    OBVIOUS
  <2> HIDE DEF D
  <2> QED
    BY <1>1, <2>1, WFMin, FS_StrictSubsetOrderingWellFounded
<1>3. PICK m \in T : d = 0 .. m
  OBVIOUS
<1>4. ASSUME NEW n \in T, n < m PROVE FALSE
  <2>1. 0 .. n \in D
    OBVIOUS
  <2>2. /\ 0 .. n \in SUBSET Nat /\ d \in SUBSET Nat
        /\ 0 .. n \subseteq d /\ m \in d /\ m \notin 0 .. n
    BY <1>3, <1>4
  <2>3. <<0 .. n, d>> \in StrictSubsetOrdering(Nat)
    BY <2>2 DEF StrictSubsetOrdering
  <2> QED
    BY <1>2, <2>1, <2>3
<1> QED
  BY <1>4

\* A product grows with its first factor.
LEMMA ProductLe ==
  ASSUME NEW a \in Nat, NEW b \in Nat, NEW c \in Nat, a <= b
  PROVE  a * c <= b * c
<1> DEFINE d == b - a
<1>1. d \in Nat /\ b = a + d
  OBVIOUS
<1>2. b * c = a * c + d * c
  BY <1>1
<1>3. d * c \in Nat /\ a * c \in Nat
  BY <1>1
<1> QED
  BY <1>2, <1>3

\* ... strictly, when the second one is not zero.
LEMMA ProductLess ==
  ASSUME NEW a \in Nat, NEW b \in Nat, NEW c \in Nat \ {0}, a < b
  PROVE  a * c + c <= b * c
<1>1. (a + 1) * c <= b * c
  BY ProductLe
<1>2. (a + 1) * c = a * c + c
  OBVIOUS
<1> QED
  BY <1>1, <1>2

\* What n turns of a loop compute, turn k being the function Step[k].
Iterates(n, S, s, Step) ==
  {f \in [0 .. n -> S] : f[0] = s /\ \A k \in 1 .. n : f[k] = Step[k][f[k - 1]]}

\* A recursive function over an interval exists: otherwise there would be a
\* least number up to which none does, and the one up to the number before
\* could be continued.
LEMMA Recursion ==
  ASSUME NEW n \in Nat, NEW S, NEW s \in S, NEW Step \in [1 .. n -> [S -> S]]
  PROVE  Iterates(n, S, s, Step) # {}
<1> DEFINE Upto(m) == \E f \in [0 .. m -> S] :
                        f[0] = s /\ \A k \in 1 .. m : f[k] = Step[k][f[k - 1]]
           T == {m \in 0 .. n : ~Upto(m)}
<1> HIDE DEF Upto
<1> SUFFICES ASSUME n \in T PROVE FALSE
  <2>1. n \notin T => Upto(n)
    OBVIOUS
  <2> QED
    BY <2>1 DEF Upto, Iterates
<1>1. PICK m \in T : \A y \in T : m <= y
  <2>1. T \subseteq Nat /\ T # {}
    OBVIOUS
  <2> HIDE DEF T
  <2> QED
    BY <2>1, NatMin
<1>2. m \in 0 .. n /\ ~Upto(m)
  OBVIOUS
<1>3. CASE m = 0
  <2> DEFINE f == [x \in 0 .. 0 |-> s]
  <2>1. f \in [0 .. 0 -> S] /\ f[0] = s /\ \A k \in 1 .. 0 : f[k] = Step[k][f[k - 1]]
    OBVIOUS
  <2>2. Upto(0)
    BY <2>1 DEF Upto
  <2> QED
    BY <1>2, <1>3, <2>2
<1>4. CASE m > 0
  <2>1. m - 1 \in 0 .. n /\ m \in 1 .. n /\ ~(m <= m - 1)
    BY <1>2, <1>4
  <2>2. Upto(m - 1)
    BY <1>1, <2>1
  <2>3. PICK f \in [0 .. m - 1 -> S] :
           f[0] = s /\ \A k \in 1 .. m - 1 : f[k] = Step[k][f[k - 1]]
    BY <2>2 DEF Upto
  <2> DEFINE g == [x \in 0 .. m |-> IF x = m THEN Step[m][f[m - 1]] ELSE f[x]]
  <2>4. Step[m][f[m - 1]] \in S
    BY <2>1, <2>3
  <2>5. g \in [0 .. m -> S]
    BY <2>1, <2>3, <2>4
  <2>6. g[0] = s
    BY <2>1, <2>3
  <2>7. ASSUME NEW k \in 1 .. m PROVE g[k] = Step[k][g[k - 1]]
    <3>1. k - 1 \in 0 .. m - 1 /\ k - 1 # m /\ k - 1 \in 0 .. m
      BY <2>1
    <3>2. g[k - 1] = f[k - 1]
      BY <3>1
    <3>3. CASE k = m
      BY <2>1, <3>2, <3>3
    <3>4. CASE k # m
      <4>1. k \in 1 .. m - 1 /\ k \in 0 .. m
        BY <2>1, <3>4
      <4> QED
        BY <2>3, <3>2, <3>4, <4>1
    <3> QED
      BY <3>3, <3>4
  <2> HIDE DEF g
  <2>8. Upto(m)
    BY <2>5, <2>6, <2>7 DEF Upto
  <2> QED
    BY <1>2, <2>8
<1> QED
  BY <1>2, <1>3, <1>4

-----------------------------------------------------------------------------
(* The inductive invariant: where the indices of the driver and of the     *)
(* hardware are, what the slots between them hold, and which part of the   *)
(* stream that is.                                                         *)

\* The first page whose completion entry was not parsed.
Cursor == IF svc.phase = "parse" THEN svc.pidx ELSE pidx

\* The first page the hardware must leave alone: that of the next unit to be
\* read, or what it was when the lock was taken.
Base == IF svc.phase = "idle" THEN pidxPend ELSE svc.old

\* The next slot of a ring.
After(s) == RingIncr(s, 1)

\* Completion entry s was written and not parsed; parsed and not released.
Unparsed(s) == RingDelta(s, cidxWrb) < RingDelta(hwWrb, cidxWrb)
Parsed(s)   == RingDelta(s, wrbCidx) < RingDelta(cidxWrb, wrbCidx)

\* Page s has units not read; those of parsed entries.
Filled(s)   == RingDelta(s, pidxPend) < RingDelta(hwPidx, pidxPend)
Received(s) == RingDelta(s, pidxPend) < RingDelta(Cursor, pidxPend)

\* The color of a new entry in slot s.
ColorAt(s) == IF s >= cidxWrb THEN color ELSE 1 - color

\* The variables have their types, the contents of the two rings as well.
Types ==
  /\ TypeOK
  /\ page \in [Slots -> Seq(Nat)]
  /\ cmpl \in [Slots -> [kind : {"none", "packet", "udd", "bad"}, len : Nat,
                         color : 0 .. 1, nr : Nat]]

\* The service routine holds the lock from its first to its last step; a bad
\* entry stops it, and nothing is read while it parses.
Locking ==
  /\ lock = "free" <=> svc.phase = "idle"
  /\ svc.phase # "idle" => ~err
  /\ halted => err
  /\ svc.phase = "parse" => svc.old = pidxPend

\* The indices of the pages follow each other, and the hardware was given all
\* pages but the one before the first it must leave alone.
PageOrder ==
  /\ RingDelta(pidxPend, Base) <= RingDelta(pidx, Base)
  /\ RingDelta(pidx, Base) <= RingDelta(Cursor, Base)
  /\ RingDelta(Cursor, Base) <= RingDelta(hwPidx, Base)
  /\ doorbell = PagesUpTo(Base)

\* Every page is counted as available or holds data, and those beyond the last
\* entry parsed are whole; a bad entry in the middle of a batch loses pages.
PageCount ==
  /\ avail + RingDelta(Cursor, Base) <= RngSz - 1
  /\ ~halted => avail + RingDelta(Cursor, Base) = RngSz - 1
  /\ ~err => \A s \in Slots : RingDelta(s, Base) >= RingDelta(Cursor, Base) => len[s] = PgSz

\* The indices of the completion ring follow each other; there are entries for
\* all the turns left of the parse loop; the register is behind only while
\* requests are served.
CmplOrder ==
  /\ RingDelta(cidxPend, wrbCidx) <= RingDelta(cidxWrb, wrbCidx)
  /\ RingDelta(cidxWrb, wrbCidx) <= RingDelta(wbPidx, wrbCidx)
  /\ RingDelta(wbPidx, wrbCidx) <= RingDelta(hwWrb, wrbCidx)
  /\ svc.phase = "parse" => svc.todo <= RingDelta(wbPidx, cidxWrb)
  /\ svc.phase \in {"idle", "parse"} => cidxPend = wrbCidx

\* The entries not parsed are numbered in order and have the color the driver
\* expects at their slot; parsed ones not released were not bad.
CmplFresh ==
  /\ ncmpl = nparsed + RingDelta(hwWrb, cidxWrb)
  /\ hwColor = ColorAt(hwWrb)
  /\ \A s \in Slots : Unparsed(s) =>
       /\ cmpl[s].nr = nparsed + 1 + RingDelta(s, cidxWrb)
       /\ cmpl[s].color = ColorAt(s)
       /\ cmpl[s].kind \in {"packet", "udd", "bad"}
       /\ cmpl[s].kind = "packet" => cmpl[s].len \in Lens
  /\ \A s \in Slots : Parsed(s) => cmpl[s].kind \in {"packet", "udd"}

\* Seen from entry w: the pages with units not read belong to packets whose
\* entries come one after the other, and each entry of a packet that was not
\* released has its last page among them.
OwnedFrom(w) ==
  /\ \A s \in Slots : Received(s) =>
       /\ RingDelta(cidxPend, w) <= RingDelta(info[s].cidx, w)
       /\ RingDelta(info[s].cidx, w) <= RingDelta(cidxWrb, w)
  /\ \A s, t \in Slots :
       RingDelta(s, pidxPend) <= RingDelta(t, pidxPend) /\ Received(t)
       => RingDelta(info[s].cidx, w) <= RingDelta(info[t].cidx, w)
  /\ ~halted =>
       \A e \in Slots :
         /\ RingDelta(cidxPend, w) <= RingDelta(e, w)
         /\ RingDelta(e, w) < RingDelta(cidxWrb, w)
         /\ cmpl[e].kind = "packet"
         => \E s \in Slots : /\ Received(s) /\ info[s].eop
                             /\ RingDelta(e, w) < RingDelta(info[s].cidx, w)

\* Seen from the first entry not released.
Owners == OwnedFrom(wrbCidx)

\* pb[s] units of the stream came before page s: the pages not read hold the
\* units between their own number and that of the next page.
Content(pb) ==
  /\ pb[hwPidx] = sent
  /\ \A s \in Slots : Filled(s) =>
       /\ pb[After(s)] - pb[s] \in 0 .. PgSz
       /\ page[s] = [i \in 1 .. pb[After(s)] - pb[s] |-> pb[s] + i]
  /\ \A s, t \in Slots :
       /\ RingDelta(s, pidxPend) <= RingDelta(t, pidxPend)
       /\ RingDelta(t, pidxPend) <= RingDelta(hwPidx, pidxPend)
       => pb[s] <= pb[t]

\* What the driver knows of the pages is true: their lengths, but of the first
\* one a part may have been read, and the number of all units not read.
Lengths(pb) ==
  /\ \A s \in Slots : Received(s) /\ (s # pidxPend \/ pidx = pidxPend)
       => len[s] = pb[After(s)] - pb[s]
  /\ pidx = pidxPend => Len(out) = pb[pidxPend]
  /\ pidx # pidxPend => /\ len[pidxPend] <= pb[After(pidxPend)] - pb[pidxPend]
                        /\ Len(out) = pb[After(pidxPend)] - len[pidxPend]
  /\ Len(out) + dlen >= pb[Cursor]
  /\ ~halted => Len(out) + dlen = pb[Cursor]

\* The pages and the units of the packet of entry s.
PagesOf(s) == IF cmpl[s].kind = "packet" THEN PagesFor(cmpl[s].len) ELSE 0
UnitsOf(s) == IF cmpl[s].kind = "packet" THEN cmpl[s].len ELSE 0

\* first[s] is the page where the packet of entry s starts: the next packet
\* starts where it ends, and all of its pages but the last one are full.
Link(pb, first) ==
  /\ first[hwWrb] = hwPidx /\ first[cidxWrb] = Cursor
  /\ \A s \in Slots : Unparsed(s) =>
       /\ RingDelta(first[After(s)], Cursor) = RingDelta(first[s], Cursor) + PagesOf(s)
       /\ pb[first[After(s)]] = pb[first[s]] + UnitsOf(s)
       /\ \A p \in Slots : RingDelta(p, first[s]) < PagesOf(s) =>
            pb[p] = pb[first[s]] + RingDelta(p, first[s]) * PgSz
  /\ \A s, t \in Slots :
       /\ RingDelta(s, cidxWrb) <= RingDelta(t, cidxWrb)
       /\ RingDelta(t, cidxWrb) <= RingDelta(hwWrb, cidxWrb)
       => RingDelta(first[s], Cursor) <= RingDelta(first[t], Cursor)

\* A set of numbers of units, such that all requests and all packets have so
\* many, and no page of a packet goes beyond one of them.
Closed(W) ==
  /\ W \subseteq Int /\ 0 \in W
  /\ \A a, b \in W : a + b \in W /\ a - b \in W
  /\ \A r \in Readers : Count[r] \in W
  /\ Lens \subseteq W
  /\ \A n \in Lens, w \in W, j \in Nat : j * PgSz < w /\ w < n => j * PgSz + PgSz <= w

\* All packets and all reads end at one of these numbers, so that no page is
\* read in two parts, and what was read is the stream.
Whole(W, pb, first) ==
  /\ sent \in W /\ Len(out) \in W
  /\ \A r \in Readers : left[r] \in W
  /\ pb[pidx] \in W
  /\ ~err => \A s \in Slots : RingDelta(s, cidxWrb) <= RingDelta(hwWrb, cidxWrb) => pb[first[s]] \in W
  /\ \A s \in Slots : Filled(s) => \A w \in W : pb[s] < w => pb[After(s)] <= w
  /\ pidx # pidxPend => len[pidxPend] = pb[After(pidxPend)] - pb[pidxPend]
  /\ \A i \in DOMAIN out : out[i] = i

-----------------------------------------------------------------------------
(* Ring arithmetic.                                                        *)

\* Two slots are less than a ring apart, and no distance means the same slot.
LEMMA DeltaRange ==
  ASSUME NEW a \in Slots, NEW b \in Slots
  PROVE  /\ RingDelta(a, b) \in 0 .. RngSz - 1
         /\ RingDelta(a, b) = 0 <=> a = b
BY RingAssumption DEF Slots, RingDelta

\* Advancing by less than what is left before b's slot comes round again adds
\* to the distance from b.
LEMMA DeltaIncr ==
  ASSUME NEW a \in Slots, NEW b \in Slots, NEW n \in Nat,
         RingDelta(a, b) + n < RngSz
  PROVE  /\ RingIncr(a, n) \in Slots
         /\ RingDelta(RingIncr(a, n), b) = RingDelta(a, b) + n
BY RingAssumption DEF Slots, RingDelta, RingIncr

\* Measuring from a later slot c instead of b subtracts the distance of c.
LEMMA DeltaRebase ==
  ASSUME NEW a \in Slots, NEW b \in Slots, NEW c \in Slots,
         RingDelta(c, b) <= RingDelta(a, b)
  PROVE  RingDelta(a, c) = RingDelta(a, b) - RingDelta(c, b)
BY RingAssumption DEF Slots, RingDelta

\* Measuring from c instead of a later slot b adds the distance of b.
LEMMA DeltaAdd ==
  ASSUME NEW a \in Slots, NEW b \in Slots, NEW c \in Slots,
         RingDelta(a, b) + RingDelta(b, c) < RngSz
  PROVE  RingDelta(a, c) = RingDelta(a, b) + RingDelta(b, c)
BY RingAssumption DEF Slots, RingDelta

\* A slot is where its distance leads to, and slots at the same distance are
\* the same.
LEMMA DeltaInverse ==
  ASSUME NEW a \in Slots, NEW b \in Slots
  PROVE  /\ RingIncr(b, RingDelta(a, b)) = a
         /\ \A c \in Slots : RingDelta(c, b) = RingDelta(a, b) => c = a
BY RingAssumption DEF Slots, RingDelta, RingIncr

\* The next slot.
LEMMA AfterDelta ==
  ASSUME NEW a \in Slots, NEW b \in Slots
  PROVE  /\ After(a) \in Slots
         /\ RingDelta(a, b) + 1 < RngSz => RingDelta(After(a), b) = RingDelta(a, b) + 1
         /\ RingDelta(a, b) + 1 = RngSz => After(a) = b
BY RingAssumption DEF Slots, RingDelta, RingIncr, After

\* All slots but one lie between a slot and the one before it.
LEMMA DeltaDecr ==
  ASSUME NEW a \in Slots, NEW b \in Slots
  PROVE  /\ PagesUpTo(b) \in Slots
         /\ RingDelta(PagesUpTo(b), a) = RngSz - 1 - RingDelta(a, b)
BY RingAssumption DEF Slots, RingDelta, RingDecr, PagesUpTo

\* Slots up to t, seen from q instead of an earlier slot p.
LEMMA Forward ==
  ASSUME NEW p \in Slots, NEW q \in Slots, NEW t \in Slots,
         RingDelta(q, p) <= RingDelta(t, p)
  PROVE  /\ RingDelta(t, q) = RingDelta(t, p) - RingDelta(q, p)
         /\ \A s \in Slots : RingDelta(s, q) <= RingDelta(t, q) =>
              RingDelta(s, p) = RingDelta(s, q) + RingDelta(q, p)
BY RingAssumption DEF Slots, RingDelta

\* The smaller one of two numbers.
LEMMA MinOfTwo ==
  ASSUME NEW a \in Int, NEW b \in Int
  PROVE  Min({a, b}) = IF a <= b THEN a ELSE b
BY DEF Min

\* A packet fills all of its pages but the last one, which is empty only if
\* the packet is.
LEMMA PagesForBounds ==
  ASSUME NEW n \in Nat
  PROVE  /\ PagesFor(n) \in Nat \ {0}
         /\ n <= PagesFor(n) * PgSz
         /\ n = 0 => PagesFor(n) = 1
         /\ n > 0 => (PagesFor(n) - 1) * PgSz < n
BY RingAssumption DEF PagesFor

\* What rcv_pkt() makes of the length of the last page.
LEMMA LastPage ==
  ASSUME NEW n \in Nat
  PROVE  /\ n % PgSz # 0 => n % PgSz = n - (PagesFor(n) - 1) * PgSz
         /\ n % PgSz = 0 /\ n # 0 => n - (PagesFor(n) - 1) * PgSz = PgSz
         /\ n % PgSz \in 0 .. PgSz - 1
<1> DEFINE d == n \div PgSz
           m == n % PgSz
           q == PagesFor(n)
<1>1. PgSz \in Nat \ {0}
  BY RingAssumption
<1>2. d \in Nat /\ m \in 0 .. PgSz - 1
  BY <1>1
<1>3. n = d * PgSz + m
  BY <1>1
<1>4. /\ q \in Nat \ {0} /\ n <= q * PgSz
      /\ n = 0 => q = 1
      /\ n > 0 => (q - 1) * PgSz < n
  BY PagesForBounds
<1> HIDE DEF d, m, q
<1>5. (d + 1) * PgSz = d * PgSz + PgSz /\ (q - 1) * PgSz = q * PgSz - PgSz
  BY <1>1, <1>2, <1>4
<1>6. n > 0 => q - 1 <= d
  <2>1. SUFFICES ASSUME n > 0, d < q - 1 PROVE FALSE
    BY <1>2, <1>4
  <2>2. d * PgSz + PgSz <= (q - 1) * PgSz
    BY <1>1, <1>2, <1>4, <2>1, ProductLess
  <2>3. d * PgSz \in Nat /\ (q - 1) * PgSz \in Nat
    BY <1>1, <1>2, <1>4
  <2> HIDE DEF d, m, q
  <2> QED
    BY <1>1, <1>2, <1>3, <1>4, <2>1, <2>2, <2>3
<1>7. q < d => FALSE
  <2>1. SUFFICES ASSUME q < d PROVE FALSE
    OBVIOUS
  <2>2. q * PgSz + PgSz <= d * PgSz
    BY <1>1, <1>2, <1>4, <2>1, ProductLess
  <2>3. d * PgSz \in Nat /\ q * PgSz \in Nat
    BY <1>1, <1>2, <1>4
  <2> QED
    BY <1>1, <1>2, <1>3, <1>4, <2>2, <2>3
<1>8. d * PgSz \in Nat /\ q * PgSz \in Nat
  BY <1>1, <1>2, <1>4
<1>9. n > 0 => q = d \/ q = d + 1
  BY <1>2, <1>4, <1>6, <1>7
<1>10. CASE n = 0
  BY <1>1, <1>2, <1>3, <1>8, <1>10 DEF m, q
<1>11. CASE n > 0 /\ q = d
  BY <1>1, <1>2, <1>3, <1>4, <1>5, <1>8, <1>11 DEF m, q
<1>12. CASE n > 0 /\ q = d + 1
  BY <1>1, <1>2, <1>3, <1>4, <1>5, <1>8, <1>12 DEF m, q
<1> QED
  BY <1>9, <1>10, <1>11, <1>12

-----------------------------------------------------------------------------
(* The copy loop.                                                          *)

\* What the loop has done so far.
Copies == [want : Nat, data : Seq(Nat), pages : Nat, part : Nat, cidx : Slots]

\* The first units of a page, appended to what was copied.
LEMMA CopyUnits ==
  ASSUME NEW d \in Seq(Nat), NEW p \in Seq(Nat), NEW n \in 0 .. Len(p)
  PROVE  /\ d \o SubSeq(p, 1, n) \in Seq(Nat)
         /\ Len(d \o SubSeq(p, 1, n)) = Len(d) + n
         /\ \A i \in 1 .. Len(d) : (d \o SubSeq(p, 1, n))[i] = d[i]
         /\ \A i \in 1 .. n : (d \o SubSeq(p, 1, n))[Len(d) + i] = p[i]
<1> DEFINE q == SubSeq(p, 1, n)
<1>0. Len(p) \in Nat /\ Len(d) \in Nat
  OBVIOUS
<1>1. n \in Int /\ 1 \in Int /\ \A i \in 1 .. n : i \in 1 .. Len(p)
  BY <1>0
<1>2. q \in Seq(Nat) /\ Len(q) = n /\ \A i \in 1 .. n : q[i] = p[i]
  BY <1>0, <1>1, SubSeqProperties
<1> HIDE DEF q
<1>3. /\ d \o q \in Seq(Nat)
      /\ Len(d \o q) = Len(d) + Len(q)
      /\ \A i \in 1 .. Len(d) + Len(q) :
           (d \o q)[i] = IF i <= Len(d) THEN d[i] ELSE q[i - Len(d)]
  BY <1>2, ConcatProperties
<1>4. \A i \in 1 .. Len(d) : (d \o q)[i] = d[i]
  BY <1>0, <1>2, <1>3
<1>5. ASSUME NEW i \in 1 .. n PROVE (d \o q)[Len(d) + i] = p[i]
  <2>1. /\ Len(d) + i \in 1 .. Len(d) + Len(q)
        /\ ~(Len(d) + i <= Len(d)) /\ Len(d) + i - Len(d) = i
    BY <1>0, <1>2
  <2>2. (d \o q)[Len(d) + i] = q[Len(d) + i - Len(d)]
    BY <1>3, <2>1
  <2> QED
    BY <1>2, <2>1, <2>2
<1> QED
  BY <1>2, <1>3, <1>4, <1>5 DEF q

\* One turn of the loop.
LEMMA ReadPageEffect ==
  ASSUME Types, NEW a \in Copies, NEW s \in Slots, len[s] <= Len(page[s])
  PROVE  /\ ReadPage(a, s) \in Copies
         /\ a.want = 0 => ReadPage(a, s) = a
         /\ a.want > 0 /\ a.want >= len[s] =>
              /\ ReadPage(a, s).want = a.want - len[s]
              /\ ReadPage(a, s).data = a.data \o SubSeq(page[s], 1, len[s])
              /\ ReadPage(a, s).pages = a.pages + 1
              /\ ReadPage(a, s).part = 0
              /\ ReadPage(a, s).cidx = IF info[s].eop THEN info[s].cidx ELSE a.cidx
         /\ a.want > 0 /\ a.want < len[s] =>
              /\ ReadPage(a, s).want = 0
              /\ ReadPage(a, s).data = a.data \o SubSeq(page[s], 1, a.want)
              /\ ReadPage(a, s).pages = a.pages
              /\ ReadPage(a, s).part = a.want
              /\ ReadPage(a, s).cidx = a.cidx
<1> DEFINE n == IF a.want <= len[s] THEN a.want ELSE len[s]
           d == a.data \o SubSeq(page[s], 1, n)
           b == [want  |-> a.want - n,
                 data  |-> d,
                 pages |-> IF n = len[s] THEN a.pages + 1 ELSE a.pages,
                 part  |-> IF n = len[s] THEN 0 ELSE n,
                 cidx  |-> IF n = len[s] /\ info[s].eop THEN info[s].cidx ELSE a.cidx]
<1>1. /\ a.want \in Nat /\ a.data \in Seq(Nat) /\ a.pages \in Nat /\ a.part \in Nat
      /\ a.cidx \in Slots
  BY DEF Copies
<1>2. /\ len[s] \in 0 .. PgSz /\ page[s] \in Seq(Nat) /\ info[s] \in [eop : BOOLEAN, cidx : Slots]
  BY DEF Types, TypeOK
<1>3. len[s] \in Nat /\ info[s].cidx \in Slots
  BY <1>2, RingAssumption
<1>4. Min({a.want, len[s]}) = n
  BY <1>1, <1>3, MinOfTwo, SMTT(30)
<1>5. n \in 0 .. Len(page[s]) /\ a.want - n \in Nat
  BY <1>1, <1>2, <1>3
<1>6. d \in Seq(Nat)
  BY <1>1, <1>2, <1>5, CopyUnits
<1>7. ReadPage(a, s) = IF a.want = 0 THEN a ELSE b
  BY <1>4 DEF ReadPage
<1>8. b \in Copies
  BY <1>1, <1>3, <1>5, <1>6 DEF Copies
<1>9. /\ b.want = a.want - n /\ b.data = d
      /\ b.pages = IF n = len[s] THEN a.pages + 1 ELSE a.pages
      /\ b.part  = IF n = len[s] THEN 0 ELSE n
      /\ b.cidx = IF n = len[s] /\ info[s].eop THEN info[s].cidx ELSE a.cidx
  OBVIOUS
<1>10. /\ a.want >= len[s] => n = len[s]
       /\ a.want < len[s] => n = a.want /\ n # len[s]
  BY <1>1, <1>3
<1>11. ReadPage(a, s) \in Copies
  BY <1>7, <1>8
<1> DEFINE c == ReadPage(a, s)
<1>12. a.want = 0 => c = a
  BY <1>7
<1>13. a.want > 0 => c = b
  BY <1>1, <1>7
<1> HIDE DEF b, c, n
<1>14. a.want > 0 /\ a.want >= len[s] =>
         /\ c.want = a.want - len[s]
         /\ c.data = a.data \o SubSeq(page[s], 1, len[s])
         /\ c.pages = a.pages + 1
         /\ c.part = 0
         /\ c.cidx = IF info[s].eop THEN info[s].cidx ELSE a.cidx
  BY <1>9, <1>10, <1>13
<1>15. a.want > 0 /\ a.want < len[s] =>
         /\ c.want = 0
         /\ c.data = a.data \o SubSeq(page[s], 1, a.want)
         /\ c.pages = a.pages
         /\ c.part = a.want
         /\ c.cidx = a.cidx
  BY <1>1, <1>9, <1>10, <1>13, SMTT(30)
<1> QED
  BY <1>11, <1>12, <1>14, <1>15 DEF c

\* The pages with data not read.
LEMMA UnreadPages ==
  ASSUME Types
  PROVE  /\ Len(Unread) = RingDelta(pidx, pidxPend)
         /\ Len(Unread) \in 0 .. RngSz - 1
         /\ \A k \in 1 .. Len(Unread) :
              /\ Unread[k] \in Slots
              /\ Unread[k] = RingIncr(pidxPend, k - 1)
              /\ RingDelta(Unread[k], pidxPend) = k - 1
<1> DEFINE n == RingDelta(pidx, pidxPend)
<1>1. pidx \in Slots /\ pidxPend \in Slots
  BY DEF Types, TypeOK
<1>2. n \in 0 .. RngSz - 1
  BY <1>1, DeltaRange
<1>3. Unread = [k \in 1 .. n |-> RingIncr(pidxPend, k - 1)]
  BY DEF Unread
<1> HIDE DEF n
<1>4. n \in Nat
  BY <1>2, RingAssumption
<1>5. Len(Unread) = n
  BY <1>3, <1>4
<1>6. ASSUME NEW k \in 1 .. n
      PROVE  /\ RingIncr(pidxPend, k - 1) \in Slots
             /\ RingDelta(RingIncr(pidxPend, k - 1), pidxPend) = k - 1
  <2>1. k - 1 \in Nat /\ RingDelta(pidxPend, pidxPend) = 0 /\ 0 + (k - 1) < RngSz
    BY <1>1, <1>2, DeltaRange, RingAssumption
  <2> QED
    BY <1>1, <2>1, DeltaIncr
<1> QED
  BY <1>2, <1>3, <1>5, <1>6 DEF n

\* Before the first turn.
Start(r) == [want |-> left[r], data |-> <<>>, pages |-> 0, part |-> 0, cidx |-> cidxPend]

\* The loop as a sequence of turns.
LEMMA CopyLoop ==
  ASSUME Types, NEW r \in Readers,
         \A k \in 1 .. Len(Unread) : len[Unread[k]] <= Len(page[Unread[k]])
  PROVE  \E f \in [0 .. Len(Unread) -> Copies] :
           /\ f[0] = Start(r)
           /\ \A k \in 1 .. Len(Unread) : f[k] = ReadPage(f[k - 1], Unread[k])
           /\ ReadPages(r) = f[Len(Unread)]
<1> DEFINE n == Len(Unread)
           Step == [k \in 1 .. n |-> [a \in Copies |-> ReadPage(a, Unread[k])]]
<1>1. n \in Nat /\ \A k \in 1 .. n : Unread[k] \in Slots
  BY UnreadPages, RingAssumption
<1>2. Start(r) \in Copies
  <2>1. left[r] \in Nat /\ cidxPend \in Slots /\ <<>> \in Seq(Nat)
    BY DEF Types, TypeOK
  <2> QED
    BY <2>1 DEF Copies, Start
<1>3. ASSUME NEW k \in 1 .. n, NEW a \in Copies
      PROVE  ReadPage(a, Unread[k]) \in Copies
  BY <1>1, ReadPageEffect
<1>4. Step \in [1 .. n -> [Copies -> Copies]]
  BY <1>3
<1>5. \A k \in 1 .. n : \A a \in Copies : Step[k][a] = ReadPage(a, Unread[k])
  OBVIOUS
<1> HIDE DEF n, Step
<1>6. PICK f \in [0 .. n -> Copies] :
         f[0] = Start(r) /\ \A k \in 1 .. n : f[k] = Step[k][f[k - 1]]
  <2> DEFINE s == Start(r)
  <2> HIDE DEF s
  <2>1. s \in Copies
    BY <1>2 DEF s
  <2>2. Iterates(n, Copies, s, Step) # {}
    BY <1>1, <1>4, <2>1, Recursion
  <2>3. PICK f \in Iterates(n, Copies, s, Step) : TRUE
    BY <2>2
  <2> QED
    BY <2>3 DEF s, Iterates
<1>7. ASSUME NEW k \in 1 .. n
      PROVE  f[k] = ReadPage(f[k - 1], Unread[k]) /\ f[k] \in Copies /\ f[k - 1] \in Copies
  <2>1. k - 1 \in 0 .. n /\ k \in 0 .. n
    BY <1>1
  <2>2. f[k - 1] \in Copies /\ f[k] \in Copies
    BY <1>6, <2>1
  <2> QED
    BY <1>5, <1>6, <2>2
<1> DEFINE Turns(g) == [k \in 0 .. n |-> IF k = 0 THEN Start(r)
                                        ELSE ReadPage(g[k - 1], Unread[k])]
           acc == CHOOSE g : g = Turns(g)
<1>8. f = Turns(f)
  <2>1. \A k \in 0 .. n : f[k] = Turns(f)[k]
    <3> SUFFICES ASSUME NEW k \in 0 .. n PROVE f[k] = Turns(f)[k]
      OBVIOUS
    <3>1. CASE k = 0
      BY <1>6, <3>1
    <3>2. CASE k # 0
      <4>1. k \in 1 .. n
        BY <1>1, <3>2
      <4> QED
        BY <1>7, <3>2, <4>1
    <3> QED
      BY <3>1, <3>2
  <2>2. Turns(f) = [k \in 0 .. n |-> Turns(f)[k]]
    OBVIOUS
  <2>3. f = [k \in 0 .. n |-> f[k]]
    BY <1>6
  <2> HIDE DEF Turns
  <2> QED
    BY <2>1, <2>2, <2>3
<1>9. acc = Turns(acc)
  <2> HIDE DEF Turns
  <2> QED
    BY <1>8
<1>10. ReadPages(r) = acc[n]
  BY DEF ReadPages, Start, n
<1> HIDE DEF acc
<1>11. acc[0] = Start(r) /\ \A k \in 1 .. n : acc[k] = ReadPage(acc[k - 1], Unread[k])
  <2>1. \A k \in 0 .. n : acc[k] = IF k = 0 THEN Start(r) ELSE ReadPage(acc[k - 1], Unread[k])
    BY <1>9
  <2>2. 0 \in 0 .. n /\ \A k \in 1 .. n : k \in 0 .. n /\ k # 0
    BY <1>1
  <2> QED
    BY <2>1, <2>2
<1>12. acc[n] = f[n]
  <2> DEFINE T == {k \in 0 .. n : acc[k] # f[k]}
  <2> SUFFICES ASSUME n \in T PROVE FALSE
    BY <1>1
  <2>1. PICK m \in T : \A y \in T : m <= y
    <3>1. T \subseteq Nat /\ T # {}
      OBVIOUS
    <3> HIDE DEF T
    <3> QED
      BY <3>1, NatMin
  <2>2. m \in 1 .. n
    BY <1>1, <1>6, <1>11, <2>1
  <2>3. m - 1 \in 0 .. n /\ ~(m <= m - 1)
    BY <1>1, <2>2
  <2>4. acc[m - 1] = f[m - 1]
    BY <2>1, <2>3
  <2> QED
    BY <1>7, <1>11, <2>1, <2>2, <2>4
<1> QED
  BY <1>6, <1>7, <1>10, <1>12 DEF n

\* c is the entry after the last packet that ends on the first m pages.
Ends(c, m) ==
  \/ /\ c = cidxPend
     /\ \A j \in 1 .. m : ~info[Unread[j]].eop
  \/ \E q \in 1 .. m : /\ info[Unread[q]].eop /\ c = info[Unread[q]].cidx
                      /\ \A j \in q + 1 .. m : ~info[Unread[j]].eop

\* The units on the pages are numbered without a gap, o[k] being the last one
\* on page k.
Ordered(o) == \A k \in 1 .. Len(Unread) : \A i \in 1 .. len[Unread[k]] :
                page[Unread[k]][i] = o[k - 1] + i

\* What k turns did for request r: unless it has all it wants, every page was
\* drained; otherwise a page may be left in the middle.
Copied(c, r, o, k) ==
  /\ c.pages \in 0 .. k
  /\ c.want = left[r] - Len(c.data)
  /\ o[0] + Len(c.data) = o[c.pages] + c.part
  /\ c.want > 0 => c.pages = k /\ c.part = 0
  /\ c.part > 0 => c.pages < k /\ o[c.pages] + c.part < o[c.pages + 1]
  /\ Ends(c.cidx, c.pages)
  /\ Ordered(o) => \A i \in 1 .. Len(c.data) : c.data[i] = o[0] + i

\* One turn.
LEMMA CopiedStep ==
  ASSUME Types, NEW r \in Readers, NEW o \in [0 .. Len(Unread) -> Nat],
         NEW k \in 1 .. Len(Unread), NEW a \in Copies,
         len[Unread[k]] = o[k] - o[k - 1], len[Unread[k]] <= Len(page[Unread[k]]),
         Copied(a, r, o, k - 1)
  PROVE  Copied(ReadPage(a, Unread[k]), r, o, k)
<1> DEFINE s == Unread[k]
           b == ReadPage(a, s)
<1>0. Len(Unread) \in Nat
  BY UnreadPages, RingAssumption
<1>1. s \in Slots /\ k \in Nat \ {0}
  BY <1>0, UnreadPages
<1>2. /\ b \in Copies
      /\ a.want = 0 => b = a
      /\ a.want > 0 /\ a.want >= len[s] =>
           /\ b.want = a.want - len[s]
           /\ b.data = a.data \o SubSeq(page[s], 1, len[s])
           /\ b.pages = a.pages + 1
           /\ b.part = 0
           /\ b.cidx = IF info[s].eop THEN info[s].cidx ELSE a.cidx
      /\ a.want > 0 /\ a.want < len[s] =>
           /\ b.want = 0
           /\ b.data = a.data \o SubSeq(page[s], 1, a.want)
           /\ b.pages = a.pages
           /\ b.part = a.want
           /\ b.cidx = a.cidx
  BY <1>1, ReadPageEffect
<1>3. /\ a.want \in Nat /\ a.data \in Seq(Nat) /\ Len(a.data) \in Nat /\ a.pages \in Nat
      /\ a.part \in Nat /\ len[s] \in Nat /\ page[s] \in Seq(Nat) /\ left[r] \in Nat
      /\ Len(page[s]) \in Nat
  <2>1. /\ a.want \in Nat /\ a.data \in Seq(Nat) /\ a.pages \in Nat /\ a.part \in Nat
    BY DEF Copies
  <2>2. len[s] \in Nat /\ page[s] \in Seq(Nat) /\ left[r] \in Nat
    <3> HIDE DEF s
    <3>1. len[s] \in 0 .. PgSz /\ page[s] \in Seq(Nat) /\ left[r] \in Nat
      BY <1>1 DEF Types, TypeOK
    <3> QED
      BY <3>1, RingAssumption
  <2> QED
    BY <2>1, <2>2
<1>4. /\ a.pages \in 0 .. k - 1
      /\ a.want = left[r] - Len(a.data)
      /\ o[0] + Len(a.data) = o[a.pages] + a.part
      /\ a.want > 0 => a.pages = k - 1 /\ a.part = 0
      /\ a.part > 0 => a.pages < k - 1 /\ o[a.pages] + a.part < o[a.pages + 1]
      /\ Ends(a.cidx, a.pages)
      /\ Ordered(o) => \A i \in 1 .. Len(a.data) : a.data[i] = o[0] + i
  BY DEF Copied
<1>5. len[s] = o[k] - o[k - 1] /\ len[s] <= Len(page[s])
  OBVIOUS
<1>6. o[0] \in Nat /\ o[k] \in Nat /\ o[k - 1] \in Nat
  BY <1>0
<1>7. Ordered(o) => \A i \in 1 .. len[s] : page[s][i] = o[k - 1] + i
  BY <1>1 DEF Ordered
<1>8. ReadPage(a, Unread[k]) = b
  OBVIOUS
<1> HIDE DEF b
<1>9. CASE a.want = 0
  <2>1. b = a
    BY <1>2, <1>9
  <2> QED
    BY <1>0, <1>1, <1>3, <1>4, <1>8, <1>9, <2>1, SMTT(30) DEF Copied
<1>10. ASSUME NEW n \in 0 .. len[s], a.want > 0,
              b.data = a.data \o SubSeq(page[s], 1, n)
       PROVE  /\ Len(b.data) = Len(a.data) + n
              /\ Ordered(o) => \A i \in 1 .. Len(b.data) : b.data[i] = o[0] + i
  <2> HIDE DEF s
  <2>1. n \in Nat /\ n \in 0 .. Len(page[s])
    BY <1>3, <1>5
  <2>2. /\ Len(b.data) = Len(a.data) + n
        /\ \A i \in 1 .. Len(a.data) : b.data[i] = a.data[i]
        /\ \A i \in 1 .. n : b.data[Len(a.data) + i] = page[s][i]
    <3>1. a.data \in Seq(Nat) /\ page[s] \in Seq(Nat)
      BY <1>3
    <3>2. /\ Len(a.data \o SubSeq(page[s], 1, n)) = Len(a.data) + n
          /\ \A i \in 1 .. Len(a.data) : (a.data \o SubSeq(page[s], 1, n))[i] = a.data[i]
          /\ \A i \in 1 .. n : (a.data \o SubSeq(page[s], 1, n))[Len(a.data) + i] = page[s][i]
      BY <2>1, <3>1, CopyUnits, ZenonT(40)
    <3> QED
      BY <1>10, <3>2
  <2>3. o[0] + Len(a.data) = o[k - 1]
    <3>1. a.pages = k - 1 /\ a.part = 0 /\ o[0] + Len(a.data) = o[a.pages] + a.part
      BY <1>4, <1>10
    <3> QED
      BY <1>6, <3>1
  <2>4. ASSUME Ordered(o), NEW i \in 1 .. Len(b.data) PROVE b.data[i] = o[0] + i
    <3>1. CASE i <= Len(a.data)
      BY <1>3, <1>4, <2>1, <2>2, <2>4, <3>1
    <3>2. CASE i > Len(a.data)
      <4> DEFINE j == i - Len(a.data)
      <4>1. j \in 1 .. n /\ j \in 1 .. len[s] /\ i = Len(a.data) + j
        BY <1>3, <2>1, <2>2, <3>2, SMTT(30)
      <4> HIDE DEF j
      <4>2. b.data[i] = page[s][j] /\ page[s][j] = o[k - 1] + j
        BY <1>7, <2>2, <2>4, <4>1
      <4> QED
        BY <1>3, <1>6, <2>3, <4>1, <4>2, SMTT(40)
    <3> QED
      BY <1>3, <2>1, <2>2, <3>1, <3>2
  <2> QED
    BY <2>2, <2>4
<1>11. CASE a.want > 0 /\ a.want >= len[s]
  <2> HIDE DEF s
  <2>1. /\ b.want = a.want - len[s] /\ b.pages = a.pages + 1 /\ b.part = 0
        /\ b.cidx = (IF info[s].eop THEN info[s].cidx ELSE a.cidx)
        /\ b.data = a.data \o SubSeq(page[s], 1, len[s])
        /\ a.pages = k - 1 /\ a.part = 0
    BY <1>2, <1>4, <1>11
  <2>2. /\ Len(b.data) = Len(a.data) + len[s]
        /\ Ordered(o) => \A i \in 1 .. Len(b.data) : b.data[i] = o[0] + i
    <3>1. len[s] \in 0 .. len[s]
      BY <1>3
    <3> QED
      BY <1>10, <1>11, <2>1, <3>1
  <2>3. b.pages = k
    BY <1>1, <2>1
  <2>4. o[0] + Len(a.data) = o[k - 1]
    BY <1>4, <1>6, <2>1
  <2>5. o[0] + Len(b.data) = o[k] + 0 /\ b.want = left[r] - Len(b.data)
    <3>1. a.want = left[r] - Len(a.data)
      BY <1>4
    <3> QED
      <4>1. Len(b.data) = Len(a.data) + len[s] /\ Len(b.data) \in Nat
        BY <1>3, <2>2
      <4>2. b.want = left[r] - Len(b.data)
        BY <1>3, <2>1, <3>1, <4>1, SMTT(40)
      <4>3. o[0] + Len(b.data) = o[k]
        <5>1. /\ o[0] \in Int /\ o[k - 1] \in Int /\ o[k] \in Int
              /\ Len(a.data) \in Int /\ len[s] \in Int
          BY <1>3, <1>6
        <5>2. len[s] = o[k] - o[k - 1]
          BY <1>5
        <5>3. o[0] + (Len(a.data) + len[s]) = o[k - 1] + len[s]
          BY <2>4, <5>1, SMTT(40)
        <5>4. o[k - 1] + len[s] = o[k]
          BY <5>1, <5>2
        <5> QED
          BY <4>1, <5>3, <5>4
      <4> QED
        BY <1>6, <4>2, <4>3
  <2>6. Ends(b.cidx, k)
    <3>1. Ends(a.cidx, k - 1)
      BY <1>4, <2>1
    <3>2. CASE info[s].eop
      <4>1. b.cidx = info[s].cidx /\ k \in 1 .. k /\ \A j \in k + 1 .. k : FALSE
        BY <1>1, <2>1, <3>2
      <4> QED
        BY <3>2, <4>1 DEF Ends, s
    <3>3. CASE ~info[s].eop
      <4>1. b.cidx = a.cidx
        BY <2>1, <3>3
      <4>2. \A j \in 1 .. k : j = k \/ j \in 1 .. k - 1
        BY <1>1
      <4>3. ~info[Unread[k]].eop
        BY <3>3 DEF s
      <4>4. CASE a.cidx = cidxPend /\ \A j \in 1 .. k - 1 : ~info[Unread[j]].eop
        BY <4>1, <4>2, <4>3, <4>4 DEF Ends
      <4>5. CASE \E q \in 1 .. k - 1 :
                   /\ info[Unread[q]].eop /\ a.cidx = info[Unread[q]].cidx
                   /\ \A j \in q + 1 .. k - 1 : ~info[Unread[j]].eop
        <5>1. PICK q \in 1 .. k - 1 :
                   /\ info[Unread[q]].eop /\ a.cidx = info[Unread[q]].cidx
                   /\ \A j \in q + 1 .. k - 1 : ~info[Unread[j]].eop
          BY <4>5
        <5>2. q \in 1 .. k /\ \A j \in q + 1 .. k : j = k \/ j \in q + 1 .. k - 1
          BY <1>1
        <5> QED
          BY <4>1, <4>3, <5>1, <5>2 DEF Ends
      <4> QED
        BY <3>1, <4>4, <4>5 DEF Ends
    <3> QED
      BY <3>2, <3>3
  <2> QED
    <3>1. /\ b.pages \in 0 .. k /\ b.part = 0
          /\ o[0] + Len(b.data) = o[b.pages] + b.part
          /\ Ends(b.cidx, b.pages)
      <4>1. b.pages \in 0 .. k /\ b.part = 0
        BY <1>1, <2>1, <2>3
      <4>2. o[0] + Len(b.data) = o[b.pages] + b.part
        BY <2>3, <2>5, <4>1
      <4>3. Ends(b.cidx, b.pages)
        BY <2>3, <2>6
      <4> QED
        BY <4>1, <4>2, <4>3
    <3> QED
      BY <1>8, <2>2, <2>3, <2>5, <3>1 DEF Copied
<1>12. CASE a.want > 0 /\ a.want < len[s]
  <2> HIDE DEF s
  <2>1. /\ b.want = 0 /\ b.pages = a.pages /\ b.part = a.want /\ b.cidx = a.cidx
        /\ b.data = a.data \o SubSeq(page[s], 1, a.want)
        /\ a.pages = k - 1 /\ a.part = 0
    BY <1>2, <1>4, <1>12
  <2>2. /\ Len(b.data) = Len(a.data) + a.want
        /\ Ordered(o) => \A i \in 1 .. Len(b.data) : b.data[i] = o[0] + i
    <3>1. a.want \in 0 .. len[s]
      BY <1>3, <1>12
    <3> QED
      BY <1>10, <1>12, <2>1, <3>1
  <2>3. o[0] + Len(a.data) = o[k - 1]
    BY <1>4, <1>6, <2>1
  <2>4. /\ b.want = left[r] - Len(b.data)
        /\ o[0] + Len(b.data) = o[k - 1] + b.part
        /\ o[k - 1] + b.part < o[k]
    <3>1. a.want = left[r] - Len(a.data)
      BY <1>4
    <3> QED
      <4>1. Len(b.data) = Len(a.data) + a.want /\ Len(b.data) \in Nat
        BY <1>3, <2>2, SMTT(40)
      <4>2. b.want = left[r] - Len(b.data)
        BY <1>3, <2>1, <3>1, <4>1, SMTT(60)
      <4>3. o[0] + Len(b.data) = o[k - 1] + b.part
        BY <1>3, <1>6, <2>1, <2>3, <4>1, SMTT(60)
      <4>4. o[k - 1] + b.part < o[k]
        BY <1>3, <1>5, <1>6, <1>12, <2>1
      <4> QED
        BY <4>2, <4>3, <4>4
  <2>5. b.pages = k - 1 /\ k - 1 \in 0 .. k /\ k - 1 < k /\ k - 1 + 1 = k
    BY <1>1, <2>1
  <2>6. Ends(b.cidx, b.pages)
    BY <1>4, <2>1
  <2> QED
    <3>1. /\ b.pages \in 0 .. k /\ b.want = 0
          /\ o[0] + Len(b.data) = o[b.pages] + b.part
          /\ b.pages < k /\ o[b.pages] + b.part < o[b.pages + 1]
      BY <2>1, <2>4, <2>5
    <3> QED
      BY <1>8, <2>2, <2>4, <2>6, <3>1 DEF Copied
<1> QED
  BY <1>3, <1>9, <1>11, <1>12

\* The whole loop.
LEMMA ReadPagesEffect ==
  ASSUME Types, NEW r \in Readers, NEW o \in [0 .. Len(Unread) -> Nat],
         \A k \in 1 .. Len(Unread) : /\ len[Unread[k]] = o[k] - o[k - 1]
                                     /\ len[Unread[k]] <= Len(page[Unread[k]])
  PROVE  /\ ReadPages(r) \in Copies
         /\ Copied(ReadPages(r), r, o, Len(Unread))
<1> DEFINE n == Len(Unread)
<1>1. n \in Nat
  BY UnreadPages, RingAssumption
<1>2. PICK f \in [0 .. Len(Unread) -> Copies] :
           /\ f[0] = Start(r)
           /\ \A k \in 1 .. Len(Unread) : f[k] = ReadPage(f[k - 1], Unread[k])
           /\ ReadPages(r) = f[Len(Unread)]
  BY CopyLoop
<1>3. Copied(f[0], r, o, 0)
  <2> DEFINE c == Start(r)
  <2>1. /\ c.want = left[r] /\ c.data = <<>> /\ c.pages = 0 /\ c.part = 0 /\ c.cidx = cidxPend
    BY DEF Start
  <2> HIDE DEF c
  <2>2. Len(c.data) = 0 /\ left[r] \in Nat /\ o[0] \in Nat
    <3>1. left[r] \in Nat
      BY DEF Types, TypeOK
    <3>2. o[0] \in Nat
      BY <1>1
    <3> QED
      BY <2>1, <3>1, <3>2
  <2>3. Ends(c.cidx, 0)
    BY <2>1 DEF Ends
  <2>4. Copied(c, r, o, 0)
    BY <2>1, <2>2, <2>3 DEF Copied
  <2> QED
    BY <1>2, <2>4 DEF c
<1>4. \A k \in 0 .. n : Copied(f[k], r, o, k)
  <2> DEFINE T == {k \in 0 .. n : ~Copied(f[k], r, o, k)}
  <2> SUFFICES ASSUME T # {} PROVE FALSE
    OBVIOUS
  <2>1. PICK m \in T : \A y \in T : m <= y
    <3>1. T \subseteq Nat
      OBVIOUS
    <3> HIDE DEF T
    <3> QED
      BY <3>1, NatMin
  <2>2. m \in 1 .. n
    BY <1>1, <1>3, <2>1
  <2>3. m - 1 \in 0 .. n /\ ~(m <= m - 1)
    BY <1>1, <2>2
  <2>4. Copied(f[m - 1], r, o, m - 1)
    BY <2>1, <2>3
  <2>5. f[m] = ReadPage(f[m - 1], Unread[m]) /\ f[m - 1] \in Copies
    BY <1>2, <2>2, <2>3
  <2>6. Copied(f[m], r, o, m)
    BY <2>2, <2>4, <2>5, CopiedStep
  <2> QED
    BY <2>1, <2>6
<1> QED
  BY <1>1, <1>2, <1>4

\* The sum over the pages with data not read.
LEMMA UnitsOnPages ==
  ASSUME Types, NEW o \in [0 .. Len(Unread) -> Nat],
         \A k \in 1 .. Len(Unread) : len[Unread[k]] = o[k] - o[k - 1]
  PROVE  UnitsOn[Len(Unread)] = o[Len(Unread)] - o[0]
<1> DEFINE n == Len(Unread)
           Sums(g) == [k \in 0 .. n |-> IF k = 0 THEN 0 ELSE g[k - 1] + len[Unread[k]]]
           f == [k \in 0 .. n |-> o[k] - o[0]]
<1>1. n \in Nat
  BY UnreadPages, RingAssumption
<1>2. \A k \in 0 .. n : f[k] = o[k] - o[0] /\ o[k] \in Nat
  OBVIOUS
<1> HIDE DEF f
<1>3. ASSUME NEW k \in 1 .. n PROVE f[k] = f[k - 1] + len[Unread[k]]
  <2>1. k \in 0 .. n /\ k - 1 \in 0 .. n /\ 0 \in 0 .. n
    BY <1>1
  <2>2. o[k] \in Nat /\ o[k - 1] \in Nat /\ o[0] \in Nat
    BY <1>2, <2>1
  <2>3. f[k] = o[k] - o[0] /\ f[k - 1] = o[k - 1] - o[0]
    BY <1>2, <2>1
  <2>4. len[Unread[k]] = o[k] - o[k - 1]
    OBVIOUS
  <2> QED
    BY <2>2, <2>3, <2>4
<1>4. f = Sums(f)
  <2>1. \A k \in 0 .. n : f[k] = IF k = 0 THEN 0 ELSE f[k - 1] + len[Unread[k]]
    <3> SUFFICES ASSUME NEW k \in 0 .. n
                 PROVE  f[k] = IF k = 0 THEN 0 ELSE f[k - 1] + len[Unread[k]]
      OBVIOUS
    <3>1. CASE k = 0
      BY <1>2, <3>1
    <3>2. CASE k # 0
      BY <1>1, <1>3, <3>2
    <3> QED
      BY <3>1, <3>2
  <2>2. f = [k \in 0 .. n |-> f[k]]
    BY DEF f
  <2> QED
    BY <2>1, <2>2
<1>5. UnitsOn = Sums(UnitsOn)
  <2>1. UnitsOn = CHOOSE g : g = Sums(g)
    BY DEF UnitsOn, n
  <2> HIDE DEF Sums
  <2> QED
    BY <1>4, <2>1
<1>6. \A k \in 0 .. n : UnitsOn[k] = IF k = 0 THEN 0 ELSE UnitsOn[k - 1] + len[Unread[k]]
  BY <1>5
<1> HIDE DEF n
<1>7. UnitsOn[n] = f[n]
  <2> DEFINE T == {k \in 0 .. n : UnitsOn[k] # f[k]}
  <2> SUFFICES ASSUME n \in T PROVE FALSE
    BY <1>1
  <2>1. PICK m \in T : \A y \in T : m <= y
    <3>1. T \subseteq Nat /\ T # {}
      OBVIOUS
    <3> HIDE DEF T
    <3> QED
      BY <3>1, NatMin
  <2>2. m \in 0 .. n /\ UnitsOn[m] # f[m]
    BY <2>1
  <2>3. m # 0
    BY <1>1, <1>2, <1>6, <2>2
  <2>4. m \in 1 .. n /\ m - 1 \in 0 .. n /\ ~(m <= m - 1)
    BY <1>1, <2>2, <2>3
  <2>5. UnitsOn[m - 1] = f[m - 1]
    BY <2>1, <2>4
  <2> QED
    BY <1>3, <1>6, <2>2, <2>3, <2>4, <2>5
<1> QED
  BY <1>1, <1>2, <1>7 DEF n

-----------------------------------------------------------------------------
(* Pages between the cursors.                                              *)

\* The cursors, seen from the first page not read.
LEMMA FromPending ==
  ASSUME Types, PageOrder
  PROVE  /\ Cursor \in Slots /\ Base \in Slots
         /\ RingDelta(pidx, pidxPend) = RingDelta(pidx, Base) - RingDelta(pidxPend, Base)
         /\ RingDelta(Cursor, pidxPend) = RingDelta(Cursor, Base) - RingDelta(pidxPend, Base)
         /\ RingDelta(hwPidx, pidxPend) = RingDelta(hwPidx, Base) - RingDelta(pidxPend, Base)
         /\ RingDelta(pidx, pidxPend) <= RingDelta(Cursor, pidxPend)
         /\ RingDelta(Cursor, pidxPend) <= RingDelta(hwPidx, pidxPend)
<1>1. Cursor \in Slots /\ Base \in Slots
  BY DEF Types, TypeOK, Cursor, Base
<1>2. pidx \in Slots /\ pidxPend \in Slots /\ hwPidx \in Slots
  BY DEF Types, TypeOK
<1> DEFINE c == Cursor
           b == Base
<1>3. /\ RingDelta(pidxPend, b) <= RingDelta(pidx, b)
      /\ RingDelta(pidx, b) <= RingDelta(c, b)
      /\ RingDelta(c, b) <= RingDelta(hwPidx, b)
  BY DEF PageOrder
<1>4. c \in Slots /\ b \in Slots
  BY <1>1
<1> HIDE DEF c, b
<1>5. /\ RingDelta(pidx, b) \in Int /\ RingDelta(c, b) \in Int /\ RingDelta(hwPidx, b) \in Int
      /\ RingDelta(pidxPend, b) \in Int
  BY <1>2, <1>4, DeltaRange
<1>6. RingDelta(pidx, pidxPend) = RingDelta(pidx, b) - RingDelta(pidxPend, b)
  BY <1>2, <1>3, <1>4, DeltaRebase
<1>7. RingDelta(c, pidxPend) = RingDelta(c, b) - RingDelta(pidxPend, b)
  BY <1>2, <1>3, <1>4, <1>5, DeltaRebase
<1>8. RingDelta(hwPidx, pidxPend) = RingDelta(hwPidx, b) - RingDelta(pidxPend, b)
  BY <1>2, <1>3, <1>4, <1>5, DeltaRebase
<1> QED
  BY <1>1, <1>3, <1>5, <1>6, <1>7, <1>8 DEF c, b

\* The unread pages hold what comes after the units read.
LEMMA Offsets ==
  ASSUME Types, PageOrder, NEW pb \in [Slots -> Nat], Content(pb), Lengths(pb)
  PROVE  \E o \in [0 .. Len(Unread) -> Nat] :
           /\ o[0] = Len(out) /\ o[Len(Unread)] = pb[pidx]
           /\ \A k \in 1 .. Len(Unread) :
                /\ o[k] = pb[After(Unread[k])]
                /\ len[Unread[k]] = o[k] - o[k - 1]
                /\ len[Unread[k]] <= Len(page[Unread[k]])
                /\ \A i \in 1 .. len[Unread[k]] : page[Unread[k]][i] = pb[Unread[k]] + i
                /\ k > 1 => o[k - 1] = pb[Unread[k]]
<1> DEFINE n == Len(Unread)
           o == [k \in 0 .. n |-> IF k = 0 THEN Len(out) ELSE pb[After(Unread[k])]]
<1>1. pidx \in Slots /\ pidxPend \in Slots /\ Len(out) \in Nat /\ \A s \in Slots : len[s] \in Nat
  <2>1. \A s \in Slots : len[s] \in 0 .. PgSz
    BY DEF Types, TypeOK
  <2>2. pidx \in Slots /\ pidxPend \in Slots /\ out \in Seq(Nat)
    BY DEF Types, TypeOK
  <2> QED
    BY <2>1, <2>2, RingAssumption
<1>2. /\ n = RingDelta(pidx, pidxPend) /\ n \in 0 .. RngSz - 1 /\ n \in Nat
      /\ \A k \in 1 .. n : /\ Unread[k] \in Slots
                            /\ RingDelta(Unread[k], pidxPend) = k - 1
  BY UnreadPages, RingAssumption
<1> HIDE DEF n, o
<1>3. o[0] = Len(out) /\ \A k \in 1 .. n : o[k] = pb[After(Unread[k])]
  BY <1>2 DEF o
<1>4. \A k \in 1 .. n : After(Unread[k]) \in Slots
  BY <1>1, <1>2, AfterDelta
<1>5. o \in [0 .. n -> Nat]
  BY <1>1, <1>2, <1>4 DEF o
<1>6. ASSUME NEW k \in 1 .. n, k > 1
      PROVE  /\ k - 1 \in 1 .. n /\ Unread[k] = After(Unread[k - 1])
             /\ o[k - 1] = pb[Unread[k]] /\ Unread[k] # pidxPend
  <2>1. k - 1 \in 1 .. n
    BY <1>2, <1>6
  <2> DEFINE u == Unread[k - 1]
             v == Unread[k]
  <2>2. u \in Slots /\ v \in Slots /\ RingDelta(u, pidxPend) = k - 2 /\ RingDelta(v, pidxPend) = k - 1
    BY <1>2, <2>1
  <2> HIDE DEF u, v
  <2>3. After(u) \in Slots /\ RingDelta(After(u), pidxPend) = k - 1
    <3>1. RingDelta(u, pidxPend) + 1 < RngSz /\ RingDelta(u, pidxPend) + 1 = k - 1
      BY <1>2, <2>1, <2>2, RingAssumption
    <3> QED
      BY <1>1, <2>2, <3>1, AfterDelta
  <2>4. v = After(u)
    BY <1>1, <2>2, <2>3, DeltaInverse
  <2>5. v # pidxPend
    BY <1>1, <1>6, <2>2, DeltaRange
  <2> QED
    BY <1>3, <2>1, <2>4, <2>5 DEF u, v
<1>7. n > 0 => o[n] = pb[pidx] /\ Unread[1] = pidxPend
  <2> SUFFICES ASSUME n > 0 PROVE o[n] = pb[pidx] /\ Unread[1] = pidxPend
    OBVIOUS
  <2>1. n \in 1 .. n /\ 1 \in 1 .. n
    BY <1>2
  <2> DEFINE u == Unread[n]
             v == Unread[1]
  <2>2. u \in Slots /\ v \in Slots /\ RingDelta(u, pidxPend) = n - 1 /\ RingDelta(v, pidxPend) = 0
    BY <1>2, <2>1
  <2> HIDE DEF u, v
  <2>3. After(u) \in Slots /\ RingDelta(After(u), pidxPend) = n
    <3>1. RingDelta(u, pidxPend) + 1 < RngSz /\ RingDelta(u, pidxPend) + 1 = n
      BY <1>2, <2>2, RingAssumption
    <3> QED
      BY <1>1, <2>2, <3>1, AfterDelta
  <2>4. After(u) = pidx
    BY <1>1, <1>2, <2>3, DeltaInverse
  <2>5. v = pidxPend
    BY <1>1, <2>2, DeltaRange
  <2> QED
    BY <1>3, <2>1, <2>4, <2>5 DEF u, v
<1>8. n = 0 => o[n] = pb[pidx]
  <2> SUFFICES ASSUME n = 0 PROVE o[0] = pb[pidx]
    OBVIOUS
  <2>1. pidx = pidxPend
    BY <1>1, <1>2, DeltaRange
  <2> QED
    BY <1>3, <2>1 DEF Lengths
<1>9. ASSUME NEW k \in 1 .. n
      PROVE  /\ len[Unread[k]] = o[k] - o[k - 1]
             /\ len[Unread[k]] <= Len(page[Unread[k]])
             /\ \A i \in 1 .. len[Unread[k]] : page[Unread[k]][i] = pb[Unread[k]] + i
  <2> DEFINE u == Unread[k]
  <2>1. u \in Slots /\ RingDelta(u, pidxPend) = k - 1 /\ After(u) \in Slots /\ k \in 0 .. n
    BY <1>2, <1>4
  <2>2. pidx # pidxPend
    BY <1>1, <1>2, DeltaRange
  <2>3. o[k] = pb[After(u)] /\ pb[After(u)] \in Nat /\ pb[u] \in Nat /\ len[u] \in Nat
    BY <1>1, <1>3, <2>1
  <2>4. k > 1 => o[k - 1] = pb[u] /\ u # pidxPend
    BY <1>6
  <2>5. k = 1 => o[k - 1] = Len(out) /\ u = pidxPend
    BY <1>2, <1>3, <1>7
  <2> HIDE DEF u
  <2>6. RingDelta(u, pidxPend) < RingDelta(Cursor, pidxPend)
        /\ RingDelta(u, pidxPend) < RingDelta(hwPidx, pidxPend)
    <3>1. Cursor \in Slots /\ hwPidx \in Slots /\ RingDelta(pidx, pidxPend) <= RingDelta(Cursor, pidxPend)
          /\ RingDelta(Cursor, pidxPend) <= RingDelta(hwPidx, pidxPend)
      BY FromPending DEF Types, TypeOK
    <3>2. RingDelta(Cursor, pidxPend) \in Int /\ RingDelta(hwPidx, pidxPend) \in Int
      BY <1>1, <3>1, DeltaRange
    <3> QED
      BY <1>2, <2>1, <3>1, <3>2
  <2>7. /\ pb[After(u)] - pb[u] \in 0 .. PgSz
        /\ page[u] = [i \in 1 .. pb[After(u)] - pb[u] |-> pb[u] + i]
    BY <2>1, <2>6 DEF Content, Filled
  <2>8. len[u] = o[k] - o[k - 1] /\ len[u] <= pb[After(u)] - pb[u]
    <3>1. CASE k > 1
      <4>1. len[u] = pb[After(u)] - pb[u]
        BY <2>1, <2>4, <2>6, <3>1 DEF Lengths, Received
      <4> QED
        BY <2>3, <2>4, <3>1, <4>1
    <3>2. CASE k = 1
      <4>1. len[u] <= pb[After(u)] - pb[u] /\ Len(out) = pb[After(u)] - len[u]
        BY <2>2, <2>5, <3>2 DEF Lengths
      <4> QED
        BY <1>1, <2>3, <2>5, <3>2, <4>1
    <3> QED
      BY <3>1, <3>2
  <2>9. pb[After(u)] - pb[u] \in Nat
    BY <2>3, <2>7
  <2>10. Len(page[u]) = pb[After(u)] - pb[u]
    BY <2>7, <2>9
  <2>11. \A i \in 1 .. len[u] : page[u][i] = pb[u] + i
    BY <2>3, <2>7, <2>8, <2>9
  <2> QED
    BY <2>8, <2>10, <2>11 DEF u
<1> QED
  BY <1>2, <1>3, <1>5, <1>6, <1>7, <1>8, <1>9, SMTT(30) DEF n

\* As many pages are recycled as are counted.
LEMMA RecycledCount ==
  ASSUME NEW first \in Slots, NEW n \in 0 .. RngSz
  PROVE  Cardinality(Recycled(first, n)) = n
<1> DEFINE S == Recycled(first, n)
           f == [i \in 1 .. n |-> RingIncr(first, i - 1)]
<1>1. n \in Nat /\ RingDelta(first, first) = 0
  BY RingAssumption, DeltaRange
<1>2. ASSUME NEW i \in 1 .. n
      PROVE  /\ RingIncr(first, i - 1) \in Slots
             /\ RingDelta(RingIncr(first, i - 1), first) = i - 1
  <2>1. i - 1 \in Nat /\ RingDelta(first, first) + (i - 1) < RngSz
    BY <1>1, RingAssumption
  <2> QED
    BY <1>1, <2>1, DeltaIncr
<1>3. f \in [1 .. n -> S]
  BY <1>1, <1>2 DEF Recycled
<1>4. \A i, j \in 1 .. n : f[i] = f[j] => i = j
  <2> SUFFICES ASSUME NEW i \in 1 .. n, NEW j \in 1 .. n, f[i] = f[j] PROVE i = j
    OBVIOUS
  <2>1. i - 1 = j - 1
    BY <1>2
  <2> QED
    BY <2>1
<1>5. ASSUME NEW s \in S PROVE \E i \in 1 .. n : f[i] = s
  <2>1. s \in Slots /\ RingDelta(s, first) < n /\ RingDelta(s, first) \in 0 .. RngSz - 1
    BY DeltaRange DEF Recycled
  <2>2. RingDelta(s, first) + 1 \in 1 .. n /\ RingDelta(s, first) + 1 - 1 = RingDelta(s, first)
    BY <1>1, <2>1
  <2>3. f[RingDelta(s, first) + 1] = s
    BY <2>1, <2>2, DeltaInverse
  <2> QED
    BY <2>2, <2>3
<1> HIDE DEF f, S
<1>6. f \in Bijection(1 .. n, S)
  BY <1>3, <1>4, <1>5 DEF Bijection, Injection, Surjection, IsInjective
<1>7. ExistsBijection(1 .. n, S)
  BY <1>6 DEF ExistsBijection
<1> QED
  BY <1>1, <1>7, FS_CountingElements DEF S

-----------------------------------------------------------------------------
(* Reading.                                                                *)

\* What Read does, c being what was copied and o the last units of the pages.
ReadResult(pb, r, recycle, o, c) ==
  /\ o[0] = Len(out) /\ o[Len(Unread)] = pb[pidx]
  /\ \A k \in 1 .. Len(Unread) :
       /\ o[k] = pb[After(Unread[k])]
       /\ len[Unread[k]] = o[k] - o[k - 1]
       /\ len[Unread[k]] <= Len(page[Unread[k]])
       /\ \A i \in 1 .. len[Unread[k]] : page[Unread[k]][i] = pb[Unread[k]] + i
       /\ k > 1 => o[k - 1] = pb[Unread[k]]
  /\ Copied(c, r, o, Len(Unread))
  /\ got' = [got EXCEPT ![r] = @ \o c.data]
  /\ out' = out \o c.data
  /\ left' = [left EXCEPT ![r] = c.want]
  /\ dlen' = dlen - Len(c.data)
  /\ pidxPend' \in Slots /\ RingDelta(pidxPend', pidxPend) = c.pages
  /\ cidxPend' = c.cidx
  /\ len' = [s \in Slots |->
              IF recycle /\ RingDelta(s, pidxPend) < c.pages THEN PgSz
              ELSE IF s = pidxPend' /\ c.part > 0 THEN len[s] - c.part ELSE len[s]]
  /\ info' = [s \in Slots |->
              IF recycle /\ RingDelta(s, pidxPend) < c.pages THEN NoInfo ELSE info[s]]
  /\ avail' = avail + IF recycle THEN c.pages ELSE 0

\* Read copies what the pages hold, from the first unit not read on.
LEMMA ReadEffect ==
  ASSUME Types, PageOrder, NEW pb \in [Slots -> Nat], Content(pb), Lengths(pb),
         NEW r \in Readers, NEW recycle \in BOOLEAN, Read(r, recycle)
  PROVE  \E o \in [0 .. Len(Unread) -> Nat] : \E c \in Copies :
           ReadResult(pb, r, recycle, o, c)
<1> DEFINE c == ReadPages(r)
           back == IF recycle THEN Recycled(pidxPend, c.pages) ELSE {}
<1>1. PICK o \in [0 .. Len(Unread) -> Nat] :
           /\ o[0] = Len(out) /\ o[Len(Unread)] = pb[pidx]
           /\ \A k \in 1 .. Len(Unread) :
                /\ o[k] = pb[After(Unread[k])]
                /\ len[Unread[k]] = o[k] - o[k - 1]
                /\ len[Unread[k]] <= Len(page[Unread[k]])
                /\ \A i \in 1 .. len[Unread[k]] : page[Unread[k]][i] = pb[Unread[k]] + i
                /\ k > 1 => o[k - 1] = pb[Unread[k]]
  BY Offsets
<1>2. c \in Copies /\ Copied(c, r, o, Len(Unread))
  BY <1>1, ReadPagesEffect
<1>3. /\ got' = [got EXCEPT ![r] = @ \o c.data]
      /\ out' = out \o c.data
      /\ left' = [left EXCEPT ![r] = c.want]
      /\ dlen' = dlen - Len(c.data)
      /\ pidxPend' = RingIncr(pidxPend, c.pages)
      /\ cidxPend' = c.cidx
      /\ len' = [s \in Slots |-> CASE s \in back -> PgSz
                                   [] s = RingIncr(pidxPend, c.pages) /\ c.part > 0 -> len[s] - c.part
                                   [] OTHER -> len[s]]
      /\ info' = [s \in Slots |-> IF s \in back THEN NoInfo ELSE info[s]]
      /\ avail' = avail + Cardinality(back)
  BY DEF Read
<1> HIDE DEF c
<1>4. /\ c.pages \in 0 .. Len(Unread) /\ Len(Unread) \in 0 .. RngSz - 1
      /\ c.pages \in Nat /\ pidxPend \in Slots
  <2>1. c.pages \in 0 .. Len(Unread)
    BY <1>2 DEF Copied
  <2>2. Len(Unread) \in 0 .. RngSz - 1 /\ Len(Unread) \in Nat
    BY UnreadPages, RingAssumption
  <2>3. pidxPend \in Slots
    BY DEF Types, TypeOK
  <2> QED
    BY <2>1, <2>2, <2>3
<1>5. RingDelta(pidxPend, pidxPend) = 0
  BY <1>4, DeltaRange
<1>6. pidxPend' \in Slots /\ RingDelta(pidxPend', pidxPend) = c.pages
  <2>1. RingDelta(pidxPend, pidxPend) + c.pages < RngSz
    BY <1>4, <1>5, RingAssumption
  <2> QED
    BY <1>3, <1>4, <1>5, <2>1, DeltaIncr
<1>7. Cardinality(back) = IF recycle THEN c.pages ELSE 0
  <2>1. c.pages \in 0 .. RngSz
    BY <1>4, RingAssumption
  <2>2. Cardinality({}) = 0
    BY FS_EmptySet
  <2> QED
    BY <1>4, <2>1, <2>2, RecycledCount
<1>8. \A s \in Slots : s \in back <=> recycle /\ RingDelta(s, pidxPend) < c.pages
  BY DEF Recycled
<1> HIDE DEF back
<1>9. /\ len' = [s \in Slots |->
                  IF recycle /\ RingDelta(s, pidxPend) < c.pages THEN PgSz
                  ELSE IF s = pidxPend' /\ c.part > 0 THEN len[s] - c.part ELSE len[s]]
      /\ info' = [s \in Slots |->
                  IF recycle /\ RingDelta(s, pidxPend) < c.pages THEN NoInfo ELSE info[s]]
  <2>1. len' = [s \in Slots |-> CASE s \in back -> PgSz
                                  [] s = pidxPend' /\ c.part > 0 -> len[s] - c.part
                                  [] OTHER -> len[s]]
    BY <1>3
  <2>2. \A s \in Slots :
          (CASE s \in back -> PgSz
             [] s = pidxPend' /\ c.part > 0 -> len[s] - c.part
             [] OTHER -> len[s])
          = IF recycle /\ RingDelta(s, pidxPend) < c.pages THEN PgSz
            ELSE IF s = pidxPend' /\ c.part > 0 THEN len[s] - c.part ELSE len[s]
    <3> SUFFICES ASSUME NEW s \in Slots
                 PROVE  (CASE s \in back -> PgSz
                           [] s = pidxPend' /\ c.part > 0 -> len[s] - c.part
                           [] OTHER -> len[s])
                        = IF recycle /\ RingDelta(s, pidxPend) < c.pages THEN PgSz
                          ELSE IF s = pidxPend' /\ c.part > 0 THEN len[s] - c.part ELSE len[s]
      OBVIOUS
    <3>1. s = pidxPend' => s \notin back
      BY <1>4, <1>6, <1>8
    <3> QED
      BY <1>8, <3>1
  <2>3. info' = [s \in Slots |->
                  IF recycle /\ RingDelta(s, pidxPend) < c.pages THEN NoInfo ELSE info[s]]
    BY <1>3, <1>8
  <2> QED
    BY <2>1, <2>2, <2>3
<1> QED
  BY <1>1, <1>2, <1>3, <1>6, <1>7, <1>9 DEF ReadResult

\* Where a read ends.
LEMMA ReadEnd ==
  ASSUME Types, PageOrder, NEW pb \in [Slots -> Nat], Content(pb), Lengths(pb),
         NEW r \in Readers, NEW recycle \in BOOLEAN,
         NEW o \in [0 .. Len(Unread) -> Nat], NEW c \in Copies,
         ReadResult(pb, r, recycle, o, c), Cursor = pidx
  PROVE  /\ c.pages \in 0 .. Len(Unread) /\ c.part \in Nat
         /\ o[c.pages] \in Nat
         /\ out' \in Seq(Nat) /\ Len(out') = Len(out) + Len(c.data)
         /\ Len(out') = o[c.pages] + c.part
         /\ pidxPend' \in Slots
         /\ RingDelta(pidx, pidxPend') = Len(Unread) - c.pages
         /\ \A s \in Slots : RingDelta(s, pidxPend') < Len(Unread) - c.pages =>
              RingDelta(s, pidxPend) = RingDelta(s, pidxPend') + c.pages
         /\ c.pages < Len(Unread) =>
              /\ c.pages + 1 \in 1 .. Len(Unread) /\ pidxPend' = Unread[c.pages + 1]
              /\ len[pidxPend'] = o[c.pages + 1] - o[c.pages]
              /\ o[c.pages + 1] = pb[After(pidxPend')]
              /\ o[c.pages + 1] \in Nat /\ o[c.pages + 1] <= pb[pidx]
              /\ c.part = 0 \/ c.part < len[pidxPend']
              /\ len'[pidxPend'] = len[pidxPend'] - c.part
         /\ c.pages = Len(Unread) => c.part = 0 /\ o[c.pages] = pb[pidx] /\ pidxPend' = pidx
         /\ Len(out') <= pb[pidx]
<1> DEFINE n == Len(Unread)
           m == c.pages
           q == pidxPend'
<1>1. /\ n = RingDelta(pidx, pidxPend) /\ n \in 0 .. RngSz - 1 /\ n \in Nat
      /\ \A k \in 1 .. n : /\ Unread[k] \in Slots
                            /\ RingDelta(Unread[k], pidxPend) = k - 1
  BY UnreadPages, RingAssumption
<1>2. /\ m \in 0 .. n /\ m \in Nat /\ c.part \in Nat /\ c.data \in Seq(Nat) /\ Len(c.data) \in Nat
      /\ o[0] + Len(c.data) = o[m] + c.part
      /\ c.part > 0 => m < n /\ o[m] + c.part < o[m + 1]
      /\ o[m] \in Nat /\ o[0] \in Nat
  <2>1. c.part \in Nat /\ c.data \in Seq(Nat) /\ c.pages \in Nat
    BY DEF Copies
  <2>2. m \in 0 .. n /\ o[0] + Len(c.data) = o[m] + c.part
        /\ (c.part > 0 => m < n /\ o[m] + c.part < o[m + 1])
    BY DEF ReadResult, Copied
  <2>3. 0 \in 0 .. n
    BY <1>1
  <2> QED
    BY <2>1, <2>2, <2>3
<1>3. /\ o[0] = Len(out) /\ o[n] = pb[pidx]
      /\ \A k \in 1 .. n : o[k] = pb[After(Unread[k])] /\ len[Unread[k]] = o[k] - o[k - 1]
      /\ out' = out \o c.data
      /\ q \in Slots /\ RingDelta(q, pidxPend) = m
      /\ len' = [s \in Slots |->
                  IF recycle /\ RingDelta(s, pidxPend) < m THEN PgSz
                  ELSE IF s = q /\ c.part > 0 THEN len[s] - c.part ELSE len[s]]
  BY DEF ReadResult
<1>4. pidx \in Slots /\ pidxPend \in Slots /\ hwPidx \in Slots /\ out \in Seq(Nat) /\ len \in [Slots -> 0 .. PgSz]
  BY DEF Types, TypeOK
<1>5. RingDelta(pidx, pidxPend) <= RingDelta(hwPidx, pidxPend)
  <2>1. /\ RingDelta(Cursor, pidxPend) <= RingDelta(hwPidx, pidxPend)
    BY FromPending
  <2> QED
    BY <2>1
<1>6. \A s, t \in Slots :
       /\ RingDelta(s, pidxPend) <= RingDelta(t, pidxPend)
       /\ RingDelta(t, pidxPend) <= RingDelta(hwPidx, pidxPend)
       => pb[s] <= pb[t]
  BY DEF Content
<1>7. /\ out' \in Seq(Nat) /\ Len(out') = Len(out) + Len(c.data)
  BY <1>2, <1>3, <1>4, ConcatProperties
<1> HIDE DEF n, m, q
<1>8. Len(out') = o[m] + c.part
  BY <1>2, <1>3, <1>7
<1>9. RingDelta(pidx, q) = n - m
  BY <1>1, <1>2, <1>3, <1>4, DeltaRebase
<1>10. ASSUME NEW s \in Slots, RingDelta(s, q) < n - m
       PROVE  RingDelta(s, pidxPend) = RingDelta(s, q) + m
  <2>1. RingDelta(s, q) \in Int /\ RingDelta(q, pidxPend) = m
    BY <1>3, DeltaRange
  <2>2. RingDelta(s, q) + RingDelta(q, pidxPend) < RngSz
    BY <1>1, <1>2, <1>10, <2>1, RingAssumption
  <2> QED
    BY <1>3, <1>4, <2>1, <2>2, DeltaAdd
<1>11. m < n =>
         /\ m + 1 \in 1 .. n /\ q = Unread[m + 1]
         /\ len[q] = o[m + 1] - o[m]
         /\ o[m + 1] = pb[After(q)]
         /\ o[m + 1] \in Nat /\ o[m + 1] <= pb[pidx]
         /\ c.part = 0 \/ c.part < len[q]
         /\ len'[q] = len[q] - c.part
  <2> SUFFICES ASSUME m < n
               PROVE  /\ m + 1 \in 1 .. n /\ q = Unread[m + 1]
                      /\ len[q] = o[m + 1] - o[m]
                      /\ o[m + 1] = pb[After(q)]
                      /\ o[m + 1] \in Nat /\ o[m + 1] <= pb[pidx]
                      /\ c.part = 0 \/ c.part < len[q]
                      /\ len'[q] = len[q] - c.part
    OBVIOUS
  <2>1. m + 1 \in 1 .. n /\ m + 1 - 1 = m
    BY <1>1, <1>2
  <2>2. Unread[m + 1] \in Slots /\ RingDelta(Unread[m + 1], pidxPend) = m
    <3> DEFINE k == m + 1
    <3>1. k \in 1 .. n /\ k - 1 = m
      BY <2>1
    <3> HIDE DEF k
    <3>2. Unread[k] \in Slots /\ RingDelta(Unread[k], pidxPend) = k - 1
      BY <1>1, <3>1
    <3> QED
      BY <3>1, <3>2 DEF k
  <2>3. q = Unread[m + 1]
    BY <1>3, <1>4, <2>2, DeltaInverse
  <2>4. o[m + 1] = pb[After(q)] /\ len[q] = o[m + 1] - o[m]
    <3> DEFINE k == m + 1
    <3>1. k \in 1 .. n /\ k - 1 = m
      BY <2>1
    <3> HIDE DEF k
    <3>2. o[k] = pb[After(Unread[k])] /\ len[Unread[k]] = o[k] - o[k - 1]
      BY <1>3, <3>1
    <3> QED
      BY <2>3, <3>1, <3>2 DEF k
  <2>5. After(q) \in Slots /\ RingDelta(After(q), pidxPend) = m + 1
    <3>1. RingDelta(q, pidxPend) + 1 < RngSz
      BY <1>1, <1>2, <1>3, RingAssumption
    <3> QED
      BY <1>3, <1>4, <3>1, AfterDelta
  <2>6. o[m + 1] \in Nat
    BY <2>4, <2>5
  <2>7. pb[After(q)] <= pb[pidx]
    <3>1. RingDelta(After(q), pidxPend) <= RingDelta(pidx, pidxPend)
      BY <1>1, <1>2, <2>5
    <3> QED
      BY <1>4, <1>5, <1>6, <2>5, <3>1
  <2>8. c.part = 0 \/ c.part < len[q]
    BY <1>2, <2>4, <2>6
  <2>9. len[q] \in Nat
    BY <1>3, <1>4, RingAssumption
  <2>10. len'[q] = len[q] - c.part
    <3>1. len'[q] = IF c.part > 0 THEN len[q] - c.part ELSE len[q]
      BY <1>2, <1>3
    <3> QED
      BY <1>2, <2>9, <3>1
  <2> QED
    BY <2>1, <2>3, <2>4, <2>6, <2>7, <2>8, <2>10
<1>12. m = n => c.part = 0 /\ o[m] = pb[pidx] /\ q = pidx
  <2> SUFFICES ASSUME m = n PROVE c.part = 0 /\ o[m] = pb[pidx] /\ q = pidx
    OBVIOUS
  <2>1. c.part = 0
    BY <1>1, <1>2
  <2>2. q = pidx
    BY <1>1, <1>3, <1>4, DeltaInverse
  <2> QED
    BY <1>3, <2>1, <2>2
<1>13. Len(out') <= pb[pidx]
  <2>1. pb[pidx] \in Nat
    BY <1>4
  <2>2. CASE m = n
    BY <1>2, <1>8, <1>12, <2>1, <2>2
  <2>3. CASE m < n
    <3>1. o[m] + c.part <= o[m + 1]
      <4>1. len[q] \in Nat
        BY <1>3, <1>4, RingAssumption
      <4> QED
        BY <1>2, <1>11, <2>3, <4>1, SMTT(40)
    <3> QED
      BY <1>2, <1>8, <1>11, <2>1, <2>3, <3>1
  <2> QED
    BY <1>1, <1>2, <2>2, <2>3
<1> QED
  BY <1>2, <1>3, <1>7, <1>8, <1>9, <1>10, <1>11, <1>12, <1>13 DEF n, m, q

\* When the first page not read moves on, the pages that are left hold what
\* they held.
LEMMA ContentForward ==
  ASSUME Types, NEW pb, Content(pb), pidxPend' \in Slots,
         RingDelta(pidxPend', pidxPend) <= RingDelta(hwPidx, pidxPend),
         UNCHANGED <<hwPidx, sent, page>>
  PROVE  Content(pb)'
<1> DEFINE p == pidxPend
           q == pidxPend'
           h == hwPidx
<1>1. p \in Slots /\ q \in Slots /\ h \in Slots
  BY DEF Types, TypeOK
<1>2. pb[h] = sent
  BY DEF Content
<1>3. \A s \in Slots : RingDelta(s, p) < RingDelta(h, p) =>
         /\ pb[After(s)] - pb[s] \in 0 .. PgSz
         /\ page[s] = [i \in 1 .. pb[After(s)] - pb[s] |-> pb[s] + i]
  BY DEF Content, Filled
<1>4. \A s, t \in Slots :
         RingDelta(s, p) <= RingDelta(t, p) /\ RingDelta(t, p) <= RingDelta(h, p) => pb[s] <= pb[t]
  BY DEF Content
<1>5. /\ RingDelta(h, q) = RingDelta(h, p) - RingDelta(q, p)
      /\ \A s \in Slots : RingDelta(s, q) <= RingDelta(h, q) =>
           RingDelta(s, p) = RingDelta(s, q) + RingDelta(q, p)
  <2> HIDE DEF p, q, h
  <2>1. RingDelta(q, p) <= RingDelta(h, p)
    BY DEF p, q, h
  <2> QED
    BY <1>1, <2>1, Forward
<1>6. \A s \in Slots : RingDelta(s, p) \in Nat /\ RingDelta(s, q) \in Nat
  BY <1>1, DeltaRange, RingAssumption
<1>7. /\ \A s \in Slots : RingDelta(s, pidxPend)' = RingDelta(s, q)
      /\ RingDelta(hwPidx, pidxPend)' = RingDelta(h, q)
      /\ \A s : After(s)' = After(s)
  BY DEF RingDelta, After, RingIncr
<1> HIDE DEF p, q, h
<1>8. ASSUME NEW s \in Slots, RingDelta(s, q) < RingDelta(h, q)
      PROVE  /\ pb[After(s)] - pb[s] \in 0 .. PgSz
             /\ page[s] = [i \in 1 .. pb[After(s)] - pb[s] |-> pb[s] + i]
  BY <1>1, <1>3, <1>5, <1>6, <1>8, SMTT(40)
<1>9. ASSUME NEW s \in Slots, NEW t \in Slots,
             RingDelta(s, q) <= RingDelta(t, q), RingDelta(t, q) <= RingDelta(h, q)
      PROVE  pb[s] <= pb[t]
  BY <1>1, <1>4, <1>5, <1>6, <1>9
<1> QED
  BY <1>2, <1>7, <1>8, <1>9 DEF Content, Filled, h

\* What is left to be read, and how much.
LEMMA ReadLengths ==
  ASSUME Types, PageOrder, NEW pb \in [Slots -> Nat], Content(pb), Lengths(pb),
         NEW r \in Readers, NEW recycle \in BOOLEAN,
         NEW o \in [0 .. Len(Unread) -> Nat], NEW c \in Copies,
         ReadResult(pb, r, recycle, o, c), Cursor = pidx, Cursor' = pidx,
         UNCHANGED <<pidx, halted>>
  PROVE  /\ Lengths(pb)'
         /\ dlen' \in Nat /\ len' \in [Slots -> 0 .. PgSz]
<1> DEFINE n == Len(Unread)
           m == c.pages
           p == pidxPend
           q == pidxPend'
<1>1. /\ n = RingDelta(pidx, p) /\ n \in 0 .. RngSz - 1 /\ n \in Nat
  BY UnreadPages, RingAssumption
<1>2. /\ m \in 0 .. n /\ c.part \in Nat /\ o[m] \in Nat
      /\ Len(out') = Len(out) + Len(c.data) /\ Len(out') \in Nat
      /\ Len(out') = o[m] + c.part
      /\ q \in Slots
      /\ RingDelta(pidx, q) = n - m
      /\ \A s \in Slots : RingDelta(s, q) < n - m => RingDelta(s, p) = RingDelta(s, q) + m
      /\ m < n => /\ len[q] = o[m + 1] - o[m]
                  /\ o[m + 1] = pb[After(q)] /\ o[m + 1] \in Nat
                  /\ c.part = 0 \/ c.part < len[q]
                  /\ len'[q] = len[q] - c.part
      /\ m = n => c.part = 0 /\ o[m] = pb[pidx] /\ q = pidx
      /\ Len(out') <= pb[pidx]
  BY ReadEnd, SMTT(30)
<1>3. /\ dlen' = dlen - Len(c.data)
      /\ RingDelta(q, p) = m
      /\ len' = [s \in Slots |->
                  IF recycle /\ RingDelta(s, p) < m THEN PgSz
                  ELSE IF s = q /\ c.part > 0 THEN len[s] - c.part ELSE len[s]]
  BY DEF ReadResult
<1>4. /\ pidx \in Slots /\ p \in Slots /\ dlen \in Nat /\ out \in Seq(Nat)
      /\ len \in [Slots -> 0 .. PgSz]
  BY DEF Types, TypeOK
<1>5. /\ c.data \in Seq(Nat) /\ Len(c.data) \in Nat /\ Len(out) \in Nat
  <2>1. c.data \in Seq(Nat)
    BY DEF Copies
  <2> QED
    BY <1>4, <2>1
<1>6. \A s \in Slots : RingDelta(s, p) \in Nat /\ RingDelta(s, q) \in Nat /\ len[s] \in Nat /\ len[s] <= PgSz
  BY <1>2, <1>4, DeltaRange, RingAssumption
<1>7. /\ \A s \in Slots : RingDelta(s, p) < n /\ (s # p \/ pidx = p) => len[s] = pb[After(s)] - pb[s]
      /\ pidx # p => len[p] <= pb[After(p)] - pb[p]
      /\ Len(out) + dlen >= pb[pidx]
      /\ ~halted => Len(out) + dlen = pb[pidx]
  BY <1>1 DEF Lengths, Received
<1>8. pb[pidx] \in Nat /\ \A s \in Slots : After(s) \in Slots /\ pb[s] \in Nat /\ pb[After(s)] \in Nat
  BY <1>4, AfterDelta
<1> HIDE DEF n, m, q, p
<1>9. /\ q = p => m = 0
      /\ RingDelta(pidx, q) = 0 <=> pidx = q
      /\ \A s \in Slots : RingDelta(s, q) = 0 <=> s = q
  <2>1. q = p => m = 0
    BY <1>2, <1>3, <1>4, DeltaRange
  <2> QED
    BY <1>2, <1>4, <2>1, DeltaRange
<1>10. dlen' \in Nat /\ Len(out') + dlen' = Len(out) + dlen
  <2> DEFINE x == Len(out)
             y == Len(c.data)
             z == Len(out')
  <2>1. x \in Nat /\ y \in Nat /\ z = x + y /\ z <= pb[pidx] /\ pb[pidx] \in Nat
    BY <1>2, <1>5, <1>8
  <2>2. x + dlen >= pb[pidx] /\ dlen \in Nat /\ dlen' = dlen - y
    BY <1>3, <1>4, <1>7
  <2> HIDE DEF x, y, z
  <2>3. dlen' \in Nat /\ z + dlen' = x + dlen
    BY <2>1, <2>2
  <2> QED
    BY <2>3 DEF x, z
<1>11. ASSUME NEW s \in Slots PROVE len'[s] \in 0 .. PgSz
  <2>1. len'[s] = IF recycle /\ RingDelta(s, p) < m THEN PgSz
                  ELSE IF s = q /\ c.part > 0 THEN len[s] - c.part ELSE len[s]
    BY <1>3
  <2>2. CASE s # q \/ m = n
    BY <1>2, <1>6, <2>1, <2>2, RingAssumption
  <2>3. CASE s = q /\ m < n
    <3>1. len'[q] = len[q] - c.part /\ (c.part = 0 \/ c.part < len[q]) /\ c.part \in Nat
      BY <1>2, <2>3
    <3>2. len[q] \in Nat /\ len[q] <= PgSz
      BY <1>2, <1>6
    <3> QED
      BY <2>3, <3>1, <3>2, RingAssumption
  <2> QED
    BY <1>1, <1>2, <2>2, <2>3
<1>12. len' \in [Slots -> 0 .. PgSz]
  <2>1. len' = [s \in Slots |-> len'[s]]
    BY <1>3
  <2> QED
    BY <1>11, <2>1
<1>13. ASSUME NEW s \in Slots, RingDelta(s, q) < n - m, s # q \/ pidx = q
       PROVE  len'[s] = pb[After(s)] - pb[s]
  <2>1. s # q /\ RingDelta(s, q) > 0
    <3>1. CASE pidx = q
      <4>1. n - m = 0
        BY <1>2, <1>9, <3>1
      <4> QED
        BY <1>6, <1>13, <4>1
    <3>2. CASE s # q
      <4>1. RingDelta(s, q) # 0 /\ RingDelta(s, q) \in Nat
        BY <1>6, <1>9, <3>2
      <4> QED
        BY <3>2, <4>1
    <3> QED
      BY <1>13, <3>1, <3>2
  <2>2. RingDelta(s, p) = RingDelta(s, q) + m
    BY <1>2, <1>13
  <2>3. RingDelta(s, p) < n /\ RingDelta(s, p) > 0 /\ ~(RingDelta(s, p) < m)
    <3> DEFINE x == RingDelta(s, q)
               y == RingDelta(s, p)
    <3>1. x \in Nat /\ y = x + m /\ x < n - m /\ x > 0 /\ m \in Nat /\ n \in Nat
      BY <1>1, <1>2, <1>6, <1>13, <2>1, <2>2
    <3> HIDE DEF x, y
    <3>2. y < n /\ y > 0 /\ ~(y < m)
      BY <3>1
    <3> QED
      BY <3>2 DEF y
  <2>4. s # p
    BY <1>4, <2>3, DeltaRange
  <2>5. len[s] = pb[After(s)] - pb[s]
    BY <1>7, <2>3, <2>4
  <2> QED
    BY <1>3, <2>1, <2>3, <2>5
<1>14. pidx = q => Len(out') = pb[q]
  <2> SUFFICES ASSUME pidx = q PROVE Len(out') = pb[q]
    OBVIOUS
  <2>1. m = n
    BY <1>1, <1>2, <1>9
  <2> QED
    BY <1>2, <1>4, <1>8, <2>1
<1>15. pidx # q => len'[q] <= pb[After(q)] - pb[q] /\ Len(out') = pb[After(q)] - len'[q]
  <2> SUFFICES ASSUME pidx # q
               PROVE  len'[q] <= pb[After(q)] - pb[q] /\ Len(out') = pb[After(q)] - len'[q]
    OBVIOUS
  <2>1. m < n
    BY <1>1, <1>2, <1>9
  <2>2. RingDelta(q, p) < n
    BY <1>3, <2>1
  <2>3. len[q] <= pb[After(q)] - pb[q]
    <3>1. pidx = p => FALSE
      BY <1>1, <1>2, <1>4, <2>1, DeltaRange
    <3>2. CASE q = p
      BY <1>7, <3>1, <3>2
    <3>3. CASE q # p
      BY <1>2, <1>6, <1>7, <1>8, <2>2, <3>3
    <3> QED
      BY <3>2, <3>3
  <2>4. len'[q] = len[q] - c.part /\ Len(out') = o[m] + c.part /\ len[q] = o[m + 1] - o[m] /\ o[m + 1] = pb[After(q)]
    BY <1>2, <2>1
  <2> DEFINE x == len'[q]
             y == len[q]
             z == Len(out')
  <2>5. x = y - c.part /\ z = o[m] + c.part /\ y = o[m + 1] - o[m] /\ o[m + 1] \in Nat /\ o[m] \in Nat /\ c.part \in Nat
    BY <1>2, <2>1, <2>4
  <2>6. y <= pb[After(q)] - pb[q] /\ pb[After(q)] \in Nat /\ pb[q] \in Nat /\ o[m + 1] = pb[After(q)]
    BY <1>2, <1>8, <2>3, <2>4
  <2> HIDE DEF x, y, z
  <2>7. x <= pb[After(q)] - pb[q]
    BY <2>5, <2>6, SMTT(40)
  <2>8. z = pb[After(q)] - x
    BY <2>5, <2>6, SMTT(40)
  <2> QED
    BY <2>7, <2>8 DEF x, z
<1>16. /\ \A s \in Slots : RingDelta(s, pidxPend)' = RingDelta(s, q)
       /\ RingDelta(Cursor, pidxPend)' = n - m
       /\ \A s : After(s)' = After(s)
  <2>1. \A s \in Slots : RingDelta(s, pidxPend)' = RingDelta(s, q)
    BY DEF RingDelta, q
  <2>2. RingDelta(Cursor, pidxPend)' = RingDelta(pidx, q)
    BY DEF RingDelta, q
  <2>3. \A s : After(s)' = After(s)
    BY DEF After, RingIncr
  <2> QED
    BY <1>2, <2>1, <2>2, <2>3
<1>17. Lengths(pb)'
  <2>1. \A s \in Slots : Received(s)' <=> RingDelta(s, q) < n - m
    BY <1>16 DEF Received
  <2>2. pidx' = pidx /\ halted' = halted /\ Cursor' = pidx /\ q = pidxPend'
    BY DEF q
  <2>3. Len(out') + dlen' >= pb[pidx] /\ (~halted => Len(out') + dlen' = pb[pidx])
    BY <1>7, <1>10
  <2>4. \A s \in Slots : RingDelta(s, q) < n - m /\ (s # q \/ pidx = q) => len'[s] = pb[After(s)] - pb[s]
    BY <1>13
  <2> QED
    BY <1>14, <1>15, <1>16, <2>1, <2>2, <2>3, <2>4 DEF Lengths
<1> QED
  BY <1>10, <1>12, <1>17

\* The pages that are left after a read, seen from the same entry or a later one.
LEMMA ReadOwners ==
  ASSUME Types, PageOrder, NEW w \in Slots, NEW w2 \in Slots, OwnedFrom(w),
         RingDelta(cidxPend, w) <= RingDelta(cidxWrb, w),
         NEW pb, NEW r, NEW recycle, NEW o, NEW c \in Copies,
         ReadResult(pb, r, recycle, o, c), Cursor = pidx, Cursor' = pidx,
         UNCHANGED <<pidx, halted, cidxWrb, cmpl>>,
         RingDelta(w2, w) <= RingDelta(cidxPend', w)
  PROVE  /\ OwnedFrom(w2)'
         /\ RingDelta(cidxPend, w) <= RingDelta(cidxPend', w)
         /\ RingDelta(cidxPend', w) <= RingDelta(cidxWrb, w)
<1> DEFINE n == Len(Unread)
           m == c.pages
           p == pidxPend
           q == pidxPend'
           x == cidxPend'
<1>1. /\ n = RingDelta(pidx, p) /\ n \in 0 .. RngSz - 1 /\ n \in Nat
      /\ \A k \in 1 .. n : Unread[k] \in Slots /\ RingDelta(Unread[k], p) = k - 1
  BY UnreadPages, RingAssumption
<1>2. /\ q \in Slots /\ RingDelta(q, p) = m /\ x = c.cidx
      /\ info' = [s \in Slots |-> IF recycle /\ RingDelta(s, p) < m THEN NoInfo ELSE info[s]]
  BY DEF ReadResult
<1>3. m \in 0 .. n /\ m \in Nat /\ Ends(x, m)
  <2>1. m \in 0 .. n /\ Ends(c.cidx, m)
    BY DEF ReadResult, Copied
  <2> QED
    BY <1>1, <1>2, <2>1
<1>4. /\ pidx \in Slots /\ p \in Slots /\ cidxPend \in Slots /\ cidxWrb \in Slots
      /\ info \in [Slots -> [eop : BOOLEAN, cidx : Slots]]
  BY DEF Types, TypeOK
<1>5. \A s \in Slots : info[s].cidx \in Slots
  BY <1>4
<1>6. x \in Slots
  BY <1>2 DEF Copies
<1>7. \A s \in Slots : /\ RingDelta(s, p) \in Nat /\ RingDelta(s, q) \in Nat
                       /\ RingDelta(s, w) \in Nat /\ RingDelta(s, w2) \in Nat
  BY <1>2, <1>4, DeltaRange, RingAssumption
<1>8. /\ \A s \in Slots : RingDelta(s, p) < n =>
           /\ RingDelta(cidxPend, w) <= RingDelta(info[s].cidx, w)
           /\ RingDelta(info[s].cidx, w) <= RingDelta(cidxWrb, w)
      /\ \A s, t \in Slots : RingDelta(s, p) <= RingDelta(t, p) /\ RingDelta(t, p) < n
           => RingDelta(info[s].cidx, w) <= RingDelta(info[t].cidx, w)
      /\ ~halted => \A e \in Slots :
           /\ RingDelta(cidxPend, w) <= RingDelta(e, w)
           /\ RingDelta(e, w) < RingDelta(cidxWrb, w)
           /\ cmpl[e].kind = "packet"
           => \E s \in Slots : /\ RingDelta(s, p) < n /\ info[s].eop
                               /\ RingDelta(e, w) < RingDelta(info[s].cidx, w)
  BY <1>1 DEF OwnedFrom, Received
<1>9. RingDelta(pidx, q) = n - m /\ \A s \in Slots : RingDelta(s, q) < n - m =>
        RingDelta(s, p) = RingDelta(s, q) + m
  <2> HIDE DEF n, m, p, q
  <2>1. RingDelta(q, p) <= RingDelta(pidx, p)
    BY <1>1, <1>2, <1>3
  <2>2. /\ RingDelta(pidx, q) = RingDelta(pidx, p) - RingDelta(q, p)
        /\ \A s \in Slots : RingDelta(s, q) <= RingDelta(pidx, q) =>
             RingDelta(s, p) = RingDelta(s, q) + RingDelta(q, p)
    BY <1>2, <1>4, <2>1, Forward
  <2> QED
    BY <1>1, <1>2, <1>3, <1>7, <2>2
<1> HIDE DEF n, m, p, q, x
<1>10. \/ /\ x = cidxPend
          /\ \A s \in Slots : RingDelta(s, p) < m => ~info[s].eop
       \/ \E u \in Slots : /\ RingDelta(u, p) < m /\ info[u].eop /\ x = info[u].cidx
                           /\ \A s \in Slots : RingDelta(s, p) < m /\ RingDelta(s, p) > RingDelta(u, p)
                                => ~info[s].eop
  <2>0. ASSUME NEW s \in Slots, RingDelta(s, p) < m
        PROVE  RingDelta(s, p) + 1 \in 1 .. m /\ s = Unread[RingDelta(s, p) + 1]
    <3> DEFINE j == RingDelta(s, p) + 1
    <3>1. j \in 1 .. m /\ j \in 1 .. n /\ j - 1 = RingDelta(s, p)
      BY <1>1, <1>3, <1>7, <2>0
    <3> HIDE DEF j
    <3>2. Unread[j] \in Slots /\ RingDelta(Unread[j], p) = RingDelta(s, p)
      BY <1>1, <3>1
    <3>3. s = Unread[j]
      BY <1>4, <3>2, DeltaInverse
    <3> QED
      BY <3>1, <3>3 DEF j
  <2>1. CASE x = cidxPend /\ \A j \in 1 .. m : ~info[Unread[j]].eop
    BY <2>0, <2>1
  <2>2. CASE \E k \in 1 .. m : /\ info[Unread[k]].eop /\ x = info[Unread[k]].cidx
                                /\ \A j \in k + 1 .. m : ~info[Unread[j]].eop
    <3>1. PICK k \in 1 .. m : /\ info[Unread[k]].eop /\ x = info[Unread[k]].cidx
                              /\ \A j \in k + 1 .. m : ~info[Unread[j]].eop
      BY <2>2
    <3> DEFINE u == Unread[k]
    <3>2. k \in 1 .. n /\ k \in Nat
      BY <1>1, <1>3
    <3>3. u \in Slots /\ RingDelta(u, p) = k - 1
      BY <1>1, <3>2
    <3>4. info[u].eop /\ x = info[u].cidx
      BY <3>1
    <3> HIDE DEF u
    <3>5. RingDelta(u, p) < m
      BY <1>3, <3>2, <3>3
    <3>6. ASSUME NEW s \in Slots, RingDelta(s, p) < m, RingDelta(s, p) > RingDelta(u, p)
          PROVE  ~info[s].eop
      <4> DEFINE j == RingDelta(s, p) + 1
      <4>1. s = Unread[j] /\ j \in 1 .. m
        BY <2>0, <3>6
      <4>2. j \in k + 1 .. m
        BY <1>7, <3>2, <3>3, <3>6, <4>1
      <4> HIDE DEF j
      <4> QED
        BY <3>1, <4>1, <4>2
    <3> QED
      BY <3>3, <3>4, <3>5, <3>6
  <2> QED
    BY <1>3, <2>1, <2>2 DEF Ends
<1>11. /\ RingDelta(cidxPend, w) <= RingDelta(x, w) /\ RingDelta(x, w) <= RingDelta(cidxWrb, w)
       /\ \A s \in Slots : RingDelta(s, p) < n /\ ~(RingDelta(s, p) < m) =>
            RingDelta(x, w) <= RingDelta(info[s].cidx, w)
       /\ \A s \in Slots : RingDelta(s, p) < m /\ info[s].eop =>
            RingDelta(info[s].cidx, w) <= RingDelta(x, w)
  <2>1. CASE x = cidxPend /\ \A s \in Slots : RingDelta(s, p) < m => ~info[s].eop
    <3>1. RingDelta(cidxPend, w) \in Nat
      BY <1>4, <1>7
    <3> QED
      BY <1>8, <2>1, <3>1
  <2>2. CASE \E u \in Slots :
               /\ RingDelta(u, p) < m /\ info[u].eop /\ x = info[u].cidx
               /\ \A s \in Slots : RingDelta(s, p) < m /\ RingDelta(s, p) > RingDelta(u, p) => ~info[s].eop
    <3>1. PICK u \in Slots :
               /\ RingDelta(u, p) < m /\ info[u].eop /\ x = info[u].cidx
               /\ \A s \in Slots : RingDelta(s, p) < m /\ RingDelta(s, p) > RingDelta(u, p) => ~info[s].eop
      BY <2>2
    <3>2. RingDelta(u, p) < n
      BY <1>1, <1>3, <1>7, <3>1
    <3>3. RingDelta(cidxPend, w) <= RingDelta(x, w) /\ RingDelta(x, w) <= RingDelta(cidxWrb, w)
      BY <1>8, <3>1, <3>2
    <3>4. ASSUME NEW s \in Slots, RingDelta(s, p) < n, ~(RingDelta(s, p) < m)
          PROVE  RingDelta(x, w) <= RingDelta(info[s].cidx, w)
      <4>1. RingDelta(u, p) <= RingDelta(s, p)
        BY <1>3, <1>7, <3>1, <3>4
      <4> QED
        BY <1>8, <3>1, <3>4, <4>1
    <3>5. ASSUME NEW s \in Slots, RingDelta(s, p) < m, info[s].eop
          PROVE  RingDelta(info[s].cidx, w) <= RingDelta(x, w)
      <4>1. RingDelta(s, p) <= RingDelta(u, p)
        BY <1>7, <3>1, <3>5
      <4> QED
        BY <1>8, <3>1, <3>2, <4>1
    <3> QED
      BY <3>3, <3>4, <3>5
  <2> QED
    BY <1>10, <2>1, <2>2
<1>12. \A y \in Slots : RingDelta(x, w) <= RingDelta(y, w) =>
         RingDelta(y, w2) = RingDelta(y, w) - RingDelta(w2, w)
  <2> SUFFICES ASSUME NEW y \in Slots, RingDelta(x, w) <= RingDelta(y, w)
               PROVE  RingDelta(y, w2) = RingDelta(y, w) - RingDelta(w2, w)
    OBVIOUS
  <2>1. RingDelta(w2, w) <= RingDelta(y, w)
    <3>1. RingDelta(w2, w) <= RingDelta(x, w)
      BY DEF x
    <3> QED
      BY <1>6, <1>7, <3>1
  <2> QED
    BY <2>1, DeltaRebase
<1>13. ASSUME NEW e \in Slots, RingDelta(x, w2) <= RingDelta(e, w2),
              RingDelta(e, w2) < RingDelta(cidxWrb, w2)
       PROVE  RingDelta(e, w) = RingDelta(e, w2) + RingDelta(w2, w)
  <2>1. RingDelta(w2, w) <= RingDelta(cidxWrb, w)
    <3>1. RingDelta(w2, w) <= RingDelta(x, w)
      BY DEF x
    <3> QED
      BY <1>4, <1>6, <1>7, <1>11, <3>1
  <2>2. RingDelta(e, w2) <= RingDelta(cidxWrb, w2)
    BY <1>4, <1>7, <1>13
  <2> QED
    BY <1>4, <2>1, <2>2, Forward
<1>14. \A s \in Slots : RingDelta(s, q) < n - m =>
         /\ RingDelta(s, p) < n /\ ~(RingDelta(s, p) < m)
         /\ info'[s] = info[s]
         /\ RingDelta(s, p) = RingDelta(s, q) + m
  <2> SUFFICES ASSUME NEW s \in Slots, RingDelta(s, q) < n - m
               PROVE  /\ RingDelta(s, p) < n /\ ~(RingDelta(s, p) < m)
                      /\ info'[s] = info[s]
                      /\ RingDelta(s, p) = RingDelta(s, q) + m
    OBVIOUS
  <2>1. RingDelta(s, p) = RingDelta(s, q) + m
    BY <1>9
  <2>2. RingDelta(s, p) < n /\ ~(RingDelta(s, p) < m)
    BY <1>1, <1>3, <1>7, <2>1
  <2> QED
    BY <1>2, <2>1, <2>2
<1>15. ASSUME NEW s \in Slots, RingDelta(s, q) < n - m
       PROVE  /\ RingDelta(x, w2) <= RingDelta(info'[s].cidx, w2)
              /\ RingDelta(info'[s].cidx, w2) <= RingDelta(cidxWrb, w2)
  <2> DEFINE y == info[s].cidx
  <2>1. info'[s] = info[s] /\ y \in Slots
    BY <1>5, <1>14, <1>15
  <2>2. RingDelta(x, w) <= RingDelta(y, w) /\ RingDelta(y, w) <= RingDelta(cidxWrb, w)
    BY <1>8, <1>11, <1>14, <1>15
  <2> HIDE DEF y
  <2>3. RingDelta(x, w) \in Nat /\ RingDelta(y, w) \in Nat /\ RingDelta(cidxWrb, w) \in Nat
        /\ RingDelta(w2, w) \in Nat
    BY <1>4, <1>6, <1>7, <2>1
  <2>4. /\ RingDelta(x, w2) = RingDelta(x, w) - RingDelta(w2, w)
        /\ RingDelta(y, w2) = RingDelta(y, w) - RingDelta(w2, w)
        /\ RingDelta(cidxWrb, w2) = RingDelta(cidxWrb, w) - RingDelta(w2, w)
    BY <1>4, <1>6, <1>12, <2>1, <2>2, <2>3
  <2>5. RingDelta(x, w2) <= RingDelta(y, w2) /\ RingDelta(y, w2) <= RingDelta(cidxWrb, w2)
    BY <2>2, <2>3, <2>4
  <2> QED
    BY <2>1, <2>5 DEF y
<1>16. ASSUME NEW s \in Slots, NEW t \in Slots,
              RingDelta(s, q) <= RingDelta(t, q), RingDelta(t, q) < n - m
       PROVE  RingDelta(info'[s].cidx, w2) <= RingDelta(info'[t].cidx, w2)
  <2>1. RingDelta(s, q) < n - m
    BY <1>1, <1>3, <1>7, <1>16
  <2> DEFINE y == info[s].cidx
             z == info[t].cidx
  <2>2. info'[s] = info[s] /\ y \in Slots /\ info'[t] = info[t] /\ z \in Slots
    BY <1>5, <1>14, <1>16, <2>1
  <2>3. /\ RingDelta(s, p) = RingDelta(s, q) + m /\ RingDelta(t, p) = RingDelta(t, q) + m
        /\ RingDelta(t, p) < n
    BY <1>14, <1>16, <2>1
  <2>4. RingDelta(s, p) <= RingDelta(t, p)
    BY <1>3, <1>7, <1>16, <2>3
  <2>5. RingDelta(y, w) <= RingDelta(z, w)
    BY <1>8, <2>3, <2>4
  <2>6. RingDelta(x, w) <= RingDelta(y, w) /\ RingDelta(x, w) <= RingDelta(z, w)
    BY <1>11, <1>14, <1>16, <2>1
  <2> HIDE DEF y, z
  <2>7. RingDelta(y, w) \in Nat /\ RingDelta(z, w) \in Nat /\ RingDelta(w2, w) \in Nat
    BY <1>7, <2>2
  <2>8. /\ RingDelta(y, w2) = RingDelta(y, w) - RingDelta(w2, w)
        /\ RingDelta(z, w2) = RingDelta(z, w) - RingDelta(w2, w)
    BY <1>12, <2>2, <2>6
  <2>9. RingDelta(y, w2) <= RingDelta(z, w2)
    BY <2>5, <2>7, <2>8
  <2> QED
    BY <2>2, <2>9 DEF y, z
<1>17. ASSUME ~halted, NEW e \in Slots, RingDelta(x, w2) <= RingDelta(e, w2),
              RingDelta(e, w2) < RingDelta(cidxWrb, w2), cmpl[e].kind = "packet"
       PROVE  \E s \in Slots : /\ RingDelta(s, q) < n - m /\ info'[s].eop
                               /\ RingDelta(e, w2) < RingDelta(info'[s].cidx, w2)
  <2>1. RingDelta(e, w) = RingDelta(e, w2) + RingDelta(w2, w)
    BY <1>13, <1>17
  <2>2. /\ RingDelta(x, w2) = RingDelta(x, w) - RingDelta(w2, w)
        /\ RingDelta(cidxWrb, w2) = RingDelta(cidxWrb, w) - RingDelta(w2, w)
    <3>1. RingDelta(x, w) <= RingDelta(x, w)
      BY <1>6, <1>7
    <3> QED
      BY <1>4, <1>6, <1>11, <1>12, <3>1
  <2>3. /\ RingDelta(e, w) \in Nat /\ RingDelta(e, w2) \in Nat /\ RingDelta(w2, w) \in Nat
        /\ RingDelta(x, w) \in Nat /\ RingDelta(cidxWrb, w) \in Nat /\ RingDelta(cidxPend, w) \in Nat
    BY <1>4, <1>6, <1>7
  <2>4. RingDelta(x, w) <= RingDelta(e, w) /\ RingDelta(e, w) < RingDelta(cidxWrb, w)
    BY <1>17, <2>1, <2>2, <2>3
  <2>5. RingDelta(cidxPend, w) <= RingDelta(e, w)
    BY <1>11, <2>3, <2>4
  <2>6. PICK s \in Slots : /\ RingDelta(s, p) < n /\ info[s].eop
                           /\ RingDelta(e, w) < RingDelta(info[s].cidx, w)
    BY <1>8, <1>17, <2>4, <2>5
  <2> DEFINE y == info[s].cidx
  <2>7. y \in Slots /\ RingDelta(y, w) \in Nat /\ RingDelta(e, w) < RingDelta(y, w)
    BY <1>5, <1>7, <2>6
  <2>8. ~(RingDelta(s, p) < m)
    BY <1>11, <2>3, <2>4, <2>6, <2>7
  <2> HIDE DEF y
  <2>9. RingDelta(s, q) < n - m
    <3>1. RingDelta(q, p) <= RingDelta(s, p)
      BY <1>2, <1>3, <1>7, <2>8
    <3>2. RingDelta(s, q) = RingDelta(s, p) - RingDelta(q, p)
      BY <1>2, <1>4, <3>1, DeltaRebase
    <3> QED
      BY <1>1, <1>2, <1>3, <1>7, <2>6, <3>2
  <2>10. info'[s] = info[s]
    BY <1>14, <2>9
  <2>11. RingDelta(y, w2) = RingDelta(y, w) - RingDelta(w2, w)
    <3>1. RingDelta(x, w) <= RingDelta(y, w)
      BY <2>3, <2>4, <2>7
    <3> QED
      BY <1>12, <2>7, <3>1
  <2>12. RingDelta(e, w2) < RingDelta(y, w2)
    BY <2>1, <2>3, <2>7, <2>11
  <2> QED
    BY <2>6, <2>9, <2>10, <2>12 DEF y
<1>18. /\ \A s \in Slots : RingDelta(s, pidxPend)' = RingDelta(s, q)
       /\ RingDelta(Cursor, pidxPend)' = n - m
       /\ RingDelta(cidxPend, w2)' = RingDelta(x, w2)
       /\ RingDelta(cidxWrb, w2)' = RingDelta(cidxWrb, w2)
       /\ \A s : RingDelta(info[s].cidx, w2)' = RingDelta(info'[s].cidx, w2)
       /\ \A e : RingDelta(e, w2)' = RingDelta(e, w2)
  <2>1. \A s \in Slots : RingDelta(s, pidxPend)' = RingDelta(s, q)
    BY DEF RingDelta, q
  <2>2. RingDelta(Cursor, pidxPend)' = RingDelta(pidx, q)
    BY DEF RingDelta, q
  <2>3. /\ RingDelta(cidxPend, w2)' = RingDelta(x, w2)
        /\ RingDelta(cidxWrb, w2)' = RingDelta(cidxWrb, w2)
        /\ \A e : RingDelta(e, w2)' = RingDelta(e, w2)
    BY DEF RingDelta, x
  <2>4. \A s : RingDelta(info[s].cidx, w2)' = RingDelta(info'[s].cidx, w2)
    BY DEF RingDelta
  <2> QED
    BY <1>9, <2>1, <2>2, <2>3, <2>4
<1>19. \A s \in Slots : Received(s)' <=> RingDelta(s, q) < n - m
  BY <1>18 DEF Received
<1>20. OwnedFrom(w2)'
  <2>1. halted' = halted /\ cmpl' = cmpl
    OBVIOUS
  <2> QED
    BY <1>15, <1>16, <1>17, <1>18, <1>19, <2>1 DEF OwnedFrom
<1> QED
  BY <1>11, <1>20 DEF x

\* If no page goes beyond the end of a request, nothing is read twice.
LEMMA ReadWhole ==
  ASSUME Types, PageOrder, NEW pb \in [Slots -> Nat], Content(pb), Lengths(pb),
         NEW r \in Readers, NEW recycle \in BOOLEAN,
         NEW o \in [0 .. Len(Unread) -> Nat], NEW c \in Copies,
         ReadResult(pb, r, recycle, o, c), Cursor = pidx,
         UNCHANGED <<pidx, err, cidxWrb, hwWrb, hwPidx, sent>>,
         NEW W, NEW first, Closed(W), Whole(W, pb, first)
  PROVE  Whole(W, pb, first)'
<1> DEFINE n == Len(Unread)
           m == c.pages
           p == pidxPend
           q == pidxPend'
           z == Len(out')
           y == Len(out)
           d == Len(c.data)
<1>1. /\ n = RingDelta(pidx, p) /\ n \in 0 .. RngSz - 1 /\ n \in Nat
      /\ \A k \in 1 .. n : Unread[k] \in Slots /\ RingDelta(Unread[k], p) = k - 1
  BY UnreadPages, RingAssumption
<1>2. /\ m \in 0 .. n /\ c.part \in Nat /\ o[m] \in Nat
      /\ z = y + d /\ z = o[m] + c.part
      /\ q \in Slots
      /\ RingDelta(pidx, q) = n - m
      /\ \A s \in Slots : RingDelta(s, q) < n - m => RingDelta(s, p) = RingDelta(s, q) + m
      /\ m < n => /\ m + 1 \in 1 .. n /\ q = Unread[m + 1]
                  /\ len[q] = o[m + 1] - o[m]
                  /\ o[m + 1] = pb[After(q)] /\ o[m + 1] \in Nat
                  /\ c.part = 0 \/ c.part < len[q]
                  /\ len'[q] = len[q] - c.part
      /\ m = n => c.part = 0 /\ o[m] = pb[pidx] /\ q = pidx
  BY ReadEnd, SMTT(60)
<1>3. /\ o[0] = y /\ RingDelta(q, p) = m
      /\ out' = out \o c.data
      /\ left' = [left EXCEPT ![r] = c.want]
  BY DEF ReadResult
<1>26. \A k \in 1 .. n : k > 1 => o[k - 1] = pb[Unread[k]]
  BY DEF ReadResult
<1>27. \A k \in 1 .. n : \A i \in 1 .. len[Unread[k]] : page[Unread[k]][i] = pb[Unread[k]] + i
  BY DEF ReadResult
<1>4. /\ c.want = left[r] - d
      /\ c.want > 0 => m = n /\ c.part = 0
      /\ Ordered(o) => \A i \in 1 .. d : c.data[i] = o[0] + i
  BY DEF ReadResult, Copied
<1>5. /\ c.data \in Seq(Nat) /\ d \in Nat /\ c.want \in Nat
  <2>1. c.data \in Seq(Nat) /\ c.want \in Nat
    BY DEF Copies
  <2> QED
    BY <2>1
<1>6. /\ pidx \in Slots /\ p \in Slots /\ hwPidx \in Slots /\ out \in Seq(Nat) /\ y \in Nat
      /\ left \in [Readers -> Nat]
  <2>1. /\ pidx \in Slots /\ p \in Slots /\ hwPidx \in Slots /\ out \in Seq(Nat)
        /\ left \in [Readers -> Nat]
    BY DEF Types, TypeOK
  <2> QED
    BY <2>1
<1>7. /\ W \subseteq Int /\ \A a, b \in W : a + b \in W /\ a - b \in W
  BY DEF Closed
<1>8. /\ y \in W /\ sent \in W /\ pb[pidx] \in W
      /\ \A x \in Readers : left[x] \in W
      /\ \A s \in Slots : RingDelta(s, p) < RingDelta(hwPidx, p) =>
           \A w \in W : pb[s] < w => pb[After(s)] <= w
      /\ pidx # p => len[p] = pb[After(p)] - pb[p]
      /\ \A i \in DOMAIN out : out[i] = i
      /\ ~err => \A s \in Slots : RingDelta(s, cidxWrb) <= RingDelta(hwWrb, cidxWrb)
                                  => pb[first[s]] \in W
  BY DEF Whole, Filled
<1>9. /\ RingDelta(pidx, p) <= RingDelta(hwPidx, p)
  <2>1. RingDelta(Cursor, p) <= RingDelta(hwPidx, p)
    BY FromPending
  <2> QED
    BY <2>1
<1>10. /\ pidx = p => y = pb[p]
       /\ pidx # p => y = pb[After(p)] - len[p]
  BY DEF Lengths
<1>11. \A s \in Slots : /\ RingDelta(s, p) \in Nat /\ RingDelta(s, q) \in Nat
                        /\ After(s) \in Slots /\ pb[s] \in Nat /\ pb[After(s)] \in Nat
  <2> SUFFICES ASSUME NEW s \in Slots
               PROVE  /\ RingDelta(s, p) \in Nat /\ RingDelta(s, q) \in Nat
                      /\ After(s) \in Slots /\ pb[s] \in Nat /\ pb[After(s)] \in Nat
    OBVIOUS
  <2>1. RingDelta(s, p) \in 0 .. RngSz - 1 /\ RingDelta(s, q) \in 0 .. RngSz - 1
    BY <1>2, <1>6, DeltaRange
  <2>2. After(s) \in Slots
    BY <1>6, AfterDelta
  <2> QED
    BY <2>1, <2>2
<1> HIDE DEF n, m, p, q, z, y, d
<1>12. y = pb[p]
  <2>1. CASE pidx # p
    <3>1. y = pb[After(p)] - len[p] /\ len[p] = pb[After(p)] - pb[p]
      BY <1>8, <1>10, <2>1
    <3>2. pb[After(p)] \in Nat /\ pb[p] \in Nat
      BY <1>6, <1>11
    <3> QED
      BY <3>1, <3>2
  <2> QED
    BY <1>10, <2>1
<1>13. ASSUME NEW k \in 1 .. n PROVE o[k - 1] = pb[Unread[k]]
  <2>1. CASE k > 1
    BY <1>26, <2>1
  <2>2. CASE k = 1
    <3>1. Unread[k] \in Slots /\ RingDelta(Unread[k], p) = 0 /\ k - 1 = 0
      BY <1>1, <2>2
    <3>2. Unread[k] = p
      BY <1>6, <3>1, DeltaRange
    <3> QED
      BY <1>3, <1>12, <3>1, <3>2
  <2> QED
    BY <1>1, <2>1, <2>2
<1>14. \A i \in 1 .. d : c.data[i] = y + i
  <2>1. ASSUME NEW k \in 1 .. n, NEW i \in 1 .. len[Unread[k]]
        PROVE  page[Unread[k]][i] = o[k - 1] + i
    <3>1. page[Unread[k]][i] = pb[Unread[k]] + i
      BY <1>27, <2>1
    <3> QED
      BY <1>13, <3>1
  <2>2. Ordered(o)
    BY <2>1 DEF Ordered, n
  <2> QED
    BY <1>3, <1>4, <2>2
<1>15. z \in W
  <2>1. CASE c.want = 0
    <3>1. d = left[r] /\ left[r] \in W
      BY <1>4, <1>5, <1>6, <1>8, <2>1
    <3> QED
      BY <1>2, <1>7, <1>8, <3>1
  <2>2. CASE c.want > 0
    BY <1>2, <1>4, <1>8, <2>2
  <2> QED
    BY <1>5, <2>1, <2>2
<1>16. c.want \in W
  <2>1. left[r] \in W /\ z - y \in W /\ z - y = d
    BY <1>2, <1>5, <1>6, <1>7, <1>8, <1>15, SMTT(40)
  <2> QED
    BY <1>4, <1>7, <2>1
<1>17. m < n => o[m] = pb[q]
  <2> SUFFICES ASSUME m < n PROVE o[m] = pb[q]
    OBVIOUS
  <2> DEFINE k == m + 1
  <2>1. k \in 1 .. n /\ k - 1 = m /\ q = Unread[k]
    BY <1>1, <1>2
  <2> HIDE DEF k
  <2> QED
    BY <1>13, <2>1
<1>18. c.part = 0
  <2> SUFFICES ASSUME c.part # 0 PROVE FALSE
    OBVIOUS
  <2>1. m < n /\ c.part < len[q] /\ len[q] = o[m + 1] - o[m] /\ o[m + 1] = pb[After(q)] /\ o[m + 1] \in Nat
    BY <1>1, <1>2
  <2>2. pb[q] < z /\ z < pb[After(q)]
    <3>1. z = pb[q] + c.part /\ c.part < pb[After(q)] - pb[q] /\ c.part \in Nat
      BY <1>2, <1>17, <2>1
    <3>2. pb[q] \in Nat /\ pb[After(q)] \in Nat
      BY <1>2, <1>11
    <3> QED
      BY <3>1, <3>2
  <2>3. RingDelta(q, p) < RingDelta(hwPidx, p)
    BY <1>1, <1>2, <1>3, <1>6, <1>9, <1>11, <2>1, SMTT(60)
  <2>4. pb[After(q)] <= z
    BY <1>2, <1>8, <1>15, <2>2, <2>3
  <2> QED
    BY <1>2, <1>7, <1>11, <1>15, <2>2, <2>4
<1>19. pidx # q => len'[q] = pb[After(q)] - pb[q]
  <2> SUFFICES ASSUME pidx # q PROVE len'[q] = pb[After(q)] - pb[q]
    OBVIOUS
  <2>1. m < n
    BY <1>1, <1>2
  <2>2. len'[q] = len[q] - 0 /\ len[q] = o[m + 1] - o[m] /\ o[m + 1] = pb[After(q)] /\ o[m] = pb[q]
    BY <1>2, <1>17, <1>18, <2>1
  <2>3. pb[q] \in Nat /\ pb[After(q)] \in Nat
    BY <1>2, <1>11
  <2> QED
    BY <2>2, <2>3
<1>20. \A i \in DOMAIN out' : out'[i] = i
  <2>1. /\ Len(out') = y + d /\ out' \in Seq(Nat)
        /\ \A i \in 1 .. y + d : out'[i] = IF i <= y THEN out[i] ELSE c.data[i - y]
    BY <1>3, <1>5, <1>6, ConcatProperties DEF y, d
  <2>2. DOMAIN out' = 1 .. y + d
    BY <2>1
  <2>3. ASSUME NEW i \in 1 .. y + d PROVE out'[i] = i
    <3>1. CASE i <= y
      <4>1. i \in DOMAIN out
        BY <1>6, <2>3, <3>1 DEF y
      <4> QED
        BY <1>8, <2>1, <3>1, <4>1
    <3>2. CASE i > y
      <4>1. i - y \in 1 .. d /\ y + (i - y) = i /\ ~(i <= y)
        BY <1>5, <1>6, <3>2
      <4> QED
        BY <1>14, <2>1, <4>1
    <3> QED
      BY <1>6, <3>1, <3>2
  <2> QED
    BY <2>2, <2>3
<1>21. \A x \in Readers : left'[x] \in W
  BY <1>3, <1>6, <1>8, <1>16
<1>22. \A s \in Slots : RingDelta(s, q) < RingDelta(hwPidx, q) =>
         RingDelta(s, p) < RingDelta(hwPidx, p)
  <2>1. RingDelta(q, p) <= RingDelta(hwPidx, p)
    BY <1>1, <1>2, <1>3, <1>6, <1>9, <1>11, SMTT(30)
  <2>3. RingDelta(hwPidx, p) \in Nat /\ RingDelta(q, p) \in Nat /\ RingDelta(hwPidx, q) \in Nat
    BY <1>2, <1>6, <1>11
  <2>2. /\ RingDelta(hwPidx, q) = RingDelta(hwPidx, p) - RingDelta(q, p)
        /\ \A s \in Slots : RingDelta(s, q) <= RingDelta(hwPidx, q) =>
             RingDelta(s, p) = RingDelta(s, q) + RingDelta(q, p)
    BY <1>2, <1>6, <2>1, Forward
  <2>4. ASSUME NEW s \in Slots, RingDelta(s, q) < RingDelta(hwPidx, q)
        PROVE  RingDelta(s, p) < RingDelta(hwPidx, p)
    <3>1. RingDelta(s, q) \in Nat /\ RingDelta(s, p) \in Nat
      BY <1>11
    <3>2. RingDelta(s, p) = RingDelta(s, q) + RingDelta(q, p)
      BY <2>2, <2>3, <2>4, <3>1
    <3> QED
      BY <2>2, <2>3, <2>4, <3>1, <3>2
  <2> QED
    BY <2>4
<1>23. /\ \A s \in Slots : RingDelta(s, pidxPend)' = RingDelta(s, q)
       /\ RingDelta(hwPidx, pidxPend)' = RingDelta(hwPidx, q)
       /\ \A s : RingDelta(s, cidxWrb)' = RingDelta(s, cidxWrb)
       /\ RingDelta(hwWrb, cidxWrb)' = RingDelta(hwWrb, cidxWrb)
       /\ \A s : After(s)' = After(s)
  BY DEF RingDelta, After, RingIncr, q
<1>24. \A s \in Slots : Filled(s)' <=> RingDelta(s, q) < RingDelta(hwPidx, q)
  BY <1>23 DEF Filled
<1>25. \A s \in Slots : Filled(s)' => \A w \in W : pb[s] < w => pb[After(s)] <= w
  BY <1>8, <1>22, <1>24
<1> QED
  BY <1>8, <1>15, <1>19, <1>20, <1>21, <1>23, <1>25 DEF Whole, z, q

-----------------------------------------------------------------------------
(* The invariant.                                                          *)

\* There are a numbering of the units by pages and, while the queue is not
\* halted, an assignment of pages to the entries not parsed.
\* The ghost functions exist. After a bad entry the driver has lost track of the
\* packets, until the queue is started again.
Witness(W) ==
  \E pb \in [Slots -> Nat], first \in [Slots -> Slots] :
    /\ Content(pb)
    /\ Lengths(pb)
    /\ ~err => Link(pb, first)
    /\ Closed(W) => Whole(W, pb, first)

\* The inductive invariant; W matters for the order of the stream only.
Inv(W) ==
  /\ Types
  /\ Locking
  /\ PageOrder
  /\ PageCount
  /\ CmplOrder
  /\ CmplFresh
  /\ Owners
  /\ Witness(W)

-----------------------------------------------------------------------------
(* What each part of the invariant depends on.                             *)

\* The lock depends on who is in the service routine.
LEMMA LockingFrame ==
  ASSUME Locking, UNCHANGED <<lock, svc, err, halted, pidxPend>>
  PROVE  Locking'
BY DEF Locking

\* The order of the pages depends on their indices.
LEMMA PageOrderFrame ==
  ASSUME PageOrder, UNCHANGED <<pidxPend, pidx, hwPidx, doorbell>>, Cursor' = Cursor, Base' = Base
  PROVE  PageOrder'
BY DEF PageOrder, RingDelta, PagesUpTo, RingDecr

\* The count of the pages, on the lengths too.
LEMMA PageCountFrame ==
  ASSUME PageCount, UNCHANGED <<avail, halted, err, len>>, Cursor' = Cursor, Base' = Base
  PROVE  PageCount'
BY DEF PageCount, RingDelta, Slots

\* The order of the completion entries depends on their indices.
LEMMA CmplOrderFrame ==
  ASSUME CmplOrder, UNCHANGED <<cidxPend, wrbCidx, cidxWrb, wbPidx, hwWrb, svc>>
  PROVE  CmplOrder'
BY DEF CmplOrder, RingDelta

\* New entries depend on the ring and on the driver's color.
LEMMA CmplFreshFrame ==
  ASSUME CmplFresh,
         UNCHANGED <<ncmpl, nparsed, hwWrb, cidxWrb, hwColor, color, cmpl, wrbCidx>>
  PROVE  CmplFresh'
BY DEF CmplFresh, Unparsed, Parsed, ColorAt, RingDelta, Slots

\* Who owns the pages depends on what the driver noted for them.
LEMMA OwnersFrame ==
  ASSUME Owners, UNCHANGED <<cidxPend, wrbCidx, cidxWrb, info, pidxPend, halted, cmpl>>,
         Cursor' = Cursor
  PROVE  Owners'
BY DEF Owners, OwnedFrom, Received, RingDelta, Slots

\* The contents of the pages depend on the hardware only.
LEMMA ContentFrame ==
  ASSUME NEW pb, Content(pb), UNCHANGED <<hwPidx, sent, pidxPend, page>>
  PROVE  Content(pb)'
BY DEF Content, Filled, After, RingIncr, RingDelta, Slots

\* The lengths depend on the free list and on what was read.
LEMMA LengthsFrame ==
  ASSUME NEW pb, Lengths(pb), UNCHANGED <<pidxPend, pidx, len, out, dlen, halted>>,
         Cursor' = Cursor
  PROVE  Lengths(pb)'
BY DEF Lengths, Received, After, RingIncr, RingDelta, Slots

\* Where packets start depends on the entries not parsed.
LEMMA LinkFrame ==
  ASSUME NEW pb, NEW first, Link(pb, first), UNCHANGED <<hwWrb, cidxWrb, hwPidx, cmpl>>,
         Cursor' = Cursor
  PROVE  Link(pb, first)'
BY DEF Link, Unparsed, PagesOf, UnitsOf, PagesFor, After, RingIncr, RingDelta, Slots

\* Where reads end depends on what was read and is wanted.
LEMMA WholeFrame ==
  ASSUME NEW W, NEW pb, NEW first, Whole(W, pb, first),
         UNCHANGED <<sent, out, left, pidx, err, cidxWrb, hwWrb, pidxPend, hwPidx, len>>
  PROVE  Whole(W, pb, first)'
BY DEF Whole, Filled, After, RingIncr, RingDelta, Slots

\* Every witness of the next state will do.
LEMMA WitnessNext ==
  ASSUME NEW W, NEW pb \in [Slots -> Nat], NEW first \in [Slots -> Slots],
         Content(pb)', Lengths(pb)', ~err' => Link(pb, first)',
         Closed(W) => Whole(W, pb, first)'
  PROVE  Witness(W)'
<1>1. Closed(W)' = Closed(W) /\ Slots' = Slots
  BY DEF Closed, Slots
<1> QED
  BY <1>1 DEF Witness

\* A step that leaves pages, entries and what was read alone.
LEMMA Elsewhere ==
  ASSUME NEW W, Inv(W), Types', Locking', CmplOrder',
         UNCHANGED <<indices, flq, left, page, cmpl, hwPidx, hwWrb, hwColor, sent, ncmpl>>,
         UNCHANGED <<doorbell, wrbCidx, out, nparsed, halted>>,
         Cursor' = Cursor, Base' = Base
  PROVE  Inv(W)'
<1>1. /\ UNCHANGED <<pidx, cidxWrb, color, err, pidxPend, cidxPend, avail, dlen, len, info>>
      /\ UNCHANGED <<left, page, cmpl, hwPidx, hwWrb, hwColor, sent, ncmpl>>
      /\ UNCHANGED <<doorbell, wrbCidx, out, nparsed, halted>>
  BY DEF indices, flq
<1>2. PICK pb \in [Slots -> Nat], first \in [Slots -> Slots] :
        /\ Content(pb)
        /\ Lengths(pb)
        /\ ~err => Link(pb, first)
        /\ Closed(W) => Whole(W, pb, first)
  BY DEF Inv, Witness
<1>3. Content(pb)' /\ Lengths(pb)'
  BY <1>1, <1>2, ContentFrame, LengthsFrame
<1>4. ~err' => Link(pb, first)'
  BY <1>1, <1>2, LinkFrame
<1>5. Closed(W) => Whole(W, pb, first)'
  BY <1>1, <1>2, WholeFrame
<1>6. Witness(W)'
  BY <1>3, <1>4, <1>5, WitnessNext
<1>7. PageOrder' /\ PageCount'
  BY <1>1, PageOrderFrame, PageCountFrame DEF Inv
<1>8. CmplFresh' /\ Owners'
  BY <1>1, CmplFreshFrame, OwnersFrame DEF Inv
<1> QED
  BY <1>6, <1>7, <1>8 DEF Inv

\* Taking a request off the list.
LEMMA UnlinkType ==
  ASSUME NEW l \in Seq(Readers), NEW r
  PROVE  Unlink(l, r) \in Seq(Readers)
<1> SUFFICES ASSUME \E i \in DOMAIN l : l[i] = r PROVE Unlink(l, r) \in Seq(Readers)
  BY DEF Unlink
<1> DEFINE i == CHOOSE j \in DOMAIN l : l[j] = r
<1>1. i \in 1 .. Len(l) /\ Len(l) \in Nat
  OBVIOUS
<1>2. Unlink(l, r) = SubSeq(l, 1, i - 1) \o SubSeq(l, i + 1, Len(l))
  BY DEF Unlink
<1> HIDE DEF i
<1>3. SubSeq(l, 1, i - 1) \in Seq(Readers)
  <2>1. 1 \in Int /\ i - 1 \in Int /\ \A j \in 1 .. i - 1 : j \in 1 .. Len(l)
    BY <1>1
  <2> QED
    BY <2>1, SubSeqProperties
<1>4. SubSeq(l, i + 1, Len(l)) \in Seq(Readers)
  <2>1. i + 1 \in Int /\ Len(l) \in Int /\ \A j \in i + 1 .. Len(l) : j \in 1 .. Len(l)
    BY <1>1
  <2> QED
    BY <2>1, SubSeqProperties
<1> QED
  BY <1>2, <1>3, <1>4, ConcatProperties

-----------------------------------------------------------------------------
(* The steps that move neither pages nor entries.                          *)

\* A reader waits for the rest: no entry is released that was not before.
LEMMA EnqueueStep ==
  ASSUME NEW W, Inv(W), NEW r \in Readers, Enqueue(r)
  PROVE  Inv(W)'
<1>1. /\ pc[r] = "queue" /\ lock = "free"
      /\ pendList' = Append(pendList, r)
      /\ wrbCidx' = cidxPend /\ armed' = ~polled
      /\ pc' = [pc EXCEPT ![r] = "wait"]
      /\ UNCHANGED <<polled, lock, indices, flq, left, got, status, svc, hardware, doorbell,
                     irq, out, nparsed, runs>>
  BY DEF Enqueue, WrbUpdate, Rearm
<1>2. Types /\ Locking /\ CmplOrder
  BY DEF Inv
<1>3. svc.phase = "idle"
  BY <1>1, <1>2 DEF Locking
<1>4. wrbCidx' = wrbCidx
  BY <1>1, <1>2, <1>3 DEF CmplOrder
<1>5. Types'
  <2>1. pendList' \in Seq(Readers) /\ pc' \in [Readers -> {"idle", "queue", "wait", "returned"}]
    BY <1>1, <1>2 DEF Types, TypeOK
  <2>2. armed' \in BOOLEAN
    BY <1>1, <1>2 DEF Types, TypeOK
  <2>3. wrbCidx' = wrbCidx /\ UNCHANGED <<polled, lock, indices, flq, left, got, status, svc, hardware, doorbell,
                     irq, out, nparsed, runs>>
    BY <1>1, <1>4
  <2> QED
    BY <1>2, <2>1, <2>2, <2>3 DEF Types, TypeOK, indices, flq, hardware, runs, Slots
<1>6. Locking' /\ CmplOrder'
  <2>1. UNCHANGED <<lock, svc, err, halted, pidxPend, cidxPend, wrbCidx, cidxWrb, wbPidx, hwWrb>>
    BY <1>1, <1>4 DEF indices, flq, hardware, runs
  <2> QED
    BY <1>2, <2>1, LockingFrame, CmplOrderFrame
<1>7. Cursor' = Cursor /\ Base' = Base
  BY <1>1 DEF Cursor, Base, indices, flq
<1> QED
  BY <1>1, <1>4, <1>5, <1>6, <1>7, Elsewhere DEF hardware, runs

\* A reader returns.
LEMMA WaitOverStep ==
  ASSUME NEW W, Inv(W), NEW r \in Readers, WaitOver(r)
  PROVE  Inv(W)'
<1>1. /\ pendList' = Unlink(pendList, r)
      /\ status' = [status EXCEPT ![r] = IF @ = "pending" THEN "error" ELSE @]
      /\ pc' = [pc EXCEPT ![r] = "returned"]
      /\ UNCHANGED <<polled, lock, indices, flq, left, got, svc, hardware, regs, irq, out,
                     nparsed, runs>>
  BY DEF WaitOver
<1>2. Types /\ Locking /\ CmplOrder
  BY DEF Inv
<1>3. Types'
  <2>1. /\ pendList \in Seq(Readers)
        /\ status \in [Readers -> {"pending", "ok", "error"}]
        /\ pc \in [Readers -> {"idle", "queue", "wait", "returned"}]
    BY <1>2 DEF Types, TypeOK
  <2>2. pendList' \in Seq(Readers)
    BY <1>1, <2>1, UnlinkType
  <2>3. /\ status' \in [Readers -> {"pending", "ok", "error"}]
        /\ pc' \in [Readers -> {"idle", "queue", "wait", "returned"}]
    BY <1>1, <2>1
  <2> QED
    BY <1>1, <1>2, <2>2, <2>3 DEF Types, TypeOK, indices, flq, hardware, regs, runs, Slots
<1>4. Locking' /\ CmplOrder'
  <2>1. UNCHANGED <<lock, svc, err, halted, pidxPend, cidxPend, wrbCidx, cidxWrb, wbPidx, hwWrb>>
    BY <1>1 DEF indices, flq, hardware, regs, runs
  <2> QED
    BY <1>2, <2>1, LockingFrame, CmplOrderFrame
<1>5. Cursor' = Cursor /\ Base' = Base
  BY <1>1 DEF Cursor, Base, indices, flq
<1> QED
  BY <1>1, <1>3, <1>4, <1>5, Elsewhere DEF hardware, regs, runs

\* The service routine takes the lock, or finds nothing to do.
LEMMA ServiceStartStep ==
  ASSUME NEW W, Inv(W), NEW budget \in Budgets, ServiceStart(budget)
  PROVE  Inv(W)'
<1> DEFINE pend == RingDelta(wbPidx, cidxWrb)
<1>1. /\ lock = "free" /\ irq' = FALSE
      /\ \/ UNCHANGED <<lock, svc>>
         \/ /\ ~err /\ lock' = "service"
            /\ svc' = [phase |-> "parse", pidx |-> pidx, old |-> pidxPend,
                       todo |-> IF budget = 0 THEN pend ELSE Min({budget, pend})]
      /\ UNCHANGED <<polled, pendList, indices, flq, requests, hardware, regs, out, nparsed, runs>>
  BY DEF ServiceStart
<1>2. Types /\ Locking /\ CmplOrder
  BY DEF Inv
<1>3. svc.phase = "idle"
  BY <1>1, <1>2 DEF Locking
<1>4. budget \in Nat /\ pidx \in Slots /\ pidxPend \in Slots /\ wbPidx \in Slots /\ cidxWrb \in Slots
  BY <1>2, BudgetAssumption DEF Types, TypeOK
<1>5. pend \in Nat
  BY <1>4, DeltaRange, RingAssumption
<1>6. (IF budget = 0 THEN pend ELSE Min({budget, pend})) \in 0 .. pend
  <2> HIDE DEF pend
  <2>1. Min({budget, pend}) = IF budget <= pend THEN budget ELSE pend
    BY <1>4, <1>5, MinOfTwo
  <2> QED
    BY <1>4, <1>5, <2>1
<1>7. \/ svc' = svc
      \/ /\ svc'.phase = "parse" /\ svc'.pidx = pidx /\ svc'.old = pidxPend
         /\ svc'.todo \in 0 .. pend
         /\ svc' \in [phase : {"idle", "parse", "serve", "refill"}, todo : Nat,
                      pidx : Slots, old : Slots]
  <2> HIDE DEF pend
  <2> QED
    BY <1>1, <1>4, <1>5, <1>6
<1>8. Types'
  <2>1. svc' \in [phase : {"idle", "parse", "serve", "refill"}, todo : Nat,
                  pidx : Slots, old : Slots]
    BY <1>2, <1>7 DEF Types, TypeOK
  <2>2. lock' \in {"free", "service"}
    BY <1>1
  <2> QED
    BY <1>1, <1>2, <2>1, <2>2 DEF Types, TypeOK, indices, flq, hardware, regs, requests, runs, Slots
<1>9. Locking'
  <2>1. pidxPend' = pidxPend /\ err' = err /\ halted' = halted
    BY <1>1 DEF flq, indices, runs
  <2> QED
    BY <1>1, <1>2, <1>3, <2>1 DEF Locking
<1>10. CmplOrder'
  <2>1. UNCHANGED <<cidxPend, wrbCidx, cidxWrb, wbPidx, hwWrb>>
    BY <1>1 DEF flq, indices, hardware, regs
  <2>2. \/ svc' = svc
        \/ svc'.phase = "parse" /\ svc'.todo <= pend
    BY <1>5, <1>7
  <2>3. /\ RingDelta(cidxPend, wrbCidx)' = RingDelta(cidxPend, wrbCidx)
        /\ RingDelta(cidxWrb, wrbCidx)' = RingDelta(cidxWrb, wrbCidx)
        /\ RingDelta(wbPidx, wrbCidx)' = RingDelta(wbPidx, wrbCidx)
        /\ RingDelta(hwWrb, wrbCidx)' = RingDelta(hwWrb, wrbCidx)
        /\ RingDelta(wbPidx, cidxWrb)' = pend
    BY <2>1 DEF RingDelta
  <2> QED
    BY <1>2, <1>3, <2>1, <2>2, <2>3 DEF CmplOrder
<1>11. Cursor' = Cursor /\ Base' = Base
  <2>1. pidxPend' = pidxPend /\ pidx' = pidx
    BY <1>1 DEF flq, indices
  <2> QED
    BY <1>3, <1>7, <2>1 DEF Cursor, Base
<1> QED
  BY <1>1, <1>8, <1>9, <1>10, <1>11, Elsewhere DEF hardware, regs, requests, runs

\* The hardware writes the index of the completion ring back.
LEMMA HwStatusStep ==
  ASSUME NEW W, Inv(W), HwStatus
  PROVE  Inv(W)'
<1>1. /\ wbPidx' = hwWrb
      /\ UNCHANGED <<polled, lock, pendList, indices, flq, requests, svc, page, cmpl, hwPidx,
                     hwWrb, hwColor, sent, ncmpl, regs, irq, out, nparsed, runs>>
  BY DEF HwStatus
<1>2. Types /\ Locking /\ CmplOrder
  BY DEF Inv
<1>3. Types'
  <2>1. wbPidx' \in Slots
    BY <1>1, <1>2 DEF Types, TypeOK
  <2> QED
    BY <1>1, <1>2, <2>1 DEF Types, TypeOK, indices, flq, regs, requests, runs, Slots
<1>4. Locking'
  <2>1. UNCHANGED <<lock, svc, err, halted, pidxPend>>
    BY <1>1 DEF indices, flq, runs
  <2> QED
    BY <1>2, <2>1, LockingFrame
<1>5. CmplOrder'
  <2>1. /\ cidxPend \in Slots /\ wrbCidx \in Slots /\ cidxWrb \in Slots /\ wbPidx \in Slots
        /\ hwWrb \in Slots /\ svc.todo \in Nat
    BY <1>2 DEF Types, TypeOK
  <2>2. UNCHANGED <<cidxPend, wrbCidx, cidxWrb, hwWrb, svc>>
    BY <1>1 DEF indices, flq, regs
  <2> QED
    BY <1>1, <1>2, <2>1, <2>2, RingAssumption DEF CmplOrder, RingDelta, Slots
<1>6. Cursor' = Cursor /\ Base' = Base
  BY <1>1 DEF Cursor, Base, indices, flq
<1> QED
  BY <1>1, <1>3, <1>4, <1>5, <1>6, Elsewhere DEF regs, requests, runs

\* The interrupt, and a step that changes nothing.
LEMMA HwInterruptStep ==
  ASSUME NEW W, Inv(W), HwInterrupt \/ UNCHANGED vars
  PROVE  Inv(W)'
<1>1. /\ irq' \in BOOLEAN /\ armed' \in BOOLEAN
      /\ UNCHANGED <<polled, lock, pendList, indices, flq, requests, svc, hardware, doorbell,
                     wrbCidx, out, nparsed, runs>>
  BY DEF HwInterrupt, vars, regs, Inv, Types, TypeOK
<1>2. Types /\ Locking /\ CmplOrder
  BY DEF Inv
<1>3. Types'
  BY <1>1, <1>2 DEF Types, TypeOK, indices, flq, hardware, requests, runs, Slots
<1>4. Locking' /\ CmplOrder'
  <2>1. UNCHANGED <<lock, svc, err, halted, pidxPend, cidxPend, wrbCidx, cidxWrb, wbPidx, hwWrb>>
    BY <1>1 DEF indices, flq, hardware, runs
  <2> QED
    BY <1>2, <2>1, LockingFrame, CmplOrderFrame
<1>5. Cursor' = Cursor /\ Base' = Base
  BY <1>1 DEF Cursor, Base, indices, flq
<1> QED
  BY <1>1, <1>3, <1>4, <1>5, Elsewhere DEF hardware, requests, runs

-----------------------------------------------------------------------------
(* Completion entries.                                                     *)

\* While there is something to do, the next entry was written and is new.
LEMMA EntryNew ==
  ASSUME Types, CmplOrder, CmplFresh, svc.phase = "parse", svc.todo > 0
  PROVE  /\ cidxWrb \in Slots /\ hwWrb \in Slots /\ wbPidx \in Slots /\ wrbCidx \in Slots
         /\ RingDelta(cidxWrb, cidxWrb) = 0
         /\ RingDelta(wbPidx, cidxWrb) > 0
         /\ RingDelta(cidxWrb, wrbCidx) < RingDelta(wbPidx, wrbCidx)
         /\ RingDelta(hwWrb, cidxWrb) > 0
         /\ Unparsed(cidxWrb)
         /\ Entry.nr = nparsed + 1
         /\ Entry.color = color
         /\ Entry.kind \in {"packet", "udd", "bad"}
         /\ Entry.kind = "packet" => Entry.len \in Lens
<1>1. /\ cidxWrb \in Slots /\ hwWrb \in Slots /\ wbPidx \in Slots /\ wrbCidx \in Slots
      /\ svc.todo \in Nat /\ nparsed \in Nat
  BY DEF Types, TypeOK
<1>2. /\ RingDelta(cidxWrb, wrbCidx) <= RingDelta(wbPidx, wrbCidx)
      /\ RingDelta(wbPidx, wrbCidx) <= RingDelta(hwWrb, wrbCidx)
      /\ svc.todo <= RingDelta(wbPidx, cidxWrb)
  BY DEF CmplOrder
<1>3. RingDelta(wbPidx, cidxWrb) > 0 /\ RingDelta(wbPidx, cidxWrb) \in Nat
  BY <1>1, <1>2, DeltaRange, RingAssumption
<1>4. RingDelta(cidxWrb, cidxWrb) = 0
  BY <1>1, DeltaRange
<1>5. RingDelta(cidxWrb, wrbCidx) < RingDelta(wbPidx, wrbCidx) /\ RingDelta(hwWrb, cidxWrb) > 0
  BY <1>1, <1>2, <1>3, RingAssumption DEF RingDelta, Slots
<1>6. Unparsed(cidxWrb)
  BY <1>4, <1>5 DEF Unparsed
<1>7. /\ cmpl[cidxWrb].nr = nparsed + 1 + RingDelta(cidxWrb, cidxWrb)
      /\ cmpl[cidxWrb].color = ColorAt(cidxWrb)
      /\ cmpl[cidxWrb].kind \in {"packet", "udd", "bad"}
      /\ cmpl[cidxWrb].kind = "packet" => cmpl[cidxWrb].len \in Lens
  BY <1>1, <1>6 DEF CmplFresh
<1>8. ColorAt(cidxWrb) = color
  BY <1>1 DEF ColorAt, Slots
<1> QED
  BY <1>1, <1>3, <1>4, <1>5, <1>6, <1>7, <1>8 DEF Entry

\* Taking the next entry.
LEMMA EntryTaken ==
  ASSUME Types, CmplOrder, CmplFresh, svc.phase = "parse", svc.todo > 0, Entry.kind # "bad",
         WrbNext, svc'.phase = "parse", svc'.todo = svc.todo - 1,
         UNCHANGED <<cidxPend, wrbCidx, wbPidx, hwWrb, ncmpl, hwColor, cmpl>>
  PROVE  /\ CmplOrder' /\ CmplFresh'
         /\ cidxWrb' \in Slots /\ cidxWrb' = After(cidxWrb)
         /\ color' \in 0 .. 1 /\ nparsed' \in 0 .. MaxCmpl
         /\ RingDelta(cidxWrb', wrbCidx) = RingDelta(cidxWrb, wrbCidx) + 1
         /\ RingDelta(hwWrb, cidxWrb') = RingDelta(hwWrb, cidxWrb) - 1
         /\ \A s \in Slots : RingDelta(s, cidxWrb') <= RingDelta(hwWrb, cidxWrb') =>
              RingDelta(s, cidxWrb) = RingDelta(s, cidxWrb') + 1
<1> DEFINE c == cidxWrb
           d == cidxWrb'
           w == wrbCidx
<1>1. /\ c \in Slots /\ hwWrb \in Slots /\ wbPidx \in Slots /\ w \in Slots
      /\ RingDelta(c, c) = 0
      /\ RingDelta(wbPidx, c) > 0
      /\ RingDelta(c, w) < RingDelta(wbPidx, w)
      /\ RingDelta(hwWrb, c) > 0
      /\ Entry.kind \in {"packet", "udd", "bad"}
  BY EntryNew
<1>2. /\ d = RingIncr(c, 1)
      /\ color' = IF c + 1 = RngSz THEN 1 - color ELSE color
      /\ nparsed' = nparsed + 1
  BY DEF WrbNext, NextColor
<1>3. /\ cidxPend \in Slots /\ color \in 0 .. 1 /\ hwColor \in 0 .. 1 /\ svc.todo \in Nat
      /\ nparsed \in 0 .. MaxCmpl /\ ncmpl \in 0 .. MaxCmpl
      /\ cmpl \in [Slots -> [kind : {"none", "packet", "udd", "bad"}, len : Nat,
                             color : 0 .. 1, nr : Nat]]
  BY DEF Types, TypeOK
<1>4. /\ RingDelta(cidxPend, w) <= RingDelta(c, w)
      /\ RingDelta(wbPidx, w) <= RingDelta(hwWrb, w)
      /\ svc.todo <= RingDelta(wbPidx, c)
      /\ cidxPend = w
  BY DEF CmplOrder
<1>5. /\ ncmpl = nparsed + RingDelta(hwWrb, c)
      /\ hwColor = ColorAt(hwWrb)
      /\ \A s \in Slots : RingDelta(s, c) < RingDelta(hwWrb, c) =>
           /\ cmpl[s].nr = nparsed + 1 + RingDelta(s, c)
           /\ cmpl[s].color = ColorAt(s)
           /\ cmpl[s].kind \in {"packet", "udd", "bad"}
           /\ cmpl[s].kind = "packet" => cmpl[s].len \in Lens
      /\ \A s \in Slots : RingDelta(s, w) < RingDelta(c, w) => cmpl[s].kind \in {"packet", "udd"}
  BY DEF CmplFresh, Unparsed, Parsed
<1>6. color' \in 0 .. 1 /\ nparsed' \in 0 .. MaxCmpl
  <2>1. RingDelta(hwWrb, c) \in Nat /\ MaxCmpl \in Nat
    BY <1>1, DeltaRange, RingAssumption, BudgetAssumption
  <2>2. nparsed' \in 0 .. MaxCmpl
    <3> HIDE DEF c
    <3> QED
      BY <1>1, <1>2, <1>3, <1>5, <2>1
  <2> QED
    BY <1>2, <1>3, <2>2
<1>7. d \in Slots /\ d = After(c)
  BY <1>1, <1>2, RingAssumption DEF RingIncr, Slots, After
<1>8. RingDelta(d, w) = RingDelta(c, w) + 1
  BY <1>1, <1>2, RingAssumption DEF RingIncr, RingDelta, Slots
<1>9. /\ RingDelta(hwWrb, d) = RingDelta(hwWrb, c) - 1
      /\ RingDelta(wbPidx, d) = RingDelta(wbPidx, c) - 1
  BY <1>1, <1>2, RingAssumption DEF RingIncr, RingDelta, Slots
<1>10. ASSUME NEW s \in Slots, RingDelta(s, d) <= RingDelta(hwWrb, d)
       PROVE  RingDelta(s, c) = RingDelta(s, d) + 1
  BY <1>1, <1>2, <1>10, RingAssumption DEF RingIncr, RingDelta, Slots
<1>11. ASSUME NEW s \in Slots, s # c PROVE ColorAt(s)' = ColorAt(s)
  <2>1. s \in 0 .. RngSz - 1 /\ c \in 0 .. RngSz - 1 /\ RngSz \in Nat
    BY <1>1, RingAssumption DEF Slots
  <2>2. CASE c + 1 = RngSz
    <3>1. d = 0 /\ color' = 1 - color
      BY <1>2, <2>1, <2>2 DEF RingIncr
    <3>2. ~(s >= c) /\ s >= d
      BY <1>11, <2>1, <2>2, <3>1
    <3> QED
      BY <3>1, <3>2 DEF ColorAt
  <2>3. CASE c + 1 # RngSz
    <3>1. d = c + 1 /\ color' = color
      BY <1>2, <2>1, <2>3 DEF RingIncr
    <3>2. s >= c <=> s >= d
      BY <1>11, <2>1, <3>1
    <3> QED
      BY <3>1, <3>2 DEF ColorAt
  <2> QED
    BY <2>2, <2>3
<1>12. \A s \in Slots : /\ RingDelta(s, c) \in Nat /\ RingDelta(s, d) \in Nat
                        /\ RingDelta(s, w) \in Nat
                        /\ RingDelta(s, w) = RingDelta(c, w) <=> s = c
  BY <1>1, <1>7, DeltaRange, DeltaInverse, RingAssumption
<1>13. /\ \A s : RingDelta(s, cidxWrb)' = RingDelta(s, d)
       /\ \A s : RingDelta(s, wrbCidx)' = RingDelta(s, w)
       /\ RingDelta(hwWrb, cidxWrb)' = RingDelta(hwWrb, d)
       /\ RingDelta(wbPidx, cidxWrb)' = RingDelta(wbPidx, d)
       /\ RingDelta(cidxPend, wrbCidx)' = RingDelta(cidxPend, w)
       /\ RingDelta(cidxWrb, wrbCidx)' = RingDelta(d, w)
       /\ RingDelta(wbPidx, wrbCidx)' = RingDelta(wbPidx, w)
       /\ RingDelta(hwWrb, wrbCidx)' = RingDelta(hwWrb, w)
  BY DEF RingDelta
<1> HIDE DEF c, d, w
<1>14. CmplOrder'
  BY <1>1, <1>3, <1>4, <1>8, <1>9, <1>12, <1>13 DEF CmplOrder
<1>15. hwColor' = ColorAt(hwWrb)'
  <2>1. hwWrb # c
    BY <1>1
  <2>2. ColorAt(hwWrb)' = ColorAt(hwWrb)
    <3>1. \A s \in Slots : s # c => (IF s >= cidxWrb' THEN color' ELSE 1 - color') = ColorAt(s)
      BY <1>11 DEF ColorAt
    <3>2. ColorAt(hwWrb)' = (IF hwWrb >= cidxWrb' THEN color' ELSE 1 - color')
      BY DEF ColorAt
    <3> QED
      BY <1>1, <2>1, <3>1, <3>2
  <2> QED
    BY <1>5, <2>2
<1>16. ASSUME NEW s \in Slots, RingDelta(s, d) < RingDelta(hwWrb, d)
       PROVE  /\ cmpl[s].nr = nparsed' + 1 + RingDelta(s, d)
              /\ cmpl[s].color = ColorAt(s)'
              /\ cmpl[s].kind \in {"packet", "udd", "bad"}
              /\ cmpl[s].kind = "packet" => cmpl[s].len \in Lens
  <2>1. RingDelta(s, c) = RingDelta(s, d) + 1 /\ RingDelta(s, c) < RingDelta(hwWrb, c)
    BY <1>1, <1>7, <1>9, <1>10, <1>12, <1>16
  <2>2. s # c
    BY <1>1, <1>7, <1>12, <2>1
  <2>3. nparsed + 1 + RingDelta(s, c) = nparsed' + 1 + RingDelta(s, d)
    <3>1. RingDelta(s, c) \in Nat /\ RingDelta(s, d) \in Nat /\ nparsed \in Nat
      BY <1>3, <1>12
    <3> QED
      BY <1>2, <2>1, <3>1
  <2> QED
    BY <1>5, <1>11, <2>1, <2>2, <2>3
<1>17. ASSUME NEW s \in Slots, RingDelta(s, w) < RingDelta(d, w)
       PROVE  cmpl[s].kind \in {"packet", "udd"}
  <2>1. RingDelta(s, w) < RingDelta(c, w) \/ s = c
    BY <1>1, <1>8, <1>12, <1>17
  <2> QED
    BY <1>1, <1>5, <2>1 DEF Entry, c
<1>18. ncmpl = nparsed' + RingDelta(hwWrb, d)
  BY <1>1, <1>2, <1>3, <1>5, <1>9, <1>12
<1>19. CmplFresh'
  <2>1. /\ \A s \in Slots : Unparsed(s)' <=> RingDelta(s, d) < RingDelta(hwWrb, d)
        /\ \A s \in Slots : Parsed(s)' <=> RingDelta(s, w) < RingDelta(d, w)
    BY <1>13 DEF Unparsed, Parsed
  <2>2. ncmpl' = ncmpl /\ cmpl' = cmpl
    OBVIOUS
  <2>3. \A s : RingDelta(s, cidxWrb)' = RingDelta(s, d)
    BY <1>13
  <2> QED
    BY <1>13, <1>15, <1>16, <1>17, <1>18, <2>1, <2>2 DEF CmplFresh
<1> QED
  BY <1>6, <1>7, <1>8, <1>9, <1>10, <1>14, <1>19 DEF c, d, w

\* The hardware writes an entry.
LEMMA EntryWritten ==
  ASSUME Types, CmplOrder, CmplFresh, Owners, RoomForCmpl,
         NEW kind \in {"packet", "udd", "bad"}, NEW n \in Nat, kind = "packet" => n \in Lens,
         WriteCmpl(kind, n),
         UNCHANGED <<cidxPend, wrbCidx, wbPidx, cidxWrb, color, nparsed, svc, info, pidxPend>>,
         UNCHANGED <<pidx, halted>>
  PROVE  /\ CmplOrder' /\ CmplFresh' /\ Owners'
         /\ hwWrb' \in Slots /\ hwWrb' = After(hwWrb)
         /\ hwColor' \in 0 .. 1 /\ ncmpl' \in 0 .. MaxCmpl
         /\ cmpl' \in [Slots -> [kind : {"none", "packet", "udd", "bad"}, len : Nat,
                                 color : 0 .. 1, nr : Nat]]
         /\ \A s \in Slots \ {hwWrb} : cmpl'[s] = cmpl[s]
         /\ cmpl'[hwWrb].kind = kind /\ cmpl'[hwWrb].len = n
         /\ RingDelta(hwWrb', cidxWrb) = RingDelta(hwWrb, cidxWrb) + 1
<1> DEFINE c == cidxWrb
           h == hwWrb
           g == hwWrb'
           w == wrbCidx
           new == [kind |-> kind, len |-> n, color |-> hwColor, nr |-> ncmpl + 1]
<1>1. /\ c \in Slots /\ h \in Slots /\ wbPidx \in Slots /\ w \in Slots /\ cidxPend \in Slots
      /\ color \in 0 .. 1 /\ hwColor \in 0 .. 1
      /\ nparsed \in 0 .. MaxCmpl /\ ncmpl \in 0 .. MaxCmpl
      /\ cmpl \in [Slots -> [kind : {"none", "packet", "udd", "bad"}, len : Nat,
                             color : 0 .. 1, nr : Nat]]
  BY DEF Types, TypeOK
<1>2. /\ ncmpl < MaxCmpl /\ ncmpl' = ncmpl + 1
      /\ cmpl' = [cmpl EXCEPT ![h] = new]
      /\ g = RingIncr(h, 1)
      /\ hwColor' = IF h + 1 = RngSz THEN 1 - hwColor ELSE hwColor
      /\ RingIncr(h, 1) # w
  BY DEF WriteCmpl, RoomForCmpl
<1>3. /\ RingDelta(cidxPend, w) <= RingDelta(c, w)
      /\ RingDelta(c, w) <= RingDelta(wbPidx, w)
      /\ RingDelta(wbPidx, w) <= RingDelta(h, w)
  BY DEF CmplOrder
<1>4. /\ ncmpl = nparsed + RingDelta(h, c)
      /\ hwColor = ColorAt(h)
      /\ \A s \in Slots : RingDelta(s, c) < RingDelta(h, c) =>
           /\ cmpl[s].nr = nparsed + 1 + RingDelta(s, c)
           /\ cmpl[s].color = ColorAt(s)
           /\ cmpl[s].kind \in {"packet", "udd", "bad"}
           /\ cmpl[s].kind = "packet" => cmpl[s].len \in Lens
      /\ \A s \in Slots : RingDelta(s, w) < RingDelta(c, w) => cmpl[s].kind \in {"packet", "udd"}
  BY DEF CmplFresh, Unparsed, Parsed
<1>5. g \in Slots /\ g = After(h) /\ hwColor' \in 0 .. 1 /\ ncmpl' \in 0 .. MaxCmpl
  BY <1>1, <1>2, RingAssumption, BudgetAssumption, SMTT(40) DEF RingIncr, Slots, After
<1>6. RingDelta(g, w) = RingDelta(h, w) + 1
  BY <1>1, <1>2, RingAssumption DEF RingIncr, RingDelta, Slots
<1>7. RingDelta(g, c) = RingDelta(h, c) + 1
  BY <1>1, <1>2, <1>3, RingAssumption DEF RingIncr, RingDelta, Slots
<1>8. \A s \in Slots : RingDelta(s, c) <= RingDelta(h, c) /\ s # h => RingDelta(s, c) < RingDelta(h, c)
  BY <1>1, RingAssumption DEF RingDelta, Slots
<1>9. \A s \in Slots : RingDelta(s, w) < RingDelta(c, w) => s # h
  BY <1>1, <1>3, RingAssumption DEF RingDelta, Slots
<1>10. \A s : ColorAt(s)' = ColorAt(s)
  BY DEF ColorAt
<1>11. hwColor' = ColorAt(g)
  BY <1>1, <1>2, <1>3, <1>4, RingAssumption, SMTT(40) DEF RingIncr, RingDelta, ColorAt, Slots
<1>12. \A s \in Slots : /\ RingDelta(s, c) \in Nat /\ RingDelta(s, w) \in Nat
  BY <1>1, DeltaRange, RingAssumption
<1>13. /\ \A s : RingDelta(s, cidxWrb)' = RingDelta(s, c)
       /\ \A s : RingDelta(s, wrbCidx)' = RingDelta(s, w)
       /\ RingDelta(hwWrb, cidxWrb)' = RingDelta(g, c)
       /\ RingDelta(wbPidx, cidxWrb)' = RingDelta(wbPidx, c)
       /\ RingDelta(cidxPend, wrbCidx)' = RingDelta(cidxPend, w)
       /\ RingDelta(cidxWrb, wrbCidx)' = RingDelta(c, w)
       /\ RingDelta(wbPidx, wrbCidx)' = RingDelta(wbPidx, w)
       /\ RingDelta(hwWrb, wrbCidx)' = RingDelta(g, w)
  BY DEF RingDelta
<1>14. new \in [kind : {"none", "packet", "udd", "bad"}, len : Nat, color : 0 .. 1, nr : Nat]
  BY <1>1, BudgetAssumption
<1>15. /\ new.kind = kind /\ new.len = n /\ new.color = hwColor /\ new.nr = ncmpl + 1
  OBVIOUS
<1> HIDE DEF c, h, g, w, new
<1>16. /\ cmpl' \in [Slots -> [kind : {"none", "packet", "udd", "bad"}, len : Nat,
                               color : 0 .. 1, nr : Nat]]
       /\ \A s \in Slots \ {h} : cmpl'[s] = cmpl[s]
       /\ cmpl'[h] = new
  BY <1>1, <1>2, <1>14
<1>17. CmplOrder'
  BY <1>1, <1>3, <1>5, <1>6, <1>12, <1>13 DEF CmplOrder, c, w
<1>18. ASSUME NEW s \in Slots, RingDelta(s, c) < RingDelta(g, c)
       PROVE  /\ cmpl'[s].nr = nparsed + 1 + RingDelta(s, c)
              /\ cmpl'[s].color = ColorAt(s)
              /\ cmpl'[s].kind \in {"packet", "udd", "bad"}
              /\ cmpl'[s].kind = "packet" => cmpl'[s].len \in Lens
  <2>1. CASE s = h
    <3>1. ncmpl + 1 = nparsed + 1 + RingDelta(h, c)
      BY <1>1, <1>4, <1>12
    <3> QED
      BY <1>4, <1>15, <1>16, <2>1, <3>1
  <2>2. CASE s # h
    <3>1. RingDelta(s, c) < RingDelta(h, c)
      BY <1>1, <1>7, <1>8, <1>12, <1>18, <2>2
    <3>2. cmpl'[s] = cmpl[s]
      BY <1>16, <2>2
    <3> QED
      BY <1>4, <3>1, <3>2
  <2> QED
    BY <2>1, <2>2
<1>19. \A s \in Slots : RingDelta(s, w) < RingDelta(c, w) => cmpl'[s].kind \in {"packet", "udd"}
  BY <1>4, <1>9, <1>16
<1>20. ncmpl' = nparsed + RingDelta(g, c)
  BY <1>1, <1>2, <1>4, <1>7, <1>12
<1>21. CmplFresh'
  <2>1. /\ \A s \in Slots : Unparsed(s)' <=> RingDelta(s, c) < RingDelta(g, c)
        /\ \A s \in Slots : Parsed(s)' <=> RingDelta(s, w) < RingDelta(c, w)
    BY <1>13 DEF Unparsed, Parsed
  <2>2. nparsed' = nparsed
    OBVIOUS
  <2>3. ColorAt(hwWrb)' = ColorAt(g)
    BY DEF ColorAt, g
  <2> QED
    BY <1>10, <1>11, <1>13, <1>18, <1>19, <1>20, <2>1, <2>2, <2>3 DEF CmplFresh
<1>22. Owners'
  <2>1. /\ cidxPend' = cidxPend /\ wrbCidx' = wrbCidx /\ cidxWrb' = cidxWrb /\ info' = info
        /\ pidxPend' = pidxPend /\ halted' = halted
    OBVIOUS
  <2>2. /\ \A s : Received(s)' <=> Received(s)
        /\ \A s : RingDelta(s, pidxPend)' = RingDelta(s, pidxPend)
    BY DEF Received, Cursor, RingDelta
  <2>3. \A e \in Slots : RingDelta(e, w) < RingDelta(c, w) => cmpl'[e] = cmpl[e]
    BY <1>9, <1>16
  <2>4. \A s : RingDelta(info[s].cidx, wrbCidx)' = RingDelta(info[s].cidx, w)
    BY DEF RingDelta, w
  <2> QED
    BY <1>13, <2>1, <2>2, <2>3, <2>4 DEF Owners, OwnedFrom, w, c
<1> QED
  BY <1>5, <1>7, <1>15, <1>16, <1>17, <1>21, <1>22 DEF c, h, g, w

\* A bad entry: the pages of this call are forgotten, the counters that tell
\* of them are not put right.
LEMMA ParseBadStep ==
  ASSUME NEW W, Inv(W), ParseBad
  PROVE  Inv(W)'
<1>1. /\ svc.phase = "parse"
      /\ err' = TRUE /\ halted' = TRUE /\ lock' = "free" /\ svc' = Idle
      /\ UNCHANGED <<polled, pendList, pidx, cidxWrb, color, flq, requests, hardware, regs,
                     irq, out, nparsed, starts>>
  BY DEF ParseBad
<1>2. /\ UNCHANGED <<pidx, cidxWrb, color, pidxPend, cidxPend, avail, dlen, len, info, left>>
      /\ UNCHANGED <<page, cmpl, hwPidx, hwWrb, hwColor, wbPidx, sent, ncmpl, doorbell, wrbCidx>>
      /\ UNCHANGED <<out, nparsed>>
  BY <1>1 DEF flq, requests, hardware, regs
<1>3. Types /\ Locking /\ PageOrder /\ PageCount /\ CmplOrder /\ CmplFresh /\ Owners
  BY DEF Inv
<1>4. Types'
  <2>1. svc' \in [phase : {"idle", "parse", "serve", "refill"}, todo : Nat, pidx : Slots, old : Slots]
    BY <1>1, RingAssumption DEF Idle, Slots
  <2> QED
    BY <1>1, <1>3, <2>1 DEF Types, TypeOK, flq, requests, hardware, regs, Slots
<1>5. svc'.phase = "idle"
  BY <1>1 DEF Idle
<1>6. Locking'
  BY <1>1, <1>5 DEF Locking
<1>7. Cursor' = pidx /\ Base' = Base /\ Base = pidxPend
  <2>1. svc.old = pidxPend
    BY <1>1, <1>3 DEF Locking
  <2> QED
    BY <1>1, <1>2, <1>5, <2>1 DEF Cursor, Base
<1>8. /\ Cursor \in Slots /\ pidx \in Slots /\ pidxPend \in Slots /\ hwPidx \in Slots
      /\ avail \in Nat
      /\ RingDelta(pidx, pidxPend) <= RingDelta(Cursor, pidxPend)
      /\ RingDelta(Cursor, pidxPend) <= RingDelta(hwPidx, pidxPend)
  <2>1. pidx \in Slots /\ pidxPend \in Slots /\ hwPidx \in Slots /\ avail \in Nat
    BY <1>3, RingAssumption DEF Types, TypeOK
  <2> QED
    BY <1>3, <2>1, FromPending
<1>9. \A s \in Slots : RingDelta(s, pidxPend) \in Nat
  BY <1>8, DeltaRange, RingAssumption
<1>10. /\ \A s : RingDelta(s, Base)' = RingDelta(s, pidxPend)
       /\ \A s : RingDelta(s, pidxPend)' = RingDelta(s, pidxPend)
       /\ RingDelta(pidxPend, Base)' = RingDelta(pidxPend, pidxPend)
       /\ RingDelta(pidx, Base)' = RingDelta(pidx, pidxPend)
       /\ RingDelta(Cursor, Base)' = RingDelta(pidx, pidxPend)
       /\ RingDelta(hwPidx, Base)' = RingDelta(hwPidx, pidxPend)
       /\ RingDelta(Cursor, pidxPend)' = RingDelta(pidx, pidxPend)
       /\ PagesUpTo(Base)' = PagesUpTo(Base)
       /\ \A s : After(s)' = After(s)
  BY <1>2, <1>7 DEF RingDelta, PagesUpTo, RingDecr, After, RingIncr
<1>11. PageOrder'
  <2>1. RingDelta(pidxPend, pidxPend) = 0
    BY <1>8, DeltaRange
  <2>2. doorbell = PagesUpTo(Base)
    BY <1>3 DEF PageOrder
  <2>3. doorbell' = PagesUpTo(Base)'
    BY <1>2, <1>10, <2>2
  <2> QED
    BY <1>8, <1>9, <1>10, <2>1, <2>3 DEF PageOrder
<1>12. PageCount'
  <2>1. avail + RingDelta(Cursor, pidxPend) <= RngSz - 1
    BY <1>3, <1>7 DEF PageCount
  <2>2. avail + RingDelta(pidx, pidxPend) <= RngSz - 1
    BY <1>8, <1>9, <2>1, RingAssumption
  <2> QED
    BY <1>1, <1>2, <1>10, <2>2 DEF PageCount
<1>13. CmplOrder'
  BY <1>1, <1>2, <1>3, <1>5 DEF CmplOrder, RingDelta
<1>14. CmplFresh'
  BY <1>2, <1>3, CmplFreshFrame
<1>15. \A s \in Slots : Received(s)' => Received(s)
  <2> SUFFICES ASSUME NEW s \in Slots PROVE Received(s)' => Received(s)
    OBVIOUS
  <2>1. Received(s)' <=> RingDelta(s, pidxPend) < RingDelta(pidx, pidxPend)
    BY <1>10 DEF Received
  <2> QED
    BY <1>8, <1>9, <2>1 DEF Received
<1>16. Owners'
  <2>1. \A s : RingDelta(info[s].cidx, wrbCidx)' = RingDelta(info[s].cidx, wrbCidx)
    BY <1>2 DEF RingDelta
  <2>2. /\ RingDelta(cidxPend, wrbCidx)' = RingDelta(cidxPend, wrbCidx)
        /\ RingDelta(cidxWrb, wrbCidx)' = RingDelta(cidxWrb, wrbCidx)
    BY <1>2 DEF RingDelta
  <2> QED
    BY <1>1, <1>3, <1>10, <1>15, <2>1, <2>2 DEF Owners, OwnedFrom
<1>17. PICK pb \in [Slots -> Nat], first \in [Slots -> Slots] :
        /\ Content(pb)
        /\ Lengths(pb)
        /\ Closed(W) => Whole(W, pb, first)
  BY DEF Inv, Witness
<1>18. Content(pb)'
  BY <1>2, <1>17, ContentFrame
<1>19. Lengths(pb)'
  <2>1. pb[pidx] <= pb[Cursor]
    BY <1>8, <1>17 DEF Content
  <2>2. /\ dlen \in Nat /\ Len(out) \in Nat /\ pb[pidx] \in Nat /\ pb[Cursor] \in Nat
    <3>1. dlen \in Nat /\ out \in Seq(Nat)
      BY <1>3 DEF Types, TypeOK
    <3> QED
      BY <1>8, <3>1
  <2>3. Len(out) + dlen >= pb[Cursor]
    BY <1>17 DEF Lengths
  <2>4. Len(out) + dlen >= pb[pidx]
    BY <2>1, <2>2, <2>3
  <2>5. pb[Cursor]' = pb[pidx] /\ Len(out)' = Len(out)
    BY <1>2, <1>7
  <2> QED
    BY <1>1, <1>2, <1>10, <1>15, <1>17, <2>4, <2>5 DEF Lengths
<1>20. Closed(W) => Whole(W, pb, first)'
  <2> SUFFICES ASSUME Closed(W) PROVE Whole(W, pb, first)'
    OBVIOUS
  <2>1. \A s \in Slots : Filled(s)' <=> Filled(s)
    BY <1>2 DEF Filled, RingDelta
  <2> QED
    BY <1>1, <1>2, <1>10, <1>17, <2>1 DEF Whole
<1>21. Witness(W)'
  BY <1>1, <1>18, <1>19, <1>20, WitnessNext
<1> QED
  BY <1>4, <1>6, <1>11, <1>12, <1>13, <1>14, <1>16, <1>21 DEF Inv

\* An entry without a packet is taken.
LEMMA RcvUddOnlyStep ==
  ASSUME NEW W, Inv(W), RcvUddOnly
  PROVE  Inv(W)'
<1>1. /\ svc.phase = "parse" /\ svc.todo > 0 /\ Entry.kind = "udd"
      /\ svc' = [svc EXCEPT !.todo = @ - 1]
      /\ WrbNext
      /\ UNCHANGED <<polled, lock, pendList, pidx, err, flq, requests, hardware, regs, irq,
                     out, runs>>
  BY DEF RcvUddOnly, MoreToParse
<1>2. /\ UNCHANGED <<pidx, err, pidxPend, cidxPend, avail, dlen, len, info, left, lock>>
      /\ UNCHANGED <<page, cmpl, hwPidx, hwWrb, hwColor, wbPidx, sent, ncmpl, doorbell, wrbCidx>>
      /\ UNCHANGED <<out, halted>>
  BY <1>1 DEF flq, requests, hardware, regs, runs
<1>3. Types /\ Locking /\ PageOrder /\ PageCount /\ CmplOrder /\ CmplFresh /\ Owners
  BY DEF Inv
<1>4. /\ svc'.phase = "parse" /\ svc'.todo = svc.todo - 1 /\ svc'.pidx = svc.pidx
      /\ svc'.old = svc.old
      /\ svc' \in [phase : {"idle", "parse", "serve", "refill"}, todo : Nat,
                   pidx : Slots, old : Slots]
  <2>1. svc \in [phase : {"idle", "parse", "serve", "refill"}, todo : Nat,
                 pidx : Slots, old : Slots]
    BY <1>3 DEF Types, TypeOK
  <2> QED
    BY <1>1, <2>1
<1>5. /\ CmplOrder' /\ CmplFresh'
      /\ cidxWrb' \in Slots /\ cidxWrb' = After(cidxWrb)
      /\ color' \in 0 .. 1 /\ nparsed' \in 0 .. MaxCmpl
      /\ RingDelta(cidxWrb', wrbCidx) = RingDelta(cidxWrb, wrbCidx) + 1
      /\ RingDelta(hwWrb, cidxWrb') = RingDelta(hwWrb, cidxWrb) - 1
      /\ \A s \in Slots : RingDelta(s, cidxWrb') <= RingDelta(hwWrb, cidxWrb') =>
           RingDelta(s, cidxWrb) = RingDelta(s, cidxWrb') + 1
  BY <1>1, <1>2, <1>3, <1>4, EntryTaken
<1>6. Types'
  BY <1>1, <1>3, <1>4, <1>5, ZenonT(60) DEF Types, TypeOK, flq, requests, hardware, regs, runs, Slots
<1>7. Locking'
  BY <1>1, <1>2, <1>3, <1>4 DEF Locking
<1>8. Cursor' = Cursor /\ Base' = Base
  BY <1>1, <1>2, <1>4 DEF Cursor, Base
<1>9. PageOrder' /\ PageCount'
  BY <1>2, <1>3, <1>8, PageOrderFrame, PageCountFrame
<1>10. /\ cidxWrb \in Slots /\ wrbCidx \in Slots /\ hwWrb \in Slots /\ cidxPend \in Slots
       /\ Unparsed(cidxWrb) /\ RingDelta(cidxWrb, cidxWrb) = 0
       /\ info \in [Slots -> [eop : BOOLEAN, cidx : Slots]]
  <2>1. cidxPend \in Slots /\ info \in [Slots -> [eop : BOOLEAN, cidx : Slots]]
    BY <1>3 DEF Types, TypeOK
  <2> QED
    BY <1>1, <1>3, <2>1, EntryNew
<1>11. \A s \in Slots : /\ RingDelta(s, wrbCidx) \in Nat /\ RingDelta(s, cidxWrb) \in Nat
                        /\ RingDelta(s, cidxWrb') \in Nat
                        /\ info[s].cidx \in Slots
                        /\ RingDelta(s, wrbCidx) = RingDelta(cidxWrb, wrbCidx) <=> s = cidxWrb
  BY <1>5, <1>10, DeltaRange, DeltaInverse, RingAssumption
<1>12. Owners'
  <2>1. /\ \A s : Received(s)' <=> Received(s)
        /\ \A s : RingDelta(s, pidxPend)' = RingDelta(s, pidxPend)
        /\ \A s : RingDelta(s, wrbCidx)' = RingDelta(s, wrbCidx)
        /\ \A s : RingDelta(info[s].cidx, wrbCidx)' = RingDelta(info[s].cidx, wrbCidx)
        /\ RingDelta(cidxPend, wrbCidx)' = RingDelta(cidxPend, wrbCidx)
        /\ RingDelta(cidxWrb, wrbCidx)' = RingDelta(cidxWrb', wrbCidx)
    BY <1>2, <1>8 DEF Received, RingDelta
  <2> DEFINE d == cidxWrb'
             w == wrbCidx
             c == cidxWrb
             x == cidxPend
  <2>2. /\ \A s \in Slots : Received(s) =>
             /\ RingDelta(x, w) <= RingDelta(info[s].cidx, w)
             /\ RingDelta(info[s].cidx, w) <= RingDelta(c, w)
        /\ \A s, t \in Slots :
             RingDelta(s, pidxPend) <= RingDelta(t, pidxPend) /\ Received(t)
             => RingDelta(info[s].cidx, w) <= RingDelta(info[t].cidx, w)
    BY <1>3 DEF Owners, OwnedFrom
  <2>3. ~halted => \A e \in Slots :
           RingDelta(x, w) <= RingDelta(e, w) /\ RingDelta(e, w) < RingDelta(c, w)
             /\ cmpl[e].kind = "packet"
           => \E s \in Slots : /\ Received(s) /\ info[s].eop
                               /\ RingDelta(e, w) < RingDelta(info[s].cidx, w)
    BY <1>3 DEF Owners, OwnedFrom
  <2>4. cmpl[c].kind = "udd"
    BY <1>1 DEF Entry
  <2>5. RingDelta(d, w) = RingDelta(c, w) + 1
    BY <1>5
  <2>6. c \in Slots /\ w \in Slots
    BY <1>10
  <2>7. \A s \in Slots : /\ RingDelta(s, w) \in Nat /\ info[s].cidx \in Slots
                         /\ RingDelta(s, w) = RingDelta(c, w) <=> s = c
    BY <1>11
  <2> HIDE DEF d, w, c, x
  <2>8. \A s \in Slots : Received(s) =>
             /\ RingDelta(x, w) <= RingDelta(info[s].cidx, w)
             /\ RingDelta(info[s].cidx, w) <= RingDelta(d, w)
    BY <2>2, <2>5, <2>6, <2>7
  <2>9. \A e \in Slots : RingDelta(e, w) < RingDelta(d, w) /\ cmpl[e].kind = "packet"
                         => RingDelta(e, w) < RingDelta(c, w)
    BY <2>4, <2>5, <2>6, <2>7
  <2>10. ~halted => \A e \in Slots :
           RingDelta(x, w) <= RingDelta(e, w) /\ RingDelta(e, w) < RingDelta(d, w)
             /\ cmpl[e].kind = "packet"
           => \E s \in Slots : /\ Received(s) /\ info[s].eop
                               /\ RingDelta(e, w) < RingDelta(info[s].cidx, w)
    BY <2>3, <2>9
  <2> QED
    BY <1>2, <2>1, <2>2, <2>8, <2>10 DEF Owners, OwnedFrom, d, w, x
<1>13. PICK pb \in [Slots -> Nat], first \in [Slots -> Slots] :
        /\ Content(pb)
        /\ Lengths(pb)
        /\ ~err => Link(pb, first)
        /\ Closed(W) => Whole(W, pb, first)
  BY DEF Inv, Witness
<1>14. Content(pb)' /\ Lengths(pb)'
  BY <1>2, <1>8, <1>13, ContentFrame, LengthsFrame
<1>15. /\ \A s : After(s)' = After(s)
       /\ \A s : RingDelta(s, cidxWrb)' = RingDelta(s, cidxWrb')
       /\ RingDelta(hwWrb, cidxWrb)' = RingDelta(hwWrb, cidxWrb')
  BY <1>2 DEF After, RingIncr, RingDelta
<1>16. \A s \in Slots : RingDelta(s, cidxWrb') <= RingDelta(hwWrb, cidxWrb') =>
         /\ RingDelta(s, cidxWrb) <= RingDelta(hwWrb, cidxWrb)
         /\ RingDelta(s, cidxWrb') < RingDelta(hwWrb, cidxWrb') => Unparsed(s)
  BY <1>5, <1>10, <1>11 DEF Unparsed
<1>17. ~err' => Link(pb, first)'
  <2> SUFFICES ASSUME ~err PROVE Link(pb, first)'
    BY <1>2
  <2>1. Link(pb, first)
    BY <1>13
  <2>2. PagesOf(cidxWrb) = 0
    BY <1>1 DEF PagesOf, Entry
  <2>3. first[cidxWrb'] = Cursor
    <3>1. RingDelta(first[cidxWrb'], Cursor) = RingDelta(first[cidxWrb], Cursor) + 0
      BY <1>5, <1>10, <2>1, <2>2 DEF Link
    <3>2. first[cidxWrb] = Cursor /\ Cursor \in Slots
      BY <1>3, <2>1, FromPending DEF Link
    <3>3. RingDelta(Cursor, Cursor) = 0 /\ first[cidxWrb'] \in Slots
      BY <1>5, <3>2, DeltaRange
    <3> QED
      BY <3>1, <3>2, <3>3, DeltaRange
  <2>4. /\ \A s : RingDelta(first[s], Cursor)' = RingDelta(first[s], Cursor)
        /\ \A s : RingDelta(first[After(s)], Cursor)' = RingDelta(first[After(s)], Cursor)
        /\ \A s : PagesOf(s)' = PagesOf(s) /\ UnitsOf(s)' = UnitsOf(s)
        /\ \A s, p : RingDelta(p, first[s])' = RingDelta(p, first[s])
        /\ \A s \in Slots : Unparsed(s)' <=> RingDelta(s, cidxWrb') < RingDelta(hwWrb, cidxWrb')
    BY <1>2, <1>8 DEF RingDelta, After, RingIncr, PagesOf, UnitsOf, PagesFor, Unparsed
  <2>5. \A s \in Slots : Unparsed(s)' => Unparsed(s)
    <3>1. \A s \in Slots : RingDelta(s, cidxWrb') < RingDelta(hwWrb, cidxWrb') => Unparsed(s)
      BY <1>5, <1>10, <1>11 DEF Unparsed
    <3> QED
      BY <2>4, <3>1
  <2>6. first[hwWrb'] = hwPidx'
    BY <1>2, <2>1 DEF Link
  <2>7. \A s \in Slots : Unparsed(s)' =>
       /\ RingDelta(first[After(s)], Cursor)' = RingDelta(first[s], Cursor)' + PagesOf(s)'
       /\ pb[first[After(s)]]' = pb[first[s]]' + UnitsOf(s)'
       /\ \A p \in Slots : RingDelta(p, first[s])' < PagesOf(s)' =>
            pb[p] = pb[first[s]] + RingDelta(p, first[s])' * PgSz
    BY <1>15, <2>1, <2>4, <2>5 DEF Link
  <2>8. \A s, t \in Slots :
         /\ RingDelta(s, cidxWrb') <= RingDelta(t, cidxWrb')
         /\ RingDelta(t, cidxWrb') <= RingDelta(hwWrb, cidxWrb')
         => RingDelta(first[s], Cursor) <= RingDelta(first[t], Cursor)
    <3> SUFFICES ASSUME NEW s \in Slots, NEW t \in Slots,
                        RingDelta(s, cidxWrb') <= RingDelta(t, cidxWrb'),
                        RingDelta(t, cidxWrb') <= RingDelta(hwWrb, cidxWrb')
                 PROVE  RingDelta(first[s], Cursor) <= RingDelta(first[t], Cursor)
      OBVIOUS
    <3>1. RingDelta(s, cidxWrb') <= RingDelta(hwWrb, cidxWrb')
      BY <1>10, <1>11
    <3>2. RingDelta(s, cidxWrb) <= RingDelta(t, cidxWrb) /\ RingDelta(t, cidxWrb) <= RingDelta(hwWrb, cidxWrb)
      BY <1>5, <1>11, <1>16, <3>1
    <3> QED
      BY <2>1, <3>2 DEF Link
  <2> QED
    BY <1>8, <1>15, <2>3, <2>4, <2>6, <2>7, <2>8 DEF Link
<1>18. Closed(W) => Whole(W, pb, first)'
  <2> SUFFICES ASSUME Closed(W) PROVE Whole(W, pb, first)'
    OBVIOUS
  <2>1. Whole(W, pb, first)
    BY <1>13
  <2>2. \A s : Filled(s)' <=> Filled(s)
    BY <1>2 DEF Filled, RingDelta
  <2> QED
    BY <1>2, <1>15, <1>16, <2>1, <2>2 DEF Whole
<1>19. Witness(W)'
  BY <1>14, <1>17, <1>18, WitnessNext
<1> QED
  BY <1>5, <1>6, <1>7, <1>9, <1>12, <1>19 DEF Inv

\* The new pages become visible.
LEMMA ParseDoneStep ==
  ASSUME NEW W, Inv(W), ParseDone
  PROVE  Inv(W)'
<1>1. /\ svc.phase = "parse" /\ pidx' = svc.pidx
      /\ svc' = [svc EXCEPT !.phase = "serve", !.todo = 0]
      /\ UNCHANGED <<polled, lock, pendList, cidxWrb, color, err, flq, requests, hardware,
                     regs, irq, out, nparsed, runs>>
  BY DEF ParseDone
<1>2. /\ UNCHANGED <<cidxWrb, color, err, pidxPend, cidxPend, avail, dlen, len, info, left, lock>>
      /\ UNCHANGED <<page, cmpl, hwPidx, hwWrb, hwColor, wbPidx, sent, ncmpl, doorbell, wrbCidx>>
      /\ UNCHANGED <<out, nparsed, halted>>
  BY <1>1 DEF flq, requests, hardware, regs, runs
<1>3. Types /\ Locking /\ PageOrder /\ PageCount /\ CmplOrder /\ CmplFresh /\ Owners
  BY DEF Inv
<1>4. /\ svc'.phase = "serve" /\ svc'.old = svc.old /\ svc.pidx \in Slots
      /\ svc' \in [phase : {"idle", "parse", "serve", "refill"}, todo : Nat,
                   pidx : Slots, old : Slots]
  <2>1. svc \in [phase : {"idle", "parse", "serve", "refill"}, todo : Nat,
                 pidx : Slots, old : Slots]
    BY <1>3 DEF Types, TypeOK
  <2> QED
    BY <1>1, <2>1
<1>5. Types'
  BY <1>1, <1>3, <1>4 DEF Types, TypeOK, flq, requests, hardware, regs, runs, Slots
<1>6. Locking'
  BY <1>1, <1>2, <1>3, <1>4 DEF Locking
<1>7. Cursor' = Cursor /\ Base' = Base /\ pidx' = Cursor
  BY <1>1, <1>2, <1>4 DEF Cursor, Base
<1>8. PageOrder'
  <2>1. /\ RingDelta(pidxPend, Base)' = RingDelta(pidxPend, Base)
        /\ RingDelta(pidx, Base)' = RingDelta(Cursor, Base)
        /\ RingDelta(Cursor, Base)' = RingDelta(Cursor, Base)
        /\ RingDelta(hwPidx, Base)' = RingDelta(hwPidx, Base)
        /\ PagesUpTo(Base)' = PagesUpTo(Base)
    BY <1>2, <1>7 DEF RingDelta, PagesUpTo, RingDecr
  <2>2. /\ Cursor \in Slots /\ Base \in Slots /\ pidxPend \in Slots /\ pidx \in Slots
    BY <1>3, FromPending DEF Types, TypeOK
  <2>3. /\ RingDelta(pidxPend, Base) \in Int /\ RingDelta(pidx, Base) \in Int
        /\ RingDelta(Cursor, Base) \in Int
    BY <2>2, DeltaRange
  <2> QED
    BY <1>2, <1>3, <2>1, <2>3 DEF PageOrder
<1>9. PageCount' /\ CmplFresh' /\ Owners'
  BY <1>2, <1>3, <1>7, PageCountFrame, CmplFreshFrame, OwnersFrame
<1>10. CmplOrder'
  BY <1>2, <1>3, <1>4 DEF CmplOrder, RingDelta
<1>11. PICK pb \in [Slots -> Nat], first \in [Slots -> Slots] :
        /\ Content(pb)
        /\ Lengths(pb)
        /\ ~err => Link(pb, first)
        /\ Closed(W) => Whole(W, pb, first)
  BY DEF Inv, Witness
<1>12. /\ Cursor \in Slots /\ pidxPend \in Slots /\ pidx \in Slots
       /\ RingDelta(pidx, pidxPend) <= RingDelta(Cursor, pidxPend)
       /\ RingDelta(pidxPend, pidxPend) = 0
       /\ RingDelta(pidx, pidxPend) \in Nat /\ RingDelta(Cursor, pidxPend) \in Nat
       /\ RingDelta(pidx, pidxPend) = 0 <=> pidx = pidxPend
       /\ RingDelta(Cursor, pidxPend) = 0 <=> Cursor = pidxPend
  <2>1. pidxPend \in Slots /\ pidx \in Slots
    BY <1>3 DEF Types, TypeOK
  <2>2. Cursor \in Slots /\ RingDelta(pidx, pidxPend) <= RingDelta(Cursor, pidxPend)
    BY <1>3, FromPending
  <2> QED
    BY <2>1, <2>2, DeltaRange, RingAssumption
<1>13. /\ Cursor = pidxPend => pidx = pidxPend
       /\ Cursor # pidxPend => Received(pidxPend)
  BY <1>12 DEF Received
<1>14. Cursor # pidxPend /\ pidx = pidxPend =>
         /\ len[pidxPend] = pb[After(pidxPend)] - pb[pidxPend]
         /\ Len(out) = pb[After(pidxPend)] - len[pidxPend]
  <2> SUFFICES ASSUME Cursor # pidxPend, pidx = pidxPend
               PROVE  /\ len[pidxPend] = pb[After(pidxPend)] - pb[pidxPend]
                      /\ Len(out) = pb[After(pidxPend)] - len[pidxPend]
    OBVIOUS
  <2>1. len[pidxPend] = pb[After(pidxPend)] - pb[pidxPend] /\ Len(out) = pb[pidxPend]
    BY <1>11, <1>12, <1>13 DEF Lengths
  <2>2. pb[After(pidxPend)] \in Nat /\ pb[pidxPend] \in Nat
    BY <1>12, AfterDelta
  <2> QED
    BY <2>1, <2>2
<1>15. Content(pb)'
  BY <1>2, <1>11, ContentFrame
<1>16. /\ \A s : After(s)' = After(s)
       /\ \A s : Received(s)' <=> Received(s)
  BY <1>2, <1>7 DEF After, RingIncr, Received, RingDelta
<1>17. Lengths(pb)'
  <2>1. \A s \in Slots : Received(s) /\ (s # pidxPend \/ Cursor = pidxPend)
          => len[s] = pb[After(s)] - pb[s]
    BY <1>11, <1>13 DEF Lengths
  <2>2. Cursor = pidxPend => Len(out) = pb[pidxPend]
    BY <1>11, <1>13 DEF Lengths
  <2>3. Cursor # pidxPend => /\ len[pidxPend] <= pb[After(pidxPend)] - pb[pidxPend]
                             /\ Len(out) = pb[After(pidxPend)] - len[pidxPend]
    <3>1. CASE pidx # pidxPend
      BY <1>11, <3>1 DEF Lengths
    <3>2. CASE pidx = pidxPend
      <4> SUFFICES ASSUME Cursor # pidxPend
                   PROVE  /\ len[pidxPend] <= pb[After(pidxPend)] - pb[pidxPend]
                          /\ Len(out) = pb[After(pidxPend)] - len[pidxPend]
        OBVIOUS
      <4>1. len[pidxPend] \in Int
        BY <1>3, <1>12, RingAssumption DEF Types, TypeOK
      <4>2. /\ len[pidxPend] = pb[After(pidxPend)] - pb[pidxPend]
            /\ Len(out) = pb[After(pidxPend)] - len[pidxPend]
        BY <1>14, <3>2
      <4> QED
        BY <4>1, <4>2
    <3> QED
      BY <3>1, <3>2
  <2>4. /\ Len(out) + dlen >= pb[Cursor]
        /\ ~halted => Len(out) + dlen = pb[Cursor]
    BY <1>11 DEF Lengths
  <2> QED
    BY <1>2, <1>7, <1>16, <2>1, <2>2, <2>3, <2>4 DEF Lengths
<1>18. ~err' => Link(pb, first)'
  BY <1>2, <1>7, <1>11, LinkFrame
<1>19. Closed(W) => Whole(W, pb, first)'
  <2> SUFFICES ASSUME Closed(W) PROVE Whole(W, pb, first)'
    OBVIOUS
  <2>1. Whole(W, pb, first)
    BY <1>11
  <2>2. /\ \A s : Filled(s)' <=> Filled(s)
        /\ \A s : RingDelta(s, cidxWrb)' = RingDelta(s, cidxWrb)
        /\ RingDelta(hwWrb, cidxWrb)' = RingDelta(hwWrb, cidxWrb)
    BY <1>2 DEF Filled, RingDelta
  <2>3. ~err
    BY <1>1, <1>3 DEF Locking
  <2>4. pb[Cursor] \in W
    <3>1. first[cidxWrb] = Cursor
      BY <1>11, <2>3 DEF Link
    <3>2. cidxWrb \in Slots /\ hwWrb \in Slots
      BY <1>3 DEF Types, TypeOK
    <3>3. RingDelta(cidxWrb, cidxWrb) <= RingDelta(hwWrb, cidxWrb)
      BY <3>2, DeltaRange
    <3> QED
      BY <2>1, <2>3, <3>1, <3>2, <3>3 DEF Whole
  <2>5. pidx' # pidxPend' => len'[pidxPend'] = pb[After(pidxPend)] - pb[pidxPend]
    <3>1. pidx # pidxPend => len[pidxPend] = pb[After(pidxPend)] - pb[pidxPend]
      BY <2>1 DEF Whole
    <3> QED
      BY <1>2, <1>7, <1>14, <3>1
  <2> QED
    BY <1>2, <1>7, <1>16, <2>1, <2>2, <2>4, <2>5 DEF Whole
<1>20. Witness(W)'
  BY <1>15, <1>17, <1>18, <1>19, WitnessNext
<1> QED
  BY <1>5, <1>6, <1>8, <1>9, <1>10, <1>20 DEF Inv

-----------------------------------------------------------------------------
(* The hardware.                                                           *)

\* A new entry h for m pages and u units, and the numbering that goes with it.
NewEntry(pb, first, pb2, first2, h, m, u) ==
  /\ h = hwWrb /\ hwWrb' \in Slots /\ hwWrb' = After(h)
  /\ RingDelta(hwWrb', cidxWrb) = RingDelta(h, cidxWrb) + 1
  /\ first2[hwWrb'] = hwPidx'
  /\ \A s \in Slots \ {hwWrb'} : first2[s] = first[s]
  /\ \A s \in Slots \ {h} : cmpl'[s] = cmpl[s]
  /\ m = IF cmpl'[h].kind = "packet" THEN PagesFor(cmpl'[h].len) ELSE 0
  /\ u = IF cmpl'[h].kind = "packet" THEN cmpl'[h].len ELSE 0
  /\ hwPidx' \in Slots /\ RingDelta(hwPidx', Cursor) = RingDelta(hwPidx, Cursor) + m
  /\ \A p \in Slots : RingDelta(p, Cursor) <= RingDelta(hwPidx, Cursor) => pb2[p] = pb[p]
  /\ pb2[hwPidx'] = pb2[hwPidx] + u
  /\ \A p \in Slots : RingDelta(p, hwPidx) < m =>
       pb2[p] = pb2[hwPidx] + RingDelta(p, hwPidx) * PgSz
  /\ cidxWrb' = cidxWrb /\ Cursor' = Cursor

\* The entries not parsed up to h start where they did.
SameStarts(pb, first, pb2, first2, h) ==
  \A s \in Slots : RingDelta(s, cidxWrb) <= RingDelta(h, cidxWrb) =>
    first2[s] = first[s] /\ pb2[first2[s]] = pb[first[s]]

\* What the numbering says of older entries is kept.
LEMMA LinkWritten ==
  ASSUME Types, PageOrder,
         NEW pb \in [Slots -> Nat], NEW first \in [Slots -> Slots], Link(pb, first),
         NEW pb2 \in [Slots -> Nat], NEW first2 \in [Slots -> Slots],
         NEW h \in Slots, NEW m \in Nat, NEW u \in Nat,
         NewEntry(pb, first, pb2, first2, h, m, u)
  PROVE  /\ Link(pb2, first2)'
         /\ SameStarts(pb, first, pb2, first2, h)
<1> DEFINE c == cidxWrb
           K == Cursor
           g == hwWrb'
           x == hwPidx
           y == hwPidx'
<1>1. c \in Slots /\ K \in Slots /\ g \in Slots /\ x \in Slots /\ y \in Slots
  BY FromPending DEF Types, TypeOK, NewEntry
<1>2. /\ first[h] = x /\ first[c] = K
      /\ \A s \in Slots : RingDelta(s, c) < RingDelta(h, c) =>
           /\ RingDelta(first[After(s)], K) = RingDelta(first[s], K) + PagesOf(s)
           /\ pb[first[After(s)]] = pb[first[s]] + UnitsOf(s)
           /\ \A p \in Slots : RingDelta(p, first[s]) < PagesOf(s) =>
                pb[p] = pb[first[s]] + RingDelta(p, first[s]) * PgSz
      /\ \A s, t \in Slots :
           RingDelta(s, c) <= RingDelta(t, c) /\ RingDelta(t, c) <= RingDelta(h, c)
           => RingDelta(first[s], K) <= RingDelta(first[t], K)
  BY DEF Link, Unparsed, NewEntry
<1>3. /\ g = After(h) /\ RingDelta(g, c) = RingDelta(h, c) + 1
      /\ first2[g] = y
      /\ \A s \in Slots : s # g => first2[s] = first[s]
      /\ RingDelta(y, K) = RingDelta(x, K) + m
      /\ \A p \in Slots : RingDelta(p, K) <= RingDelta(x, K) => pb2[p] = pb[p]
      /\ pb2[y] = pb2[x] + u
      /\ \A p \in Slots : RingDelta(p, x) < m => pb2[p] = pb2[x] + RingDelta(p, x) * PgSz
  BY DEF NewEntry
<1>4. \A s \in Slots : /\ RingDelta(s, c) \in Nat /\ RingDelta(s, K) \in 0 .. RngSz - 1
                       /\ RingDelta(s, K) \in Nat
                       /\ RingDelta(s, x) \in Nat /\ first[s] \in Slots /\ first2[s] \in Slots
                       /\ After(s) \in Slots
  <2> SUFFICES ASSUME NEW s \in Slots
               PROVE  /\ RingDelta(s, c) \in Nat /\ RingDelta(s, K) \in 0 .. RngSz - 1
                      /\ RingDelta(s, K) \in Nat
                      /\ RingDelta(s, x) \in Nat /\ first[s] \in Slots /\ first2[s] \in Slots
                      /\ After(s) \in Slots
    OBVIOUS
  <2>1. /\ RingDelta(s, c) \in 0 .. RngSz - 1 /\ RingDelta(s, K) \in 0 .. RngSz - 1
        /\ RingDelta(s, x) \in 0 .. RngSz - 1
    BY <1>1, DeltaRange
  <2>2. After(s) \in Slots
    BY <1>1, AfterDelta
  <2> QED
    BY <2>1, <2>2
<1>5. RingDelta(g, c) \in 0 .. RngSz - 1 /\ RngSz \in Nat /\ RingDelta(c, c) = 0
  BY <1>1, DeltaRange, RingAssumption
<1>6. /\ \A s \in Slots : PagesOf(s) \in Nat
      /\ \A s \in Slots : s # h => PagesOf(s)' = PagesOf(s) /\ UnitsOf(s)' = UnitsOf(s)
  <2>1. /\ \A s \in Slots : cmpl[s].len \in Nat
        /\ \A s \in Slots : s # h => cmpl'[s] = cmpl[s]
    BY DEF Types, NewEntry
  <2> QED
    BY <2>1, PagesForBounds DEF PagesOf, UnitsOf, PagesFor
<1>7. /\ \A s : RingDelta(s, cidxWrb)' = RingDelta(s, c)
      /\ RingDelta(hwWrb, cidxWrb)' = RingDelta(g, c)
      /\ \A s : RingDelta(first2[s], Cursor)' = RingDelta(first2[s], K)
      /\ \A s : RingDelta(first2[After(s)], Cursor)' = RingDelta(first2[After(s)], K)
      /\ \A s, p : RingDelta(p, first2[s])' = RingDelta(p, first2[s])
      /\ \A s : After(s)' = After(s)
  BY DEF RingDelta, After, RingIncr, NewEntry
<1>8. PagesOf(h)' = m /\ UnitsOf(h)' = u
  BY DEF NewEntry, PagesOf, UnitsOf, PagesFor
<1> HIDE DEF c, K, g, x, y
<1>9. \A s \in Slots : RingDelta(s, c) <= RingDelta(h, c) => s # g
  BY <1>1, <1>3, <1>4
<1>10. \A s \in Slots : RingDelta(s, c) <= RingDelta(h, c) =>
         /\ RingDelta(first[s], K) <= RingDelta(x, K)
         /\ first2[s] = first[s] /\ pb2[first2[s]] = pb[first[s]]
  <2> SUFFICES ASSUME NEW s \in Slots, RingDelta(s, c) <= RingDelta(h, c)
               PROVE  /\ RingDelta(first[s], K) <= RingDelta(x, K)
                      /\ first2[s] = first[s] /\ pb2[first2[s]] = pb[first[s]]
    OBVIOUS
  <2>1. RingDelta(h, c) <= RingDelta(h, c)
    BY <1>4
  <2>2. RingDelta(first[s], K) <= RingDelta(x, K)
    BY <1>2, <2>1
  <2> QED
    BY <1>3, <1>4, <1>9, <2>2
<1>11. ASSUME NEW s \in Slots, RingDelta(s, c) < RingDelta(h, c)
       PROVE  /\ RingDelta(first2[After(s)], K) = RingDelta(first2[s], K) + PagesOf(s)
              /\ pb2[first2[After(s)]] = pb2[first2[s]] + UnitsOf(s)
              /\ \A p \in Slots : RingDelta(p, first2[s]) < PagesOf(s) =>
                   pb2[p] = pb2[first2[s]] + RingDelta(p, first2[s]) * PgSz
  <2>1. RingDelta(After(s), c) = RingDelta(s, c) + 1
    <3>1. RingDelta(s, c) + 1 < RngSz
      BY <1>3, <1>4, <1>5, <1>11
    <3> QED
      BY <1>1, <3>1, AfterDelta
  <2>2. RingDelta(After(s), c) <= RingDelta(h, c) /\ RingDelta(s, c) <= RingDelta(h, c)
    BY <1>4, <1>11, <2>1
  <2>3. /\ first2[s] = first[s] /\ pb2[first2[s]] = pb[first[s]]
        /\ first2[After(s)] = first[After(s)] /\ pb2[first2[After(s)]] = pb[first[After(s)]]
        /\ RingDelta(first[After(s)], K) <= RingDelta(x, K)
    BY <1>4, <1>10, <2>2
  <2>4. ASSUME NEW p \in Slots, RingDelta(p, first[s]) < PagesOf(s)
        PROVE  pb2[p] = pb[p]
    <3> DEFINE f == first[s]
               j == PagesOf(s)
    <3>1. f \in Slots /\ j \in Nat
      BY <1>4, <1>6
    <3>2. RingDelta(f, K) + j <= RingDelta(x, K)
      BY <1>2, <1>11, <2>3
    <3>3. RingDelta(p, f) < j
      BY <2>4
    <3> HIDE DEF f, j
    <3>4. RingDelta(p, f) \in Nat
      BY <3>1, DeltaRange, RingAssumption
    <3>5. RingDelta(p, f) + RingDelta(f, K) < RngSz
      BY <1>1, <1>4, <1>5, <3>1, <3>2, <3>3, <3>4
    <3>6. RingDelta(p, K) = RingDelta(p, f) + RingDelta(f, K)
      BY <1>1, <3>1, <3>5, DeltaAdd
    <3>7. RingDelta(p, K) <= RingDelta(x, K)
      BY <1>1, <1>4, <3>1, <3>2, <3>3, <3>4, <3>6
    <3> QED
      BY <1>3, <3>7
  <2> QED
    BY <1>2, <1>11, <2>3, <2>4
<1>12. ASSUME NEW s \in Slots, NEW t \in Slots,
              RingDelta(s, c) <= RingDelta(t, c), RingDelta(t, c) <= RingDelta(g, c)
       PROVE  RingDelta(first2[s], K) <= RingDelta(first2[t], K)
  <2>1. CASE RingDelta(t, c) <= RingDelta(h, c)
    <3>1. RingDelta(s, c) <= RingDelta(h, c)
      BY <1>4, <1>12, <2>1
    <3> QED
      BY <1>2, <1>10, <1>12, <2>1, <3>1
  <2>2. CASE ~(RingDelta(t, c) <= RingDelta(h, c))
    <3>1. RingDelta(t, c) = RingDelta(g, c)
      BY <1>3, <1>4, <1>12, <2>2
    <3>2. t = g
      BY <1>1, <3>1, DeltaInverse
    <3>3. CASE s = g
      BY <1>4, <3>2, <3>3
    <3>4. CASE s # g
      <4>1. RingDelta(s, c) # RingDelta(g, c)
        BY <1>1, <3>4, DeltaInverse
      <4>2. RingDelta(s, c) <= RingDelta(h, c)
        BY <1>3, <1>4, <1>12, <3>2, <4>1
      <4>3. RingDelta(first2[s], K) <= RingDelta(x, K)
        BY <1>10, <4>2
      <4> QED
        BY <1>1, <1>3, <1>4, <3>2, <4>3
    <3> QED
      BY <3>3, <3>4
  <2> QED
    BY <2>1, <2>2
<1>13. /\ first2[h] = x
       /\ RingDelta(first2[g], K) = RingDelta(first2[h], K) + m
       /\ pb2[first2[g]] = pb2[first2[h]] + u
       /\ \A p \in Slots : RingDelta(p, first2[h]) < m =>
            pb2[p] = pb2[first2[h]] + RingDelta(p, first2[h]) * PgSz
  <2>1. first2[h] = x
    BY <1>2, <1>4, <1>10
  <2> QED
    BY <1>3, <2>1
<1>14. first2[c] = K
  <2>1. RingDelta(c, c) <= RingDelta(h, c)
    BY <1>1, <1>4, <1>5
  <2> QED
    BY <1>1, <1>2, <1>10, <2>1
<1>15. \A s \in Slots : Unparsed(s)' <=> RingDelta(s, c) < RingDelta(g, c)
  BY <1>7 DEF Unparsed
<1>16. ASSUME NEW s \in Slots, Unparsed(s)'
       PROVE  /\ RingDelta(first2[After(s)], K) = RingDelta(first2[s], K) + PagesOf(s)'
              /\ pb2[first2[After(s)]] = pb2[first2[s]] + UnitsOf(s)'
              /\ \A p \in Slots : RingDelta(p, first2[s]) < PagesOf(s)' =>
                   pb2[p] = pb2[first2[s]] + RingDelta(p, first2[s]) * PgSz
  <2>1. CASE s = h
    BY <1>3, <1>8, <1>13, <2>1
  <2>2. CASE s # h
    <3>1. RingDelta(s, c) # RingDelta(h, c)
      BY <1>1, <2>2, DeltaInverse
    <3>2. RingDelta(s, c) < RingDelta(h, c)
      <4>1. RingDelta(s, c) < RingDelta(g, c)
        BY <1>15, <1>16
      <4>2. RingDelta(s, c) \in Nat /\ RingDelta(h, c) \in Nat
        BY <1>4
      <4> QED
        BY <1>3, <3>1, <4>1, <4>2
    <3> QED
      BY <1>6, <1>11, <2>2, <3>2
  <2> QED
    BY <2>1, <2>2
<1>17. first2[hwWrb'] = hwPidx' /\ first2[cidxWrb'] = Cursor'
  BY <1>3, <1>14 DEF g, y, c, K, NewEntry
<1>18. Link(pb2, first2)'
  BY <1>7, <1>12, <1>16, <1>17 DEF Link, g, c, K, NewEntry
<1> QED
  BY <1>10, <1>18 DEF SameStarts, c

\* An entry without a page.
LEMMA HwOtherStep ==
  ASSUME NEW W, Inv(W), NEW kind \in {"bad", "udd"}, HwOther(kind)
  PROVE  Inv(W)'
<1>1. /\ RoomForCmpl /\ WriteCmpl(kind, 0)
      /\ UNCHANGED <<polled, lock, pendList, indices, flq, requests, svc, page, hwPidx,
                     wbPidx, sent, regs, irq, out, nparsed, runs>>
  BY DEF HwOther
<1>2. /\ UNCHANGED <<pidx, cidxWrb, color, err, pidxPend, cidxPend, avail, dlen, len, info>>
      /\ UNCHANGED <<page, hwPidx, wbPidx, sent, doorbell, wrbCidx, left, lock, svc>>
      /\ UNCHANGED <<out, nparsed, halted>>
  BY <1>1 DEF indices, flq, requests, regs, runs
<1>3. Types /\ Locking /\ PageOrder /\ PageCount /\ CmplOrder /\ CmplFresh /\ Owners
  BY DEF Inv
<1>4. PICK h \in Slots : h = hwWrb
  BY <1>3 DEF Types, TypeOK
<1>5. /\ CmplOrder' /\ CmplFresh' /\ Owners'
      /\ hwWrb' \in Slots /\ hwWrb' = After(h)
      /\ hwColor' \in 0 .. 1 /\ ncmpl' \in 0 .. MaxCmpl
      /\ cmpl' \in [Slots -> [kind : {"none", "packet", "udd", "bad"}, len : Nat,
                              color : 0 .. 1, nr : Nat]]
      /\ \A s \in Slots \ {h} : cmpl'[s] = cmpl[s]
      /\ cmpl'[h].kind = kind
      /\ RingDelta(hwWrb', cidxWrb) = RingDelta(h, cidxWrb) + 1
  BY <1>1, <1>2, <1>3, <1>4, EntryWritten
<1>6. Types'
  BY <1>1, <1>3, <1>5, ZenonT(60) DEF Types, TypeOK, indices, flq, requests, regs, runs, Slots
<1>7. Locking'
  BY <1>2, <1>3, LockingFrame
<1>8. Cursor' = Cursor /\ Base' = Base
  BY <1>2 DEF Cursor, Base
<1>9. PageOrder' /\ PageCount'
  BY <1>2, <1>3, <1>8, PageOrderFrame, PageCountFrame
<1>10. PICK pb \in [Slots -> Nat], first \in [Slots -> Slots] :
        /\ Content(pb)
        /\ Lengths(pb)
        /\ ~err => Link(pb, first)
        /\ Closed(W) => Whole(W, pb, first)
  BY DEF Inv, Witness
<1>11. hwPidx \in Slots /\ hwPidx' = hwPidx /\ cidxWrb \in Slots /\ Cursor \in Slots
  BY <1>2, <1>3, FromPending DEF Types, TypeOK
<1>12. PICK first2 \in [Slots -> Slots] : first2 = [first EXCEPT ![hwWrb'] = hwPidx']
  BY <1>5, <1>11
<1>13. /\ first2[hwWrb'] = hwPidx'
       /\ \A s \in Slots \ {hwWrb'} : first2[s] = first[s]
  BY <1>5, <1>12
<1>15. Content(pb)' /\ Lengths(pb)'
  BY <1>2, <1>8, <1>10, ContentFrame, LengthsFrame
<1>16. ~err => Link(pb, first2)' /\ SameStarts(pb, first, pb, first2, h)
  <2> SUFFICES ASSUME ~err PROVE Link(pb, first2)' /\ SameStarts(pb, first, pb, first2, h)
    OBVIOUS
  <2>1. Link(pb, first)
    BY <1>10
  <2>2. PICK m \in Nat, pb2 \in [Slots -> Nat] : m = 0 /\ pb2 = pb
    OBVIOUS
  <2>3. /\ RingDelta(hwPidx', Cursor) = RingDelta(hwPidx, Cursor) + m
        /\ pb2[hwPidx'] = pb2[hwPidx] + m
    <3>1. RingDelta(hwPidx, Cursor) \in Int /\ pb[hwPidx] \in Int
      BY <1>11, DeltaRange
    <3> QED
      BY <1>11, <2>2, <3>1
  <2>4. \A p \in Slots : RingDelta(p, hwPidx) < m =>
          pb2[p] = pb2[hwPidx] + RingDelta(p, hwPidx) * PgSz
    <3>1. \A p \in Slots : RingDelta(p, hwPidx) \in Nat
      BY <1>11, DeltaRange, RingAssumption
    <3> QED
      BY <2>2, <3>1
  <2>5. /\ cmpl'[h].kind # "packet"
        /\ \A p \in Slots : RingDelta(p, Cursor) <= RingDelta(hwPidx, Cursor) => pb2[p] = pb[p]
        /\ hwPidx' \in Slots /\ cidxWrb' = cidxWrb
    BY <1>2, <1>5, <1>11, <2>2
  <2>6. Link(pb2, first2)' /\ SameStarts(pb, first, pb2, first2, h)
    <3>1. NewEntry(pb, first, pb2, first2, h, m, m)
      BY <1>4, <1>5, <1>8, <1>13, <2>2, <2>3, <2>4, <2>5 DEF NewEntry
    <3> QED
      BY <1>3, <2>1, <3>1, LinkWritten
  <2> QED
    BY <2>2, <2>6
<1>17. Closed(W) => Whole(W, pb, first2)'
  <2> SUFFICES ASSUME Closed(W) PROVE Whole(W, pb, first2)'
    OBVIOUS
  <2>1. Whole(W, pb, first)
    BY <1>10
  <2>2. /\ \A s : Filled(s)' <=> Filled(s)
        /\ \A s : RingDelta(s, cidxWrb)' = RingDelta(s, cidxWrb)
        /\ RingDelta(hwWrb, cidxWrb)' = RingDelta(hwWrb', cidxWrb)
        /\ \A s : After(s)' = After(s)
    BY <1>2 DEF Filled, RingDelta, After, RingIncr
  <2>3. ASSUME ~err, NEW s \in Slots, RingDelta(s, cidxWrb) <= RingDelta(hwWrb', cidxWrb)
        PROVE  pb[first2[s]] \in W
    <3>1. CASE s = hwWrb'
      <4>1. pb[hwPidx] = sent /\ sent \in W
        BY <1>10, <2>1 DEF Content, Whole
      <4> QED
        BY <1>11, <1>13, <3>1, <4>1
    <3>2. CASE s # hwWrb'
      <4>1. RingDelta(s, cidxWrb) # RingDelta(hwWrb', cidxWrb)
        BY <1>5, <1>11, <3>2, DeltaInverse
      <4>2. RingDelta(s, cidxWrb) \in Int /\ RingDelta(h, cidxWrb) \in Int
        BY <1>11, DeltaRange
      <4>3. RingDelta(s, cidxWrb) <= RingDelta(h, cidxWrb)
        BY <1>5, <2>3, <4>1, <4>2
      <4> QED
        BY <1>4, <1>16, <2>1, <2>3, <4>3 DEF Whole, SameStarts
    <3> QED
      BY <3>1, <3>2
  <2> QED
    BY <1>2, <2>1, <2>2, <2>3 DEF Whole
<1>18. Witness(W)'
  BY <1>2, <1>15, <1>16, <1>17, WitnessNext
<1> QED
  BY <1>5, <1>6, <1>7, <1>9, <1>18 DEF Inv

\* A packet of n units on its pages: page k holds its share, and the shares
\* add up.
LEMMA PacketPages ==
  ASSUME NEW n \in Nat, NEW k \in Nat, k < PagesFor(n)
  PROVE  /\ k * PgSz \in Nat /\ (k + 1) * PgSz = k * PgSz + PgSz
         /\ k * PgSz <= n
         /\ k + 1 < PagesFor(n) => k * PgSz + PgSz <= n
         /\ k + 1 = PagesFor(n) => n <= k * PgSz + PgSz
         /\ Min({PgSz, n - k * PgSz}) = IF k + 1 < PagesFor(n) THEN PgSz ELSE n - k * PgSz
<1> DEFINE m == PagesFor(n)
           a == k * PgSz
           b == (m - 1) * PgSz
<1>1. PgSz \in Nat \ {0}
  BY RingAssumption
<1>2. m \in Nat \ {0} /\ n <= m * PgSz /\ (n = 0 => m = 1) /\ (n > 0 => b < n)
  BY PagesForBounds
<1>3. a \in Nat /\ (k + 1) * PgSz = a + PgSz /\ m * PgSz = b + PgSz /\ b \in Nat
  BY <1>1, <1>2
<1>4. k < m
  OBVIOUS
<1>5. k < m - 1 => a + PgSz <= b
  BY <1>1, <1>2, ProductLess
<1>6. k = m - 1 => a = b
  OBVIOUS
<1> HIDE DEF m, a, b
<1>7. k + 1 < m => a + PgSz <= n
  BY <1>1, <1>2, <1>3, <1>5
<1>8. k + 1 = m => n <= a + PgSz /\ a <= n
  <2> SUFFICES ASSUME k + 1 = m PROVE n <= a + PgSz /\ a <= n
    OBVIOUS
  <2>1. a = b
    BY <1>2, <1>6
  <2>2. n = 0 => a = 0
    <3> SUFFICES ASSUME n = 0 PROVE a = 0
      OBVIOUS
    <3>1. k = 0
      BY <1>2
    <3> QED
      BY <1>1, <3>1 DEF a
  <2> QED
    BY <1>1, <1>2, <1>3, <2>1, <2>2
<1>9. k + 1 < m \/ k + 1 = m
  BY <1>2, <1>4
<1>10. a <= n
  BY <1>1, <1>3, <1>7, <1>8, <1>9
<1>11. Min({PgSz, n - a}) = IF PgSz <= n - a THEN PgSz ELSE n - a
  BY <1>1, <1>3, MinOfTwo
<1>12. Min({PgSz, n - a}) = IF k + 1 < m THEN PgSz ELSE n - a
  BY <1>1, <1>3, <1>7, <1>8, <1>9, <1>11
<1> QED
  BY <1>3, <1>7, <1>8, <1>10, <1>12 DEF m, a

\* Seen from a page b, m pages from x on do not come round to those before x.
LEMMA PagesAhead ==
  ASSUME NEW b \in Slots, NEW x \in Slots, NEW m \in Nat, RingDelta(x, b) + m < RngSz
  PROVE  /\ RingIncr(x, m) \in Slots
         /\ RingDelta(RingIncr(x, m), b) = RingDelta(x, b) + m
         /\ RingDelta(RingIncr(x, m), x) = m
         /\ \A p \in Slots : RingDelta(p, b) < RingDelta(x, b) => RingDelta(p, x) > m
         /\ \A p \in Slots : RingDelta(p, b) >= RingDelta(x, b) =>
              RingDelta(p, x) = RingDelta(p, b) - RingDelta(x, b)
BY RingAssumption DEF Slots, RingDelta, RingIncr

\* The last unit before page x + k of a packet of n units.
ShareAt(n, k) == IF k < PagesFor(n) THEN k * PgSz ELSE n

\* What the pages of a packet hold adds up to the packet.
LEMMA Shares ==
  ASSUME NEW n \in Nat
  PROVE  /\ \A k \in 0 .. PagesFor(n) : ShareAt(n, k) \in 0 .. n
         /\ \A j, k \in 0 .. PagesFor(n) : j <= k => ShareAt(n, j) <= ShareAt(n, k)
         /\ \A k \in Nat : k < PagesFor(n) =>
              /\ ShareAt(n, k + 1) - ShareAt(n, k) \in 0 .. PgSz
              /\ Min({PgSz, n - k * PgSz}) = ShareAt(n, k + 1) - ShareAt(n, k)
              /\ ShareAt(n, k) = k * PgSz
              /\ k + 1 < PagesFor(n) => ShareAt(n, k + 1) = k * PgSz + PgSz
              /\ k + 1 = PagesFor(n) => ShareAt(n, k + 1) = n /\ n <= k * PgSz + PgSz
              /\ k * PgSz + PgSz >= ShareAt(n, k + 1)
         /\ ShareAt(n, 0) = 0 /\ ShareAt(n, PagesFor(n)) = n
<1> DEFINE m == PagesFor(n)
<1>1. m \in Nat \ {0} /\ PgSz \in Nat \ {0}
  BY PagesForBounds, RingAssumption
<1>2. ASSUME NEW k \in Nat, k < m
      PROVE  /\ k * PgSz \in Nat /\ (k + 1) * PgSz = k * PgSz + PgSz
             /\ k * PgSz <= n
             /\ k + 1 < m => k * PgSz + PgSz <= n
             /\ k + 1 = m => n <= k * PgSz + PgSz
             /\ Min({PgSz, n - k * PgSz}) = IF k + 1 < m THEN PgSz ELSE n - k * PgSz
  BY <1>2, PacketPages
<1>3. \A k : ShareAt(n, k) = IF k < m THEN k * PgSz ELSE n
  BY DEF ShareAt
<1> HIDE DEF m
<1>4. ASSUME NEW k \in 0 .. m PROVE ShareAt(n, k) \in 0 .. n
  <2>1. CASE k < m
    <3> DEFINE a == k * PgSz
    <3>3. k \in Nat
      BY <1>1
    <3>1. a \in Nat /\ a <= n
      BY <1>2, <2>1, <3>3
    <3>2. ShareAt(n, k) = a
      BY <1>3, <2>1
    <3> HIDE DEF a
    <3> QED
      BY <3>1, <3>2
  <2>2. CASE ~(k < m)
    BY <1>3, <2>2
  <2> QED
    BY <2>1, <2>2
<1>5. ASSUME NEW j \in 0 .. m, NEW k \in 0 .. m, j <= k PROVE ShareAt(n, j) <= ShareAt(n, k)
  <2>1. CASE k < m
    <3>1. j < m /\ j \in Nat /\ k \in Nat
      BY <1>1, <1>5, <2>1
    <3>2. j * PgSz <= k * PgSz
      BY <1>1, <1>5, <3>1, ProductLe
    <3> QED
      BY <1>3, <2>1, <3>1, <3>2
  <2>2. CASE ~(k < m)
    BY <1>3, <1>4, <2>2
  <2> QED
    BY <2>1, <2>2
<1>6. ASSUME NEW k \in Nat, k < m
      PROVE  /\ ShareAt(n, k + 1) - ShareAt(n, k) \in 0 .. PgSz
             /\ Min({PgSz, n - k * PgSz}) = ShareAt(n, k + 1) - ShareAt(n, k)
             /\ ShareAt(n, k) = k * PgSz
             /\ k + 1 < m => ShareAt(n, k + 1) = k * PgSz + PgSz
             /\ k + 1 = m => ShareAt(n, k + 1) = n /\ n <= k * PgSz + PgSz
             /\ k * PgSz + PgSz >= ShareAt(n, k + 1)
  <2> DEFINE a == k * PgSz
  <2>1. /\ a \in Nat /\ (k + 1) * PgSz = a + PgSz /\ a <= n
        /\ k + 1 < m => a + PgSz <= n
        /\ k + 1 = m => n <= a + PgSz
        /\ Min({PgSz, n - a}) = IF k + 1 < m THEN PgSz ELSE n - a
    BY <1>2, <1>6
  <2>2. /\ ShareAt(n, k) = a
        /\ ShareAt(n, k + 1) = IF k + 1 < m THEN (k + 1) * PgSz ELSE n
    BY <1>3, <1>6
  <2>3. k + 1 < m \/ k + 1 = m
    BY <1>1, <1>6
  <2> HIDE DEF a
  <2>4. /\ ShareAt(n, k + 1) - ShareAt(n, k) \in 0 .. PgSz
        /\ Min({PgSz, n - a}) = ShareAt(n, k + 1) - ShareAt(n, k)
        /\ a + PgSz >= ShareAt(n, k + 1)
    <3>1. CASE k + 1 < m
      BY <1>1, <2>1, <2>2, <3>1
    <3>2. CASE k + 1 = m
      BY <1>1, <2>1, <2>2, <3>2
    <3> QED
      BY <2>3, <3>1, <3>2
  <2>5. /\ k + 1 < m => ShareAt(n, k + 1) = a + PgSz
        /\ k + 1 = m => ShareAt(n, k + 1) = n /\ n <= a + PgSz
    BY <1>1, <2>1, <2>2
  <2> QED
    BY <2>2, <2>4, <2>5 DEF a
<1>7. ShareAt(n, 0) = 0 /\ ShareAt(n, m) = n
  BY <1>1, <1>3
<1> QED
  BY <1>4, <1>5, <1>6, <1>7 DEF m

\* The last units of the pages after a packet.
Packed(pb, n) == [s \in Slots |-> IF RingDelta(s, hwPidx) <= PagesFor(n)
                                  THEN sent + ShareAt(n, RingDelta(s, hwPidx))
                                  ELSE pb[s]]

\* There is room for a packet: its pages are behind none of the driver's indices.
LEMMA PacketRoom ==
  ASSUME Types, PageOrder, NEW n \in Lens, HwPacket(n)
  PROVE  /\ n \in Nat /\ PagesFor(n) \in Nat \ {0}
         /\ hwPidx \in Slots /\ hwPidx' \in Slots
         /\ pidxPend \in Slots /\ Cursor \in Slots /\ Base \in Slots /\ pidx \in Slots
         /\ hwPidx' = RingIncr(hwPidx, PagesFor(n))
         /\ RingDelta(hwPidx', hwPidx) = PagesFor(n)
         /\ RingDelta(hwPidx, Base) + PagesFor(n) < RngSz
         /\ RingDelta(hwPidx', Base) = RingDelta(hwPidx, Base) + PagesFor(n)
         /\ RingDelta(hwPidx, pidxPend) + PagesFor(n) < RngSz
         /\ RingDelta(hwPidx', pidxPend) = RingDelta(hwPidx, pidxPend) + PagesFor(n)
         /\ RingDelta(hwPidx, Cursor) + PagesFor(n) < RngSz
         /\ RingDelta(hwPidx', Cursor) = RingDelta(hwPidx, Cursor) + PagesFor(n)
<1> DEFINE m == PagesFor(n)
           x == hwPidx
           y == hwPidx'
           b == Base
           K == Cursor
           p == pidxPend
<1>1. n \in Nat
  BY PacketAssumption
<1>2. m \in Nat \ {0}
  BY <1>1, PagesForBounds
<1>3. y = RingIncr(x, m) /\ RingDelta(doorbell, x) >= m
  BY DEF HwPacket
<1>4. p \in Slots /\ x \in Slots /\ K \in Slots /\ b \in Slots /\ pidx \in Slots
  BY FromPending DEF Types, TypeOK
<1>5. doorbell = PagesUpTo(b) /\ RingDelta(p, b) <= RingDelta(x, b) /\ RingDelta(K, b) <= RingDelta(x, b)
  <2>1. /\ RingDelta(p, b) \in Int /\ RingDelta(pidx, b) \in Int /\ RingDelta(K, b) \in Int
        /\ RingDelta(x, b) \in Int
    BY <1>4, DeltaRange
  <2> QED
    BY <2>1 DEF PageOrder
<1>6. RngSz \in Nat
  BY RingAssumption
<1> HIDE DEF m, x, y, b, K, p
<1>7. /\ RingDelta(x, b) \in Nat /\ RingDelta(p, b) \in Nat /\ RingDelta(K, b) \in Nat
      /\ RingDelta(x, p) \in Nat /\ RingDelta(x, K) \in Nat
  BY <1>4, <1>6, DeltaRange
<1>8. RingDelta(x, b) + m < RngSz
  <2>1. RingDelta(PagesUpTo(b), x) = RngSz - 1 - RingDelta(x, b)
    BY <1>4, DeltaDecr
  <2> QED
    BY <1>2, <1>3, <1>5, <1>6, <1>7, <2>1
<1>9. RingDelta(x, p) = RingDelta(x, b) - RingDelta(p, b) /\ RingDelta(x, K) = RingDelta(x, b) - RingDelta(K, b)
  BY <1>4, <1>5, DeltaRebase
<1>10. RingDelta(x, p) + m < RngSz /\ RingDelta(x, K) + m < RngSz
  BY <1>2, <1>6, <1>7, <1>8, <1>9
<1>11. /\ y \in Slots /\ RingDelta(y, x) = m
       /\ RingDelta(y, b) = RingDelta(x, b) + m
       /\ RingDelta(y, p) = RingDelta(x, p) + m
       /\ RingDelta(y, K) = RingDelta(x, K) + m
  BY <1>2, <1>3, <1>4, <1>8, <1>10, PagesAhead
<1> QED
  BY <1>1, <1>2, <1>3, <1>4, <1>8, <1>10, <1>11 DEF m, x, y, b, K, p

\* Pages up to the one the hardware fills next keep their place in the numbering.
LEMMA PackedOld ==
  ASSUME NEW pb \in [Slots -> Nat], pb[hwPidx] = sent, NEW n \in Nat, NEW b \in Slots,
         hwPidx \in Slots, RingDelta(hwPidx, b) + PagesFor(n) < RngSz,
         NEW s \in Slots, RingDelta(s, b) <= RingDelta(hwPidx, b)
  PROVE  Packed(pb, n)[s] = pb[s]
<1>1. PagesFor(n) \in Nat \ {0}
  BY PagesForBounds
<1>2. RingDelta(s, b) \in Int /\ RingDelta(hwPidx, b) \in Int /\ RingDelta(s, hwPidx) \in Int
  BY DeltaRange
<1>3. Packed(pb, n)[s] = IF RingDelta(s, hwPidx) <= PagesFor(n)
                         THEN sent + ShareAt(n, RingDelta(s, hwPidx)) ELSE pb[s]
  BY DEF Packed
<1>4. CASE RingDelta(s, b) < RingDelta(hwPidx, b)
  <2>1. RingDelta(s, hwPidx) > PagesFor(n)
    BY <1>1, <1>4, PagesAhead
  <2> QED
    BY <1>1, <1>2, <1>3, <2>1
<1>5. CASE RingDelta(s, b) = RingDelta(hwPidx, b)
  <2>1. s = hwPidx
    BY <1>5, DeltaInverse
  <2>2. RingDelta(s, hwPidx) = 0
    BY <2>1, DeltaRange
  <2>3. ShareAt(n, 0) = 0
    BY Shares
  <2>4. sent \in Nat
    OBVIOUS
  <2> QED
    BY <1>1, <1>3, <2>1, <2>2, <2>3, <2>4
<1> QED
  BY <1>2, <1>4, <1>5

\* Pages from there on.
LEMMA PackedNew ==
  ASSUME Types, NEW pb \in [Slots -> Nat], NEW n \in Nat, hwPidx \in Slots,
         PagesFor(n) < RngSz, NEW s \in Slots, RingDelta(s, hwPidx) < PagesFor(n)
  PROVE  /\ Packed(pb, n)[s] = sent + RingDelta(s, hwPidx) * PgSz
         /\ Packed(pb, n)[s] = sent + ShareAt(n, RingDelta(s, hwPidx))
         /\ Packed(pb, n)[After(s)] = sent + ShareAt(n, RingDelta(s, hwPidx) + 1)
         /\ RingDelta(After(s), hwPidx) = RingDelta(s, hwPidx) + 1
<1> DEFINE m == PagesFor(n)
           k == RingDelta(s, hwPidx)
<1>1. m \in Nat \ {0} /\ RngSz \in Nat
  BY PagesForBounds, RingAssumption
<1>2. k \in Nat
  BY DeltaRange, RingAssumption
<1>3. k < m /\ m < RngSz
  OBVIOUS
<1>4. \A t \in Slots : Packed(pb, n)[t] = IF RingDelta(t, hwPidx) <= m
                         THEN sent + ShareAt(n, RingDelta(t, hwPidx)) ELSE pb[t]
  BY DEF Packed
<1> HIDE DEF m
<1>5. After(s) \in Slots /\ RingDelta(After(s), hwPidx) = k + 1
  <2>1. k + 1 < RngSz
    BY <1>1, <1>2, <1>3
  <2> QED
    BY <2>1, AfterDelta
<1>6. ShareAt(n, k) = k * PgSz
  BY <1>2, <1>3, Shares DEF m
<1> HIDE DEF k
<1>7. k <= m /\ k + 1 <= m
  BY <1>1, <1>2, <1>3
<1>8. Packed(pb, n)[s] = sent + ShareAt(n, k) /\ Packed(pb, n)[After(s)] = sent + ShareAt(n, k + 1)
  BY <1>4, <1>5, <1>7 DEF k
<1> QED
  BY <1>5, <1>6, <1>8 DEF k

\* What the pages hold after a packet.
LEMMA PacketContent ==
  ASSUME Types, PageOrder, NEW n \in Lens, HwPacket(n),
         NEW pb \in [Slots -> Nat], Content(pb), NEW pb2, pb2 = Packed(pb, n)
  PROVE  /\ pb2 \in [Slots -> Nat] /\ Content(pb2)'
         /\ pb2[hwPidx'] = sent + n
         /\ page' \in [Slots -> Seq(Nat)]
<1> DEFINE m == PagesFor(n)
           x == hwPidx
           y == hwPidx'
           p == pidxPend
<1>1. /\ n \in Nat /\ m \in Nat \ {0} /\ x \in Slots /\ y \in Slots /\ p \in Slots
      /\ RingDelta(y, x) = m
      /\ RingDelta(x, p) + m < RngSz /\ RingDelta(y, p) = RingDelta(x, p) + m
  BY PacketRoom
<1>2. /\ pidxPend' = p /\ sent' = sent + n
      /\ page' = [s \in Slots |->
           IF RingDelta(s, x) < m
           THEN [j \in 1 .. Min({PgSz, n - RingDelta(s, x) * PgSz}) |-> sent + RingDelta(s, x) * PgSz + j]
           ELSE page[s]]
  BY DEF HwPacket, flq
<1>3. sent \in Nat /\ RngSz \in Nat /\ page \in [Slots -> Seq(Nat)]
  BY RingAssumption DEF Types, TypeOK
<1>4. /\ pb[x] = sent
      /\ \A s \in Slots : RingDelta(s, p) < RingDelta(x, p) =>
           /\ pb[After(s)] - pb[s] \in 0 .. PgSz
           /\ page[s] = [i \in 1 .. pb[After(s)] - pb[s] |-> pb[s] + i]
      /\ \A s, t \in Slots :
           RingDelta(s, p) <= RingDelta(t, p) /\ RingDelta(t, p) <= RingDelta(x, p) => pb[s] <= pb[t]
  BY DEF Content, Filled
<1>5. \A s \in Slots : RingDelta(s, x) \in Nat /\ RingDelta(s, p) \in Nat /\ After(s) \in Slots
  <2> SUFFICES ASSUME NEW s \in Slots
               PROVE  RingDelta(s, x) \in Nat /\ RingDelta(s, p) \in Nat /\ After(s) \in Slots
    OBVIOUS
  <2>1. RingDelta(s, x) \in 0 .. RngSz - 1 /\ RingDelta(s, p) \in 0 .. RngSz - 1
    BY <1>1, DeltaRange
  <2>2. After(s) \in Slots
    BY <1>1, AfterDelta
  <2> QED
    BY <2>1, <2>2
<1>6. \A s \in Slots : RingDelta(s, p) <= RingDelta(x, p) => pb2[s] = pb[s]
  BY <1>1, <1>4, PackedOld
<1>7. m < RngSz
  BY <1>1, <1>3, <1>5, SMTT(40)
<1>8. \A s \in Slots : RingDelta(s, x) < m =>
        /\ pb2[s] = sent + RingDelta(s, x) * PgSz
        /\ pb2[s] = sent + ShareAt(n, RingDelta(s, x))
        /\ pb2[After(s)] = sent + ShareAt(n, RingDelta(s, x) + 1)
  BY <1>1, <1>7, PackedNew
<1>9. \A s \in Slots : /\ RingDelta(s, p) < RingDelta(x, p) => RingDelta(s, x) > m
                       /\ RingDelta(s, p) >= RingDelta(x, p) => RingDelta(s, x) = RingDelta(s, p) - RingDelta(x, p)
  BY <1>1, PagesAhead
<1>10. /\ \A k \in 0 .. m : ShareAt(n, k) \in 0 .. n
       /\ \A j, k \in 0 .. m : j <= k => ShareAt(n, j) <= ShareAt(n, k)
       /\ \A k \in Nat : k < m =>
              /\ ShareAt(n, k + 1) - ShareAt(n, k) \in 0 .. PgSz
              /\ Min({PgSz, n - k * PgSz}) = ShareAt(n, k + 1) - ShareAt(n, k)
              /\ ShareAt(n, k) = k * PgSz
       /\ ShareAt(n, 0) = 0 /\ ShareAt(n, m) = n
  BY <1>1, Shares
<1>11. \A s \in Slots : pb2[s] = IF RingDelta(s, x) <= m THEN sent + ShareAt(n, RingDelta(s, x)) ELSE pb[s]
  BY DEF Packed
<1>12. pb2 \in [Slots -> Nat]
  <2>1. ASSUME NEW s \in Slots, RingDelta(s, x) <= m
        PROVE  sent + ShareAt(n, RingDelta(s, x)) \in Nat
    <3>1. RingDelta(s, x) \in 0 .. m
      BY <1>1, <1>5, <2>1
    <3>2. ShareAt(n, RingDelta(s, x)) \in 0 .. n
      BY <1>10, <3>1
    <3> QED
      BY <1>1, <1>3, <3>2
  <2> QED
    BY <2>1 DEF Packed
<1>13. /\ \A s : RingDelta(s, pidxPend)' = RingDelta(s, p)
       /\ RingDelta(hwPidx, pidxPend)' = RingDelta(y, p)
       /\ \A s : After(s)' = After(s)
  BY <1>2 DEF RingDelta, After, RingIncr
<1> HIDE DEF m, x, y, p
<1>14. pb2[y] = sent + n
  <2>1. RingDelta(y, x) <= m
    BY <1>1
  <2> QED
    BY <1>1, <1>10, <1>11, <2>1
<1>15. ASSUME NEW s \in Slots, RingDelta(s, x) < m
       PROVE  page'[s] = [i \in 1 .. pb2[After(s)] - pb2[s] |-> pb2[s] + i]
              /\ pb2[After(s)] - pb2[s] \in 0 .. PgSz
  <2> DEFINE k == RingDelta(s, x)
             a == k * PgSz
             e == ShareAt(n, k + 1)
             f == ShareAt(n, k)
  <2>1. k \in Nat /\ k < m
    BY <1>5, <1>15
  <2>2. /\ page'[s] = [j \in 1 .. Min({PgSz, n - a}) |-> sent + a + j]
        /\ pb2[s] = sent + a /\ pb2[s] = sent + f /\ pb2[After(s)] = sent + e
    BY <1>2, <1>8, <1>15
  <2>3. e - f \in 0 .. PgSz /\ Min({PgSz, n - a}) = e - f /\ f = a
    BY <1>10, <2>1
  <2>4. e \in Nat /\ f \in Nat
    <3>1. k \in 0 .. m /\ k + 1 \in 0 .. m
      BY <1>1, <2>1
    <3>2. e \in 0 .. n /\ f \in 0 .. n
      BY <1>10, <3>1
    <3> QED
      BY <3>2, <1>1
  <2> HIDE DEF k, a, e, f
  <2>5. pb2[After(s)] - pb2[s] = e - f
    BY <1>3, <2>2, <2>4
  <2> QED
    BY <2>2, <2>3, <2>5
<1>16. page' \in [Slots -> Seq(Nat)]
  <2>1. ASSUME NEW s \in Slots PROVE page'[s] \in Seq(Nat)
    <3>1. CASE RingDelta(s, x) < m
      <4>1. /\ page'[s] = [i \in 1 .. pb2[After(s)] - pb2[s] |-> pb2[s] + i]
            /\ pb2[After(s)] - pb2[s] \in 0 .. PgSz
        BY <1>15, <3>1
      <4>2. pb2[s] \in Nat /\ pb2[After(s)] - pb2[s] \in Nat
        BY <1>12, <4>1, RingAssumption
      <4> QED
        BY <4>1, <4>2
    <3>2. CASE ~(RingDelta(s, x) < m)
      BY <1>2, <1>3, <3>2
    <3> QED
      BY <3>1, <3>2
  <2>2. page' = [s \in Slots |-> page'[s]]
    BY <1>2
  <2> QED
    BY <2>1, <2>2
<1>17. ASSUME NEW s \in Slots, RingDelta(s, p) < RingDelta(y, p)
       PROVE  /\ pb2[After(s)] - pb2[s] \in 0 .. PgSz
              /\ page'[s] = [i \in 1 .. pb2[After(s)] - pb2[s] |-> pb2[s] + i]
  <2>1. CASE RingDelta(s, p) < RingDelta(x, p)
    <3>1. RingDelta(s, x) > m
      BY <1>9, <2>1
    <3>2. page'[s] = page[s]
      BY <1>1, <1>2, <1>5, <3>1
    <3>3. RingDelta(s, p) + 1 < RngSz
      <4>1. RingDelta(s, p) \in Nat /\ RingDelta(x, p) \in Nat
        BY <1>1, <1>5
      <4> QED
        BY <1>1, <1>3, <2>1, <4>1
    <3>4. RingDelta(After(s), p) = RingDelta(s, p) + 1
      BY <1>1, <3>3, AfterDelta
    <3>5. RingDelta(After(s), p) <= RingDelta(x, p) /\ RingDelta(s, p) <= RingDelta(x, p)
      BY <1>1, <1>5, <2>1, <3>4
    <3>6. pb2[s] = pb[s] /\ pb2[After(s)] = pb[After(s)]
      BY <1>5, <1>6, <3>5
    <3> QED
      BY <1>4, <2>1, <3>2, <3>6
  <2>2. CASE ~(RingDelta(s, p) < RingDelta(x, p))
    <3>1. RingDelta(s, p) \in Nat /\ RingDelta(x, p) \in Nat
      BY <1>1, <1>5
    <3>2. RingDelta(s, x) = RingDelta(s, p) - RingDelta(x, p)
      BY <1>9, <2>2, <3>1
    <3>3. RingDelta(s, x) < m
      BY <1>1, <1>17, <2>2, <3>1, <3>2
    <3> QED
      BY <1>15, <3>3
  <2> QED
    BY <2>1, <2>2
<1>18. ASSUME NEW s \in Slots, NEW t \in Slots,
              RingDelta(s, p) <= RingDelta(t, p), RingDelta(t, p) <= RingDelta(y, p)
       PROVE  pb2[s] <= pb2[t]
  <2>1. /\ RingDelta(s, p) \in Nat /\ RingDelta(t, p) \in Nat /\ RingDelta(x, p) \in Nat
        /\ RingDelta(s, x) \in Nat /\ RingDelta(t, x) \in Nat
    BY <1>1, <1>5
  <2>2. CASE RingDelta(t, p) <= RingDelta(x, p)
    <3>1. RingDelta(s, p) <= RingDelta(x, p)
      BY <1>18, <2>1, <2>2
    <3> QED
      BY <1>4, <1>6, <1>18, <2>2, <3>1
  <2>3. CASE ~(RingDelta(t, p) <= RingDelta(x, p))
    <3>1. RingDelta(t, x) = RingDelta(t, p) - RingDelta(x, p)
      BY <1>9, <2>1, <2>3
    <3>2. RingDelta(t, x) \in 0 .. m
      BY <1>1, <1>18, <2>1, <2>3, <3>1
    <3>3. pb2[t] = sent + ShareAt(n, RingDelta(t, x)) /\ ShareAt(n, RingDelta(t, x)) \in 0 .. n
      BY <1>1, <1>10, <1>11, <3>2
    <3>4. CASE RingDelta(s, p) <= RingDelta(x, p)
      <4>1. pb2[s] <= sent
        <5>1. RingDelta(x, p) <= RingDelta(x, p)
          BY <2>1
        <5> QED
          BY <1>1, <1>4, <1>6, <3>4, <5>1
      <4> QED
        BY <1>1, <1>3, <1>12, <3>3, <4>1, SMTT(30)
    <3>5. CASE ~(RingDelta(s, p) <= RingDelta(x, p))
      <4>1. RingDelta(s, x) = RingDelta(s, p) - RingDelta(x, p)
        BY <1>9, <2>1, <3>5
      <4>2. RingDelta(s, x) \in 0 .. m /\ RingDelta(s, x) <= RingDelta(t, x)
        BY <1>1, <1>18, <2>1, <3>1, <3>2, <3>5, <4>1
      <4>3. pb2[s] = sent + ShareAt(n, RingDelta(s, x)) /\ ShareAt(n, RingDelta(s, x)) \in 0 .. n
        BY <1>1, <1>10, <1>11, <4>2
      <4>4. ShareAt(n, RingDelta(s, x)) <= ShareAt(n, RingDelta(t, x))
        BY <1>10, <3>2, <4>2
      <4> QED
        BY <1>1, <1>3, <3>3, <4>3, <4>4
    <3> QED
      BY <3>4, <3>5
  <2> QED
    BY <2>2, <2>3
<1>19. Content(pb2)'
  <2>1. \A s \in Slots : Filled(s)' <=> RingDelta(s, p) < RingDelta(y, p)
    BY <1>13 DEF Filled
  <2> QED
    BY <1>2, <1>13, <1>14, <1>17, <1>18, <2>1 DEF Content, y
<1> QED
  BY <1>12, <1>14, <1>16, <1>19 DEF y

\* The hardware fills pages with a packet and writes its entry.
LEMMA HwPacketStep ==
  ASSUME NEW W, Inv(W), NEW n \in Lens, HwPacket(n)
  PROVE  Inv(W)'
<1>1. /\ RoomForCmpl /\ WriteCmpl("packet", n) /\ sent' = sent + n
      /\ UNCHANGED <<polled, lock, pendList, indices, flq, requests, svc, wbPidx, regs, irq,
                     out, nparsed, runs>>
  BY DEF HwPacket
<1>2. /\ UNCHANGED <<pidx, cidxWrb, color, err, pidxPend, cidxPend, avail, dlen, len, info>>
      /\ UNCHANGED <<wbPidx, doorbell, wrbCidx, left, lock, svc>>
      /\ UNCHANGED <<out, nparsed, halted>>
  BY <1>1 DEF indices, flq, requests, regs, runs
<1>3. Types /\ Locking /\ PageOrder /\ PageCount /\ CmplOrder /\ CmplFresh /\ Owners
  BY DEF Inv
<1>4. PICK h \in Slots : h = hwWrb
  BY <1>3 DEF Types, TypeOK
<1> DEFINE x == hwPidx
           y == hwPidx'
           p == pidxPend
<1>5. PICK m \in Nat \ {0} : m = PagesFor(n)
  BY <1>3, PacketRoom
<1>6. /\ n \in Nat /\ x \in Slots /\ y \in Slots /\ p \in Slots /\ Cursor \in Slots
      /\ Base \in Slots /\ pidx \in Slots /\ cidxWrb \in Slots /\ sent \in Nat
      /\ RingDelta(y, x) = m
      /\ RingDelta(x, p) + m < RngSz /\ RingDelta(x, Cursor) + m < RngSz
      /\ RingDelta(y, Base) = RingDelta(x, Base) + m
      /\ RingDelta(y, p) = RingDelta(x, p) + m
      /\ RingDelta(y, Cursor) = RingDelta(x, Cursor) + m
  <2>1. sent \in Nat /\ cidxWrb \in Slots
    BY <1>3 DEF Types, TypeOK
  <2> QED
    BY <1>3, <1>5, <2>1, PacketRoom
<1>7. PICK pb \in [Slots -> Nat], first \in [Slots -> Slots] :
        /\ Content(pb)
        /\ Lengths(pb)
        /\ ~err => Link(pb, first)
        /\ Closed(W) => Whole(W, pb, first)
  BY DEF Inv, Witness
<1>8. PICK pb2 : pb2 = Packed(pb, n)
  OBVIOUS
<1>9. /\ pb2 \in [Slots -> Nat] /\ Content(pb2)'
      /\ pb2[y] = sent + n /\ page' \in [Slots -> Seq(Nat)]
  BY <1>3, <1>7, <1>8, PacketContent
<1>10. /\ CmplOrder' /\ CmplFresh' /\ Owners'
       /\ hwWrb' \in Slots /\ hwWrb' = After(h)
       /\ hwColor' \in 0 .. 1 /\ ncmpl' \in 0 .. MaxCmpl
       /\ cmpl' \in [Slots -> [kind : {"none", "packet", "udd", "bad"}, len : Nat,
                               color : 0 .. 1, nr : Nat]]
       /\ \A s \in Slots \ {h} : cmpl'[s] = cmpl[s]
       /\ cmpl'[h].kind = "packet" /\ cmpl'[h].len = n
       /\ RingDelta(hwWrb', cidxWrb) = RingDelta(h, cidxWrb) + 1
  BY <1>1, <1>2, <1>3, <1>4, <1>6, EntryWritten
<1>11. Types'
  <2>1. hwPidx' \in Slots /\ sent' \in Nat
    BY <1>1, <1>6
  <2> QED
    BY <1>1, <1>3, <1>9, <1>10, <2>1, ZenonT(60) DEF Types, TypeOK, indices, flq, requests, regs, runs, Slots
<1>12. Locking'
  BY <1>2, <1>3, LockingFrame
<1>13. Cursor' = Cursor /\ Base' = Base
  BY <1>2 DEF Cursor, Base
<1>14. PageCount'
  BY <1>2, <1>3, <1>13, PageCountFrame
<1>15. PageOrder'
  <2>1. /\ RingDelta(pidxPend, Base)' = RingDelta(pidxPend, Base)
        /\ RingDelta(pidx, Base)' = RingDelta(pidx, Base)
        /\ RingDelta(Cursor, Base)' = RingDelta(Cursor, Base)
        /\ RingDelta(hwPidx, Base)' = RingDelta(y, Base)
        /\ PagesUpTo(Base)' = PagesUpTo(Base)
    BY <1>2, <1>13 DEF RingDelta, PagesUpTo, RingDecr
  <2>2. RingDelta(Cursor, Base) \in Int /\ RingDelta(x, Base) \in Int
    BY <1>6, DeltaRange
  <2>3. /\ RingDelta(pidxPend, Base) <= RingDelta(pidx, Base)
        /\ RingDelta(pidx, Base) <= RingDelta(Cursor, Base)
        /\ RingDelta(Cursor, Base) <= RingDelta(x, Base)
        /\ doorbell = PagesUpTo(Base)
    BY <1>3 DEF PageOrder
  <2>4. RingDelta(Cursor, Base) <= RingDelta(y, Base)
    BY <1>6, <2>2, <2>3
  <2> QED
    BY <1>2, <2>1, <2>3, <2>4 DEF PageOrder
<1>16. pb[x] = sent
  BY <1>7 DEF Content
<1>17. \A s \in Slots : RingDelta(s, p) <= RingDelta(x, p) => pb2[s] = pb[s]
  BY <1>5, <1>6, <1>7, <1>8, <1>16, PackedOld
<1>18. \A s \in Slots : RingDelta(s, Cursor) <= RingDelta(x, Cursor) => pb2[s] = pb[s]
  BY <1>5, <1>6, <1>7, <1>8, <1>16, PackedOld
<1>19. /\ RingDelta(pidx, p) <= RingDelta(Cursor, p)
       /\ RingDelta(Cursor, p) <= RingDelta(x, p)
  BY <1>3, FromPending
<1>20. \A s \in Slots : RingDelta(s, p) \in Nat /\ After(s) \in Slots
  <2> SUFFICES ASSUME NEW s \in Slots PROVE RingDelta(s, p) \in Nat /\ After(s) \in Slots
    OBVIOUS
  <2>1. RingDelta(s, p) \in 0 .. RngSz - 1
    BY <1>6, DeltaRange
  <2>2. After(s) \in Slots
    BY <1>6, AfterDelta
  <2> QED
    BY <2>1, <2>2, RingAssumption
<1>21. \A s \in Slots : RingDelta(s, p) < RingDelta(x, p) =>
         pb2[s] = pb[s] /\ pb2[After(s)] = pb[After(s)]
  <2> SUFFICES ASSUME NEW s \in Slots, RingDelta(s, p) < RingDelta(x, p)
               PROVE  pb2[s] = pb[s] /\ pb2[After(s)] = pb[After(s)]
    OBVIOUS
  <2> HIDE DEF x, p
  <2>1. RingDelta(s, p) \in Nat /\ RingDelta(x, p) \in Nat /\ RngSz \in Nat
    BY <1>6, <1>20, RingAssumption
  <2>2. RingDelta(s, p) + 1 < RngSz
    BY <1>6, <2>1
  <2>3. RingDelta(After(s), p) = RingDelta(s, p) + 1
    BY <1>6, <2>2, AfterDelta
  <2>4. RingDelta(After(s), p) <= RingDelta(x, p) /\ RingDelta(s, p) <= RingDelta(x, p)
    BY <2>1, <2>3
  <2> QED
    BY <1>17, <1>20, <2>4
<1>22. RingDelta(p, p) = 0
  BY <1>6, DeltaRange
<1>23. /\ pb2[p] = pb[p] /\ pb2[Cursor] = pb[Cursor] /\ pb2[pidx] = pb[pidx]
       /\ \A s \in Slots : Received(s) => pb2[s] = pb[s] /\ pb2[After(s)] = pb[After(s)]
       /\ pidx # p => pb2[After(p)] = pb[After(p)]
  <2>1. RingDelta(pidx, p) <= RingDelta(x, p) /\ RingDelta(p, p) <= RingDelta(x, p)
    BY <1>6, <1>19, <1>20, <1>22
  <2>2. \A s \in Slots : Received(s) => RingDelta(s, p) < RingDelta(x, p)
    BY <1>6, <1>19, <1>20 DEF Received
  <2>3. pidx # p => RingDelta(p, p) < RingDelta(x, p)
    <3>1. pidx # p => RingDelta(pidx, p) # 0
      BY <1>6, DeltaRange
    <3> QED
      BY <1>6, <1>20, <1>22, <2>1, <3>1
  <2> QED
    BY <1>6, <1>17, <1>19, <1>21, <2>1, <2>2, <2>3
<1>24. /\ \A s : Received(s)' <=> Received(s)
       /\ \A s : After(s)' = After(s)
       /\ \A s : RingDelta(s, cidxWrb)' = RingDelta(s, cidxWrb)
       /\ RingDelta(hwWrb, cidxWrb)' = RingDelta(hwWrb', cidxWrb)
       /\ \A s : RingDelta(s, pidxPend)' = RingDelta(s, p)
       /\ RingDelta(hwPidx, pidxPend)' = RingDelta(y, p)
  BY <1>2, <1>13 DEF Received, After, RingIncr, RingDelta
<1>25. Lengths(pb2)'
  <2>1. Lengths(pb)
    BY <1>7
  <2>2. /\ \A s \in Slots : Received(s) /\ (s # p \/ pidx = p) => len[s] = pb2[After(s)] - pb2[s]
        /\ pidx = p => Len(out) = pb2[p]
        /\ pidx # p => /\ len[p] <= pb2[After(p)] - pb2[p]
                       /\ Len(out) = pb2[After(p)] - len[p]
        /\ Len(out) + dlen >= pb2[Cursor]
        /\ ~halted => Len(out) + dlen = pb2[Cursor]
    BY <1>23, <2>1 DEF Lengths
  <2> QED
    BY <1>2, <1>13, <1>24, <2>2 DEF Lengths
<1>26. PICK first2 \in [Slots -> Slots] : first2 = [first EXCEPT ![hwWrb'] = y]
  BY <1>6, <1>7, <1>10
<1>27. /\ first2[hwWrb'] = y
       /\ \A s \in Slots \ {hwWrb'} : first2[s] = first[s]
  BY <1>7, <1>10, <1>26
<1>28. ~err => Link(pb2, first2)' /\ SameStarts(pb, first, pb2, first2, h)
  <2> SUFFICES ASSUME ~err PROVE Link(pb2, first2)' /\ SameStarts(pb, first, pb2, first2, h)
    OBVIOUS
  <2>1. Link(pb, first)
    BY <1>7
  <2>2. pb2[x] = sent
    BY <1>6, <1>16, <1>17, <1>20
  <2>3. pb2[y] = pb2[x] + n
    BY <1>9, <2>2
  <2>4. \A s \in Slots : RingDelta(s, x) < m => pb2[s] = pb2[x] + RingDelta(s, x) * PgSz
    <3>1. m < RngSz
      BY <1>6, <1>20, RingAssumption
    <3> QED
      BY <1>3, <1>5, <1>6, <1>7, <1>8, <2>2, <3>1, PackedNew
  <2>5. /\ m = IF cmpl'[h].kind = "packet" THEN PagesFor(cmpl'[h].len) ELSE 0
        /\ n = IF cmpl'[h].kind = "packet" THEN cmpl'[h].len ELSE 0
    BY <1>5, <1>10
  <2>6. NewEntry(pb, first, pb2, first2, h, m, n)
    BY <1>2, <1>4, <1>6, <1>10, <1>13, <1>18, <1>27, <2>3, <2>4, <2>5 DEF NewEntry
  <2>7. m \in Nat
    BY <1>5
  <2> QED
    BY <1>3, <1>6, <1>9, <2>1, <2>6, <2>7, LinkWritten
<1>29. Closed(W) => Whole(W, pb2, first2)'
  <2> SUFFICES ASSUME Closed(W) PROVE Whole(W, pb2, first2)'
    OBVIOUS
  <2>1. Whole(W, pb, first)
    BY <1>7
  <2>2. /\ W \subseteq Int /\ n \in W /\ sent \in W
        /\ \A a, b \in W : a + b \in W /\ a - b \in W
        /\ \A w \in W, j \in Nat : j * PgSz < w /\ w < n => j * PgSz + PgSz <= w
    BY <2>1 DEF Closed, Whole
  <2>3. sent' \in W
    BY <1>1, <2>2
  <2>4. ASSUME ~err, NEW s \in Slots, RingDelta(s, cidxWrb) <= RingDelta(hwWrb', cidxWrb)
        PROVE  pb2[first2[s]] \in W
    <3>1. CASE s = hwWrb'
      BY <1>1, <1>9, <1>27, <2>3, <3>1
    <3>2. CASE s # hwWrb'
      <4>1. RingDelta(s, cidxWrb) # RingDelta(hwWrb', cidxWrb)
        BY <1>6, <1>10, <3>2, DeltaInverse
      <4>2. RingDelta(s, cidxWrb) \in Int /\ RingDelta(h, cidxWrb) \in Int
        BY <1>6, DeltaRange
      <4>3. RingDelta(s, cidxWrb) <= RingDelta(h, cidxWrb)
        BY <1>10, <2>4, <4>1, <4>2
      <4> QED
        BY <1>4, <1>28, <2>1, <2>4, <4>3 DEF Whole, SameStarts
    <3> QED
      BY <3>1, <3>2
  <2>5. ASSUME NEW s \in Slots, RingDelta(s, p) < RingDelta(y, p), NEW w \in W, pb2[s] < w
        PROVE  pb2[After(s)] <= w
    <3>1. CASE RingDelta(s, p) < RingDelta(x, p)
      BY <1>21, <2>1, <2>5, <3>1 DEF Whole, Filled
    <3>2. CASE ~(RingDelta(s, p) < RingDelta(x, p))
      <4>1. /\ RingDelta(s, p) \in Nat /\ RingDelta(x, p) \in Nat
            /\ RingDelta(s, x) \in 0 .. RngSz - 1
        BY <1>6, <1>20, DeltaRange
      <4>2. RingDelta(s, x) = RingDelta(s, p) - RingDelta(x, p)
        BY <1>6, <3>2, <4>1, PagesAhead
      <4> DEFINE k == RingDelta(s, x)
                 v == w - sent
                 a == k * PgSz
                 e == ShareAt(n, k + 1)
      <4>3. k \in Nat /\ k < m /\ m < RngSz
        BY <1>6, <2>5, <3>2, <4>1, <4>2, RingAssumption
      <4>4. pb2[s] = sent + a /\ pb2[After(s)] = sent + e
        BY <1>3, <1>5, <1>6, <1>7, <1>8, <4>3, PackedNew
      <4>5. v \in W /\ v \in Int
        BY <2>2
      <4>6. /\ a \in Nat
            /\ k + 1 < m => e = a + PgSz
            /\ k + 1 = m => e = n /\ n <= a + PgSz
            /\ a + PgSz >= e
        <5>1. a \in Nat
          BY <4>3, RingAssumption
        <5>2. \A j \in Nat : j < PagesFor(n) =>
                /\ j + 1 < PagesFor(n) => ShareAt(n, j + 1) = j * PgSz + PgSz
                /\ j + 1 = PagesFor(n) => ShareAt(n, j + 1) = n /\ n <= j * PgSz + PgSz
                /\ j * PgSz + PgSz >= ShareAt(n, j + 1)
          BY <1>6, Shares
        <5>3. \A j \in Nat : j < m =>
                /\ j + 1 < m => ShareAt(n, j + 1) = j * PgSz + PgSz
                /\ j + 1 = m => ShareAt(n, j + 1) = n /\ n <= j * PgSz + PgSz
                /\ j * PgSz + PgSz >= ShareAt(n, j + 1)
          BY <1>5, <5>2
        <5> HIDE DEF k
        <5> QED
          BY <4>3, <5>1, <5>3
      <4>7. a < v /\ v < n => a + PgSz <= v
        BY <2>2, <4>3, <4>5
      <4>8. e \in Nat /\ e <= n
        <5>1. k + 1 \in 0 .. m
          BY <1>5, <4>3
        <5>2. e \in 0 .. n
          BY <1>5, <1>6, <5>1, Shares
        <5> QED
          BY <1>6, <5>2
      <4> HIDE DEF k, a, e, x, y, p
      <4>9. w = sent + v /\ w \in Int
        BY <1>6, <2>2, <2>5
      <4> HIDE DEF v
      <4>10. a < v
        BY <1>6, <2>5, <4>4, <4>5, <4>6, <4>9
      <4>11. e <= v
        BY <1>6, <4>5, <4>6, <4>7, <4>8, <4>10, RingAssumption
      <4> QED
        BY <1>6, <4>4, <4>5, <4>8, <4>9, <4>11
    <3> QED
      BY <3>1, <3>2
  <2>6. \A s \in Slots : Filled(s)' <=> RingDelta(s, p) < RingDelta(y, p)
    BY <1>24 DEF Filled
  <2>7. /\ Len(out) \in W /\ \A r \in Readers : left[r] \in W
        /\ pb2[pidx] \in W
        /\ pidx # p => len[p] = pb2[After(p)] - pb2[p]
        /\ \A i \in DOMAIN out : out[i] = i
    BY <1>23, <2>1 DEF Whole
  <2> QED
    BY <1>2, <1>24, <2>3, <2>4, <2>5, <2>6, <2>7 DEF Whole
<1>30. Witness(W)'
  BY <1>2, <1>9, <1>25, <1>26, <1>28, <1>29, WitnessNext
<1> QED
  BY <1>10, <1>11, <1>12, <1>14, <1>15, <1>30 DEF Inv

-----------------------------------------------------------------------------
(* The end of a service.                                                   *)

\* Ownership seen from the first entry not given back.
LEMMA OwnersRebase ==
  ASSUME Types, NEW w \in Slots, OwnedFrom(w), NEW x \in Slots, x = cidxPend,
         RingDelta(x, w) <= RingDelta(cidxWrb, w)
  PROVE  OwnedFrom(x)
<1> DEFINE c == cidxWrb
<1>1. c \in Slots /\ \A s \in Slots : info[s].cidx \in Slots
  BY DEF Types, TypeOK
<1>2. /\ \A s \in Slots : Received(s) =>
           /\ RingDelta(x, w) <= RingDelta(info[s].cidx, w)
           /\ RingDelta(info[s].cidx, w) <= RingDelta(c, w)
      /\ \A s, t \in Slots :
           RingDelta(s, pidxPend) <= RingDelta(t, pidxPend) /\ Received(t)
           => RingDelta(info[s].cidx, w) <= RingDelta(info[t].cidx, w)
      /\ ~halted => \A e \in Slots :
           /\ RingDelta(x, w) <= RingDelta(e, w)
           /\ RingDelta(e, w) < RingDelta(c, w)
           /\ cmpl[e].kind = "packet"
           => \E s \in Slots : /\ Received(s) /\ info[s].eop
                               /\ RingDelta(e, w) < RingDelta(info[s].cidx, w)
  BY DEF OwnedFrom
<1>3. \A s \in Slots : RingDelta(s, w) \in Nat /\ RingDelta(s, x) \in Nat
  BY DeltaRange, RingAssumption
<1>4. /\ RingDelta(c, x) = RingDelta(c, w) - RingDelta(x, w)
      /\ \A s \in Slots : RingDelta(s, x) <= RingDelta(c, x) =>
           RingDelta(s, w) = RingDelta(s, x) + RingDelta(x, w)
  BY <1>1, Forward
<1>5. \A s \in Slots : RingDelta(x, w) <= RingDelta(s, w) =>
        RingDelta(s, x) = RingDelta(s, w) - RingDelta(x, w)
  BY DeltaRebase
<1> HIDE DEF c
<1>6. ASSUME NEW s \in Slots, Received(s)
      PROVE  /\ RingDelta(x, x) <= RingDelta(info[s].cidx, x)
             /\ RingDelta(info[s].cidx, x) <= RingDelta(c, x)
  <2> DEFINE i == info[s].cidx
  <2>1. i \in Slots /\ RingDelta(x, w) <= RingDelta(i, w) /\ RingDelta(i, w) <= RingDelta(c, w)
    BY <1>1, <1>2, <1>6
  <2>2. RingDelta(x, x) = 0
    BY DeltaRange
  <2> HIDE DEF i
  <2>3. RingDelta(x, x) <= RingDelta(i, x) /\ RingDelta(i, x) <= RingDelta(c, x)
    BY <1>1, <1>3, <1>4, <1>5, <2>1, <2>2
  <2> QED
    BY <2>3 DEF i
<1>7. ASSUME NEW s \in Slots, NEW t \in Slots, Received(t),
             RingDelta(s, pidxPend) <= RingDelta(t, pidxPend)
      PROVE  RingDelta(info[s].cidx, x) <= RingDelta(info[t].cidx, x)
  <2> DEFINE i == info[s].cidx
             j == info[t].cidx
  <2>1. pidxPend \in Slots /\ Cursor \in Slots
    BY DEF Types, TypeOK, Cursor
  <2>2. RingDelta(s, pidxPend) \in Int /\ RingDelta(t, pidxPend) \in Int /\ RingDelta(Cursor, pidxPend) \in Int
    BY <2>1, DeltaRange
  <2>3. Received(s)
    BY <1>7, <2>2 DEF Received
  <2>4. /\ i \in Slots /\ j \in Slots /\ RingDelta(i, w) <= RingDelta(j, w)
        /\ RingDelta(x, w) <= RingDelta(i, w) /\ RingDelta(x, w) <= RingDelta(j, w)
    BY <1>1, <1>2, <1>7, <2>3
  <2> HIDE DEF i, j
  <2>5. RingDelta(i, x) <= RingDelta(j, x)
    BY <1>3, <1>5, <2>4
  <2> QED
    BY <2>5 DEF i, j
<1>8. ASSUME ~halted, NEW e \in Slots, RingDelta(e, x) < RingDelta(c, x), cmpl[e].kind = "packet"
      PROVE  \E s \in Slots : /\ Received(s) /\ info[s].eop
                              /\ RingDelta(e, x) < RingDelta(info[s].cidx, x)
  <2>1. RingDelta(e, w) = RingDelta(e, x) + RingDelta(x, w)
    BY <1>1, <1>3, <1>4, <1>8
  <2>2. RingDelta(x, w) <= RingDelta(e, w) /\ RingDelta(e, w) < RingDelta(c, w)
    BY <1>1, <1>3, <1>4, <1>8, <2>1
  <2>3. PICK s \in Slots : /\ Received(s) /\ info[s].eop
                           /\ RingDelta(e, w) < RingDelta(info[s].cidx, w)
    BY <1>2, <1>8, <2>2
  <2> DEFINE i == info[s].cidx
  <2>4. i \in Slots /\ RingDelta(x, w) <= RingDelta(i, w) /\ RingDelta(e, w) < RingDelta(i, w)
    BY <1>1, <1>2, <2>3
  <2> HIDE DEF i
  <2>5. RingDelta(e, x) < RingDelta(i, x)
    BY <1>3, <1>5, <2>1, <2>4
  <2> QED
    BY <2>3, <2>5 DEF i
<1> QED
  BY <1>6, <1>7, <1>8 DEF OwnedFrom, c

\* Everything drained is given back.
LEMMA RefillStep ==
  ASSUME NEW W, Inv(W), Refill
  PROVE  Inv(W)'
<1> DEFINE p == pidxPend
           b == Base
           j == RingDelta(pidxPend, Base)
           c == cidxPend
           w == wrbCidx
           back == Recycled(svc.old, RingDelta(pidxPend, svc.old))
<1>1. /\ svc.phase \in {"refill", "serve"}
      /\ len' = [s \in Slots |-> IF s \in back THEN PgSz ELSE len[s]]
      /\ info' = [s \in Slots |-> IF s \in back THEN NoInfo ELSE info[s]]
      /\ avail' = avail + Cardinality(back)
      /\ doorbell' = IF pidxPend # svc.old THEN PagesUpTo(pidxPend) ELSE doorbell
      /\ wrbCidx' = cidxPend /\ armed' = ~polled
      /\ lock' = "free" /\ svc' = Idle
      /\ UNCHANGED <<polled, pendList, indices, pidxPend, cidxPend, dlen, requests,
                     hardware, irq, out, nparsed, runs>>
  BY DEF Refill, WrbUpdate, Rearm
<1>2. /\ UNCHANGED <<pidx, cidxWrb, color, err, pidxPend, cidxPend, dlen, left>>
      /\ UNCHANGED <<page, cmpl, hwPidx, hwWrb, hwColor, wbPidx, sent, ncmpl>>
      /\ UNCHANGED <<out, nparsed, halted>>
  BY <1>1 DEF indices, requests, hardware, runs
<1>3. Types /\ Locking /\ PageOrder /\ PageCount /\ CmplOrder /\ CmplFresh /\ Owners
  BY DEF Inv
<1>4. b = svc.old /\ Cursor = pidx
  BY <1>1 DEF Base, Cursor
<1>5. svc'.phase = "idle" /\ Cursor' = pidx /\ Base' = p
  BY <1>1, <1>2 DEF Idle, Cursor, Base
<1>6. /\ p \in Slots /\ b \in Slots /\ pidx \in Slots /\ hwPidx \in Slots
      /\ c \in Slots /\ w \in Slots /\ cidxWrb \in Slots /\ wbPidx \in Slots /\ hwWrb \in Slots
      /\ avail \in Nat /\ RngSz \in Nat /\ PgSz \in Nat
      /\ len \in [Slots -> 0 .. PgSz] /\ info \in [Slots -> [eop : BOOLEAN, cidx : Slots]]
      /\ 0 \in Slots
  <2>1. Base \in Slots
    BY <1>3, FromPending
  <2>2. /\ p \in Slots /\ pidx \in Slots /\ hwPidx \in Slots
        /\ c \in Slots /\ w \in Slots /\ cidxWrb \in Slots /\ wbPidx \in Slots /\ hwWrb \in Slots
        /\ len \in [Slots -> 0 .. PgSz] /\ info \in [Slots -> [eop : BOOLEAN, cidx : Slots]]
    BY <1>3 DEF Types, TypeOK
  <2>3. avail \in 0 .. RngSz - 1
    BY <1>3 DEF Types, TypeOK
  <2> QED
    BY <2>1, <2>2, <2>3, RingAssumption DEF Slots
<1>7. /\ RingDelta(pidx, p) = RingDelta(pidx, b) - j
      /\ RingDelta(hwPidx, p) = RingDelta(hwPidx, b) - j
      /\ RingDelta(pidx, p) <= RingDelta(hwPidx, p)
      /\ j <= RingDelta(pidx, b)
  BY <1>3, <1>4, FromPending DEF PageOrder
<1>8. /\ \A s \in Slots : RingDelta(s, b) \in Nat /\ RingDelta(s, p) \in Nat
      /\ RingDelta(p, p) = 0 /\ j \in 0 .. RngSz
  BY <1>6, DeltaRange, RingAssumption
<1>9. Cardinality(back) = j /\ \A s \in Slots : s \in back <=> RingDelta(s, b) < j
  BY <1>4, <1>6, <1>8, RecycledCount DEF Recycled
<1>10. /\ \A s \in Slots : j <= RingDelta(s, b) => RingDelta(s, p) = RingDelta(s, b) - j
       /\ \A s \in Slots : RingDelta(s, p) <= RingDelta(pidx, p) =>
            RingDelta(s, b) = RingDelta(s, p) + j
  BY <1>6, <1>7, DeltaRebase, Forward
<1>11. doorbell' = PagesUpTo(p)
  BY <1>1, <1>3, <1>4 DEF PageOrder
<1>12. PagesUpTo(p) \in Slots
  BY <1>6, DeltaDecr
<1> HIDE DEF back, j
<1>13. avail + RingDelta(pidx, b) <= RngSz - 1 /\ (~halted => avail + RingDelta(pidx, b) = RngSz - 1)
  BY <1>3, <1>4 DEF PageCount
<1>14. avail' = avail + j /\ avail' \in 0 .. RngSz - 1
  BY <1>1, <1>6, <1>7, <1>8, <1>9, <1>13
<1>15. Types'
  <2>1. svc' \in [phase : {"idle", "parse", "serve", "refill"}, todo : Nat, pidx : Slots, old : Slots]
    BY <1>1, <1>6 DEF Idle
  <2>2. len' \in [Slots -> 0 .. PgSz]
    BY <1>1, <1>6
  <2>3. info' \in [Slots -> [eop : BOOLEAN, cidx : Slots]]
    BY <1>1, <1>6 DEF NoInfo
  <2>4. armed' \in BOOLEAN
    BY <1>1, <1>3 DEF Types, TypeOK
  <2>5. wrbCidx' \in Slots /\ doorbell' \in Slots /\ lock' \in {"free", "service"}
    BY <1>1, <1>6, <1>11, <1>12
  <2>6. UNCHANGED <<polled, pendList, pidx, cidxWrb, color, err, pidxPend, cidxPend, dlen, requests,
                     hardware, irq, out, nparsed, runs>>
    BY <1>1 DEF indices
  <2> QED
    BY <1>3, <1>14, <2>1, <2>2, <2>3, <2>4, <2>5, <2>6 DEF Types, TypeOK, requests, hardware, runs, Slots
<1>16. Locking'
  BY <1>1, <1>2, <1>3, <1>5 DEF Locking
<1>17. /\ \A s : RingDelta(s, Base)' = RingDelta(s, p)
       /\ \A s : RingDelta(s, pidxPend)' = RingDelta(s, p)
       /\ RingDelta(pidxPend, Base)' = RingDelta(p, p)
       /\ RingDelta(pidx, Base)' = RingDelta(pidx, p)
       /\ RingDelta(Cursor, Base)' = RingDelta(pidx, p)
       /\ RingDelta(Cursor, pidxPend)' = RingDelta(pidx, p)
       /\ RingDelta(hwPidx, Base)' = RingDelta(hwPidx, p)
       /\ PagesUpTo(Base)' = PagesUpTo(p)
       /\ \A s : After(s)' = After(s)
  BY <1>2, <1>5 DEF RingDelta, PagesUpTo, RingDecr, After, RingIncr
<1>18. PageOrder'
  BY <1>6, <1>7, <1>8, <1>11, <1>17 DEF PageOrder
<1>19. PageCount'
  <2>1. avail' + RingDelta(pidx, p) = avail + RingDelta(pidx, b)
    BY <1>6, <1>7, <1>8, <1>14
  <2>2. ASSUME ~err, NEW s \in Slots, RingDelta(s, p) >= RingDelta(pidx, p)
        PROVE  len'[s] = PgSz
    <3>1. CASE s \in back
      BY <1>1, <3>1
    <3>2. CASE s \notin back
      <4>1. RingDelta(s, b) >= RingDelta(pidx, b)
        <5>1. RingDelta(s, b) \in Nat /\ RingDelta(s, p) \in Nat /\ RingDelta(pidx, b) \in Nat /\ j \in Nat
          BY <1>6, <1>8
        <5>2. j <= RingDelta(s, b)
          BY <1>9, <3>2, <5>1
        <5> QED
          BY <1>7, <1>10, <2>2, <5>1, <5>2
      <4> QED
        BY <1>1, <1>3, <1>4, <2>2, <3>2, <4>1 DEF PageCount
    <3> QED
      BY <3>1, <3>2
  <2> QED
    BY <1>2, <1>13, <1>17, <2>1, <2>2 DEF PageCount
<1>20. /\ RingDelta(c, w) <= RingDelta(cidxWrb, w)
       /\ RingDelta(cidxWrb, w) <= RingDelta(wbPidx, w)
       /\ RingDelta(wbPidx, w) <= RingDelta(hwWrb, w)
  BY <1>3 DEF CmplOrder
<1>21. \A s \in Slots : RingDelta(s, c) \in Nat /\ RingDelta(s, w) \in Nat
  BY <1>6, DeltaRange
<1>22. /\ RingDelta(c, c) = 0
       /\ RingDelta(cidxWrb, c) = RingDelta(cidxWrb, w) - RingDelta(c, w)
       /\ RingDelta(wbPidx, c) = RingDelta(wbPidx, w) - RingDelta(c, w)
       /\ RingDelta(hwWrb, c) = RingDelta(hwWrb, w) - RingDelta(c, w)
       /\ \A s \in Slots : RingDelta(s, c) <= RingDelta(cidxWrb, c) =>
            RingDelta(s, w) = RingDelta(s, c) + RingDelta(c, w)
  <2>1. RingDelta(c, w) <= RingDelta(wbPidx, w) /\ RingDelta(c, w) <= RingDelta(hwWrb, w)
    BY <1>6, <1>20, <1>21
  <2> HIDE DEF c, w
  <2> QED
    BY <1>6, <1>20, <2>1, DeltaRange, DeltaRebase, Forward
<1>23. /\ \A s : RingDelta(s, wrbCidx)' = RingDelta(s, c)
       /\ RingDelta(cidxPend, wrbCidx)' = RingDelta(c, c)
       /\ RingDelta(cidxWrb, wrbCidx)' = RingDelta(cidxWrb, c)
       /\ RingDelta(wbPidx, wrbCidx)' = RingDelta(wbPidx, c)
       /\ RingDelta(hwWrb, wrbCidx)' = RingDelta(hwWrb, c)
       /\ \A s : RingDelta(s, cidxWrb)' = RingDelta(s, cidxWrb)
       /\ RingDelta(hwWrb, cidxWrb)' = RingDelta(hwWrb, cidxWrb)
  BY <1>1, <1>2 DEF RingDelta
<1>24. CmplOrder'
  <2>1. /\ RingDelta(c, c) <= RingDelta(cidxWrb, c)
        /\ RingDelta(cidxWrb, c) <= RingDelta(wbPidx, c)
        /\ RingDelta(wbPidx, c) <= RingDelta(hwWrb, c)
    BY <1>6, <1>20, <1>21, <1>22
  <2> QED
    BY <1>1, <1>2, <1>5, <1>23, <2>1 DEF CmplOrder
<1>25. CmplFresh'
  <2>1. ASSUME NEW s \in Slots, Parsed(s)' PROVE Parsed(s)
    <3>1. RingDelta(s, c) < RingDelta(cidxWrb, c)
      BY <1>23, <2>1 DEF Parsed
    <3>2. RingDelta(s, w) < RingDelta(cidxWrb, w)
      <4> HIDE DEF c, w
      <4> QED
        BY <1>6, <1>21, <1>22, <3>1
    <3> QED
      BY <3>2 DEF Parsed
  <2>2. \A s : Unparsed(s)' <=> Unparsed(s)
    BY <1>2 DEF Unparsed, RingDelta
  <2>3. \A s : ColorAt(s)' = ColorAt(s)
    BY <1>2 DEF ColorAt
  <2>4. hwColor' = ColorAt(hwWrb)'
    BY <1>2, <1>3 DEF CmplFresh, ColorAt
  <2> QED
    BY <1>2, <1>3, <1>23, <2>1, <2>2, <2>3, <2>4 DEF CmplFresh
<1>26. \A s \in Slots : RingDelta(s, p) < RingDelta(pidx, p) => s \notin back
  <2> SUFFICES ASSUME NEW s \in Slots, RingDelta(s, p) < RingDelta(pidx, p) PROVE s \notin back
    OBVIOUS
  <2>1. RingDelta(s, p) \in Nat /\ RingDelta(pidx, p) \in Nat /\ RingDelta(s, b) \in Nat /\ j \in Nat
    BY <1>6, <1>8
  <2>2. RingDelta(s, b) = RingDelta(s, p) + j
    BY <1>10, <2>1
  <2> QED
    BY <1>9, <2>1, <2>2
<1>27. \A s \in Slots : /\ Received(s) <=> RingDelta(s, p) < RingDelta(pidx, p)
                        /\ Received(s)' <=> RingDelta(s, p) < RingDelta(pidx, p)
  BY <1>4, <1>17 DEF Received
<1>28. \A s \in Slots : Received(s) => len'[s] = len[s] /\ info'[s] = info[s]
  BY <1>1, <1>26, <1>27
<1>29. Owners'
  <2>1. PICK x \in Slots : x = cidxPend
    BY <1>6
  <2>2. OwnedFrom(x)
    BY <1>3, <1>6, <1>20, <2>1, OwnersRebase DEF Owners
  <2>3. \A s, t \in Slots : RingDelta(s, p) <= RingDelta(t, p) /\ Received(t) => Received(s)
    <3> SUFFICES ASSUME NEW s \in Slots, NEW t \in Slots, RingDelta(s, p) <= RingDelta(t, p), Received(t)
                 PROVE  Received(s)
      OBVIOUS
    <3>1. RingDelta(s, p) \in Nat /\ RingDelta(t, p) \in Nat /\ RingDelta(pidx, p) \in Nat
      BY <1>6, <1>8
    <3> QED
      BY <1>27, <3>1
  <2>4. /\ \A s \in Slots : Received(s) =>
             /\ RingDelta(x, x) <= RingDelta(info[s].cidx, x)
             /\ RingDelta(info[s].cidx, x) <= RingDelta(cidxWrb, x)
        /\ \A s, t \in Slots :
             RingDelta(s, p) <= RingDelta(t, p) /\ Received(t)
             => RingDelta(info[s].cidx, x) <= RingDelta(info[t].cidx, x)
        /\ ~halted => \A e \in Slots :
             /\ RingDelta(x, x) <= RingDelta(e, x)
             /\ RingDelta(e, x) < RingDelta(cidxWrb, x)
             /\ cmpl[e].kind = "packet"
             => \E s \in Slots : /\ Received(s) /\ info[s].eop
                                 /\ RingDelta(e, x) < RingDelta(info[s].cidx, x)
    BY <2>1, <2>2 DEF OwnedFrom
  <2>5. /\ \A s \in Slots : Received(s)' =>
             /\ RingDelta(x, x) <= RingDelta(info'[s].cidx, x)
             /\ RingDelta(info'[s].cidx, x) <= RingDelta(cidxWrb, x)
        /\ \A s, t \in Slots :
             RingDelta(s, p) <= RingDelta(t, p) /\ Received(t)'
             => RingDelta(info'[s].cidx, x) <= RingDelta(info'[t].cidx, x)
    BY <1>27, <1>28, <2>3, <2>4
  <2>6. ~halted' => \A e \in Slots :
             /\ RingDelta(x, x) <= RingDelta(e, x)
             /\ RingDelta(e, x) < RingDelta(cidxWrb, x)
             /\ cmpl'[e].kind = "packet"
             => \E s \in Slots : /\ Received(s)' /\ info'[s].eop
                                 /\ RingDelta(e, x) < RingDelta(info'[s].cidx, x)
    BY <1>2, <1>27, <1>28, <2>4
  <2>7. /\ \A s : RingDelta(s, wrbCidx)' = RingDelta(s, x)
        /\ RingDelta(cidxPend, wrbCidx)' = RingDelta(x, x)
        /\ RingDelta(cidxWrb, wrbCidx)' = RingDelta(cidxWrb, x)
        /\ \A s : RingDelta(info[s].cidx, wrbCidx)' = RingDelta(info'[s].cidx, x)
    BY <1>1, <1>2, <2>1 DEF RingDelta
  <2> QED
    BY <1>17, <2>5, <2>6, <2>7 DEF Owners, OwnedFrom
<1>30. PICK pb \in [Slots -> Nat], first \in [Slots -> Slots] :
        /\ Content(pb)
        /\ Lengths(pb)
        /\ ~err => Link(pb, first)
        /\ Closed(W) => Whole(W, pb, first)
  BY DEF Inv, Witness
<1>31. pidx # p => len'[p] = len[p]
  <2>1. pidx # p => RingDelta(pidx, p) # 0
    BY <1>6, DeltaRange
  <2>2. RingDelta(pidx, p) \in Nat
    BY <1>6, <1>8
  <2> QED
    BY <1>6, <1>8, <1>27, <1>28, <2>1, <2>2
<1>32. Content(pb)'
  BY <1>2, <1>30, ContentFrame
<1>33. Lengths(pb)'
  <2>1. Lengths(pb)
    BY <1>30
  <2>2. /\ \A s \in Slots : Received(s)' /\ (s # p \/ pidx = p) => len'[s] = pb[After(s)] - pb[s]
        /\ pidx = p => Len(out) = pb[p]
        /\ pidx # p => /\ len'[p] <= pb[After(p)] - pb[p]
                       /\ Len(out) = pb[After(p)] - len'[p]
        /\ Len(out) + dlen >= pb[pidx]
        /\ ~halted => Len(out) + dlen = pb[pidx]
    BY <1>4, <1>27, <1>28, <1>31, <2>1 DEF Lengths
  <2> QED
    BY <1>2, <1>5, <1>17, <2>2 DEF Lengths
<1>34. ~err' => Link(pb, first)'
  BY <1>2, <1>4, <1>5, <1>30, LinkFrame
<1>35. Closed(W) => Whole(W, pb, first)'
  <2> SUFFICES ASSUME Closed(W) PROVE Whole(W, pb, first)'
    OBVIOUS
  <2>1. Whole(W, pb, first)
    BY <1>30
  <2>2. \A s : Filled(s)' <=> Filled(s)
    BY <1>2 DEF Filled, RingDelta
  <2>3. pidx # p => len'[p] = pb[After(p)] - pb[p]
    BY <1>31, <2>1 DEF Whole
  <2> QED
    BY <1>2, <1>17, <1>23, <2>1, <2>2, <2>3 DEF Whole
<1>36. Witness(W)'
  BY <1>32, <1>33, <1>34, <1>35, WitnessNext
<1> QED
  BY <1>15, <1>16, <1>18, <1>19, <1>24, <1>25, <1>29, <1>36 DEF Inv

-----------------------------------------------------------------------------
(* A new ring.                                                             *)

\* The invariant holds at first.
LEMMA InitInv ==
  ASSUME NEW W, Init
  PROVE  Inv(W)
<1>1. /\ lock = "free" /\ pendList = <<>>
      /\ pidx = 0 /\ pidxPend = 0 /\ cidxWrb = 0 /\ cidxPend = 0 /\ color = 1
      /\ avail = RngSz - 1 /\ dlen = 0 /\ err = FALSE
      /\ len = [s \in Slots |-> PgSz] /\ info = [s \in Slots |-> NoInfo]
      /\ left = Count
      /\ svc = Idle
      /\ page = [s \in Slots |-> <<>>] /\ cmpl = [s \in Slots |-> NoCmpl]
      /\ hwPidx = 0 /\ hwWrb = 0 /\ hwColor = 1 /\ wbPidx = 0
      /\ doorbell = RngSz - 1 /\ wrbCidx = 0
      /\ sent = 0 /\ ncmpl = 0 /\ out = <<>> /\ nparsed = 0 /\ halted = FALSE
  BY DEF Init
<1>2. /\ RngSz \in Nat /\ RngSz >= 2 /\ PgSz \in Nat \ {0}
      /\ 0 \in Slots /\ RngSz - 1 \in Slots /\ Slots = 0 .. RngSz - 1
      /\ RngSz - 1 \in 0 .. RngSz - 1 /\ 0 \in 0 .. MaxCmpl
  BY RingAssumption, BudgetAssumption DEF Slots
<1>3. TypeOK
  <2>1. polled \in BOOLEAN /\ armed \in BOOLEAN /\ irq \in BOOLEAN /\ starts \in Nat
    BY DEF Init
  <2>2. /\ left \in [Readers -> Nat] /\ got \in [Readers -> Seq(Nat)]
        /\ status \in [Readers -> {"pending", "ok", "error"}]
        /\ pc \in [Readers -> {"idle", "queue", "wait", "returned"}]
    BY ReaderAssumption DEF Init
  <2>3. /\ len \in [Slots -> 0 .. PgSz]
        /\ info \in [Slots -> [eop : BOOLEAN, cidx : Slots]]
        /\ svc \in [phase : {"idle", "parse", "serve", "refill"}, todo : Nat, pidx : Slots, old : Slots]
    BY <1>1, <1>2 DEF NoInfo, Idle
  <2>4. pendList \in Seq(Readers) /\ out \in Seq(Nat)
    BY <1>1
  <2>5. /\ {pidx, pidxPend, cidxWrb, cidxPend} \subseteq Slots
        /\ {hwPidx, hwWrb, wbPidx, doorbell, wrbCidx} \subseteq Slots
        /\ {ncmpl, nparsed} \subseteq 0 .. MaxCmpl /\ avail \in 0 .. RngSz - 1
    BY <1>1, <1>2
  <2>6. lock \in {"free", "service"} /\ err \in BOOLEAN /\ halted \in BOOLEAN
    BY <1>1, Zenon
  <2>7. color \in 0 .. 1 /\ dlen \in Nat /\ hwColor \in 0 .. 1 /\ sent \in Nat
    BY <1>1
  <2> QED
    BY <2>1, <2>2, <2>3, <2>4, <2>5, <2>6, <2>7 DEF TypeOK
<1>4. Types
  BY <1>1, <1>3 DEF Types, NoCmpl
<1>5. svc.phase = "idle" /\ Cursor = 0 /\ Base = 0
  BY <1>1 DEF Idle, Cursor, Base
<1>6. /\ RingDelta(0, 0) = 0 /\ \A s \in Slots : RingDelta(s, 0) = s
      /\ PagesUpTo(0) = RngSz - 1 /\ ColorAt(0) = 1
      /\ RingDelta(RngSz - 1, 0) = RngSz - 1
  BY <1>1, <1>2 DEF RingDelta, PagesUpTo, RingDecr, ColorAt
<1>7. /\ \A s \in Slots : ~Unparsed(s) /\ ~Parsed(s) /\ ~Received(s) /\ ~Filled(s)
  BY <1>1, <1>2, <1>5, <1>6 DEF Unparsed, Parsed, Received, Filled
<1>8. Locking
  BY <1>1, <1>5 DEF Locking
<1>9. PageOrder /\ CmplOrder
  BY <1>1, <1>5, <1>6 DEF PageOrder, CmplOrder
<1>10. PageCount
  BY <1>1, <1>2, <1>5, <1>6 DEF PageCount
<1>11. CmplFresh
  BY <1>1, <1>2, <1>6, <1>7 DEF CmplFresh
<1>12. Owners
  <2>1. \A e \in Slots : ~(RingDelta(e, 0) < RingDelta(0, 0))
    BY <1>2, <1>6
  <2> QED
    BY <1>1, <1>7, <2>1 DEF Owners, OwnedFrom
<1>13. PICK pb \in [Slots -> Nat], first \in [Slots -> Slots] :
         /\ pb = [s \in Slots |-> 0] /\ first = [s \in Slots |-> 0]
  BY <1>2
<1>14. \A s \in Slots : pb[s] = 0 /\ first[s] = 0 /\ After(s) \in Slots
  BY <1>2, <1>13, AfterDelta
<1>15. Content(pb)
  BY <1>1, <1>2, <1>7, <1>14 DEF Content
<1>16. Lengths(pb)
  <2>1. Len(out) = 0
    BY <1>1
  <2> QED
    BY <1>1, <1>2, <1>5, <1>7, <1>14, <2>1 DEF Lengths
<1>17. Link(pb, first)
  BY <1>1, <1>2, <1>5, <1>6, <1>7, <1>14 DEF Link
<1>18. Closed(W) => Whole(W, pb, first)
  <2>1. Closed(W) => 0 \in W /\ \A r \in Readers : left[r] \in W
    BY <1>1 DEF Closed
  <2>2. Len(out) = 0 /\ DOMAIN out = {}
    BY <1>1
  <2> QED
    BY <1>1, <1>2, <1>6, <1>7, <1>14, <2>1, <2>2 DEF Whole
<1> QED
  BY <1>4, <1>8, <1>9, <1>10, <1>11, <1>12, <1>13, <1>15, <1>16, <1>17, <1>18 DEF Inv, Witness

\* The queue is stopped and started again.
LEMMA RestartStep ==
  ASSUME NEW W, Inv(W), Restart
  PROVE  Inv(W)'
<1>1. /\ lock = "free"
      /\ starts' = starts + 1 /\ halted' = FALSE
      /\ pidx' = 0 /\ pidxPend' = 0 /\ cidxWrb' = 0 /\ cidxPend' = 0 /\ color' = 1
      /\ avail' = RngSz - 1 /\ dlen' = 0
      /\ len' = [s \in Slots |-> PgSz] /\ info' = [s \in Slots |-> NoInfo]
      /\ cmpl' = [s \in Slots |-> NoCmpl]
      /\ hwPidx' = 0 /\ hwWrb' = 0 /\ hwColor' = 1 /\ wbPidx' = 0
      /\ doorbell' = RngSz - 1 /\ wrbCidx' = 0 /\ armed' = ~polled /\ irq' = FALSE
      /\ sent' = Len(out) /\ ncmpl' = nparsed
      /\ UNCHANGED <<polled, lock, pendList, err, requests, svc, page, out, nparsed>>
  BY DEF Restart, WrbUpdate, Rearm
<1>2. /\ RngSz \in Nat /\ RngSz >= 2 /\ PgSz \in Nat \ {0}
      /\ 0 \in Slots /\ RngSz - 1 \in Slots /\ Slots = 0 .. RngSz - 1
      /\ RngSz - 1 \in 0 .. RngSz - 1
  BY RingAssumption DEF Slots
<1>3. Types /\ Locking
  BY DEF Inv
<1>4. Len(out) \in Nat
  BY <1>3 DEF Types, TypeOK
<1>5. Types'
  <2>1. armed' \in BOOLEAN /\ irq' \in BOOLEAN /\ halted' \in BOOLEAN
    BY <1>1, Zenon
  <2>7. starts' \in Nat
    BY <1>1, <1>3 DEF Types, TypeOK
  <2>2. /\ len' \in [Slots -> 0 .. PgSz]
        /\ info' \in [Slots -> [eop : BOOLEAN, cidx : Slots]]
        /\ cmpl' \in [Slots -> [kind : {"none", "packet", "udd", "bad"}, len : Nat,
                                color : 0 .. 1, nr : Nat]]
    BY <1>1, <1>2 DEF NoInfo, NoCmpl
  <2>3. /\ {pidx', pidxPend', cidxWrb', cidxPend'} \subseteq Slots
        /\ {hwPidx', hwWrb', wbPidx', doorbell', wrbCidx'} \subseteq Slots
        /\ avail' \in 0 .. RngSz - 1
    BY <1>1, <1>2
  <2>4. color' \in 0 .. 1 /\ dlen' \in Nat /\ hwColor' \in 0 .. 1 /\ sent' \in Nat
    BY <1>1, <1>4
  <2>5. {ncmpl', nparsed'} \subseteq 0 .. MaxCmpl
    BY <1>1, <1>3 DEF Types, TypeOK
  <2>6. UNCHANGED <<polled, lock, pendList, err, requests, svc, page, out>>
    BY <1>1
  <2> QED
    BY <1>3, <2>1, <2>2, <2>3, <2>4, <2>5, <2>6, <2>7 DEF Types, TypeOK, requests, Slots
<1>6. svc'.phase = "idle" /\ Cursor' = 0 /\ Base' = 0
  BY <1>1, <1>3 DEF Cursor, Base, Locking
<1>7. Locking'
  BY <1>1, <1>3, <1>6 DEF Locking
<1>8. /\ RingDelta(0, 0) = 0 /\ \A s \in Slots : RingDelta(s, 0) = s
      /\ PagesUpTo(0) = RngSz - 1
  BY <1>2 DEF RingDelta, PagesUpTo, RingDecr
<1>9. /\ \A s : RingDelta(s, Base)' = RingDelta(s, 0)
      /\ \A s : RingDelta(s, pidxPend)' = RingDelta(s, 0)
      /\ \A s : RingDelta(s, cidxWrb)' = RingDelta(s, 0)
      /\ \A s : RingDelta(s, wrbCidx)' = RingDelta(s, 0)
      /\ RingDelta(pidxPend, Base)' = RingDelta(0, 0)
      /\ RingDelta(pidx, Base)' = RingDelta(0, 0)
      /\ RingDelta(Cursor, Base)' = RingDelta(0, 0)
      /\ RingDelta(hwPidx, Base)' = RingDelta(0, 0)
      /\ RingDelta(hwPidx, pidxPend)' = RingDelta(0, 0)
      /\ RingDelta(Cursor, pidxPend)' = RingDelta(0, 0)
      /\ RingDelta(hwWrb, cidxWrb)' = RingDelta(0, 0)
      /\ RingDelta(wbPidx, cidxWrb)' = RingDelta(0, 0)
      /\ RingDelta(cidxPend, wrbCidx)' = RingDelta(0, 0)
      /\ RingDelta(cidxWrb, wrbCidx)' = RingDelta(0, 0)
      /\ RingDelta(wbPidx, wrbCidx)' = RingDelta(0, 0)
      /\ RingDelta(hwWrb, wrbCidx)' = RingDelta(0, 0)
      /\ PagesUpTo(Base)' = PagesUpTo(0)
      /\ \A s : After(s)' = After(s)
  BY <1>1, <1>6 DEF RingDelta, PagesUpTo, RingDecr, After, RingIncr
<1>10. /\ \A s \in Slots : ~Unparsed(s)' /\ ~Parsed(s)' /\ ~Received(s)' /\ ~Filled(s)'
  BY <1>2, <1>8, <1>9 DEF Unparsed, Parsed, Received, Filled
<1>11. PageOrder'
  BY <1>1, <1>8, <1>9 DEF PageOrder
<1>12. CmplOrder'
  BY <1>1, <1>6, <1>8, <1>9 DEF CmplOrder
<1>13. PageCount'
  BY <1>1, <1>2, <1>8, <1>9 DEF PageCount
<1>14. CmplFresh'
  <2>1. ColorAt(hwWrb)' = 1
    BY <1>1 DEF ColorAt
  <2>2. nparsed \in Nat
    BY <1>3, BudgetAssumption DEF Types, TypeOK
  <2>3. ncmpl' = nparsed' + RingDelta(hwWrb, cidxWrb)'
    BY <1>1, <1>8, <1>9, <2>2
  <2> QED
    BY <1>1, <1>10, <2>1, <2>3 DEF CmplFresh
<1>15. Owners'
  <2>1. \A e \in Slots : ~(RingDelta(e, 0) < RingDelta(0, 0))
    BY <1>2, <1>8
  <2> QED
    BY <1>9, <1>10, <2>1 DEF Owners, OwnedFrom
<1>16. PICK pb \in [Slots -> Nat], first \in [Slots -> Slots] :
         /\ pb = [s \in Slots |-> Len(out)] /\ first = [s \in Slots |-> 0]
  BY <1>2, <1>4
<1>17. \A s \in Slots : pb[s] = Len(out) /\ first[s] = 0 /\ After(s) \in Slots
  BY <1>2, <1>16, AfterDelta
<1>18. Content(pb)'
  BY <1>1, <1>2, <1>4, <1>9, <1>10, <1>17, SMTT(30) DEF Content
<1>19. Lengths(pb)'
  <2>1. Len(out) + 0 = Len(out) /\ Len(out) >= Len(out)
    BY <1>4
  <2> QED
    BY <1>1, <1>2, <1>6, <1>10, <1>17, <2>1 DEF Lengths
<1>20. Link(pb, first)'
  <2>1. \A s : RingDelta(first[s], Cursor)' = RingDelta(first[s], 0)
    BY <1>6 DEF RingDelta
  <2> QED
    BY <1>1, <1>2, <1>6, <1>8, <1>10, <1>17, <2>1, SMTT(40) DEF Link
<1>21. Closed(W) => Whole(W, pb, first)'
  <2>1. Closed(W) => /\ Len(out) \in W /\ \A r \in Readers : left[r] \in W
                     /\ \A i \in DOMAIN out : out[i] = i
    BY DEF Inv, Witness, Whole
  <2>2. left' = left /\ out' = out
    BY <1>1 DEF requests
  <2> QED
    BY <1>1, <1>2, <1>8, <1>9, <1>10, <1>17, <2>1, <2>2 DEF Whole
<1>22. Witness(W)'
  BY <1>18, <1>19, <1>20, <1>21, WitnessNext
<1> QED
  BY <1>5, <1>7, <1>11, <1>12, <1>13, <1>14, <1>15, <1>22 DEF Inv

-----------------------------------------------------------------------------
(* A packet is taken from the completion ring.                             *)

\* What rcv_pkt() does with the entry of a packet of n units: it takes the
\* pages up to the one where the next packet starts.
TakenTo(first, n, m, last) ==
  /\ n \in Lens /\ n \in Nat /\ m = PagesFor(n) /\ m \in Nat \ {0}
  /\ Entry.kind = "packet" /\ Entry.len = n
  /\ svc.phase = "parse" /\ svc.todo > 0
  /\ Base' = Base
  /\ Cursor' \in Slots /\ Cursor' = first[After(cidxWrb)]
  /\ RingDelta(Cursor', Cursor) = m
  /\ RingDelta(Cursor', Base) = RingDelta(Cursor, Base) + m
  /\ RingDelta(Cursor', Base) <= RingDelta(hwPidx, Base)
  /\ RingDelta(Cursor', pidxPend) = RingDelta(Cursor, pidxPend) + m
  /\ RingDelta(Cursor', pidxPend) <= RingDelta(hwPidx, pidxPend)
  /\ RingDelta(last, Cursor) = m - 1 /\ After(last) = Cursor'
  /\ RingDelta(last, Base) = RingDelta(Cursor, Base) + (m - 1)
  /\ RingDelta(last, pidxPend) = RingDelta(Cursor, pidxPend) + (m - 1)
  /\ avail' = avail - m /\ dlen' = dlen + n
  /\ len' = [len EXCEPT ![last] = CASE n = 0        -> 0
                                    [] n % PgSz # 0 -> n % PgSz
                                    [] OTHER        -> @]
  /\ info' = [s \in Slots |-> IF RingDelta(s, Cursor) < m
                              THEN [eop |-> s = last, cidx |-> EntryAfter]
                              ELSE info[s]]
  /\ svc' = [svc EXCEPT !.pidx = Cursor', !.todo = @ - 1]
  /\ WrbNext

\* The pages are there: the hardware has filled them.
LEMMA PacketTaken ==
  ASSUME Types, PageOrder, CmplOrder, CmplFresh, RcvPkt,
         NEW pb, NEW first \in [Slots -> Slots], Link(pb, first)
  PROVE  \E n \in Lens : \E m \in Nat : \E last \in Slots : TakenTo(first, n, m, last)
<1> DEFINE K == Cursor
           c == cidxWrb
<1>1. /\ svc.phase = "parse" /\ svc.todo > 0 /\ Entry.kind = "packet"
      /\ WrbNext
      /\ UNCHANGED <<pidxPend>>
  BY DEF RcvPkt, MoreToParse
<1>2. /\ c \in Slots /\ hwWrb \in Slots /\ RingDelta(c, c) = 0
      /\ RingDelta(hwWrb, c) > 0 /\ Unparsed(c) /\ Entry.len \in Lens
  BY <1>1, EntryNew
<1>3. /\ K = svc.pidx /\ K \in Slots /\ Base \in Slots /\ pidxPend \in Slots /\ hwPidx \in Slots
  BY <1>1, FromPending DEF Cursor, Types, TypeOK
<1>4. PICK n \in Lens : n = Entry.len
  BY <1>2
<1>5. n \in Nat /\ PagesFor(n) \in Nat \ {0}
  BY PacketAssumption, PagesForBounds
<1>6. PICK m \in Nat : m = PagesFor(n)
  BY <1>5
<1>7. PagesOf(c) = m
  BY <1>1, <1>4, <1>6 DEF PagesOf, Entry
<1>8. /\ first[hwWrb] = hwPidx /\ first[c] = K
      /\ RingDelta(first[After(c)], K) = RingDelta(first[c], K) + m
      /\ \A s \in Slots : RingDelta(s, c) <= RingDelta(hwWrb, c)
           => RingDelta(first[s], K) <= RingDelta(first[hwWrb], K)
  <2>1. RingDelta(hwWrb, c) \in Nat
    BY <1>2, DeltaRange
  <2>2. RingDelta(hwWrb, c) <= RingDelta(hwWrb, c)
    BY <2>1
  <2> QED
    BY <1>2, <1>7, <2>2 DEF Link
<1>9. After(c) \in Slots /\ RingDelta(After(c), c) <= RingDelta(hwWrb, c)
  <2>1. RingDelta(hwWrb, c) \in 0 .. RngSz - 1
    BY <1>2, DeltaRange
  <2>2. RingDelta(After(c), c) = 0 + 1
    BY <1>2, RingAssumption, AfterDelta
  <2> QED
    BY <1>2, <2>1, <2>2, RingAssumption, AfterDelta
<1>10. RingDelta(K, K) = 0 /\ RingDelta(first[After(c)], K) = m /\ m <= RingDelta(hwPidx, K)
  <2>1. RingDelta(K, K) = 0
    BY <1>3, DeltaRange
  <2>2. RingDelta(first[After(c)], K) = 0 + m
    BY <1>8, <2>1
  <2> QED
    BY <1>8, <1>9, <2>1, <2>2
<1>11. RingDelta(hwPidx, K) \in 0 .. RngSz - 1 /\ m - 1 \in Nat /\ m < RngSz
  BY <1>3, <1>5, <1>6, <1>10, DeltaRange, RingAssumption
<1>12. PICK last \in Slots : last = RingIncr(K, m - 1) /\ RingDelta(last, K) = m - 1
  <2>1. RingDelta(K, K) + (m - 1) < RngSz /\ RingDelta(K, K) + (m - 1) = m - 1
    BY <1>10, <1>11, RingAssumption
  <2> QED
    BY <1>3, <1>11, <2>1, DeltaIncr
<1>13. After(last) \in Slots /\ RingDelta(After(last), K) = m /\ After(last) = first[After(c)]
  <2>1. After(last) \in Slots /\ RingDelta(After(last), K) = m
    BY <1>3, <1>11, <1>12, AfterDelta
  <2> QED
    BY <1>3, <1>9, <1>10, <2>1, DeltaInverse
<1>14. Cursor' = After(last) /\ Base' = Base
  <2>1. svc' = [svc EXCEPT !.pidx = RingIncr(last, 1), !.todo = @ - 1]
    BY <1>3, <1>4, <1>6, <1>12 DEF RcvPkt
  <2>2. svc \in [phase : {"idle", "parse", "serve", "refill"}, todo : Nat, pidx : Slots, old : Slots]
    BY DEF Types, TypeOK
  <2>3. svc'.phase = "parse" /\ svc'.pidx = RingIncr(last, 1) /\ svc'.old = svc.old
    BY <1>1, <2>1, <2>2
  <2> QED
    BY <1>1, <2>3 DEF Cursor, Base, After
<1>15. /\ avail' = avail - m /\ dlen' = dlen + n
       /\ len' = [len EXCEPT ![last] = CASE n = 0        -> 0
                                         [] n % PgSz # 0 -> n % PgSz
                                         [] OTHER        -> @]
       /\ info' = [s \in Slots |-> IF RingDelta(s, K) < m
                                   THEN [eop |-> s = last, cidx |-> EntryAfter]
                                   ELSE info[s]]
       /\ svc' = [svc EXCEPT !.pidx = After(last), !.todo = @ - 1]
  BY <1>3, <1>4, <1>6, <1>12 DEF RcvPkt, After
<1>16. ASSUME NEW b \in Slots, RingDelta(K, b) <= RingDelta(hwPidx, b)
       PROVE  /\ RingDelta(After(last), b) = RingDelta(K, b) + m
              /\ RingDelta(After(last), b) <= RingDelta(hwPidx, b)
              /\ RingDelta(last, b) = RingDelta(K, b) + (m - 1)
  <2>1. RingDelta(hwPidx, K) = RingDelta(hwPidx, b) - RingDelta(K, b)
    BY <1>3, <1>16, DeltaRebase
  <2>2. RingDelta(hwPidx, b) \in 0 .. RngSz - 1 /\ RingDelta(K, b) \in 0 .. RngSz - 1
    BY <1>3, <1>16, DeltaRange
  <2>3. RingDelta(K, b) + m < RngSz /\ RingDelta(K, b) + m <= RingDelta(hwPidx, b)
    BY <1>10, <1>11, <2>1, <2>2, RingAssumption
  <2>4. RingDelta(After(last), b) = m + RingDelta(K, b)
    BY <1>3, <1>13, <1>16, <2>2, <2>3, DeltaAdd, RingAssumption
  <2>5. RingDelta(last, b) = (m - 1) + RingDelta(K, b)
    BY <1>3, <1>11, <1>12, <1>16, <2>2, <2>3, DeltaAdd, RingAssumption
  <2> QED
    BY <1>11, <2>2, <2>3, <2>4, <2>5, RingAssumption
<1>17. /\ RingDelta(K, Base) <= RingDelta(hwPidx, Base)
       /\ RingDelta(K, pidxPend) <= RingDelta(hwPidx, pidxPend)
  BY FromPending DEF PageOrder
<1>18. PICK b \in Slots, p \in Slots : b = Base /\ p = pidxPend
  BY <1>3
<1>19. /\ RingDelta(After(last), b) = RingDelta(K, b) + m
       /\ RingDelta(After(last), b) <= RingDelta(hwPidx, b)
       /\ RingDelta(last, b) = RingDelta(K, b) + (m - 1)
       /\ RingDelta(After(last), p) = RingDelta(K, p) + m
       /\ RingDelta(After(last), p) <= RingDelta(hwPidx, p)
       /\ RingDelta(last, p) = RingDelta(K, p) + (m - 1)
  BY <1>16, <1>17, <1>18
<1> HIDE DEF K, c
<1>20. TakenTo(first, n, m, last)
  <2>1. /\ n \in Lens /\ n \in Nat /\ m = PagesFor(n) /\ m \in Nat \ {0}
        /\ Entry.kind = "packet" /\ Entry.len = n
        /\ svc.phase = "parse" /\ svc.todo > 0
    BY <1>1, <1>4, <1>5, <1>6
  <2>2. /\ Base' = Base /\ Cursor' \in Slots /\ Cursor' = first[After(cidxWrb)]
        /\ Cursor' = After(last) /\ RingDelta(After(last), K) = m
    BY <1>13, <1>14 DEF c
  <2> QED
    BY <1>1, <1>12, <1>15, <1>18, <1>19, <2>1, <2>2 DEF TakenTo, K
<1> QED
  BY <1>20

\* The lengths and owners of the pages of a packet just parsed.
LEMMA TakenLengths ==
  ASSUME Types, PageOrder, PageCount, ~err, NEW pb \in [Slots -> Nat], Lengths(pb),
         NEW first \in [Slots -> Slots], Link(pb, first), Unparsed(cidxWrb),
         NEW n \in Lens, NEW m \in Nat, NEW last \in Slots, TakenTo(first, n, m, last),
         UNCHANGED <<pidx, pidxPend, out, halted>>
  PROVE  /\ Lengths(pb)'
         /\ \A s \in Slots : RingDelta(s, Base) < RingDelta(Cursor, Base) => len'[s] = len[s]
         /\ \A s \in Slots : RingDelta(s, Base) >= RingDelta(Cursor', Base) => len'[s] = len[s]
         /\ len' \in [Slots -> 0 .. PgSz]
         /\ pidx # pidxPend => len'[pidxPend] = len[pidxPend]
<1> DEFINE K == Cursor
           L == Cursor'
           p == pidxPend
           c == cidxWrb
           b == Base
<1>1. /\ K \in Slots /\ b \in Slots /\ p \in Slots /\ pidx \in Slots /\ c \in Slots
      /\ RingDelta(pidx, p) <= RingDelta(K, p)
  BY FromPending DEF Types, TypeOK
<1>2. /\ n \in Nat /\ m = PagesFor(n) /\ m \in Nat \ {0}
      /\ L \in Slots /\ L = first[After(c)]
      /\ RingDelta(L, K) = m
      /\ RingDelta(L, b) = RingDelta(K, b) + m
      /\ RingDelta(L, p) = RingDelta(K, p) + m
      /\ RingDelta(last, K) = m - 1 /\ After(last) = L
      /\ RingDelta(last, b) = RingDelta(K, b) + (m - 1)
      /\ RingDelta(last, p) = RingDelta(K, p) + (m - 1)
      /\ dlen' = dlen + n
      /\ len' = [len EXCEPT ![last] = CASE n = 0        -> 0
                                        [] n % PgSz # 0 -> n % PgSz
                                        [] OTHER        -> @]
  BY DEF TakenTo
<1>3. PagesOf(c) = m /\ UnitsOf(c) = n
  BY DEF TakenTo, PagesOf, UnitsOf, Entry
<1>4. /\ first[c] = K /\ pb[L] = pb[K] + n
      /\ \A s \in Slots : RingDelta(s, K) < m => pb[s] = pb[K] + RingDelta(s, K) * PgSz
  BY <1>1, <1>2, <1>3 DEF Link
<1>5. \A s \in Slots : /\ RingDelta(s, K) \in Nat /\ RingDelta(s, b) \in Nat
                       /\ RingDelta(s, p) \in Nat /\ RingDelta(s, K) < RngSz
                       /\ len[s] \in 0 .. PgSz /\ pb[s] \in Nat /\ After(s) \in Slots
  <2>1. len \in [Slots -> 0 .. PgSz]
    BY DEF Types, TypeOK
  <2>2. ASSUME NEW s \in Slots, NEW a \in Slots PROVE RingDelta(s, a) \in Nat /\ RingDelta(s, a) < RngSz
    BY DeltaRange, RingAssumption
  <2>3. \A s \in Slots : After(s) \in Slots
    BY AfterDelta
  <2> HIDE DEF K, b, p
  <2> QED
    BY <1>1, <2>1, <2>2, <2>3
<1>6. \A s \in Slots : s # last => len'[s] = len[s]
  BY <1>2 DEF Types, TypeOK
<1>7. /\ RingDelta(last, b) >= RingDelta(K, b) /\ RingDelta(last, b) < RingDelta(L, b)
      /\ RingDelta(last, p) >= RingDelta(K, p)
  BY <1>1, <1>2, <1>5
<1>8. len[last] = PgSz
  BY <1>7 DEF PageCount
<1>9. /\ len'[last] = n - (m - 1) * PgSz
      /\ len'[last] \in 0 .. PgSz
  <2>1. len'[last] = CASE n = 0        -> 0
                       [] n % PgSz # 0 -> n % PgSz
                       [] OTHER        -> PgSz
    BY <1>2, <1>8 DEF Types, TypeOK
  <2>2. /\ n % PgSz # 0 => n % PgSz = n - (m - 1) * PgSz
        /\ n % PgSz = 0 /\ n # 0 => n - (m - 1) * PgSz = PgSz
        /\ n % PgSz \in 0 .. PgSz - 1
    BY <1>2, LastPage
  <2>3. n = 0 => m = 1 /\ (m - 1) * PgSz = 0
    BY <1>2, PagesForBounds, RingAssumption
  <2>4. n = 0 => n - (m - 1) * PgSz = 0
    BY <1>2, <2>3, RingAssumption
  <2>5. CASE n = 0
    BY <2>1, <2>4, <2>5, RingAssumption
  <2>6. CASE n # 0 /\ n % PgSz # 0
    <3>1. len'[last] = n % PgSz
      BY <2>1, <2>6
    <3> QED
      BY <2>2, <2>6, <3>1, RingAssumption
  <2>7. CASE n # 0 /\ n % PgSz = 0
    <3>1. len'[last] = PgSz
      BY <2>1, <2>7
    <3> QED
      BY <2>2, <2>7, <3>1, RingAssumption
  <2> QED
    BY <2>5, <2>6, <2>7
<1>10. len' \in [Slots -> 0 .. PgSz]
  <2> DEFINE v == CASE n = 0        -> 0
                    [] n % PgSz # 0 -> n % PgSz
                    [] OTHER        -> len[last]
  <2>1. len \in [Slots -> 0 .. PgSz]
    BY DEF Types, TypeOK
  <2>2. len' = [len EXCEPT ![last] = v]
    BY <1>2
  <2> HIDE DEF v
  <2>3. len'[last] = v
    BY <2>1, <2>2
  <2>4. v \in 0 .. PgSz
    BY <1>9, <2>3
  <2> QED
    BY <2>1, <2>2, <2>4
<1>11. /\ \A s \in Slots : RingDelta(s, b) < RingDelta(K, b) => len'[s] = len[s]
       /\ \A s \in Slots : RingDelta(s, b) >= RingDelta(L, b) => len'[s] = len[s]
  <2> HIDE DEF K, L, b
  <2> QED
    BY <1>1, <1>2, <1>5, <1>6, <1>7
<1>12. pidx # p => len'[p] = len[p]
  <2>1. RingDelta(p, p) = 0 /\ (pidx # p => RingDelta(pidx, p) > 0)
    BY <1>1, <1>5, DeltaRange
  <2>2. pidx # p => p # last
    BY <1>1, <1>5, <1>7, <2>1
  <2> QED
    BY <1>1, <1>6, <2>2
<1>13. ASSUME NEW s \in Slots, RingDelta(s, p) >= RingDelta(K, p), RingDelta(s, p) < RingDelta(L, p)
       PROVE  len'[s] = pb[After(s)] - pb[s]
  <2> DEFINE k == RingDelta(s, K)
  <2>1. k = RingDelta(s, p) - RingDelta(K, p)
    BY <1>1, <1>13, DeltaRebase
  <2>2. k \in Nat /\ k < m /\ k < RngSz
    BY <1>1, <1>2, <1>5, <1>13, <2>1
  <2>3. pb[s] = pb[K] + k * PgSz /\ k * PgSz \in Nat /\ pb[K] \in Nat
    BY <1>1, <1>4, <1>5, <2>2, RingAssumption
  <2>4. CASE s = last
    <3>1. k = m - 1 /\ pb[After(s)] = pb[K] + n
      BY <1>2, <1>4, <2>4
    <3> DEFINE a == (m - 1) * PgSz
    <3>2. pb[s] = pb[K] + a /\ a \in Nat /\ len'[s] = n - a
      BY <1>9, <2>3, <2>4, <3>1
    <3> HIDE DEF a, k
    <3> QED
      BY <1>2, <2>3, <3>1, <3>2
  <2>5. CASE s # last
    <3>1. k # m - 1
      BY <1>1, <1>2, <2>5, DeltaInverse
    <3>2. k + 1 < m /\ k + 1 < RngSz
      <4>1. m < RngSz
        BY <1>1, <1>2, <1>5
      <4> HIDE DEF k
      <4> QED
        BY <1>2, <2>2, <3>1, <4>1, RingAssumption
    <3>3. RingDelta(After(s), K) = k + 1
      BY <1>1, <3>2, AfterDelta
    <3>4. pb[After(s)] = pb[K] + (k + 1) * PgSz
      BY <1>4, <1>5, <3>2, <3>3
    <3>5. (k + 1) * PgSz = k * PgSz + PgSz
      BY <2>2, RingAssumption
    <3>6. len[s] = PgSz
      <4>1. RingDelta(L, b) < RngSz
        BY <1>1, <1>2, DeltaRange, RingAssumption
      <4>2. k + RingDelta(K, b) < RngSz
        <5>1. RingDelta(K, b) \in Nat
          BY <1>1, <1>5
        <5> HIDE DEF k, K, L, b
        <5> QED
          BY <1>2, <2>2, <4>1, <5>1, RingAssumption
      <4>3. RingDelta(s, b) = k + RingDelta(K, b)
        BY <1>1, <4>2, DeltaAdd
      <4>4. RingDelta(s, b) >= RingDelta(K, b)
        BY <1>1, <1>5, <2>2, <4>3
      <4> QED
        BY <4>4 DEF PageCount
    <3>7. len'[s] = PgSz
      BY <1>6, <2>5, <3>6
    <3> DEFINE a == k * PgSz
    <3>8. pb[After(s)] = pb[K] + (a + PgSz) /\ pb[s] = pb[K] + a /\ a \in Nat
      BY <2>3, <3>4, <3>5
    <3> HIDE DEF a, k
    <3> QED
      BY <2>3, <3>7, <3>8, RingAssumption
  <2> QED
    BY <2>4, <2>5
<1>14. ASSUME NEW s \in Slots, RingDelta(s, p) < RingDelta(K, p), s # p \/ pidx = p
       PROVE  len'[s] = pb[After(s)] - pb[s]
  <2>1. Received(s)
    BY <1>14 DEF Received
  <2>2. s # last
    BY <1>1, <1>5, <1>7, <1>14
  <2> QED
    BY <1>6, <1>14, <2>1, <2>2 DEF Lengths
<1>15. /\ \A s : Received(s)' <=> RingDelta(s, p) < RingDelta(L, p)
       /\ \A s : After(s)' = After(s)
  BY DEF Received, RingDelta, After, RingIncr
<1>16. \A s \in Slots : Received(s)' /\ (s # p \/ pidx = p) => len'[s] = pb[After(s)] - pb[s]
  <2> SUFFICES ASSUME NEW s \in Slots, RingDelta(s, p) < RingDelta(L, p), s # p \/ pidx = p
               PROVE  len'[s] = pb[After(s)] - pb[s]
    BY <1>15
  <2>1. RingDelta(s, p) < RingDelta(K, p) \/ RingDelta(s, p) >= RingDelta(K, p)
    BY <1>1, <1>5
  <2> QED
    BY <1>13, <1>14, <2>1
<1>17. /\ Len(out) + dlen' >= pb[L]
       /\ ~halted => Len(out) + dlen' = pb[L]
  <2>1. Len(out) + dlen >= pb[K] /\ (~halted => Len(out) + dlen = pb[K])
    BY DEF Lengths
  <2>2. Len(out) \in Nat /\ dlen \in Nat /\ pb[K] \in Nat
    BY <1>1, <1>5 DEF Types, TypeOK
  <2> HIDE DEF K, L
  <2> QED
    BY <1>2, <1>4, <2>1, <2>2
<1>18. Lengths(pb)'
  BY <1>12, <1>15, <1>16, <1>17 DEF Lengths
<1> QED
  BY <1>10, <1>11, <1>12, <1>18

\* The new pages belong to the entry just parsed, the last one of them ends it.
LEMMA TakenOwners ==
  ASSUME Types, PageOrder, CmplOrder, CmplFresh, Owners,
         NEW first, NEW n \in Lens, NEW m \in Nat, NEW last \in Slots, TakenTo(first, n, m, last),
         cidxWrb' \in Slots, cidxWrb' = After(cidxWrb),
         RingDelta(cidxWrb', wrbCidx) = RingDelta(cidxWrb, wrbCidx) + 1,
         UNCHANGED <<pidxPend, halted, cidxPend, wrbCidx, cmpl>>
  PROVE  /\ Owners'
         /\ info' \in [Slots -> [eop : BOOLEAN, cidx : Slots]]
<1> DEFINE K == Cursor
           L == Cursor'
           p == pidxPend
           c == cidxWrb
           d == cidxWrb'
           w == wrbCidx
           x == cidxPend
<1>1. /\ K \in Slots /\ p \in Slots /\ c \in Slots /\ w \in Slots /\ x \in Slots
      /\ info \in [Slots -> [eop : BOOLEAN, cidx : Slots]]
  BY FromPending DEF Types, TypeOK
<1>2. /\ m \in Nat \ {0} /\ L \in Slots
      /\ RingDelta(L, p) = RingDelta(K, p) + m
      /\ RingDelta(last, K) = m - 1
      /\ RingDelta(last, p) = RingDelta(K, p) + (m - 1)
      /\ info' = [s \in Slots |-> IF RingDelta(s, K) < m
                                  THEN [eop |-> s = last, cidx |-> EntryAfter]
                                  ELSE info[s]]
      /\ EntryAfter = d
  BY DEF TakenTo, EntryAfter, After
<1>3. \A s \in Slots : /\ RingDelta(s, K) \in Nat /\ RingDelta(s, w) \in Nat
                       /\ RingDelta(s, p) \in Nat
                       /\ info[s].cidx \in Slots
                       /\ RingDelta(s, w) = RingDelta(c, w) <=> s = c
  BY <1>1, DeltaRange, DeltaInverse, RingAssumption
<1>4. info' \in [Slots -> [eop : BOOLEAN, cidx : Slots]]
  <2>1. \A s \in Slots : [eop |-> s = last, cidx |-> d] \in [eop : BOOLEAN, cidx : Slots]
    OBVIOUS
  <2> QED
    BY <1>1, <1>2, <2>1
<1>5. \A s \in Slots : RingDelta(s, p) < RingDelta(K, p) => info'[s] = info[s]
  <2> SUFFICES ASSUME NEW s \in Slots, RingDelta(s, p) < RingDelta(K, p)
               PROVE  ~(RingDelta(s, K) < m)
    BY <1>2
  <2>1. RingDelta(L, p) < RngSz
    BY <1>1, <1>2, DeltaRange, RingAssumption
  <2>2. RingDelta(K, p) + m < RngSz
    BY <1>2, <2>1
  <2>3. RingDelta(s, K) > m
    BY <1>1, <2>2, PagesAhead
  <2> QED
    BY <1>3, <1>1, <2>3
<1>6. \A s \in Slots : RingDelta(s, p) >= RingDelta(K, p) /\ RingDelta(s, p) < RingDelta(L, p)
        => info'[s].cidx = d /\ (info'[s].eop <=> s = last)
  <2> SUFFICES ASSUME NEW s \in Slots, RingDelta(s, p) >= RingDelta(K, p),
                      RingDelta(s, p) < RingDelta(L, p)
               PROVE  RingDelta(s, K) < m
    BY <1>2
  <2>1. RingDelta(s, K) = RingDelta(s, p) - RingDelta(K, p)
    BY <1>1, DeltaRebase
  <2> QED
    BY <1>1, <1>2, <1>3, <2>1
<1>7. /\ \A s : Received(s)' <=> RingDelta(s, p) < RingDelta(L, p)
      /\ \A s : Received(s) <=> RingDelta(s, p) < RingDelta(K, p)
      /\ \A s : RingDelta(s, pidxPend)' = RingDelta(s, p)
      /\ \A s : RingDelta(s, wrbCidx)' = RingDelta(s, w)
      /\ RingDelta(cidxPend, wrbCidx)' = RingDelta(x, w)
      /\ RingDelta(cidxWrb, wrbCidx)' = RingDelta(d, w)
  BY DEF Received, RingDelta
<1>8. \A s : RingDelta(info[s].cidx, wrbCidx)' = RingDelta(info'[s].cidx, w)
  BY DEF RingDelta
<1>9. /\ \A s \in Slots : RingDelta(s, p) < RingDelta(K, p) =>
           /\ RingDelta(x, w) <= RingDelta(info[s].cidx, w)
           /\ RingDelta(info[s].cidx, w) <= RingDelta(c, w)
      /\ \A s, t \in Slots :
           RingDelta(s, p) <= RingDelta(t, p) /\ RingDelta(t, p) < RingDelta(K, p)
           => RingDelta(info[s].cidx, w) <= RingDelta(info[t].cidx, w)
  BY <1>7 DEF Owners, OwnedFrom
<1>10. ~halted => \A e \in Slots :
         RingDelta(x, w) <= RingDelta(e, w) /\ RingDelta(e, w) < RingDelta(c, w)
           /\ cmpl[e].kind = "packet"
         => \E s \in Slots : /\ RingDelta(s, p) < RingDelta(K, p) /\ info[s].eop
                             /\ RingDelta(e, w) < RingDelta(info[s].cidx, w)
  BY <1>7 DEF Owners, OwnedFrom
<1>11. RingDelta(d, w) = RingDelta(c, w) + 1 /\ RingDelta(x, w) <= RingDelta(c, w)
  BY DEF CmplOrder
<1>12. RingDelta(K, p) \in Nat /\ RingDelta(c, w) \in Nat /\ RingDelta(x, w) \in Nat
  BY <1>1, <1>3
<1> DEFINE old(s) == RingDelta(s, p) < RingDelta(K, p)
           new(s) == RingDelta(s, p) >= RingDelta(K, p) /\ RingDelta(s, p) < RingDelta(L, p)
<1>13. \A s \in Slots : RingDelta(s, p) < RingDelta(L, p) <=> old(s) \/ new(s)
  BY <1>2, <1>3, <1>12
<1>14. /\ \A s \in Slots : old(s) => RingDelta(info'[s].cidx, w) = RingDelta(info[s].cidx, w)
       /\ \A s \in Slots : new(s) => RingDelta(info'[s].cidx, w) = RingDelta(d, w)
  BY <1>5, <1>6
<1>15. \A s \in Slots : Received(s)' =>
         /\ RingDelta(x, w) <= RingDelta(info'[s].cidx, w)
         /\ RingDelta(info'[s].cidx, w) <= RingDelta(d, w)
  <2> HIDE DEF K, L, d, w, c, x, p
  <2> QED
    BY <1>3, <1>7, <1>9, <1>11, <1>12, <1>13, <1>14
<1>16. \A s, t \in Slots :
         RingDelta(s, p) <= RingDelta(t, p) /\ Received(t)'
         => RingDelta(info'[s].cidx, w) <= RingDelta(info'[t].cidx, w)
  <2> SUFFICES ASSUME NEW s \in Slots, NEW t \in Slots, RingDelta(s, p) <= RingDelta(t, p),
                      old(t) \/ new(t)
               PROVE  RingDelta(info'[s].cidx, w) <= RingDelta(info'[t].cidx, w)
    BY <1>7, <1>13
  <2>1. CASE old(t)
    <3>1. old(s)
      BY <1>3, <1>12, <2>1
    <3> QED
      BY <1>9, <1>14, <2>1, <3>1
  <2>2. CASE new(t)
    <3>1. old(s) \/ new(s)
      BY <1>2, <1>3, <1>12, <2>2
    <3>2. RingDelta(info'[t].cidx, w) = RingDelta(d, w)
      BY <1>14, <2>2
    <3>3. CASE old(s)
      <4>1. RingDelta(info'[s].cidx, w) <= RingDelta(c, w)
        BY <1>9, <1>14, <3>3
      <4>2. RingDelta(info'[s].cidx, w) \in Nat
        BY <1>3, <1>14, <3>3
      <4> HIDE DEF c, d, w
      <4> QED
        BY <1>11, <1>12, <3>2, <4>1, <4>2
    <3>4. CASE new(s)
      <4>1. RingDelta(info'[s].cidx, w) = RingDelta(d, w)
        BY <1>14, <3>4
      <4> HIDE DEF c, d, w
      <4> QED
        BY <1>11, <1>12, <3>2, <4>1
    <3> QED
      BY <3>1, <3>3, <3>4
  <2> QED
    BY <2>1, <2>2
<1>17. ~halted => \A e \in Slots :
         RingDelta(x, w) <= RingDelta(e, w) /\ RingDelta(e, w) < RingDelta(d, w)
           /\ cmpl[e].kind = "packet"
         => \E s \in Slots : /\ Received(s)' /\ info'[s].eop
                             /\ RingDelta(e, w) < RingDelta(info'[s].cidx, w)
  <2> SUFFICES ASSUME ~halted, NEW e \in Slots,
                      RingDelta(x, w) <= RingDelta(e, w), RingDelta(e, w) < RingDelta(d, w),
                      cmpl[e].kind = "packet"
               PROVE  \E s \in Slots : /\ Received(s)' /\ info'[s].eop
                                       /\ RingDelta(e, w) < RingDelta(info'[s].cidx, w)
    OBVIOUS
  <2>1. CASE RingDelta(e, w) < RingDelta(c, w)
    <3>1. PICK s \in Slots : /\ old(s) /\ info[s].eop
                             /\ RingDelta(e, w) < RingDelta(info[s].cidx, w)
      BY <1>10, <2>1
    <3>2. Received(s)' /\ info'[s] = info[s]
      BY <1>5, <1>7, <1>13, <3>1
    <3> QED
      BY <3>1, <3>2
  <2>2. CASE ~(RingDelta(e, w) < RingDelta(c, w))
    <3>1. new(last)
      BY <1>2, <1>12
    <3>2. Received(last)' /\ info'[last].eop /\ info'[last].cidx = d
      BY <1>6, <1>7, <1>13, <3>1
    <3> QED
      BY <3>2
  <2> QED
    BY <2>1, <2>2
<1>18. OwnedFrom(wrbCidx)'
  BY <1>7, <1>8, <1>15, <1>16, <1>17 DEF OwnedFrom
<1> QED
  BY <1>4, <1>18 DEF Owners

\* The packets of the entries left are where they were.
LEMMA TakenLink ==
  ASSUME Types, PageOrder, CmplOrder, CmplFresh,
         NEW pb \in [Slots -> Nat], NEW first \in [Slots -> Slots], Link(pb, first),
         NEW n \in Lens, NEW m \in Nat, NEW last \in Slots, TakenTo(first, n, m, last),
         cidxWrb' \in Slots, cidxWrb' = After(cidxWrb), Unparsed(cidxWrb),
         RingDelta(hwWrb, cidxWrb') = RingDelta(hwWrb, cidxWrb) - 1,
         \A s \in Slots : RingDelta(s, cidxWrb') <= RingDelta(hwWrb, cidxWrb') =>
           RingDelta(s, cidxWrb) = RingDelta(s, cidxWrb') + 1,
         UNCHANGED <<hwWrb, hwPidx, cmpl>>
  PROVE  Link(pb, first)'
<1> DEFINE K == Cursor
           L == Cursor'
           c == cidxWrb
           d == cidxWrb'
           h == hwWrb
<1>1. K \in Slots /\ c \in Slots /\ h \in Slots /\ d \in Slots
  BY FromPending DEF Types, TypeOK
<1>2. /\ m \in Nat \ {0} /\ L \in Slots /\ L = first[d]
      /\ RingDelta(L, K) = m
  BY DEF TakenTo
<1>3. \A s \in Slots : /\ RingDelta(s, c) \in Nat /\ RingDelta(s, d) \in Nat
                       /\ RingDelta(s, K) \in Nat /\ RingDelta(s, L) \in Nat
                       /\ first[s] \in Slots /\ After(s) \in Slots
  BY <1>1, <1>2, DeltaRange, AfterDelta, RingAssumption
<1>4. \A s \in Slots : RingDelta(s, d) <= RingDelta(h, d) =>
        /\ RingDelta(s, c) <= RingDelta(h, c)
        /\ RingDelta(s, c) = RingDelta(s, d) + 1
        /\ RingDelta(s, d) < RingDelta(h, d) => Unparsed(s)
  BY <1>1, <1>3 DEF Unparsed
<1>5. \A s, t \in Slots :
         RingDelta(s, c) <= RingDelta(t, c) /\ RingDelta(t, c) <= RingDelta(h, c)
         => RingDelta(first[s], K) <= RingDelta(first[t], K)
  BY DEF Link
<1>6. RingDelta(d, d) = 0
  BY <1>1, DeltaRange
<1>7. ASSUME NEW s \in Slots, RingDelta(s, d) <= RingDelta(h, d)
      PROVE  RingDelta(first[s], L) = RingDelta(first[s], K) - m
  <2>1. RingDelta(d, d) <= RingDelta(h, d) /\ RingDelta(d, d) <= RingDelta(s, d)
    BY <1>1, <1>3, <1>6, <1>7
  <2>2. RingDelta(d, c) <= RingDelta(s, c) /\ RingDelta(s, c) <= RingDelta(h, c)
    BY <1>1, <1>3, <1>4, <1>7, <2>1
  <2>3. RingDelta(first[d], K) <= RingDelta(first[s], K)
    BY <1>1, <1>5, <1>7, <2>2
  <2> QED
    BY <1>1, <1>2, <1>3, <2>3, DeltaRebase
<1>8. ASSUME NEW s \in Slots, RingDelta(s, d) < RingDelta(h, d)
      PROVE  RingDelta(After(s), d) <= RingDelta(h, d)
  <2>1. RingDelta(h, d) < RngSz
    BY <1>1, DeltaRange, RingAssumption
  <2>2. RingDelta(s, d) + 1 < RngSz
    BY <1>1, <1>3, <1>8, <2>1, RingAssumption
  <2>3. RingDelta(After(s), d) = RingDelta(s, d) + 1
    BY <1>1, <1>8, <2>2, AfterDelta
  <2> QED
    BY <1>1, <1>3, <1>8, <2>3
<1>9. /\ \A s : RingDelta(first[s], Cursor)' = RingDelta(first[s], L)
      /\ \A s : RingDelta(first[After(s)], Cursor)' = RingDelta(first[After(s)], L)
      /\ \A s : PagesOf(s)' = PagesOf(s) /\ UnitsOf(s)' = UnitsOf(s)
      /\ \A s, q : RingDelta(q, first[s])' = RingDelta(q, first[s])
      /\ \A s : RingDelta(s, cidxWrb)' = RingDelta(s, d)
      /\ RingDelta(hwWrb, cidxWrb)' = RingDelta(h, d)
      /\ \A s : Unparsed(s)' <=> RingDelta(s, d) < RingDelta(h, d)
      /\ \A s : After(s)' = After(s)
  BY DEF RingDelta, After, RingIncr, PagesOf, UnitsOf, PagesFor, Unparsed
<1>10. \A s : pb[first[After(s)]]' = pb[first[After(s)]] /\ pb[first[s]]' = pb[first[s]]
  BY <1>9
<1>11. ASSUME NEW s \in Slots, RingDelta(s, d) < RingDelta(h, d)
       PROVE  /\ RingDelta(first[After(s)], L) = RingDelta(first[s], L) + PagesOf(s)
              /\ pb[first[After(s)]] = pb[first[s]] + UnitsOf(s)
              /\ \A q \in Slots : RingDelta(q, first[s]) < PagesOf(s) =>
                   pb[q] = pb[first[s]] + RingDelta(q, first[s]) * PgSz
  <2>1. RingDelta(s, d) <= RingDelta(h, d)
    BY <1>1, <1>3, <1>11
  <2>2. Unparsed(s)
    BY <1>4, <1>11, <2>1
  <2>3. /\ RingDelta(first[After(s)], K) = RingDelta(first[s], K) + PagesOf(s)
        /\ pb[first[After(s)]] = pb[first[s]] + UnitsOf(s)
        /\ \A q \in Slots : RingDelta(q, first[s]) < PagesOf(s) =>
             pb[q] = pb[first[s]] + RingDelta(q, first[s]) * PgSz
    BY <2>2 DEF Link
  <2>4. /\ RingDelta(first[s], L) = RingDelta(first[s], K) - m
        /\ RingDelta(first[After(s)], L) = RingDelta(first[After(s)], K) - m
    BY <1>3, <1>7, <1>8, <1>11, <2>1
  <2>5. /\ RingDelta(first[s], K) \in Nat /\ RingDelta(first[After(s)], K) \in Nat
        /\ PagesOf(s) \in Nat
    <3>1. PagesOf(s) \in Nat
      <4>1. cmpl[s].len \in Nat
        BY DEF Types
      <4> QED
        BY <4>1, PagesForBounds DEF PagesOf
    <3> QED
      BY <1>3, <3>1
  <2> HIDE DEF K, L
  <2>6. RingDelta(first[After(s)], L) = RingDelta(first[s], L) + PagesOf(s)
    BY <1>2, <2>3, <2>4, <2>5
  <2> QED
    BY <2>3, <2>6
<1>12. ASSUME NEW s \in Slots, NEW t \in Slots,
              RingDelta(s, d) <= RingDelta(t, d), RingDelta(t, d) <= RingDelta(h, d)
       PROVE  RingDelta(first[s], L) <= RingDelta(first[t], L)
  <2>1. RingDelta(s, d) <= RingDelta(h, d)
    BY <1>1, <1>3, <1>12
  <2>2. RingDelta(s, c) <= RingDelta(t, c) /\ RingDelta(t, c) <= RingDelta(h, c)
    BY <1>3, <1>4, <1>12, <2>1
  <2>3. RingDelta(first[s], K) <= RingDelta(first[t], K)
    BY <1>5, <1>12, <2>2
  <2>4. /\ RingDelta(first[s], L) = RingDelta(first[s], K) - m
        /\ RingDelta(first[t], L) = RingDelta(first[t], K) - m
    BY <1>7, <1>12, <2>1
  <2>5. RingDelta(first[s], K) \in Nat /\ RingDelta(first[t], K) \in Nat
    BY <1>3
  <2> HIDE DEF K, L
  <2> QED
    BY <1>2, <2>3, <2>4, <2>5
<1>13. first[hwWrb'] = hwPidx' /\ first[cidxWrb'] = L
  BY <1>2 DEF Link
<1>14. \A s \in Slots : Unparsed(s)' =>
         /\ RingDelta(first[After(s)], Cursor)' = RingDelta(first[s], Cursor)' + PagesOf(s)'
         /\ pb[first[After(s)]]' = pb[first[s]]' + UnitsOf(s)'
         /\ \A q \in Slots : RingDelta(q, first[s])' < PagesOf(s)' =>
              pb[q]' = pb[first[s]]' + RingDelta(q, first[s])' * PgSz
  BY <1>9, <1>11
<1>15. \A s, t \in Slots :
         RingDelta(s, cidxWrb)' <= RingDelta(t, cidxWrb)'
           /\ RingDelta(t, cidxWrb)' <= RingDelta(hwWrb, cidxWrb)'
         => RingDelta(first[s], Cursor)' <= RingDelta(first[t], Cursor)'
  BY <1>9, <1>12
<1> QED
  BY <1>13, <1>14, <1>15 DEF Link

\* The step that parses the entry of a packet.
LEMMA RcvPktStep ==
  ASSUME NEW W, Inv(W), RcvPkt
  PROVE  Inv(W)'
<1>1. /\ UNCHANGED <<pidx, err, pidxPend, cidxPend, left, lock>>
      /\ UNCHANGED <<page, cmpl, hwPidx, hwWrb, hwColor, wbPidx, sent, ncmpl, doorbell, wrbCidx>>
      /\ UNCHANGED <<out, halted>>
      /\ UNCHANGED <<polled, pendList, requests, irq, armed, starts>>
  BY DEF RcvPkt, requests, hardware, regs, runs
<1>2. Types /\ Locking /\ PageOrder /\ PageCount /\ CmplOrder /\ CmplFresh /\ Owners
  BY DEF Inv
<1>3. svc.phase = "parse" /\ svc.todo > 0 /\ Entry.kind # "bad"
  BY DEF RcvPkt, MoreToParse
<1>4. ~err /\ ~halted
  BY <1>2, <1>3 DEF Locking
<1>5. Unparsed(cidxWrb)
  BY <1>2, <1>3, EntryNew
<1>6. PICK pb \in [Slots -> Nat], first \in [Slots -> Slots] :
        /\ Content(pb)
        /\ Lengths(pb)
        /\ Link(pb, first)
        /\ Closed(W) => Whole(W, pb, first)
  BY <1>4 DEF Inv, Witness
<1>7. PICK n \in Lens, m \in Nat, last \in Slots : TakenTo(first, n, m, last)
  BY <1>2, <1>6, PacketTaken
<1>8. /\ svc' = [svc EXCEPT !.pidx = Cursor', !.todo = @ - 1]
      /\ WrbNext /\ Base' = Base /\ Cursor' \in Slots
      /\ avail' = avail - m /\ dlen' = dlen + n /\ n \in Nat /\ m \in Nat \ {0}
      /\ RingDelta(Cursor', Base) = RingDelta(Cursor, Base) + m
      /\ RingDelta(Cursor', Base) <= RingDelta(hwPidx, Base)
      /\ RingDelta(Cursor', pidxPend) = RingDelta(Cursor, pidxPend) + m
      /\ RingDelta(Cursor', pidxPend) <= RingDelta(hwPidx, pidxPend)
  BY <1>7 DEF TakenTo
<1>9. /\ svc'.phase = "parse" /\ svc'.todo = svc.todo - 1 /\ svc'.old = svc.old
      /\ svc' \in [phase : {"idle", "parse", "serve", "refill"}, todo : Nat,
                   pidx : Slots, old : Slots]
  <2>1. svc \in [phase : {"idle", "parse", "serve", "refill"}, todo : Nat,
                 pidx : Slots, old : Slots]
    BY <1>2 DEF Types, TypeOK
  <2>2. PICK k \in Slots : k = Cursor'
    BY <1>8
  <2>3. svc' = [svc EXCEPT !.pidx = k, !.todo = @ - 1]
    BY <1>8, <2>2
  <2>4. svc.todo - 1 \in Nat
    BY <1>3, <2>1
  <2>5. svc' = [phase |-> svc.phase, todo |-> svc.todo - 1, pidx |-> k, old |-> svc.old]
    BY <2>1, <2>3
  <2> QED
    BY <1>3, <2>1, <2>4, <2>5
<1>10. /\ CmplOrder' /\ CmplFresh'
       /\ cidxWrb' \in Slots /\ cidxWrb' = After(cidxWrb)
       /\ color' \in 0 .. 1 /\ nparsed' \in 0 .. MaxCmpl
       /\ RingDelta(cidxWrb', wrbCidx) = RingDelta(cidxWrb, wrbCidx) + 1
       /\ RingDelta(hwWrb, cidxWrb') = RingDelta(hwWrb, cidxWrb) - 1
       /\ \A s \in Slots : RingDelta(s, cidxWrb') <= RingDelta(hwWrb, cidxWrb') =>
            RingDelta(s, cidxWrb) = RingDelta(s, cidxWrb') + 1
  BY <1>1, <1>2, <1>3, <1>8, <1>9, EntryTaken
<1>11. Owners' /\ info' \in [Slots -> [eop : BOOLEAN, cidx : Slots]]
  BY <1>1, <1>2, <1>7, <1>10, TakenOwners
<1>12. /\ Lengths(pb)'
       /\ \A s \in Slots : RingDelta(s, Base) >= RingDelta(Cursor', Base) => len'[s] = len[s]
       /\ len' \in [Slots -> 0 .. PgSz]
       /\ pidx # pidxPend => len'[pidxPend] = len[pidxPend]
  BY <1>1, <1>2, <1>4, <1>5, <1>6, <1>7, TakenLengths
<1>13. Link(pb, first)'
  BY <1>1, <1>2, <1>5, <1>6, <1>7, <1>10, TakenLink
<1>14. Content(pb)'
  BY <1>1, <1>6, ContentFrame
<1>15. /\ Cursor \in Slots /\ Base \in Slots /\ hwPidx \in Slots /\ pidx \in Slots /\ pidxPend \in Slots
       /\ RingDelta(Cursor, Base) \in Nat /\ RingDelta(pidx, Base) \in Nat
       /\ RingDelta(hwPidx, Base) \in 0 .. RngSz - 1
       /\ avail \in 0 .. RngSz - 1 /\ dlen \in Nat
  <2>1. Cursor \in Slots /\ Base \in Slots
    BY <1>2, FromPending
  <2>2. /\ hwPidx \in Slots /\ pidx \in Slots /\ pidxPend \in Slots
        /\ avail \in 0 .. RngSz - 1 /\ dlen \in Nat
    BY <1>2 DEF Types, TypeOK
  <2> HIDE DEF Cursor, Base
  <2> QED
    BY <2>1, <2>2, DeltaRange, RingAssumption
<1>16. avail + RingDelta(Cursor, Base) = RngSz - 1
  BY <1>2, <1>4 DEF PageCount
<1>17. avail' \in 0 .. RngSz - 1 /\ dlen' \in Nat
  <2> HIDE DEF Cursor, Base
  <2> QED
    BY <1>8, <1>15, <1>16, RingAssumption
<1>18. Types'
  BY <1>1, <1>2, <1>9, <1>10, <1>11, <1>12, <1>17, ZenonT(60) DEF Types, TypeOK, requests, Slots
<1>19. Locking'
  BY <1>1, <1>2, <1>3, <1>9 DEF Locking
<1>20. /\ \A s : RingDelta(s, Base)' = RingDelta(s, Base)
       /\ RingDelta(pidxPend, Base)' = RingDelta(pidxPend, Base)
       /\ RingDelta(pidx, Base)' = RingDelta(pidx, Base)
       /\ RingDelta(hwPidx, Base)' = RingDelta(hwPidx, Base)
       /\ RingDelta(Cursor, Base)' = RingDelta(Cursor', Base)
       /\ PagesUpTo(Base)' = PagesUpTo(Base)
  BY <1>1, <1>8 DEF RingDelta, PagesUpTo, RingDecr
<1>21. PageOrder'
  <2>1. /\ RingDelta(pidxPend, Base) <= RingDelta(pidx, Base)
        /\ RingDelta(pidx, Base) <= RingDelta(Cursor, Base)
        /\ doorbell = PagesUpTo(Base)
    BY <1>2 DEF PageOrder
  <2>2. RingDelta(pidx, Base) <= RingDelta(Cursor', Base)
    BY <1>8, <1>15, <2>1
  <2> QED
    BY <1>1, <1>8, <1>20, <2>1, <2>2 DEF PageOrder
<1>22. PageCount'
  <2>1. avail' + RingDelta(Cursor', Base) = RngSz - 1
    BY <1>8, <1>15, <1>16, RingAssumption
  <2>2. \A s \in Slots : RingDelta(s, Base) >= RingDelta(Cursor', Base) =>
          len'[s] = PgSz
    <3>1. \A s \in Slots : RingDelta(s, Base) \in Nat /\ RingDelta(Cursor', Base) \in Nat
      BY <1>8, <1>15, DeltaRange, RingAssumption
    <3>2. \A s \in Slots : RingDelta(s, Base) >= RingDelta(Cursor', Base)
            => RingDelta(s, Base) >= RingDelta(Cursor, Base)
      BY <1>8, <1>15, <3>1
    <3> QED
      BY <1>2, <1>4, <1>12, <3>2 DEF PageCount
  <2>3. avail' + RingDelta(Cursor', Base) <= RngSz - 1
    BY <2>1, RingAssumption
  <2> QED
    BY <1>20, <2>1, <2>2, <2>3 DEF PageCount
<1>23. \A s \in Slots : RingDelta(s, cidxWrb') <= RingDelta(hwWrb, cidxWrb')
         => RingDelta(s, cidxWrb) <= RingDelta(hwWrb, cidxWrb)
  <2>1. cidxWrb \in Slots /\ hwWrb \in Slots
    BY <1>2 DEF Types, TypeOK
  <2>2. \A s \in Slots : /\ RingDelta(s, cidxWrb) \in Nat /\ RingDelta(s, cidxWrb') \in Nat
    BY <1>10, <2>1, DeltaRange, RingAssumption
  <2> QED
    BY <1>10, <2>1, <2>2
<1>24. /\ \A s : After(s)' = After(s)
       /\ \A s : RingDelta(s, cidxWrb)' = RingDelta(s, cidxWrb')
       /\ RingDelta(hwWrb, cidxWrb)' = RingDelta(hwWrb, cidxWrb')
       /\ \A s : Filled(s)' <=> Filled(s)
  BY <1>1 DEF After, RingIncr, RingDelta, Filled
<1>25. Closed(W) => Whole(W, pb, first)'
  <2> SUFFICES ASSUME Closed(W) PROVE Whole(W, pb, first)'
    OBVIOUS
  <2>1. Whole(W, pb, first)
    BY <1>6
  <2>2. \A s \in Slots : RingDelta(s, cidxWrb') <= RingDelta(hwWrb, cidxWrb') => pb[first[s]] \in W
    BY <1>4, <1>23, <2>1 DEF Whole
  <2>3. pidx # pidxPend => len'[pidxPend] = pb[After(pidxPend)] - pb[pidxPend]
    BY <1>12, <2>1 DEF Whole
  <2> QED
    BY <1>1, <1>24, <2>1, <2>2, <2>3 DEF Whole
<1>26. Witness(W)'
  BY <1>13, <1>14, <1>12, <1>25, WitnessNext
<1> QED
  BY <1>10, <1>11, <1>18, <1>19, <1>21, <1>22, <1>26 DEF Inv

-----------------------------------------------------------------------------
(* A read, out of what was received before or from the list of requests.   *)

\* What both have in common: n pages were drained.
Drained(recycle, n) ==
  /\ n <= RingDelta(pidx, pidxPend)
  /\ pidxPend' \in Slots /\ RingDelta(pidxPend', pidxPend) = n
  /\ avail' = avail + IF recycle THEN n ELSE 0
  /\ cidxPend' \in Slots
  /\ RingDelta(cidxPend, wrbCidx) <= RingDelta(cidxPend', wrbCidx)
  /\ RingDelta(cidxPend', wrbCidx) <= RingDelta(cidxWrb, wrbCidx)
  /\ \A s \in Slots : recycle /\ RingDelta(s, pidxPend) < n => len'[s] = PgSz
  /\ \A s \in Slots : /\ ~(recycle /\ RingDelta(s, pidxPend) < n)
                      /\ s # pidxPend' \/ n = RingDelta(pidx, pidxPend)
                      => len'[s] = len[s]

\* Every read keeps what the invariant says of the stream.
LEMMA ReadCommon ==
  ASSUME NEW W, Inv(W), NEW r \in Readers, NEW recycle \in BOOLEAN, Read(r, recycle),
         Cursor = pidx, Cursor' = pidx,
         UNCHANGED <<pidx, err, cidxWrb, cmpl, halted, hwWrb, hwPidx, sent, page>>
  PROVE  /\ Witness(W)'
         /\ \A w2 \in Slots : RingDelta(w2, wrbCidx) <= RingDelta(cidxPend', wrbCidx)
              => OwnedFrom(w2)'
         /\ \E n \in Nat : Drained(recycle, n)
         /\ dlen' \in Nat /\ len' \in [Slots -> 0 .. PgSz]
         /\ info' \in [Slots -> [eop : BOOLEAN, cidx : Slots]]
         /\ left' \in [Readers -> Nat] /\ got' \in [Readers -> Seq(Nat)] /\ out' \in Seq(Nat)
<1>1. Types /\ PageOrder /\ CmplOrder /\ Owners
  BY DEF Inv
<1>2. PICK pb \in [Slots -> Nat], first \in [Slots -> Slots] :
        /\ Content(pb)
        /\ Lengths(pb)
        /\ ~err => Link(pb, first)
        /\ Closed(W) => Whole(W, pb, first)
  BY DEF Inv, Witness
<1>3. PICK o \in [0 .. Len(Unread) -> Nat], c \in Copies : ReadResult(pb, r, recycle, o, c)
  BY <1>1, <1>2, ReadEffect
<1>4. /\ got' = [got EXCEPT ![r] = @ \o c.data]
      /\ left' = [left EXCEPT ![r] = c.want]
      /\ pidxPend' \in Slots /\ RingDelta(pidxPend', pidxPend) = c.pages
      /\ cidxPend' = c.cidx
      /\ len' = [s \in Slots |->
                  IF recycle /\ RingDelta(s, pidxPend) < c.pages THEN PgSz
                  ELSE IF s = pidxPend' /\ c.part > 0 THEN len[s] - c.part ELSE len[s]]
      /\ info' = [s \in Slots |->
                  IF recycle /\ RingDelta(s, pidxPend) < c.pages THEN NoInfo ELSE info[s]]
      /\ avail' = avail + IF recycle THEN c.pages ELSE 0
  BY <1>3 DEF ReadResult
<1>5. c.want \in Nat /\ c.data \in Seq(Nat) /\ c.pages \in Nat /\ c.part \in Nat /\ c.cidx \in Slots
  BY DEF Copies
<1>6. /\ out' \in Seq(Nat) /\ c.pages \in 0 .. Len(Unread)
      /\ c.pages = Len(Unread) => c.part = 0
  BY <1>1, <1>2, <1>3, ReadEnd
<1>7. Len(Unread) = RingDelta(pidx, pidxPend) /\ Len(Unread) \in Nat
  BY <1>1, UnreadPages
<1>8. Lengths(pb)' /\ dlen' \in Nat /\ len' \in [Slots -> 0 .. PgSz]
  BY <1>1, <1>2, <1>3, ReadLengths
<1>9. /\ RingDelta(pidxPend', pidxPend) <= RingDelta(pidx, pidxPend)
      /\ RingDelta(pidxPend', pidxPend) <= RingDelta(hwPidx, pidxPend)
  <2>1. RingDelta(pidx, pidxPend) <= RingDelta(hwPidx, pidxPend)
    BY <1>1, FromPending
  <2>2. hwPidx \in Slots /\ pidxPend \in Slots
    BY <1>1 DEF Types, TypeOK
  <2>3. RingDelta(hwPidx, pidxPend) \in Nat
    BY <2>2, DeltaRange, RingAssumption
  <2> QED
    BY <1>4, <1>5, <1>6, <1>7, <2>1, <2>3
<1>10. Content(pb)'
  BY <1>1, <1>2, <1>4, <1>9, ContentForward
<1>11. ~err' => Link(pb, first)'
  BY <1>2, LinkFrame
<1>12. Closed(W) => Whole(W, pb, first)'
  BY <1>1, <1>2, <1>3, ReadWhole
<1>13. Witness(W)'
  BY <1>8, <1>10, <1>11, <1>12, WitnessNext
<1>14. PICK w \in Slots : w = wrbCidx
  BY <1>1 DEF Types, TypeOK
<1>15. RingDelta(cidxPend, w) <= RingDelta(cidxWrb, w) /\ OwnedFrom(w)
  BY <1>1, <1>14 DEF CmplOrder, Owners
<1>16. ASSUME NEW w2 \in Slots, RingDelta(w2, w) <= RingDelta(cidxPend', w)
       PROVE  /\ OwnedFrom(w2)'
              /\ RingDelta(cidxPend, w) <= RingDelta(cidxPend', w)
              /\ RingDelta(cidxPend', w) <= RingDelta(cidxWrb, w)
  BY <1>1, <1>3, <1>15, <1>16, ReadOwners
<1>17. /\ RingDelta(cidxPend, w) <= RingDelta(cidxPend', w)
       /\ RingDelta(cidxPend', w) <= RingDelta(cidxWrb, w)
  <2>1. RingDelta(w, w) <= RingDelta(cidxPend', w)
    BY <1>4, <1>5, DeltaRange, RingAssumption
  <2> QED
    BY <1>16, <2>1
<1>18. info' \in [Slots -> [eop : BOOLEAN, cidx : Slots]]
  <2>1. NoInfo \in [eop : BOOLEAN, cidx : Slots]
    BY RingAssumption DEF NoInfo, Slots
  <2>2. info \in [Slots -> [eop : BOOLEAN, cidx : Slots]]
    BY <1>1 DEF Types, TypeOK
  <2> QED
    BY <1>4, <2>1, <2>2
<1>19. left' \in [Readers -> Nat] /\ got' \in [Readers -> Seq(Nat)]
  <2>1. left \in [Readers -> Nat] /\ got \in [Readers -> Seq(Nat)]
    BY <1>1 DEF Types, TypeOK
  <2>2. got[r] \o c.data \in Seq(Nat)
    BY <1>5, <2>1, ConcatProperties
  <2> QED
    BY <1>4, <1>5, <2>1, <2>2
<1>20. Drained(recycle, c.pages)
  <2>1. \A s \in Slots : recycle /\ RingDelta(s, pidxPend) < c.pages => len'[s] = PgSz
    BY <1>4
  <2>2. \A s \in Slots : /\ ~(recycle /\ RingDelta(s, pidxPend) < c.pages)
                         /\ s # pidxPend' \/ c.pages = RingDelta(pidx, pidxPend)
                         => len'[s] = len[s]
    <3>1. c.pages = RingDelta(pidx, pidxPend) => ~(c.part > 0)
      BY <1>6, <1>7
    <3> QED
      BY <1>4, <3>1
  <2>3. c.pages <= RingDelta(pidx, pidxPend)
    BY <1>6, <1>7
  <2> QED
    BY <1>4, <1>5, <1>14, <1>17, <2>1, <2>2, <2>3 DEF Drained
<1> QED
  BY <1>5, <1>6, <1>8, <1>13, <1>14, <1>16, <1>18, <1>19, <1>20

\* A new request takes data received before, and the pages go back at once.
LEMMA ReadBufferedStep ==
  ASSUME NEW W, Inv(W), NEW r \in Readers, ReadBuffered(r)
  PROVE  Inv(W)'
<1> DEFINE p == pidxPend
           q == pidxPend'
           w == wrbCidx
           x == cidxPend
<1>1. /\ lock = "free"
      /\ pc' = [pc EXCEPT ![r] = IF left'[r] = 0 THEN "returned" ELSE "queue"]
      /\ status' = [status EXCEPT ![r] = IF left'[r] = 0 THEN "ok" ELSE @]
      /\ UNCHANGED <<polled, lock, pendList, indices, svc, hardware, irq, nparsed, runs>>
  BY DEF ReadBuffered
<1>2. /\ UNCHANGED <<pidx, cidxWrb, color, err>>
      /\ UNCHANGED <<page, cmpl, hwPidx, hwWrb, hwColor, wbPidx, sent, ncmpl, halted>>
  BY <1>1 DEF indices, hardware, runs
<1>3. Types /\ Locking /\ PageOrder /\ PageCount /\ CmplOrder /\ CmplFresh /\ Owners
  BY DEF Inv
<1>4. svc.phase = "idle" /\ svc'.phase = "idle"
  BY <1>1, <1>3 DEF Locking
<1>5. /\ Cursor = pidx /\ Cursor' = pidx /\ Base = pidxPend /\ Base' = pidxPend'
      /\ cidxPend = wrbCidx
  BY <1>2, <1>3, <1>4 DEF Cursor, Base, CmplOrder
<1>6. /\ pc' \in [Readers -> {"idle", "queue", "wait", "returned"}]
      /\ status' \in [Readers -> {"pending", "ok", "error"}]
  BY <1>1, <1>3 DEF Types, TypeOK
<1>7. CASE UNCHANGED <<flq, left, got, doorbell, wrbCidx, armed, out>>
  <2>1. Types'
    BY <1>1, <1>3, <1>6, <1>7 DEF Types, TypeOK, indices, flq, hardware, runs, Slots
  <2>2. UNCHANGED <<pidxPend, cidxPend>>
    BY <1>7 DEF flq
  <2>3. Locking' /\ CmplOrder'
    BY <1>1, <1>2, <1>3, <1>7, <2>2, LockingFrame, CmplOrderFrame
  <2> QED
    BY <1>1, <1>2, <1>5, <1>7, <2>1, <2>2, <2>3, Elsewhere
<1>8. CASE Read(r, TRUE) /\ doorbell' = PagesUpTo(pidxPend') /\ wrbCidx' = cidxPend' /\ armed' = ~polled
  <2>1. /\ Witness(W)'
        /\ \A w2 \in Slots : RingDelta(w2, wrbCidx) <= RingDelta(cidxPend', wrbCidx)
             => OwnedFrom(w2)'
        /\ \E n \in Nat : Drained(TRUE, n)
        /\ dlen' \in Nat /\ len' \in [Slots -> 0 .. PgSz]
        /\ info' \in [Slots -> [eop : BOOLEAN, cidx : Slots]]
        /\ left' \in [Readers -> Nat] /\ got' \in [Readers -> Seq(Nat)] /\ out' \in Seq(Nat)
    <3>1. TRUE \in BOOLEAN
      OBVIOUS
    <3> QED
      BY <1>2, <1>5, <1>8, <3>1, ReadCommon
  <2>2. PICK n \in Nat : Drained(TRUE, n)
    BY <2>1
  <2>3. /\ n <= RingDelta(pidx, p)
        /\ q \in Slots /\ RingDelta(q, p) = n
        /\ avail' = avail + n
        /\ cidxPend' \in Slots
        /\ RingDelta(cidxPend', w) <= RingDelta(cidxWrb, w)
        /\ \A s \in Slots : RingDelta(s, p) < n => len'[s] = PgSz
        /\ \A s \in Slots : ~(RingDelta(s, p) < n) /\ (s # q \/ n = RingDelta(pidx, p))
             => len'[s] = len[s]
    BY <2>2 DEF Drained
  <2>4. /\ p \in Slots /\ pidx \in Slots /\ hwPidx \in Slots /\ w \in Slots /\ cidxWrb \in Slots
        /\ wbPidx \in Slots /\ hwWrb \in Slots /\ avail \in 0 .. RngSz - 1
    BY <1>3 DEF Types, TypeOK
  <2>5. \A s \in Slots : /\ RingDelta(s, p) \in Nat /\ RingDelta(s, q) \in Nat
                         /\ RingDelta(s, w) \in Nat /\ RingDelta(s, cidxPend') \in Nat
    BY <2>3, <2>4, DeltaRange, RingAssumption
  <2>6. /\ RingDelta(pidx, p) <= RingDelta(hwPidx, p)
        /\ RingDelta(pidx, q) = RingDelta(pidx, p) - n
        /\ RingDelta(hwPidx, q) = RingDelta(hwPidx, p) - n
        /\ RingDelta(q, q) = 0
    <3>1. RingDelta(pidx, p) <= RingDelta(hwPidx, p)
      BY <1>3, <1>5, FromPending
    <3>2. n <= RingDelta(hwPidx, p)
      BY <2>3, <2>4, <2>5, <3>1
    <3> QED
      BY <2>3, <2>4, <3>1, <3>2, DeltaRange, DeltaRebase
  <2>7. /\ avail + RingDelta(pidx, p) <= RngSz - 1
        /\ ~halted => avail + RingDelta(pidx, p) = RngSz - 1
    BY <1>3, <1>5 DEF PageCount
  <2>8. /\ avail' \in 0 .. RngSz - 1
        /\ avail' + RingDelta(pidx, q) = avail + RingDelta(pidx, p)
    <3>1. RingDelta(pidx, p) \in Nat
      BY <2>4, <2>5
    <3> HIDE DEF p, q
    <3> QED
      BY <2>3, <2>4, <2>6, <2>7, <3>1, RingAssumption
  <2>9. doorbell' \in Slots
    BY <1>8, <2>3, DeltaDecr
  <2>10. Types'
    <3>1. armed' \in BOOLEAN
      BY <1>3, <1>8 DEF Types, TypeOK
    <3>2. wrbCidx' \in Slots
      BY <1>8, <2>3
    <3>3. UNCHANGED <<polled, lock, pendList, pidx, cidxWrb, color, err, svc, irq, nparsed,
                      page, cmpl, hwPidx, hwWrb, hwColor, wbPidx, sent, ncmpl, starts, halted>>
      BY <1>1 DEF indices, hardware, runs
    <3>4. /\ pidxPend' \in Slots /\ cidxPend' \in Slots /\ avail' \in 0 .. RngSz - 1
          /\ dlen' \in Nat /\ len' \in [Slots -> 0 .. PgSz]
          /\ info' \in [Slots -> [eop : BOOLEAN, cidx : Slots]]
          /\ left' \in [Readers -> Nat] /\ got' \in [Readers -> Seq(Nat)] /\ out' \in Seq(Nat)
      BY <2>1, <2>3, <2>8
    <3>5. TypeOK'
      BY <1>3, <1>6, <2>9, <3>1, <3>2, <3>3, <3>4, ZenonT(60) DEF Types, TypeOK, Slots
    <3> QED
      BY <1>3, <3>3, <3>5 DEF Types, Slots
  <2>11. Locking'
    BY <1>1, <1>2, <1>3, <1>4 DEF Locking
  <2>12. /\ \A s : RingDelta(s, Base)' = RingDelta(s, q)
         /\ RingDelta(pidxPend, Base)' = RingDelta(q, q)
         /\ RingDelta(pidx, Base)' = RingDelta(pidx, q)
         /\ RingDelta(Cursor, Base)' = RingDelta(pidx, q)
         /\ RingDelta(hwPidx, Base)' = RingDelta(hwPidx, q)
         /\ PagesUpTo(Base)' = PagesUpTo(q)
    BY <1>2, <1>5 DEF RingDelta, PagesUpTo, RingDecr
  <2>13. PageOrder'
    <3>1. RingDelta(pidx, q) <= RingDelta(hwPidx, q) /\ 0 <= RingDelta(pidx, q)
      BY <2>4, <2>5, <2>6
    <3>2. RingDelta(pidx, q) <= RingDelta(pidx, q)
      BY <2>4, <2>5
    <3>3. doorbell' = PagesUpTo(q)
      BY <1>8
    <3> QED
      BY <2>6, <2>12, <3>1, <3>2, <3>3 DEF PageOrder
  <2>14. ASSUME ~err, NEW s \in Slots, RingDelta(s, q) >= RingDelta(pidx, q)
         PROVE  len'[s] = PgSz
    <3>1. CASE RingDelta(s, p) < n
      BY <2>3, <3>1
    <3>2. CASE ~(RingDelta(s, p) < n)
      <4>1. n <= RingDelta(s, p)
        BY <2>5, <3>2
      <4>2. RingDelta(s, q) = RingDelta(s, p) - n
        BY <2>3, <2>4, <4>1, DeltaRebase
      <4>3. RingDelta(s, p) >= RingDelta(pidx, p)
        BY <2>4, <2>5, <2>6, <2>14, <4>2
      <4>4. len[s] = PgSz
        BY <1>3, <1>5, <2>14, <4>3 DEF PageCount
      <4>5. s = q => n = RingDelta(pidx, p)
        BY <2>3, <2>4, <2>5, <2>6, <2>14
      <4> QED
        BY <2>3, <3>2, <4>4, <4>5
    <3> QED
      BY <3>1, <3>2
  <2>15. PageCount'
    BY <1>2, <2>7, <2>8, <2>12, <2>14 DEF PageCount
  <2> DEFINE y == cidxPend'
  <2>16. /\ y \in Slots /\ RingDelta(y, y) = 0
         /\ RingDelta(cidxWrb, y) = RingDelta(cidxWrb, w) - RingDelta(y, w)
         /\ RingDelta(wbPidx, y) = RingDelta(wbPidx, w) - RingDelta(y, w)
         /\ RingDelta(hwWrb, y) = RingDelta(hwWrb, w) - RingDelta(y, w)
         /\ RingDelta(cidxWrb, w) <= RingDelta(wbPidx, w)
         /\ RingDelta(wbPidx, w) <= RingDelta(hwWrb, w)
         /\ \A s \in Slots : RingDelta(s, y) <= RingDelta(cidxWrb, y) =>
              RingDelta(s, w) = RingDelta(s, y) + RingDelta(y, w)
    <3>1. /\ RingDelta(cidxWrb, w) <= RingDelta(wbPidx, w)
          /\ RingDelta(wbPidx, w) <= RingDelta(hwWrb, w)
      BY <1>3 DEF CmplOrder
    <3>2. RingDelta(y, w) <= RingDelta(cidxWrb, w)
      BY <2>3
    <3>3. y \in Slots
      BY <2>3
    <3> HIDE DEF y, w
    <3>4. RingDelta(y, w) <= RingDelta(wbPidx, w) /\ RingDelta(y, w) <= RingDelta(hwWrb, w)
      BY <2>4, <2>5, <3>1, <3>2, <3>3
    <3> QED
      BY <2>4, <3>1, <3>2, <3>3, <3>4, DeltaRange, DeltaRebase, Forward
  <2>17. /\ \A s : RingDelta(s, wrbCidx)' = RingDelta(s, y)
         /\ RingDelta(cidxPend, wrbCidx)' = RingDelta(y, y)
         /\ RingDelta(cidxWrb, wrbCidx)' = RingDelta(cidxWrb, y)
         /\ RingDelta(wbPidx, wrbCidx)' = RingDelta(wbPidx, y)
         /\ RingDelta(hwWrb, wrbCidx)' = RingDelta(hwWrb, y)
         /\ \A s : RingDelta(s, cidxWrb)' = RingDelta(s, cidxWrb)
         /\ RingDelta(hwWrb, cidxWrb)' = RingDelta(hwWrb, cidxWrb)
    BY <1>2, <1>8 DEF RingDelta
  <2>18. CmplOrder'
    <3>1. /\ RingDelta(y, y) <= RingDelta(cidxWrb, y)
          /\ RingDelta(cidxWrb, y) <= RingDelta(wbPidx, y)
          /\ RingDelta(wbPidx, y) <= RingDelta(hwWrb, y)
      BY <2>4, <2>5, <2>16
    <3> QED
      BY <1>4, <1>8, <2>17, <3>1 DEF CmplOrder
  <2>19. CmplFresh'
    <3>1. ASSUME NEW s \in Slots, Parsed(s)' PROVE Parsed(s)
      <4>1. RingDelta(s, y) < RingDelta(cidxWrb, y)
        BY <2>17, <3>1 DEF Parsed
      <4>2. RingDelta(s, w) < RingDelta(cidxWrb, w)
        <5>1. /\ RingDelta(s, w) \in Nat /\ RingDelta(s, y) \in Nat /\ RingDelta(y, w) \in Nat
              /\ RingDelta(cidxWrb, w) \in Nat /\ RingDelta(cidxWrb, y) \in Nat
          BY <2>4, <2>5, <2>16
        <5> HIDE DEF y, w
        <5> QED
          BY <2>16, <4>1, <5>1
      <4> QED
        BY <4>2 DEF Parsed
    <3>2. \A s : Unparsed(s)' <=> Unparsed(s)
      BY <1>2 DEF Unparsed, RingDelta
    <3>3. \A s : ColorAt(s)' = ColorAt(s)
      BY <1>2 DEF ColorAt
    <3>4. hwColor' = ColorAt(hwWrb)'
      BY <1>2, <1>3 DEF CmplFresh, ColorAt
    <3>5. nparsed' = nparsed
      BY <1>1
    <3> QED
      BY <1>2, <1>3, <2>17, <3>1, <3>2, <3>3, <3>4, <3>5 DEF CmplFresh
  <2>20. Owners'
    <3>1. PICK w2 \in Slots : w2 = cidxPend'
      BY <2>16
    <3>2. RingDelta(w2, wrbCidx) <= RingDelta(cidxPend', wrbCidx)
      BY <2>4, <2>5, <3>1
    <3>3. OwnedFrom(w2)'
      BY <2>1, <3>2
    <3>4. /\ \A s : RingDelta(s, w2)' = RingDelta(s, wrbCidx)'
          /\ RingDelta(cidxPend, w2)' = RingDelta(cidxPend, wrbCidx)'
          /\ RingDelta(cidxWrb, w2)' = RingDelta(cidxWrb, wrbCidx)'
          /\ \A s : RingDelta(info[s].cidx, w2)' = RingDelta(info[s].cidx, wrbCidx)'
      BY <1>8, <3>1 DEF RingDelta
    <3> QED
      BY <3>3, <3>4 DEF Owners, OwnedFrom
  <2> QED
    BY <2>1, <2>10, <2>11, <2>13, <2>15, <2>18, <2>19, <2>20 DEF Inv
<1> QED
  BY <1>7, <1>8 DEF ReadBuffered, WrbUpdate, Rearm

\* The first request of the list is served.
LEMMA ServeReaderStep ==
  ASSUME NEW W, Inv(W), ServeReader
  PROVE  Inv(W)'
<1> DEFINE r == Head(pendList)
           p == pidxPend
           q == pidxPend'
           w == wrbCidx
           b == Base
<1>1. /\ svc.phase = "serve" /\ pendList # <<>>
      /\ Read(r, FALSE)
      /\ UNCHANGED <<polled, lock, indices, pc, hardware, regs, irq, nparsed, runs>>
      /\ \/ /\ pendList' = Tail(pendList)
            /\ status' = [status EXCEPT ![r] = "ok"]
            /\ svc' = svc
         \/ /\ svc' = [svc EXCEPT !.phase = "refill"]
            /\ UNCHANGED <<pendList, status>>
  BY DEF ServeReader
<1>2. /\ UNCHANGED <<pidx, cidxWrb, color, err, doorbell, wrbCidx>>
      /\ UNCHANGED <<page, cmpl, hwPidx, hwWrb, hwColor, wbPidx, sent, ncmpl, halted>>
  BY <1>1 DEF indices, hardware, runs, regs
<1>3. Types /\ Locking /\ PageOrder /\ PageCount /\ CmplOrder /\ CmplFresh /\ Owners
  BY DEF Inv
<1>4. r \in Readers /\ Tail(pendList) \in Seq(Readers)
  BY <1>1, <1>3, HeadTailProperties DEF Types, TypeOK
<1>5. /\ svc'.phase \in {"serve", "refill"} /\ svc'.old = svc.old
      /\ svc' \in [phase : {"idle", "parse", "serve", "refill"}, todo : Nat, pidx : Slots, old : Slots]
      /\ pendList' \in Seq(Readers)
      /\ status' \in [Readers -> {"pending", "ok", "error"}]
  <2>1. /\ svc \in [phase : {"idle", "parse", "serve", "refill"}, todo : Nat, pidx : Slots, old : Slots]
        /\ pendList \in Seq(Readers) /\ status \in [Readers -> {"pending", "ok", "error"}]
    BY <1>3 DEF Types, TypeOK
  <2> QED
    BY <1>1, <1>4, <2>1
<1>6. /\ Cursor = pidx /\ Cursor' = pidx /\ Base = svc.old /\ Base' = Base
  BY <1>1, <1>2, <1>5 DEF Cursor, Base
<1>7. /\ Witness(W)'
      /\ \A w2 \in Slots : RingDelta(w2, wrbCidx) <= RingDelta(cidxPend', wrbCidx)
           => OwnedFrom(w2)'
      /\ \E n \in Nat : Drained(FALSE, n)
      /\ dlen' \in Nat /\ len' \in [Slots -> 0 .. PgSz]
      /\ info' \in [Slots -> [eop : BOOLEAN, cidx : Slots]]
      /\ left' \in [Readers -> Nat] /\ got' \in [Readers -> Seq(Nat)] /\ out' \in Seq(Nat)
  <2>1. FALSE \in BOOLEAN
    OBVIOUS
  <2>2. PICK t \in Readers : t = Head(pendList)
    BY <1>4
  <2>3. Read(t, FALSE)
    BY <1>1, <2>2
  <2> QED
    BY <1>2, <1>6, <2>1, <2>3, ReadCommon
<1>8. PICK n \in Nat : Drained(FALSE, n)
  BY <1>7
<1>9. /\ n <= RingDelta(pidx, p)
      /\ q \in Slots /\ RingDelta(q, p) = n
      /\ avail' = avail
      /\ cidxPend' \in Slots
      /\ RingDelta(cidxPend', w) <= RingDelta(cidxWrb, w)
      /\ \A s \in Slots : s # q \/ n = RingDelta(pidx, p) => len'[s] = len[s]
  <2>1. avail' = avail + 0 /\ avail \in Nat
    <3>1. avail \in 0 .. RngSz - 1
      BY <1>3 DEF Types, TypeOK
    <3> QED
      BY <1>8, <3>1, RingAssumption DEF Drained
  <2> QED
    BY <1>8, <2>1 DEF Drained
<1>10. /\ p \in Slots /\ pidx \in Slots /\ b \in Slots /\ hwPidx \in Slots
       /\ w \in Slots /\ cidxWrb \in Slots
  <2>1. Base \in Slots
    BY <1>3, FromPending
  <2> QED
    BY <1>3, <2>1 DEF Types, TypeOK
<1>11. Types'
  <2>1. avail' \in 0 .. RngSz - 1
    BY <1>3, <1>9 DEF Types, TypeOK
  <2> QED
    BY <1>1, <1>3, <1>5, <1>7, <1>9, <2>1, ZenonT(60)
    DEF Types, TypeOK, indices, hardware, regs, runs, Slots
<1>12. Locking'
  BY <1>1, <1>2, <1>3, <1>5 DEF Locking
<1>13. /\ \A s \in Slots : RingDelta(s, b) \in Nat /\ RingDelta(s, p) \in Nat
       /\ RingDelta(pidx, b) \in 0 .. RngSz - 1
  BY <1>10, DeltaRange, RingAssumption
<1>14. /\ RingDelta(pidx, p) = RingDelta(pidx, b) - RingDelta(p, b)
  BY <1>3, FromPending
<1>15. RingDelta(q, b) = n + RingDelta(p, b)
  <2>1. n + RingDelta(p, b) < RngSz
    <3>1. RingDelta(pidx, b) \in 0 .. RngSz - 1 /\ RingDelta(p, b) \in Nat
      BY <1>10, <1>13
    <3> HIDE DEF p, b
    <3> QED
      BY <1>9, <1>14, <3>1, RingAssumption
  <2> QED
    BY <1>9, <1>10, <2>1, DeltaAdd
<1>16. /\ \A s : RingDelta(s, Base)' = RingDelta(s, b)
       /\ RingDelta(pidxPend, Base)' = RingDelta(q, b)
       /\ RingDelta(pidx, Base)' = RingDelta(pidx, b)
       /\ RingDelta(Cursor, Base)' = RingDelta(pidx, b)
       /\ RingDelta(hwPidx, Base)' = RingDelta(hwPidx, b)
       /\ PagesUpTo(Base)' = PagesUpTo(b)
  BY <1>2, <1>6 DEF RingDelta, PagesUpTo, RingDecr
<1>17. PageOrder'
  <2>1. /\ RingDelta(pidx, b) <= RingDelta(pidx, b)
        /\ RingDelta(pidx, b) <= RingDelta(hwPidx, b)
        /\ doorbell = PagesUpTo(b)
    BY <1>3, <1>6, <1>10, <1>13 DEF PageOrder
  <2>2. RingDelta(q, b) <= RingDelta(pidx, b)
    <3>1. RingDelta(pidx, b) \in Nat /\ RingDelta(p, b) \in Nat
      BY <1>10, <1>13
    <3> HIDE DEF p, b, q
    <3> QED
      BY <1>9, <1>14, <1>15, <3>1
  <2> QED
    BY <1>2, <1>16, <2>1, <2>2 DEF PageOrder
<1>18. ASSUME ~err, NEW s \in Slots, RingDelta(s, b) >= RingDelta(pidx, b)
       PROVE  len'[s] = PgSz
  <2>1. len[s] = PgSz
    BY <1>3, <1>6, <1>18 DEF PageCount
  <2>2. s = q => n = RingDelta(pidx, p)
    <3>1. RingDelta(pidx, b) \in Nat /\ RingDelta(p, b) \in Nat
      BY <1>10, <1>13
    <3> SUFFICES ASSUME s = q PROVE n = RingDelta(pidx, p)
      OBVIOUS
    <3>2. RingDelta(q, b) >= RingDelta(pidx, b)
      BY <1>18
    <3> HIDE DEF p, b, q
    <3> QED
      BY <1>9, <1>14, <1>15, <3>1, <3>2
  <2> QED
    BY <1>9, <2>1, <2>2
<1>19. PageCount'
  BY <1>2, <1>3, <1>6, <1>9, <1>16, <1>18 DEF PageCount
<1>20. /\ \A s : RingDelta(s, wrbCidx)' = RingDelta(s, w)
       /\ RingDelta(cidxPend, wrbCidx)' = RingDelta(cidxPend', w)
       /\ RingDelta(cidxWrb, wrbCidx)' = RingDelta(cidxWrb, w)
       /\ RingDelta(wbPidx, wrbCidx)' = RingDelta(wbPidx, w)
       /\ RingDelta(hwWrb, wrbCidx)' = RingDelta(hwWrb, w)
  BY <1>2 DEF RingDelta
<1>21. CmplOrder'
  BY <1>3, <1>5, <1>9, <1>20 DEF CmplOrder
<1>22. CmplFresh'
  BY <1>1, <1>2, <1>3, CmplFreshFrame
<1>23. Owners'
  <2>1. PICK w2 \in Slots : w2 = wrbCidx
    BY <1>10
  <2>2. RingDelta(w2, wrbCidx) <= RingDelta(cidxPend', wrbCidx)
    BY <1>9, <1>10, <2>1, DeltaRange, RingAssumption
  <2>3. OwnedFrom(w2)'
    BY <1>7, <2>2
  <2>4. /\ \A s : RingDelta(s, w2)' = RingDelta(s, wrbCidx)'
        /\ RingDelta(cidxPend, w2)' = RingDelta(cidxPend, wrbCidx)'
        /\ RingDelta(cidxWrb, w2)' = RingDelta(cidxWrb, wrbCidx)'
        /\ \A s : RingDelta(info[s].cidx, w2)' = RingDelta(info[s].cidx, wrbCidx)'
    BY <1>2, <2>1 DEF RingDelta
  <2> QED
    BY <2>3, <2>4 DEF Owners, OwnedFrom
<1> QED
  BY <1>7, <1>11, <1>12, <1>17, <1>19, <1>21, <1>22, <1>23 DEF Inv

-----------------------------------------------------------------------------
(* The theorems.                                                           *)

\* Every step keeps the invariant.
LEMMA InvStep ==
  ASSUME NEW W, Inv(W), [Next]_vars
  PROVE  Inv(W)'
<1>1. ASSUME NEW r \in Readers, Reader(r) PROVE Inv(W)'
  BY <1>1, ReadBufferedStep, EnqueueStep, WaitOverStep DEF Reader
<1>2. CASE Service
  <2>1. ASSUME NEW budget \in Budgets, ServiceStart(budget) PROVE Inv(W)'
    BY <2>1, ServiceStartStep
  <2>2. CASE ParseBad
    BY <2>2, ParseBadStep
  <2>3. CASE RcvPkt
    BY <2>3, RcvPktStep
  <2>4. CASE RcvUddOnly
    BY <2>4, RcvUddOnlyStep
  <2>5. CASE ParseDone
    BY <2>5, ParseDoneStep
  <2>6. CASE ServeReader
    BY <2>6, ServeReaderStep
  <2>7. CASE Refill
    BY <2>7, RefillStep
  <2> QED
    BY <1>2, <2>1, <2>2, <2>3, <2>4, <2>5, <2>6, <2>7 DEF Service
<1>3. CASE Hardware
  <2>1. ASSUME NEW n \in Lens, HwPacket(n) PROVE Inv(W)'
    BY <2>1, HwPacketStep
  <2>2. ASSUME NEW kind \in {"bad", "udd"}, HwOther(kind) PROVE Inv(W)'
    BY <2>2, HwOtherStep
  <2>3. CASE HwStatus
    BY <2>3, HwStatusStep
  <2>4. CASE HwInterrupt
    BY <2>4, HwInterruptStep
  <2> QED
    BY <1>3, <2>1, <2>2, <2>3, <2>4 DEF Hardware
<1>4. CASE Restart
  BY <1>4, RestartStep
<1>5. CASE UNCHANGED vars
  BY <1>5, HwInterruptStep
<1> QED
  BY <1>1, <1>2, <1>3, <1>4, <1>5 DEF Next

\* The invariant holds, for every set W of numbers of units.
THEOREM StC2hInvariant == ASSUME NEW W PROVE Spec => []Inv(W)
<1>1. Init => Inv(W)
  BY InitInv
<1>2. Inv(W) /\ [Next]_vars => Inv(W)'
  BY InvStep
<1> QED
  BY <1>1, <1>2, PTL DEF Spec

\* What holds whatever packets and requests are like.
LEMMA RingInvariant == Spec => []Inv({})
<1>1. Init => Inv({})
  BY InitInv
<1>2. Inv({}) /\ [Next]_vars => Inv({})'
  BY InvStep
<1> QED
  BY <1>1, <1>2, PTL DEF Spec

\* The variables keep their types.
THEOREM TypeCorrect == Spec => []TypeOK
<1>1. Spec => []Inv({})
  BY RingInvariant
<1>2. Inv({}) => TypeOK
  BY DEF Inv, Types
<1> QED
  BY <1>1, <1>2, PTL

\* The hardware never writes to a page whose units were not all read.
THEOREM PagesKept == Spec => UnreadKept
<1>1. Spec => []Inv({})
  BY RingInvariant
<1> DEFINE Kept == \A s \in Between(pidxPend, hwPidx) : page'[s] = page[s]
<1>2. ASSUME Inv({}), [Next]_vars PROVE [Kept]_vars
  <2>1. CASE UNCHANGED page
    BY <2>1
  <2>2. CASE \E n \in Lens : HwPacket(n)
    <3>1. PICK n \in Lens : HwPacket(n)
      BY <2>2
    <3>2. Types /\ PageOrder
      BY <1>2 DEF Inv
    <3>3. /\ n \in Nat /\ PagesFor(n) \in Nat \ {0} /\ hwPidx \in Slots /\ pidxPend \in Slots
          /\ RingDelta(hwPidx, pidxPend) + PagesFor(n) < RngSz
      BY <3>1, <3>2, PacketRoom
    <3>4. ASSUME NEW s \in Slots, RingDelta(s, pidxPend) < RingDelta(hwPidx, pidxPend)
          PROVE  page'[s] = page[s]
      <4>1. RingDelta(s, hwPidx) > PagesFor(n)
        BY <3>3, <3>4, PagesAhead
      <4>2. RingDelta(s, hwPidx) \in Nat
        BY <3>3, DeltaRange
      <4>3. ~(RingDelta(s, hwPidx) < PagesFor(n))
        BY <3>3, <4>1, <4>2
      <4> QED
        BY <3>1, <4>3 DEF HwPacket
    <3> QED
      BY <3>4 DEF Between
  <2>3. ASSUME NEW r \in Readers, Reader(r) PROVE UNCHANGED page
    BY <2>3 DEF Reader, ReadBuffered, Enqueue, WaitOver, hardware
  <2>4. Service => UNCHANGED page
    BY DEF Service, ServiceStart, ParseBad, RcvPkt, RcvUddOnly, ParseDone, ServeReader, Refill,
           hardware
  <2>5. Hardware => UNCHANGED page \/ \E n \in Lens : HwPacket(n)
    BY DEF Hardware, HwOther, HwStatus, HwInterrupt, hardware
  <2>6. Restart \/ UNCHANGED vars => UNCHANGED page
    BY DEF Restart, vars, hardware
  <2> QED
    BY <1>2, <2>1, <2>2, <2>3, <2>4, <2>5, <2>6 DEF Next
<1> QED
  BY <1>1, <1>2, PTL DEF Spec, UnreadKept

\* The service routine always finds the entry that comes next in the order in
\* which the hardware wrote them, and takes it for new.
THEOREM EntriesCorrect == Spec => []EntriesInOrder
<1>1. Spec => []Inv({})
  BY RingInvariant
<1>2. Inv({}) => EntriesInOrder
  <2> SUFFICES ASSUME Inv({}), svc.phase = "parse", svc.todo > 0
               PROVE  Entry.nr = nparsed + 1 /\ Entry.color = color
    BY DEF EntriesInOrder
  <2> QED
    BY EntryNew DEF Inv
<1> QED
  BY <1>1, <1>2, PTL

\* When all units received were read, the entries of all packets are back with
\* the hardware.
THEOREM ReturnedCorrect == Spec => []CmplReturned
<1>1. Spec => []Inv({})
  BY RingInvariant
<1>2. Inv({}) => CmplReturned
  <2> SUFFICES ASSUME Inv({}), lock = "free", ~halted, Unread = <<>>,
                      NEW e \in Slots, RingDelta(e, wrbCidx) < RingDelta(cidxWrb, wrbCidx)
               PROVE  cmpl[e].kind = "udd"
    BY DEF CmplReturned, Between
  <2>1. Types /\ Locking /\ PageOrder /\ CmplOrder /\ CmplFresh /\ Owners
    BY DEF Inv
  <2>2. svc.phase = "idle" /\ Cursor = pidx /\ cidxPend = wrbCidx
    BY <2>1 DEF Locking, Cursor, CmplOrder
  <2>3. RingDelta(pidx, pidxPend) = 0
    <3>1. Len(Unread) = 0
      OBVIOUS
    <3> QED
      BY <2>1, <3>1, UnreadPages
  <2>4. wrbCidx \in Slots /\ pidxPend \in Slots
    BY <2>1 DEF Types, TypeOK
  <2>5. \A s \in Slots : ~Received(s)
    <3>1. \A s \in Slots : RingDelta(s, pidxPend) \in Nat
      BY <2>4, DeltaRange
    <3> QED
      BY <2>2, <2>3, <3>1 DEF Received
  <2>6. RingDelta(cidxPend, wrbCidx) <= RingDelta(e, wrbCidx)
    BY <2>2, <2>4, DeltaRange, RingAssumption
  <2>7. cmpl[e].kind # "packet"
    BY <2>1, <2>5, <2>6 DEF Owners, OwnedFrom
  <2>8. cmpl[e].kind \in {"packet", "udd"}
    BY <2>1 DEF CmplFresh, Parsed
  <2> QED
    BY <2>7, <2>8
<1> QED
  BY <1>1, <1>2, PTL

\* Between the critical sections the driver knows exactly how many pages are
\* free and how many units wait to be read.
THEOREM CountersCorrect == Spec => []FreeListExact
<1>1. Spec => []Inv({})
  BY RingInvariant
<1>2. Inv({}) => FreeListExact
  <2> SUFFICES ASSUME Inv({}), lock = "free", ~halted
               PROVE  avail = RngSz - 1 - Len(Unread) /\ dlen = UnitsOn[Len(Unread)]
    BY DEF FreeListExact
  <2>1. Types /\ Locking /\ PageOrder /\ PageCount
    BY DEF Inv
  <2>2. Cursor = pidx /\ Base = pidxPend
    BY <2>1 DEF Locking, Cursor, Base
  <2>3. PICK pb \in [Slots -> Nat] : Content(pb) /\ Lengths(pb)
    BY DEF Inv, Witness
  <2>4. Len(Unread) = RingDelta(pidx, pidxPend) /\ Len(Unread) \in Nat
    BY <2>1, UnreadPages
  <2>5. avail + Len(Unread) = RngSz - 1 /\ avail \in 0 .. RngSz - 1
    BY <2>1, <2>2, <2>4 DEF PageCount, Types, TypeOK
  <2>6. PICK o \in [0 .. Len(Unread) -> Nat] :
          /\ o[0] = Len(out) /\ o[Len(Unread)] = pb[pidx]
          /\ \A k \in 1 .. Len(Unread) : len[Unread[k]] = o[k] - o[k - 1]
    BY <2>1, <2>3, Offsets
  <2>7. UnitsOn[Len(Unread)] = o[Len(Unread)] - o[0]
    BY <2>1, <2>6, UnitsOnPages
  <2>8. Len(out) + dlen = pb[pidx]
    BY <2>2, <2>3 DEF Lengths
  <2>9. Len(out) \in Nat /\ dlen \in Nat /\ pb[pidx] \in Nat
    BY <2>1, <2>3 DEF Types, TypeOK
  <2> HIDE DEF Unread
  <2> QED
    BY <2>4, <2>5, <2>6, <2>7, <2>8, <2>9, RingAssumption
<1> QED
  BY <1>1, <1>2, PTL

\* Readers get the stream in order, if no request can end in the middle of a
\* page: all requests and packets have numbers of units of a set closed under
\* addition and subtraction, none of which ends inside of a page.
THEOREM StreamCorrect == ASSUME NEW W, Closed(W) PROVE Spec => []StreamInOrder
<1>1. Spec => []Inv(W)
  BY StC2hInvariant
<1>2. Inv(W) => StreamInOrder
  BY DEF Inv, Types, Witness, Whole, StreamInOrder
<1> QED
  BY <1>1, <1>2, PTL

\* So they do when all packets have the same length and every request asks for
\* whole packets.
THEOREM WholePackets ==
  ASSUME NEW L \in Nat \ {0}, Lens \subseteq {0, L},
         \A r \in Readers : \E k \in Nat : Count[r] = k * L
  PROVE  Spec => []StreamInOrder
<1> DEFINE W == {k * L : k \in Int}
<1>1. ASSUME NEW a \in W, NEW b \in W PROVE a + b \in W /\ a - b \in W
  <2>1. PICK j \in Int : a = j * L
    OBVIOUS
  <2>2. PICK k \in Int : b = k * L
    OBVIOUS
  <2>3. a + b = (j + k) * L /\ a - b = (j - k) * L /\ j + k \in Int /\ j - k \in Int
    BY <2>1, <2>2
  <2> QED
    BY <2>3
<1>2. 0 \in W /\ L \in W
  <2>1. 0 = 0 * L /\ L = 1 * L
    OBVIOUS
  <2> QED
    BY <2>1
<1>3. W \subseteq Int /\ \A r \in Readers : Count[r] \in W
  <2>1. \A k \in Int : k * L \in Int
    OBVIOUS
  <2>2. \A r \in Readers : \E k \in Int : Count[r] = k * L
    OBVIOUS
  <2> QED
    BY <2>1, <2>2
<1>4. ASSUME NEW n \in Lens, NEW w \in W, NEW j \in Nat, j * PgSz < w, w < n
      PROVE  FALSE
  <2>1. PICK k \in Int : w = k * L
    OBVIOUS
  <2>2. j * PgSz \in Nat
    BY RingAssumption
  <2>3. w > 0 /\ w < L
    BY <1>4, <2>1, <2>2
  <2>4. k > 0
    <3>1. CASE k <= 0
      <4>1. -k \in Nat /\ (-k) * L \in Nat /\ (-k) * L = -(k * L)
        BY <3>1
      <4> QED
        BY <2>1, <2>3, <4>1
    <3> QED
      BY <3>1
  <2>5. L <= k * L
    <3>1. 1 * L <= k * L
      BY <2>4, ProductLe
    <3> QED
      BY <3>1
  <2> QED
    BY <2>1, <2>3, <2>5
<1>5. Closed(W)
  <2> HIDE DEF W
  <2> QED
    BY <1>1, <1>2, <1>3, <1>4 DEF Closed
<1> HIDE DEF W
<1> QED
  BY <1>5, StreamCorrect

\* ... and when all packets and requests fill whole pages.
THEOREM WholePages ==
  ASSUME \A n \in Lens : \E k \in Nat : n = k * PgSz,
         \A r \in Readers : \E k \in Nat : Count[r] = k * PgSz
  PROVE  Spec => []StreamInOrder
<1> DEFINE W == {k * PgSz : k \in Int}
<1>0. PgSz \in Nat \ {0}
  BY RingAssumption
<1>1. ASSUME NEW a \in W, NEW b \in W PROVE a + b \in W /\ a - b \in W
  <2>1. PICK j \in Int : a = j * PgSz
    OBVIOUS
  <2>2. PICK k \in Int : b = k * PgSz
    OBVIOUS
  <2>3. a + b = (j + k) * PgSz /\ a - b = (j - k) * PgSz /\ j + k \in Int /\ j - k \in Int
    BY <1>0, <2>1, <2>2
  <2> QED
    BY <2>3
<1>2. 0 \in W
  <2>1. 0 = 0 * PgSz
    BY <1>0
  <2> QED
    BY <2>1
<1>3. W \subseteq Int /\ Lens \subseteq W /\ \A r \in Readers : Count[r] \in W
  <2>1. \A k \in Int : k * PgSz \in Int
    BY <1>0
  <2>2. \A r \in Readers : \E k \in Int : Count[r] = k * PgSz
    OBVIOUS
  <2>3. \A n \in Lens : \E k \in Int : n = k * PgSz
    OBVIOUS
  <2> QED
    BY <2>1, <2>2, <2>3
<1>4. ASSUME NEW w \in W, NEW j \in Nat, j * PgSz < w
      PROVE  j * PgSz + PgSz <= w
  <2>1. PICK k \in Int : w = k * PgSz
    OBVIOUS
  <2>2. j < k
    <3>1. CASE k \in Nat /\ k <= j
      <4>1. k * PgSz <= j * PgSz
        BY <1>0, <3>1, ProductLe
      <4>2. k * PgSz \in Nat /\ j * PgSz \in Nat
        BY <1>0, <3>1
      <4> QED
        BY <1>4, <2>1, <4>1, <4>2
    <3>2. CASE k < 0
      <4>1. -k \in Nat /\ (-k) * PgSz \in Nat /\ (-k) * PgSz = -(k * PgSz) /\ j * PgSz \in Nat
        BY <1>0, <3>2
      <4> QED
        BY <1>4, <2>1, <4>1
    <3> QED
      BY <3>1, <3>2
  <2> QED
    BY <1>0, <2>1, <2>2, ProductLess
<1>5. Closed(W)
  <2> HIDE DEF W
  <2> QED
    BY <1>1, <1>2, <1>3, <1>4 DEF Closed
<1> HIDE DEF W
<1> QED
  BY <1>5, StreamCorrect
=============================================================================
