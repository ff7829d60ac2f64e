---------------------------- MODULE DeviceProofs ----------------------------
(***************************************************************************)
(* Proofs about Device for every number of queues and of vectors, in all   *)
(* interrupt modes.                                                        *)
(***************************************************************************)
EXTENDS Device, SequenceTheorems, FiniteSetTheorems, TLAPS

-----------------------------------------------------------------------------
(* What the code takes for granted.                                        *)

\* A function has queues, and its probe, its configuration and its reset fail
\* where they can; "drvdata" and "queues" are not such places.
MayFail ==
  /\ 0 \notin Qsets
  /\ Faults \subseteq {"regions", "pci", "mask", "bars", "interface", "irqs", "qdev", "xpdev",
                       "chrdev", "sysfs", "vfs", "start", "reenable"}

\* What is left behind nevertheless: probe_one() does not give the device
\* numbers back when the sysfs group cannot be created.
Leak == IF "sysfs" \in Faults THEN {"chrdev"} ELSE {}

\* What is released twice nevertheless: the device that a slot reset could not
\* enable again, and the interrupt rings of a function that is reset twice.
Twice == {r \in {"pci", "coal"} : \/ r = "pci" /\ "reenable" \in Faults
                                  \/ r = "coal" /\ "aggregate" \in ResetModes}

-----------------------------------------------------------------------------
(* The inductive invariant.                                                *)

Names == Resources \cup {"pci", "mask", "interface", "queues", "coal", "reenable", "device"}
Steps ==
  ({"take", "check", "drop", "cleanup", "stop_all"} \X Names)
  \cup ({"set"} \X Qsets)
  \cup ({"add", "cdev", "start", "stop", "delete", "forget"} \X Queues)

\* Step k of those to be taken is verb v of object o.
Is(k, v, o) == todo[k][1] = v /\ todo[k][2] = o

\* The types of the variables but those that only tell of single queues.
Typed ==
  /\ mode \in Modes /\ qsets \in Qsets
  /\ res \subseteq Resources /\ enables \in 0 .. 1
  /\ ranged \in BOOLEAN /\ coalEn \in BOOLEAN /\ coal \in {"none", "live", "freed"}
  /\ queue \in [Queues -> {"free", "added", "started"}]
  /\ table \subseteq Queues
  /\ cdev \in [0 .. TableSize - 1 -> SUBSET Dirs]

\* A queue runs, or waits to be started, only in the arrays of the device.
QueuesBacked ==
  /\ \A q \in Queues : queue[q] # "free" => ranged /\ Idx(q) < qsets
  /\ ranged => "qdev" \in res

\* The rings are there from the first queue added until they are torn down,
\* just before the arrays are freed.
Rings ==
  /\ coalEn => mode = "aggregate"
  /\ coal # "none" <=> coalEn
  /\ coal = "live" => ranged
  /\ coalEn /\ "qdev" \in res =>
       \/ coal = "live"
       \/ ranged /\ todo # <<>> /\ Is(1, "drop", "qdev")
       \/ ~ranged /\ "aggregate" \in ResetModes

\* Whether a pair has its character device, and two queues, is known also while
\* the directions are not.
Cdevs ==
  \A i \in 0 .. TableSize - 1 :
    /\ cdev[i] = {} <=> \A d \in Dirs : <<d, i>> \notin table
    /\ cdev[i] = Dirs <=> \A d \in Dirs : <<d, i>> \in table

Exact == \A i \in 0 .. TableSize - 1 : cdev[i] = {d \in Dirs : <<d, i>> \in table}

\* Interrupts are requested together with the queue arrays.
Paired == "irqs" \in res <=> "qdev" \in res /\ ~Vacuous("irqs")

\* A device that was probed, with or without its queue arrays.
Bound == {"regions", "xdev", "bars", "xpdev", "chrdev", "sysfs", "drvdata"} \subseteq res
Settled ==
  /\ Bound /\ Paired /\ Exact
  /\ IF "qdev" \in res THEN \A q \in table : queue[q] # "free" ELSE table = {}

\* No queue runs.
Quiet == \A q \in Queues : queue[q] # "started"

\* The first n steps are the end of qdma_device_cleanup(), or the interrupts
\* are given back after the arrays could not be allocated.
Cleaning(n) ==
  /\ n <= Len(todo)
  /\ n = 4 => todo[1][1] = "stop_all"
  /\ n \in 3 .. 4 => Is(n - 2, "drop", "irqs") /\ ("irqs" \in res \/ Vacuous("irqs"))
  /\ n \in 2 .. 4 => Is(n - 1, "drop", "coal") /\ Is(n, "drop", "qdev") /\ "qdev" \in res
  /\ n = 2 => "irqs" \notin res
  /\ n \in 2 .. 3 => Quiet
  /\ n = 1 =>
       \/ /\ Is(1, "drop", "qdev") /\ "qdev" \in res
          /\ "irqs" \notin res /\ Quiet /\ coal # "live"
       \/ Is(1, "drop", "irqs") /\ "qdev" \notin res /\ ("irqs" \in res \/ Vacuous("irqs"))
  /\ n = 0 => Paired

\* After the first n steps everything that is held is released, once.
Releasing(n) ==
  /\ \A k \in n + 1 .. Len(todo) :
       \/ todo[k][1] \in {"cleanup", "forget"}
       \/ todo[k][1] = "drop" /\ todo[k][2] \in (Resources \cup {"pci"}) \ {"irqs", "qdev"}
  /\ \A r \in res \ Leak :
       r \notin {"irqs", "qdev"} => \E k \in n + 1 .. Len(todo) : Is(k, "drop", r)
  /\ enables = 1 => \E k \in n + 1 .. Len(todo) : Is(k, "drop", "pci")
  /\ n = 0 /\ "qdev" \in res =>
       \E k \in 1 .. Len(todo) :
         /\ todo[k][1] = "cleanup"
         /\ \A j \in 1 .. k - 1 : ~Is(j, "drop", "bars") /\ ~Is(j, "drop", "xdev")
  /\ \A k \in n + 1 .. Len(todo) : todo[k][1] = "drop" =>
       /\ \/ todo[k][2] \in Guarded \cup res
          \/ todo[k][2] = "pci" /\ (enables = 1 \/ "reenable" \in Faults)
       /\ \A j \in n + 1 .. Len(todo) : Is(j, "drop", todo[k][2]) => j = k
  /\ \A q \in table : \E k \in n + 1 .. Len(todo) : Is(k, "forget", q)

\* After the first n steps the arrays are freed, when they are there, and
\* allocated again.
Rebuilding(n) ==
  /\ op \in {"reset", "set_qmax"}
  /\ Bound /\ Exact /\ enables = 1
  /\ coalEn => "aggregate" \in ResetModes
  /\ \/ /\ n + 3 <= Len(todo)
        /\ Is(Len(todo) - 2, "take", "irqs")
        /\ Is(Len(todo) - 1, "check", "queues")
        /\ Is(Len(todo), "take", "qdev")
        /\ \A k \in n + 1 .. Len(todo) - 3 :
             \/ Is(k, "drop", "vfs") \/ todo[k][1] \in {"cleanup", "set"}
             \/ todo[k][1] = "delete" /\ op = "reset"
        /\ n = 0 /\ "qdev" \in res =>
             \E k \in 1 .. Len(todo) - 3 :
               todo[k][1] = "cleanup" /\ \A j \in 1 .. k - 1 : todo[j][1] # "set"
        /\ \A q \in table : \E k \in n + 1 .. Len(todo) - 3 : Is(k, "delete", q)
     \/ /\ Len(todo) = n + 1 /\ todo[n + 1][1] = "cleanup"
        /\ n = 0 => "qdev" \notin res
        /\ table = {}

\* The steps of qdma_device_init() after the interrupts were requested.
Initialising ==
  /\ op \in {"reset", "set_qmax"}
  /\ Bound /\ Exact /\ enables = 1
  /\ coalEn => "aggregate" \in ResetModes
  /\ "irqs" \in res <=> ~Vacuous("irqs")
  /\ "qdev" \notin res /\ table = {}
  /\ Len(todo) \in 1 .. 2 /\ Is(Len(todo), "take", "qdev")
  /\ Len(todo) = 2 => Is(1, "check", "queues")

\* Step k of the probe is next: what the steps before it acquire is held.
Acquired(k) ==
  {r \in Resources : ~Vacuous(r) /\ \E j \in 1 .. k - 1 : Probe[j] = <<"take", r>>}
Climbing ==
  \E k \in 1 .. 13 :
    /\ op = "probe" /\ Len(todo) = 14 - k
    /\ \A j \in 1 .. 14 - k : todo[j] = Probe[k - 1 + j]
    /\ Acquired(k) \subseteq res /\ res \subseteq Acquired(k) \cup Leak
    /\ enables = IF k > 2 THEN 1 ELSE 0
    /\ table = {}
    /\ k > 4 => ~coalEn

\* The device is disabled by an error and enabled by the reset of its slot.
Striking ==
  /\ op = "error" /\ Settled
  /\ \/ Len(todo) = 2 /\ Is(1, "drop", "pci") /\ Is(2, "take", "reenable") /\ enables = 1
     \/ Len(todo) = 1 /\ Is(1, "take", "reenable") /\ enables = 0

Virtualising ==
  /\ op = "sriov" /\ Settled /\ enables = 1
  /\ Len(todo) = 1 /\ todo[1][1] \in {"take", "drop"} /\ todo[1][2] = "vfs"

\* A queue gets its place in the table right after it was added.
Adding ==
  /\ op = "netlink" /\ Settled /\ enables = 1 /\ "qdev" \in res
  /\ \A k \in 1 .. Len(todo) :
       \/ todo[k][1] = "add"
       \/ /\ todo[k][1] = "cdev"
          /\ k = 1 => queue[todo[k][2]] # "free"
          /\ k # 1 => Is(k - 1, "add", todo[k][2])

Batching ==
  /\ op = "netlink" /\ Settled /\ enables = 1
  /\ \A k \in 1 .. Len(todo) : todo[k][1] \in {"start", "stop", "delete"}

\* Whatever is under way.
Plan ==
  \/ Idle /\ Settled /\ enables = 1
  \/ Climbing \/ Striking \/ Virtualising \/ Adding \/ Batching \/ Initialising
  \/ \E n \in 0 .. 4 : Cleaning(n) /\ (Releasing(n) \/ Rebuilding(n))

Kept == bad \subseteq Twice

\* An interrupt finds the device, and one of a queue that runs its ring.
Handled ==
  /\ "irqs" \in res => {"xdev", "bars"} \subseteq res
  /\ coalEn => \A q \in Queues : queue[q] = "started" => "qdev" \in res /\ coal = "live"

\* A queue runs on a device that is there and has its interrupts.
RunsBacked ==
  \A q \in Queues : queue[q] = "started" =>
    /\ {"qdev", "bars"} \subseteq res /\ Idx(q) < qsets
    /\ mode # "poll" /\ Vectors > 0 => "irqs" \in res

Base ==
  /\ Typed /\ todo \in Seq(Steps)
  /\ Kept /\ QueuesBacked /\ Rings /\ Cdevs /\ Handled /\ RunsBacked

\* The properties are about what is held, which follows from what is still to be
\* done: NothingLeft and CdevsExact are the end of Plan.
DevInv == Base /\ Plan

-----------------------------------------------------------------------------
(* Sequences of steps.                                                     *)

\* A step is taken.
LEMMA TailOf ==
  ASSUME NEW t \in Seq(Steps), t # <<>>
  PROVE  /\ Len(t) \in Nat \ {0} /\ t[1] \in Steps
         /\ Tail(t) \in Seq(Steps) /\ Len(Tail(t)) = Len(t) - 1
         /\ \A k \in 1 .. Len(t) - 1 : Tail(t)[k] = t[k + 1]
OBVIOUS

\* One plan after another.
LEMMA ConcatOf ==
  ASSUME NEW s \in Seq(Steps), NEW t \in Seq(Steps)
  PROVE  /\ s \o t \in Seq(Steps) /\ Len(s \o t) = Len(s) + Len(t)
         /\ \A k \in 1 .. Len(s) : (s \o t)[k] = s[k]
         /\ \A k \in 1 .. Len(t) : (s \o t)[Len(s) + k] = t[k]
<1>1. Len(s) \in Nat /\ Len(t) \in Nat
  OBVIOUS
<1>2. ASSUME NEW k \in 1 .. Len(s)
      PROVE  k \in 1 .. Len(s) + Len(t) /\ k <= Len(s)
  BY <1>1
<1>3. ASSUME NEW k \in 1 .. Len(t)
      PROVE  /\ Len(s) + k \in 1 .. Len(s) + Len(t)
             /\ ~(Len(s) + k <= Len(s)) /\ (Len(s) + k) - Len(s) = k
  BY <1>1
<1> QED
  BY <1>2, <1>3, ConcatProperties

\* The steps there are.
LEMMA StepsAre ==
  /\ \A v \in {"take", "check", "drop", "cleanup", "stop_all"}, r \in Names : <<v, r>> \in Steps
  /\ \A n \in Qsets : <<"set", n>> \in Steps
  /\ \A v \in {"add", "cdev", "start", "stop", "delete", "forget"}, q \in Queues : <<v, q>> \in Steps
BY DEF Steps

\* qdma_device_cleanup().
LEMMA CleanupIs ==
  /\ Cleanup \in Seq(Steps) /\ Len(Cleanup) = 4
  /\ Cleanup[1] = <<"stop_all", "device">> /\ Cleanup[2] = <<"drop", "irqs">>
  /\ Cleanup[3] = <<"drop", "coal">> /\ Cleanup[4] = <<"drop", "qdev">>
BY StepsAre DEF Cleanup, Names, Resources

\* qdma_device_init().
LEMMA InitDeviceIs ==
  /\ InitDevice \in Seq(Steps) /\ Len(InitDevice) = 3
  /\ InitDevice[1] = <<"take", "irqs">> /\ InitDevice[2] = <<"check", "queues">>
  /\ InitDevice[3] = <<"take", "qdev">>
BY StepsAre DEF InitDevice, Names, Resources

\* qdma_device_offline().
LEMMA OfflineIs ==
  /\ Offline \in Seq(Steps) /\ Len(Offline) = 2
  /\ Offline[1] = <<"drop", "vfs">> /\ Offline[2] = <<"cleanup", "device">>
BY StepsAre DEF Offline, Names, Resources

\* qdma_device_close().
LEMMA CloseIs ==
  /\ Close \in Seq(Steps) /\ Len(Close) = 6
  /\ Close[1] = <<"drop", "vfs">> /\ Close[2] = <<"cleanup", "device">>
  /\ Close[3] = <<"drop", "bars">> /\ Close[4] = <<"drop", "regions">>
  /\ Close[5] = <<"drop", "pci">> /\ Close[6] = <<"drop", "xdev">>
<1> DEFINE e == << <<"drop", "bars">>, <<"drop", "regions">>, <<"drop", "pci">>, <<"drop", "xdev">> >>
<1>1. e \in Seq(Steps) /\ Len(e) = 4
  BY StepsAre DEF Names, Resources
<1>2. /\ e[1] = <<"drop", "bars">> /\ e[2] = <<"drop", "regions">>
      /\ e[3] = <<"drop", "pci">> /\ e[4] = <<"drop", "xdev">>
  OBVIOUS
<1>3. Close = Offline \o e
  BY DEF Close
<1> HIDE DEF e
<1>4. /\ Close \in Seq(Steps) /\ Len(Close) = 2 + 4
      /\ \A k \in 1 .. 2 : Close[k] = Offline[k]
      /\ \A k \in 1 .. 4 : Close[2 + k] = e[k]
  <2>1. /\ Close \in Seq(Steps) /\ Len(Close) = Len(Offline) + Len(e)
        /\ \A k \in 1 .. Len(Offline) : Close[k] = Offline[k]
        /\ \A k \in 1 .. Len(e) : Close[Len(Offline) + k] = e[k]
    BY <1>1, <1>3, OfflineIs, ConcatOf
  <2> QED
    BY <1>1, <1>3, OfflineIs, <2>1
<1>5. /\ Close[1] = Offline[1] /\ Close[2] = Offline[2]
      /\ Close[2 + 1] = e[1] /\ Close[2 + 2] = e[2] /\ Close[2 + 3] = e[3] /\ Close[2 + 4] = e[4]
  BY <1>4
<1> QED
  BY <1>2, <1>4, <1>5, OfflineIs

\* probe_one().
LEMMA ProbeIs ==
  /\ Probe \in Seq(Steps) /\ Len(Probe) = 13
  /\ Probe[1] = <<"take", "regions">> /\ Probe[2] = <<"take", "pci">>
  /\ Probe[3] = <<"check", "mask">> /\ Probe[4] = <<"take", "xdev">>
  /\ Probe[5] = <<"take", "bars">> /\ Probe[6] = <<"check", "interface">>
  /\ Probe[7] = <<"take", "irqs">> /\ Probe[8] = <<"check", "queues">>
  /\ Probe[9] = <<"take", "qdev">> /\ Probe[10] = <<"take", "xpdev">>
  /\ Probe[11] = <<"take", "chrdev">> /\ Probe[12] = <<"take", "sysfs">>
  /\ Probe[13] = <<"take", "drvdata">>
<1> DEFINE a == << <<"take", "regions">>, <<"take", "pci">>, <<"check", "mask">>, <<"take", "xdev">>,
                   <<"take", "bars">>, <<"check", "interface">> >>
           b == << <<"take", "xpdev">>, <<"take", "chrdev">>, <<"take", "sysfs">>, <<"take", "drvdata">> >>
<1>1. a \in Seq(Steps) /\ Len(a) = 6 /\ b \in Seq(Steps) /\ Len(b) = 4
  BY StepsAre DEF Names, Resources
<1>2. /\ a[1] = <<"take", "regions">> /\ a[2] = <<"take", "pci">> /\ a[3] = <<"check", "mask">>
      /\ a[4] = <<"take", "xdev">> /\ a[5] = <<"take", "bars">> /\ a[6] = <<"check", "interface">>
      /\ b[1] = <<"take", "xpdev">> /\ b[2] = <<"take", "chrdev">> /\ b[3] = <<"take", "sysfs">>
      /\ b[4] = <<"take", "drvdata">>
  OBVIOUS
<1>3. Probe = (a \o InitDevice) \o b
  BY <1>1, InitDeviceIs DEF Probe, Online
<1> HIDE DEF a, b
<1> DEFINE c == a \o InitDevice
<1>5. c = a \o InitDevice /\ Probe = c \o b
  BY <1>3
<1> HIDE DEF c
<1>4. /\ c \in Seq(Steps) /\ Len(c) = 6 + 3
      /\ \A k \in 1 .. 6 : c[k] = a[k]
      /\ \A k \in 1 .. 3 : c[6 + k] = InitDevice[k]
  <2>1. /\ c \in Seq(Steps) /\ Len(c) = Len(a) + Len(InitDevice)
        /\ \A k \in 1 .. Len(a) : c[k] = a[k]
        /\ \A k \in 1 .. Len(InitDevice) : c[Len(a) + k] = InitDevice[k]
    <3>1. a \in Seq(Steps) /\ InitDevice \in Seq(Steps)
      BY <1>1, InitDeviceIs
    <3> QED
      BY <1>5, <3>1, ConcatOf
  <2> QED
    BY <1>1, <1>5, InitDeviceIs, <2>1
<1>11. c \in Seq(Steps) /\ Len(c) = 9 /\ Probe = c \o b
  BY <1>4, <1>5
<1>6. /\ Probe \in Seq(Steps) /\ Len(Probe) = 9 + 4
      /\ \A k \in 1 .. 9 : Probe[k] = c[k]
      /\ \A k \in 1 .. 4 : Probe[9 + k] = b[k]
  <2>1. /\ Probe \in Seq(Steps) /\ Len(Probe) = Len(c) + Len(b)
        /\ \A k \in 1 .. Len(c) : Probe[k] = c[k]
        /\ \A k \in 1 .. Len(b) : Probe[Len(c) + k] = b[k]
    BY <1>1, <1>11, ConcatOf
  <2> QED
    BY <1>1, <1>11, <2>1
<1>7. /\ Probe[1] = a[1] /\ Probe[2] = a[2] /\ Probe[3] = a[3]
      /\ Probe[4] = a[4] /\ Probe[5] = a[5] /\ Probe[6] = a[6]
  BY <1>4, <1>6
<1>8. Probe[7] = c[6 + 1] /\ Probe[8] = c[6 + 2] /\ Probe[9] = c[6 + 3]
  BY <1>6
<1>9. c[6 + 1] = InitDevice[1] /\ c[6 + 2] = InitDevice[2] /\ c[6 + 3] = InitDevice[3]
  BY <1>4
<1>10. Probe[9 + 1] = b[1] /\ Probe[9 + 2] = b[2] /\ Probe[9 + 3] = b[3] /\ Probe[9 + 4] = b[4]
  BY <1>6
<1> QED
  BY <1>2, <1>6, <1>7, <1>8, <1>9, <1>10, InitDeviceIs

\* One step before a plan.
LEMMA ConsOf ==
  ASSUME NEW x \in Steps, NEW t \in Seq(Steps)
  PROVE  /\ <<x>> \o t \in Seq(Steps) /\ Len(<<x>> \o t) = Len(t) + 1
         /\ (<<x>> \o t)[1] = x
         /\ \A k \in 1 .. Len(t) : (<<x>> \o t)[k + 1] = t[k]
<1> DEFINE s == <<x>>
<1>1. s \in Seq(Steps) /\ Len(s) = 1 /\ s[1] = x
  OBVIOUS
<1>2. Len(t) \in Nat
  OBVIOUS
<1> HIDE DEF s
<1>3. /\ s \o t \in Seq(Steps) /\ Len(s \o t) = Len(s) + Len(t)
      /\ \A k \in 1 .. Len(s) : (s \o t)[k] = s[k]
      /\ \A k \in 1 .. Len(t) : (s \o t)[Len(s) + k] = t[k]
  BY <1>1, ConcatOf
<1>4. /\ s \o t \in Seq(Steps) /\ Len(s \o t) = Len(t) + 1 /\ (s \o t)[1] = x
  BY <1>1, <1>2, <1>3
<1>5. ASSUME NEW k \in 1 .. Len(t) PROVE (s \o t)[k + 1] = t[k]
  <2>1. k + 1 = Len(s) + k
    BY <1>1, <1>2
  <2> QED
    BY <1>3, <2>1
<1> QED
  BY <1>4, <1>5 DEF s

\* One step after a plan.
LEMMA AppendOf ==
  ASSUME NEW x \in Steps, NEW t \in Seq(Steps)
  PROVE  /\ t \o <<x>> \in Seq(Steps) /\ Len(t \o <<x>>) = Len(t) + 1
         /\ (t \o <<x>>)[Len(t) + 1] = x
         /\ \A k \in 1 .. Len(t) : (t \o <<x>>)[k] = t[k]
<1> DEFINE s == <<x>>
<1>1. s \in Seq(Steps) /\ Len(s) = 1 /\ s[1] = x
  OBVIOUS
<1>2. Len(t) \in Nat
  OBVIOUS
<1> HIDE DEF s
<1>3. /\ t \o s \in Seq(Steps) /\ Len(t \o s) = Len(t) + Len(s)
      /\ \A k \in 1 .. Len(t) : (t \o s)[k] = t[k]
      /\ \A k \in 1 .. Len(s) : (t \o s)[Len(t) + k] = s[k]
  BY <1>1, ConcatOf
<1> QED
  BY <1>1, <1>2, <1>3 DEF s

\* The labels of probe_one() and qdma_device_open().
LEMMA UnmapBarsIs ==
  /\ UnmapBars \in Seq(Steps) /\ Len(UnmapBars) = 4
  /\ UnmapBars[1] = <<"drop", "bars">> /\ UnmapBars[2] = <<"drop", "xdev">>
  /\ UnmapBars[3] = <<"drop", "pci">> /\ UnmapBars[4] = <<"drop", "regions">>
  /\ DisableDevice \in Seq(Steps) /\ Len(DisableDevice) = 2
  /\ DisableDevice[1] = <<"drop", "pci">> /\ DisableDevice[2] = <<"drop", "regions">>
  /\ ReleaseRegions \in Seq(Steps) /\ Len(ReleaseRegions) = 1
  /\ ReleaseRegions[1] = <<"drop", "regions">>
<1> DEFINE a == << <<"drop", "bars">>, <<"drop", "xdev">> >>
<1>1. /\ <<"drop", "pci">> \in Steps
      /\ ReleaseRegions \in Seq(Steps) /\ Len(ReleaseRegions) = 1
      /\ ReleaseRegions[1] = <<"drop", "regions">>
      /\ a \in Seq(Steps) /\ Len(a) = 2 /\ a[1] = <<"drop", "bars">> /\ a[2] = <<"drop", "xdev">>
  BY StepsAre DEF ReleaseRegions, Names, Resources
<1>2. DisableDevice = << <<"drop", "pci">> >> \o ReleaseRegions /\ UnmapBars = a \o DisableDevice
  BY DEF DisableDevice, UnmapBars
<1> HIDE DEF a
<1>3. /\ DisableDevice \in Seq(Steps) /\ Len(DisableDevice) = Len(ReleaseRegions) + 1
      /\ DisableDevice[1] = <<"drop", "pci">>
      /\ \A k \in 1 .. Len(ReleaseRegions) : DisableDevice[k + 1] = ReleaseRegions[k]
  BY <1>1, <1>2, ConsOf
<1>4. /\ DisableDevice \in Seq(Steps) /\ Len(DisableDevice) = 2
      /\ DisableDevice[1] = <<"drop", "pci">> /\ DisableDevice[2] = <<"drop", "regions">>
  BY <1>1, <1>3
<1>5. /\ UnmapBars \in Seq(Steps) /\ Len(UnmapBars) = Len(a) + Len(DisableDevice)
      /\ \A k \in 1 .. Len(a) : UnmapBars[k] = a[k]
      /\ \A k \in 1 .. Len(DisableDevice) : UnmapBars[Len(a) + k] = DisableDevice[k]
  BY <1>1, <1>2, <1>4, ConcatOf
<1> QED
  BY <1>1, <1>4, <1>5

LEMMA CleanupQdmaIs ==
  /\ CleanupQdma \in Seq(Steps) /\ Len(CleanupQdma) = 7
  /\ CleanupQdma[1] = <<"cleanup", "device">> /\ CleanupQdma[2] = <<"drop", "vfs">>
  /\ CleanupQdma[3] = <<"cleanup", "device">>
  /\ CleanupQdma[4] = <<"drop", "bars">> /\ CleanupQdma[5] = <<"drop", "xdev">>
  /\ CleanupQdma[6] = <<"drop", "pci">> /\ CleanupQdma[7] = <<"drop", "regions">>
<1> DEFINE a == << <<"cleanup", "device">> >> \o Offline
<1>1. <<"cleanup", "device">> \in Steps
  BY StepsAre DEF Names
<1>2. CleanupQdma = a \o UnmapBars
  BY DEF CleanupQdma
<1>3. /\ a \in Seq(Steps) /\ Len(a) = Len(Offline) + 1 /\ a[1] = <<"cleanup", "device">>
      /\ \A k \in 1 .. Len(Offline) : a[k + 1] = Offline[k]
  BY <1>1, OfflineIs, ConsOf
<1> HIDE DEF a
<1>4. /\ a \in Seq(Steps) /\ Len(a) = 3 /\ a[1] = <<"cleanup", "device">>
      /\ a[2] = <<"drop", "vfs">> /\ a[3] = <<"cleanup", "device">>
  BY <1>3, OfflineIs
<1>5. /\ CleanupQdma \in Seq(Steps) /\ Len(CleanupQdma) = Len(a) + Len(UnmapBars)
      /\ \A k \in 1 .. Len(a) : CleanupQdma[k] = a[k]
      /\ \A k \in 1 .. Len(UnmapBars) : CleanupQdma[Len(a) + k] = UnmapBars[k]
  BY <1>2, <1>4, UnmapBarsIs, ConcatOf
<1>6. /\ UnmapBars[1] = <<"drop", "bars">> /\ UnmapBars[2] = <<"drop", "xdev">>
      /\ UnmapBars[3] = <<"drop", "pci">> /\ UnmapBars[4] = <<"drop", "regions">>
      /\ Len(UnmapBars) = 4
  BY UnmapBarsIs
<1> QED
  BY <1>4, <1>5, <1>6

\* qdma_reset_prepare() and qdma_reset_done().
LEMMA ResetIs ==
  /\ Reset \in Seq(Steps) /\ Len(Reset) = 2 * TableSize + 5
  /\ Reset[1] = <<"drop", "vfs">> /\ Reset[2] = <<"cleanup", "device">>
  /\ \A k \in 1 .. 2 * TableSize : Reset[2 + k][1] = "delete"
  /\ \A q \in Queues : \E k \in 1 .. 2 * TableSize : Reset[2 + k] = <<"delete", q>>
  /\ \A k \in 1 .. 3 : Reset[2 * TableSize + 2 + k] = InitDevice[k]
<1> DEFINE n == 2 * TableSize
           d == For("delete", PairOrder)
<1>1. n \in Nat /\ TableSize \in Nat
  BY QsetsAssumption
<1>2. ASSUME NEW k \in 1 .. n
      PROVE  /\ PairOrder[k] = <<IF k % 2 = 1 THEN "h2c" ELSE "c2h", (k - 1) \div 2>>
             /\ PairOrder[k] \in Queues
  <2>1. (k - 1) \div 2 \in 0 .. TableSize - 1
    BY <1>1
  <2> QED
    BY <2>1 DEF PairOrder, Queues, Dirs
<1>3. DOMAIN PairOrder = 1 .. n
  BY DEF PairOrder
<1>4. d = [k \in 1 .. n |-> <<"delete", PairOrder[k]>>]
  BY <1>3 DEF For
<1>5. /\ d \in Seq(Steps) /\ Len(d) = n
      /\ \A k \in 1 .. n : d[k] = <<"delete", PairOrder[k]>>
  <2>1. \A k \in 1 .. n : <<"delete", PairOrder[k]>> \in Steps
    BY <1>2, StepsAre
  <2> HIDE DEF n
  <2> QED
    BY <1>1, <1>4, <2>1
<1>6. ASSUME NEW q \in Queues PROVE \E k \in 1 .. n : d[k] = <<"delete", q>>
  <2>1. PICK v \in Dirs, i \in 0 .. TableSize - 1 : q = <<v, i>>
    BY DEF Queues
  <2> DEFINE k == IF v = "h2c" THEN 2 * i + 1 ELSE 2 * i + 2
  <2>2. k \in 1 .. n /\ (k - 1) \div 2 = i
    BY <1>1, <2>1
  <2>3. k % 2 = 1 <=> v = "h2c"
    BY <1>1, <2>1
  <2>4. (IF k % 2 = 1 THEN "h2c" ELSE "c2h") = v
    BY <2>3 DEF Dirs
  <2> HIDE DEF k, n, d
  <2>5. PairOrder[k] = q
    BY <1>2, <2>1, <2>2, <2>4
  <2> QED
    BY <1>5, <2>2, <2>5
<1> HIDE DEF d
<1> DEFINE a == Offline \o d
<1>7. Reset = a \o InitDevice
  BY DEF Reset, Online, d
<1>8. /\ a \in Seq(Steps) /\ Len(a) = Len(Offline) + Len(d)
      /\ \A k \in 1 .. Len(Offline) : a[k] = Offline[k]
      /\ \A k \in 1 .. Len(d) : a[Len(Offline) + k] = d[k]
  BY <1>5, OfflineIs, ConcatOf
<1> HIDE DEF a, n
<1>9. /\ a \in Seq(Steps) /\ Len(a) = n + 2
      /\ a[1] = <<"drop", "vfs">> /\ a[2] = <<"cleanup", "device">>
      /\ \A k \in 1 .. n : a[2 + k] = d[k]
  BY <1>1, <1>5, <1>8, OfflineIs
<1>10. /\ Reset \in Seq(Steps) /\ Len(Reset) = Len(a) + Len(InitDevice)
       /\ \A k \in 1 .. Len(a) : Reset[k] = a[k]
       /\ \A k \in 1 .. Len(InitDevice) : Reset[Len(a) + k] = InitDevice[k]
  BY <1>7, <1>9, InitDeviceIs, ConcatOf
<1>11. \A k \in 1 .. n : 2 + k \in 1 .. Len(a) /\ Reset[2 + k] = d[k]
  BY <1>1, <1>9, <1>10
<1>12. Reset \in Seq(Steps) /\ Len(Reset) = n + 5 /\ Reset[1] = a[1] /\ Reset[2] = a[2]
  BY <1>1, <1>9, <1>10, InitDeviceIs
<1>13. \A k \in 1 .. 3 : Reset[n + 2 + k] = InitDevice[k]
  BY <1>9, <1>10, InitDeviceIs
<1>14. \A k \in 1 .. n : Reset[2 + k][1] = "delete"
  BY <1>5, <1>11
<1>15. \A q \in Queues : \E k \in 1 .. n : Reset[2 + k] = <<"delete", q>>
  BY <1>6, <1>11
<1> QED
  BY <1>9, <1>12, <1>13, <1>14, <1>15 DEF n

\* remove_one().
LEMMA RemoveIs ==
  /\ Remove \in Seq(Steps) /\ Len(Remove) = 2 * TableSize + 10
  /\ Remove[1] = <<"drop", "sysfs">> /\ Remove[2] = <<"drop", "chrdev">>
  /\ \A k \in 1 .. 2 * TableSize : Remove[2 + k][1] = "forget"
  /\ \A q \in Queues : \E k \in 1 .. 2 * TableSize : Remove[2 + k] = <<"forget", q>>
  /\ \A k \in 1 .. 6 : Remove[2 * TableSize + 2 + k] = Close[k]
  /\ Remove[2 * TableSize + 9] = <<"drop", "xpdev">>
  /\ Remove[2 * TableSize + 10] = <<"drop", "drvdata">>
<1> DEFINE n == 2 * TableSize
           d == For("forget", TableOrder)
           h == << <<"drop", "sysfs">>, <<"drop", "chrdev">> >>
           e == << <<"drop", "xpdev">>, <<"drop", "drvdata">> >>
<1>1. n \in Nat /\ TableSize \in Nat
  BY QsetsAssumption
<1>2. ASSUME NEW k \in 1 .. n
      PROVE  /\ TableOrder[k] = <<IF k <= TableSize THEN "h2c" ELSE "c2h", (k - 1) % TableSize>>
             /\ TableOrder[k] \in Queues
  <2>1. TableSize > 0
    BY <1>1
  <2>2. (k - 1) % TableSize \in 0 .. TableSize - 1
    BY <1>1, <2>1
  <2> QED
    BY <2>2 DEF TableOrder, Queues, Dirs
<1>3. DOMAIN TableOrder = 1 .. n
  BY DEF TableOrder
<1>4. d = [k \in 1 .. n |-> <<"forget", TableOrder[k]>>]
  BY <1>3 DEF For
<1>5. /\ d \in Seq(Steps) /\ Len(d) = n
      /\ \A k \in 1 .. n : d[k] = <<"forget", TableOrder[k]>>
  <2>1. \A k \in 1 .. n : <<"forget", TableOrder[k]>> \in Steps
    BY <1>2, StepsAre
  <2> HIDE DEF n
  <2> QED
    BY <1>1, <1>4, <2>1
<1>6. ASSUME NEW q \in Queues PROVE \E k \in 1 .. n : d[k] = <<"forget", q>>
  <2>1. PICK v \in Dirs, i \in 0 .. TableSize - 1 : q = <<v, i>>
    BY DEF Queues
  <2> DEFINE k == IF v = "h2c" THEN i + 1 ELSE TableSize + i + 1
  <2>2. k \in 1 .. n /\ (k <= TableSize <=> v = "h2c")
    BY <1>1, <2>1
  <2>3. (k - 1) % TableSize = i
    <3>1. i % TableSize = i
      BY <1>1
    <3>2. (TableSize + i) % TableSize = i
      BY <1>1
    <3>3. k - 1 = i \/ k - 1 = TableSize + i
      BY <1>1, <2>1
    <3> HIDE DEF k
    <3> QED
      BY <3>1, <3>2, <3>3
  <2>4. (IF k <= TableSize THEN "h2c" ELSE "c2h") = v
    BY <2>2 DEF Dirs
  <2> HIDE DEF k, n, d
  <2>5. TableOrder[k] = q
    BY <1>2, <2>1, <2>2, <2>3, <2>4
  <2> QED
    BY <1>5, <2>2, <2>5
<1>7. /\ h \in Seq(Steps) /\ Len(h) = 2 /\ h[1] = <<"drop", "sysfs">> /\ h[2] = <<"drop", "chrdev">>
      /\ e \in Seq(Steps) /\ Len(e) = 2 /\ e[1] = <<"drop", "xpdev">> /\ e[2] = <<"drop", "drvdata">>
  BY StepsAre DEF Names, Resources
<1> DEFINE a == h \o d
           b == a \o Close
<1>8. Remove = b \o e
  BY DEF Remove
<1> HIDE DEF d, h, e
<1>9. /\ a \in Seq(Steps) /\ Len(a) = Len(h) + Len(d)
      /\ \A k \in 1 .. Len(h) : a[k] = h[k]
      /\ \A k \in 1 .. Len(d) : a[Len(h) + k] = d[k]
  BY <1>5, <1>7, ConcatOf
<1>10. b = a \o Close
  OBVIOUS
<1> HIDE DEF a, b, n
<1>11. /\ a \in Seq(Steps) /\ Len(a) = n + 2
       /\ a[1] = <<"drop", "sysfs">> /\ a[2] = <<"drop", "chrdev">>
       /\ \A k \in 1 .. n : a[2 + k] = d[k]
  BY <1>1, <1>5, <1>7, <1>9
<1>12. /\ b \in Seq(Steps) /\ Len(b) = Len(a) + Len(Close)
       /\ \A k \in 1 .. Len(a) : b[k] = a[k]
       /\ \A k \in 1 .. Len(Close) : b[Len(a) + k] = Close[k]
  BY <1>10, <1>11, CloseIs, ConcatOf
<1>13. b \in Seq(Steps) /\ Len(b) = n + 8
  BY <1>1, <1>11, <1>12, CloseIs
<1>14. /\ Remove \in Seq(Steps) /\ Len(Remove) = Len(b) + Len(e)
       /\ \A k \in 1 .. Len(b) : Remove[k] = b[k]
       /\ \A k \in 1 .. Len(e) : Remove[Len(b) + k] = e[k]
  BY <1>7, <1>8, <1>13, ConcatOf
<1>15. \A k \in 1 .. Len(a) : Remove[k] = a[k]
  BY <1>1, <1>11, <1>12, <1>13, <1>14
<1>16. \A k \in 1 .. n : 2 + k \in 1 .. Len(a) /\ Remove[2 + k] = d[k]
  BY <1>1, <1>11, <1>15
<1>17. Remove \in Seq(Steps) /\ Len(Remove) = n + 10 /\ Remove[1] = a[1] /\ Remove[2] = a[2]
  BY <1>1, <1>7, <1>11, <1>13, <1>14, <1>15
<1>18. \A k \in 1 .. 6 : Remove[n + 2 + k] = Close[k]
  <2>1. \A k \in 1 .. 6 : n + 2 + k \in 1 .. Len(b) /\ Len(a) + k = n + 2 + k
    BY <1>1, <1>11, <1>13
  <2>2. \A k \in 1 .. 6 : b[Len(a) + k] = Close[k]
    BY <1>12, CloseIs
  <2> QED
    BY <1>14, <2>1, <2>2
<1>19. Remove[n + 9] = <<"drop", "xpdev">> /\ Remove[n + 10] = <<"drop", "drvdata">>
  <2>1. Len(b) + 1 = n + 9 /\ Len(b) + 2 = n + 10
    BY <1>1, <1>13
  <2>2. Remove[Len(b) + 1] = e[1] /\ Remove[Len(b) + 2] = e[2]
    BY <1>7, <1>14
  <2> QED
    BY <1>7, <2>1, <2>2
<1>20. \A k \in 1 .. n : Remove[2 + k][1] = "forget"
  BY <1>5, <1>16
<1>21. \A q \in Queues : \E k \in 1 .. n : Remove[2 + k] = <<"forget", q>>
  BY <1>6, <1>16
<1> QED
  BY <1>11, <1>17, <1>18, <1>19, <1>20, <1>21 DEF n

\* set_qmax() of sysfs.
LEMMA SetQmaxIs ==
  ASSUME NEW n \in Qsets
  PROVE  /\ SetQmax(n) \in Seq(Steps) /\ Len(SetQmax(n)) = 5
         /\ SetQmax(n)[1] = <<"cleanup", "device">> /\ SetQmax(n)[2] = <<"set", n>>
         /\ SetQmax(n)[3] = <<"take", "irqs">> /\ SetQmax(n)[4] = <<"check", "queues">>
         /\ SetQmax(n)[5] = <<"take", "qdev">>
<1> DEFINE a == << <<"cleanup", "device">>, <<"set", n>> >>
           s == SetQmax(n)
<1>1. /\ a \in Seq(Steps) /\ Len(a) = 2 /\ a[1] = <<"cleanup", "device">> /\ a[2] = <<"set", n>>
  <2>1. <<"cleanup", "device">> \in Steps /\ <<"set", n>> \in Steps
    BY StepsAre DEF Names
  <2> QED
    BY <2>1
<1>2. s = a \o InitDevice
  BY DEF SetQmax
<1> HIDE DEF a, s
<1>3. /\ s \in Seq(Steps) /\ Len(s) = Len(a) + Len(InitDevice)
      /\ \A k \in 1 .. Len(a) : s[k] = a[k]
      /\ \A k \in 1 .. Len(InitDevice) : s[Len(a) + k] = InitDevice[k]
  BY <1>1, <1>2, InitDeviceIs, ConcatOf
<1>4. s[1] = a[1] /\ s[2] = a[2] /\ Len(s) = 5
  BY <1>1, <1>3, InitDeviceIs
<1>5. s[2 + 1] = InitDevice[1] /\ s[2 + 2] = InitDevice[2] /\ s[2 + 3] = InitDevice[3]
  BY <1>1, <1>3, InitDeviceIs
<1> QED
  BY <1>1, <1>3, <1>4, <1>5, InitDeviceIs DEF s

\* The queues of a netlink request are in the table of the module.
LEMMA BatchIs ==
  ASSUME NEW first \in 0 .. TableSize - 1, NEW num \in 1 .. TableSize, NEW dirs \in QueueDirs,
         first + num <= TableSize, NEW verb
  PROVE  LET n == num * Len(dirs)
         IN  /\ n \in Nat
             /\ DOMAIN Batch(verb, first, num, dirs) = 1 .. n
             /\ \A k \in 1 .. n : /\ Batch(verb, first, num, dirs)[k][1] = verb
                                  /\ Batch(verb, first, num, dirs)[k][2] \in Queues
                                  /\ Batch(verb, first, num, dirs)[k] =
                                       <<verb, Batch(verb, first, num, dirs)[k][2]>>
<1> DEFINE l == Len(dirs)
           n == num * l
<1>0. TableSize \in Nat
  BY QsetsAssumption
<1>1. l \in {1, 2} /\ \A j \in 1 .. l : dirs[j] \in Dirs
  BY DEF QueueDirs, Dirs
<1>2. n \in Nat
  BY <1>0, <1>1
<1>3. ASSUME NEW k \in 1 .. n
      PROVE  <<dirs[((k - 1) % l) + 1], first + ((k - 1) \div l)>> \in Queues
  <2>1. ((k - 1) % l) + 1 \in 1 .. l
    BY <1>1, <1>2
  <2>2. (k - 1) \div l \in 0 .. num - 1
    <3>1. CASE l = 1
      BY <1>0, <3>1
    <3>2. CASE l = 2
      BY <1>0, <3>2
    <3> QED
      BY <1>1, <3>1, <3>2
  <2>3. first + ((k - 1) \div l) \in 0 .. TableSize - 1
    BY <1>0, <2>2
  <2> QED
    BY <1>1, <2>1, <2>3 DEF Queues
<1> QED
  BY <1>2, <1>3 DEF Batch

LEMMA BatchSteps ==
  ASSUME NEW first \in 0 .. TableSize - 1, NEW num \in 1 .. TableSize, NEW dirs \in QueueDirs,
         first + num <= TableSize, NEW verb \in {"start", "stop", "delete"}
  PROVE  /\ Batch(verb, first, num, dirs) \in Seq(Steps)
         /\ \A k \in 1 .. Len(Batch(verb, first, num, dirs)) :
              Batch(verb, first, num, dirs)[k][1] = verb
<1> DEFINE b == Batch(verb, first, num, dirs)
           n == num * Len(dirs)
<1>1. /\ n \in Nat /\ DOMAIN b = 1 .. n
      /\ \A k \in 1 .. n : b[k][1] = verb /\ b[k][2] \in Queues /\ b[k] = <<verb, b[k][2]>>
  BY BatchIs
<1>2. ASSUME NEW k \in 1 .. n PROVE b[k] \in Steps
  <2>1. <<verb, b[k][2]>> \in Steps
    BY <1>1, StepsAre
  <2> QED
    BY <1>1, <2>1
<1>3. b = [k \in 1 .. n |-> b[k]]
  BY DEF Batch
<1> HIDE DEF b, n
<1>4. b \in [1 .. n -> Steps]
  BY <1>2, <1>3
<1>5. b \in Seq(Steps) /\ Len(b) = n
  BY <1>1, <1>4
<1> QED
  BY <1>1, <1>5 DEF b

\* xpdev_queue_add() for each of them.
LEMMA AddSteps ==
  ASSUME NEW first \in 0 .. TableSize - 1, NEW num \in 1 .. TableSize, NEW dirs \in QueueDirs,
         first + num <= TableSize
  PROVE  /\ AddBatch(first, num, dirs) \in Seq(Steps)
         /\ \A k \in 1 .. Len(AddBatch(first, num, dirs)) :
              \/ AddBatch(first, num, dirs)[k][1] = "add"
              \/ /\ AddBatch(first, num, dirs)[k][1] = "cdev" /\ k # 1
                 /\ AddBatch(first, num, dirs)[k - 1] = <<"add", AddBatch(first, num, dirs)[k][2]>>
<1> DEFINE b == Batch("add", first, num, dirs)
           n == num * Len(dirs)
           a == AddBatch(first, num, dirs)
           V(k) == IF k % 2 = 1 THEN "add" ELSE "cdev"
           Q(k) == b[(k + 1) \div 2][2]
<1>1. n \in Nat /\ \A k \in 1 .. n : b[k][2] \in Queues
  BY BatchIs
<1>2. a = [k \in 1 .. 2 * n |-> <<V(k), Q(k)>>]
  <2>1. 2 * num * Len(dirs) = 2 * n
    <3>1. Len(dirs) \in {1, 2}
      BY DEF QueueDirs
    <3> QED
      BY <3>1
  <2> QED
    BY <2>1 DEF AddBatch
<1> HIDE DEF b, n, a
<1>3. ASSUME NEW k \in 1 .. 2 * n PROVE Q(k) \in Queues
  <2>1. (k + 1) \div 2 \in 1 .. n
    BY <1>1
  <2> QED
    BY <1>1, <2>1
<1>4. ASSUME NEW k \in 1 .. 2 * n, k % 2 # 1
      PROVE  /\ k # 1 /\ k - 1 \in 1 .. 2 * n /\ (k - 1) % 2 = 1
             /\ ((k - 1) + 1) \div 2 = (k + 1) \div 2
  BY <1>1, <1>4
<1>5. \A k \in 1 .. 2 * n : <<V(k), Q(k)>> \in Steps
  BY <1>3, StepsAre
<1>6. a \in [1 .. 2 * n -> Steps] /\ 2 * n \in Nat
  BY <1>1, <1>2, <1>5
<1>7. a \in Seq(Steps) /\ Len(a) = 2 * n /\ \A k \in 1 .. 2 * n : a[k] = <<V(k), Q(k)>>
  <2>1. \A k \in 1 .. 2 * n : a[k] = <<V(k), Q(k)>>
    BY <1>2
  <2> HIDE DEF V, Q
  <2> QED
    BY <1>6, <2>1
<1>8. ASSUME NEW k \in 1 .. 2 * n, k % 2 # 1
      PROVE  a[k][1] = "cdev" /\ k # 1 /\ a[k - 1] = <<"add", a[k][2]>>
  <2>1. a[k] = <<"cdev", Q(k)>>
    BY <1>7, <1>8
  <2>2. a[k - 1] = <<"add", Q(k - 1)>>
    BY <1>4, <1>7, <1>8
  <2>3. Q(k - 1) = Q(k)
    BY <1>4, <1>8
  <2> QED
    BY <1>4, <1>8, <2>1, <2>2, <2>3
<1>9. ASSUME NEW k \in 1 .. 2 * n, k % 2 = 1 PROVE a[k][1] = "add"
  BY <1>7, <1>9
<1> QED
  BY <1>7, <1>8, <1>9 DEF a

-----------------------------------------------------------------------------
(* Plans that release.                                                     *)

\* Plan p drops each member of R, once, and nothing else.
Drops(p, R) ==
  /\ p \in Seq(Steps)
  /\ \A k \in 1 .. Len(p) :
       \/ p[k][1] \in {"cleanup", "forget"}
       \/ p[k][1] = "drop" /\ p[k][2] \in R
  /\ \A r \in R : \E k \in 1 .. Len(p) : p[k][1] = "drop" /\ p[k][2] = r
  /\ \A j, k \in 1 .. Len(p) : p[j][1] = "drop" /\ p[k][1] = "drop" /\ p[j][2] = p[k][2] => j = k

\* The error paths of the probe.
LEMMA UnwindDrops ==
  /\ Drops(<<>>, {})
  /\ Drops(ReleaseRegions, {"regions"})
  /\ Drops(DisableDevice, {"pci", "regions"})
  /\ Drops(UnmapBars, {"bars", "xdev", "pci", "regions"})
  /\ Drops(CleanupQdma, {"vfs", "bars", "xdev", "pci", "regions"})
<1>1. Drops(<<>>, {})
  BY DEF Drops
<1>2. Drops(ReleaseRegions, {"regions"})
  BY UnmapBarsIs DEF Drops
<1>3. Drops(DisableDevice, {"pci", "regions"})
  BY UnmapBarsIs DEF Drops
<1>4. Drops(UnmapBars, {"bars", "xdev", "pci", "regions"})
  BY UnmapBarsIs DEF Drops
<1>5. Drops(CleanupQdma, {"vfs", "bars", "xdev", "pci", "regions"})
  BY CleanupQdmaIs DEF Drops
<1> QED
  BY <1>1, <1>2, <1>3, <1>4, <1>5

LEMMA CloseDrops ==
  /\ Drops(Close, {"vfs", "bars", "regions", "pci", "xdev"})
  /\ Drops(Close \o << <<"drop", "xpdev">> >>, {"vfs", "bars", "regions", "pci", "xdev", "xpdev"})
<1>1. Drops(Close, {"vfs", "bars", "regions", "pci", "xdev"})
  BY CloseIs DEF Drops
<1> DEFINE p == Close \o << <<"drop", "xpdev">> >>
<1>2. <<"drop", "xpdev">> \in Steps
  BY StepsAre DEF Names, Resources
<1>3. /\ p \in Seq(Steps) /\ Len(p) = Len(Close) + 1
      /\ p[Len(Close) + 1] = <<"drop", "xpdev">>
      /\ \A k \in 1 .. Len(Close) : p[k] = Close[k]
  BY <1>2, CloseIs, AppendOf
<1> HIDE DEF p
<1>4. /\ p \in Seq(Steps) /\ Len(p) = 7 /\ p[7] = <<"drop", "xpdev">>
      /\ p[1] = Close[1] /\ p[2] = Close[2] /\ p[3] = Close[3]
      /\ p[4] = Close[4] /\ p[5] = Close[5] /\ p[6] = Close[6]
  BY <1>3, CloseIs
<1>5. Drops(p, {"vfs", "bars", "regions", "pci", "xdev", "xpdev"})
  BY <1>4, CloseIs DEF Drops
<1> QED
  BY <1>1, <1>5 DEF p

\* What the removal drops.
Removed == (Resources \cup {"pci"}) \ {"irqs", "qdev"}

LEMMA RemoveDrops ==
  /\ Drops(Remove, Removed)
  /\ \A q \in Queues : \E k \in 1 .. Len(Remove) : Remove[k] = <<"forget", q>>
  /\ \E k \in 1 .. Len(Remove) :
       /\ Remove[k] = <<"cleanup", "device">>
       /\ \A j \in 1 .. k - 1 : Remove[j] # <<"drop", "bars">> /\ Remove[j] # <<"drop", "xdev">>
<1> DEFINE n == 2 * TableSize
           p == Remove
<1>1. n \in Nat
  BY QsetsAssumption
<1>2. /\ p \in Seq(Steps) /\ Len(p) = n + 10
      /\ p[1] = <<"drop", "sysfs">> /\ p[2] = <<"drop", "chrdev">>
      /\ \A k \in 1 .. n : p[2 + k][1] = "forget"
      /\ \A q \in Queues : \E k \in 1 .. n : p[2 + k] = <<"forget", q>>
      /\ \A k \in 1 .. 6 : p[n + 2 + k] = Close[k]
      /\ p[n + 9] = <<"drop", "xpdev">> /\ p[n + 10] = <<"drop", "drvdata">>
  BY RemoveIs
<1> HIDE DEF n, p
<1>3. /\ p[n + 3] = <<"drop", "vfs">> /\ p[n + 4] = <<"cleanup", "device">>
      /\ p[n + 5] = <<"drop", "bars">> /\ p[n + 6] = <<"drop", "regions">>
      /\ p[n + 7] = <<"drop", "pci">> /\ p[n + 8] = <<"drop", "xdev">>
  <2>1. /\ n + 2 + 1 = n + 3 /\ n + 2 + 2 = n + 4 /\ n + 2 + 3 = n + 5
        /\ n + 2 + 4 = n + 6 /\ n + 2 + 5 = n + 7 /\ n + 2 + 6 = n + 8
    BY <1>1
  <2>2. /\ p[n + 2 + 1] = Close[1] /\ p[n + 2 + 2] = Close[2] /\ p[n + 2 + 3] = Close[3]
        /\ p[n + 2 + 4] = Close[4] /\ p[n + 2 + 5] = Close[5] /\ p[n + 2 + 6] = Close[6]
    BY <1>2
  <2> QED
    BY <2>1, <2>2, CloseIs
<1>4. \A k \in 3 .. n + 2 : p[k][1] = "forget"
  <2>1. ASSUME NEW k \in 3 .. n + 2 PROVE k - 2 \in 1 .. n /\ 2 + (k - 2) = k
    BY <1>1
  <2> QED
    BY <1>2, <2>1
<1>5. ASSUME NEW k \in 1 .. n + 10
      PROVE  k \in {1, 2, n + 3, n + 4, n + 5, n + 6, n + 7, n + 8, n + 9, n + 10} \/ k \in 3 .. n + 2
  BY <1>1
<1>6. \A k \in 1 .. n + 10 :
        \/ p[k][1] \in {"cleanup", "forget"}
        \/ p[k][1] = "drop" /\ p[k][2] \in Removed
  <2>1. {"sysfs", "chrdev", "vfs", "bars", "regions", "pci", "xdev", "xpdev", "drvdata"} \subseteq Removed
    BY DEF Removed, Resources
  <2> DEFINE Fits(x) == \/ x[1] \in {"cleanup", "forget"}
                        \/ x[1] = "drop" /\ x[2] \in Removed
  <2>2. \A r \in Removed : Fits(<<"drop", r>>)
    OBVIOUS
  <2>3. \A x : x[1] = "forget" => Fits(x)
    OBVIOUS
  <2>4. Fits(<<"cleanup", "device">>)
    OBVIOUS
  <2> HIDE DEF Fits
  <2>5. Fits(p[1]) /\ Fits(p[2]) /\ Fits(p[n + 9]) /\ Fits(p[n + 10])
    BY <1>2, <2>1, <2>2
  <2>6. Fits(p[n + 3]) /\ Fits(p[n + 4]) /\ Fits(p[n + 5])
    BY <1>3, <2>1, <2>2, <2>4
  <2>7. Fits(p[n + 6]) /\ Fits(p[n + 7]) /\ Fits(p[n + 8])
    BY <1>3, <2>1, <2>2
  <2>8. \A k \in 3 .. n + 2 : Fits(p[k])
    BY <1>4, <2>3
  <2>9. \A k \in 1 .. n + 10 : Fits(p[k])
    BY <1>5, <2>5, <2>6, <2>7, <2>8
  <2> QED
    BY <2>9 DEF Fits
<1>7. \A r \in Removed : \E k \in 1 .. n + 10 : p[k][1] = "drop" /\ p[k][2] = r
  <2>1. {1, 2, n + 3, n + 4, n + 5, n + 6, n + 7, n + 8, n + 9, n + 10} \subseteq 1 .. n + 10
    BY <1>1
  <2> DEFINE D(i, r) == i \in 1 .. n + 10 /\ p[i][1] = "drop" /\ p[i][2] = r
  <2>2. D(1, "sysfs") /\ D(2, "chrdev") /\ D(n + 3, "vfs") /\ D(n + 5, "bars") /\ D(n + 6, "regions")
    BY <1>2, <1>3, <2>1
  <2>3. D(n + 7, "pci") /\ D(n + 8, "xdev") /\ D(n + 9, "xpdev") /\ D(n + 10, "drvdata")
    BY <1>2, <1>3, <2>1
  <2>4. Removed = {"sysfs", "chrdev", "vfs", "bars", "regions", "pci", "xdev", "xpdev", "drvdata"}
    BY DEF Removed, Resources
  <2> HIDE DEF D
  <2>5. \A r \in Removed : \E i : D(i, r)
    BY <2>2, <2>3, <2>4
  <2> QED
    BY <2>5 DEF D
<1>8. ASSUME NEW j \in 1 .. n + 10, NEW k \in 1 .. n + 10,
             p[j][1] = "drop", p[k][1] = "drop", p[j][2] = p[k][2]
      PROVE  j = k
  <2>1. ASSUME NEW i \in 1 .. n + 10, p[i][1] = "drop"
        PROVE  /\ p[i][2] = "sysfs" => i = 1
               /\ p[i][2] = "chrdev" => i = 2
               /\ p[i][2] = "vfs" => i = n + 3
               /\ p[i][2] = "bars" => i = n + 5
               /\ p[i][2] = "regions" => i = n + 6
               /\ p[i][2] = "pci" => i = n + 7
               /\ p[i][2] = "xdev" => i = n + 8
               /\ p[i][2] = "xpdev" => i = n + 9
               /\ p[i][2] = "drvdata" => i = n + 10
    <3>1. \/ i \in {1, 2, n + 3, n + 5, n + 6}
          \/ i \in {n + 7, n + 8, n + 9, n + 10}
      <4>1. i # n + 4 /\ ~(i \in 3 .. n + 2)
        BY <1>3, <1>4, <2>1
      <4> QED
        BY <1>5, <4>1
    <3>2. ASSUME i \in {1, 2, n + 3, n + 5, n + 6}
          PROVE  \/ i = 1 /\ p[i][2] = "sysfs"
                 \/ i = 2 /\ p[i][2] = "chrdev"
                 \/ i = n + 3 /\ p[i][2] = "vfs"
                 \/ i = n + 5 /\ p[i][2] = "bars"
                 \/ i = n + 6 /\ p[i][2] = "regions"
      BY <1>2, <1>3, <3>2
    <3>3. ASSUME i \in {n + 7, n + 8, n + 9, n + 10}
          PROVE  \/ i = n + 7 /\ p[i][2] = "pci"
                 \/ i = n + 8 /\ p[i][2] = "xdev"
                 \/ i = n + 9 /\ p[i][2] = "xpdev"
                 \/ i = n + 10 /\ p[i][2] = "drvdata"
      BY <1>2, <1>3, <3>3
    <3> QED
      BY <3>1, <3>2, <3>3
  <2>2. p[j][2] \in Removed
    BY <1>6, <1>8
  <2> QED
    BY <1>8, <2>1, <2>2 DEF Removed, Resources
<1>9. Drops(p, Removed)
  BY <1>2, <1>6, <1>7, <1>8 DEF Drops
<1>10. ASSUME NEW q \in Queues PROVE \E k \in 1 .. Len(p) : p[k] = <<"forget", q>>
  <2>1. PICK k \in 1 .. n : p[2 + k] = <<"forget", q>>
    BY <1>2
  <2>2. 2 + k \in 1 .. Len(p)
    BY <1>1, <1>2
  <2> QED
    BY <2>1, <2>2
<1>11. \A j \in 1 .. n + 3 : p[j] # <<"drop", "bars">> /\ p[j] # <<"drop", "xdev">>
  <2>1. ASSUME NEW j \in 1 .. n + 3 PROVE j \in {1, 2, n + 3} \/ j \in 3 .. n + 2
    BY <1>1
  <2>2. ASSUME NEW j \in 1 .. n + 3
        PROVE  p[j][1] = "forget" \/ p[j][2] \in {"sysfs", "chrdev", "vfs"}
    BY <1>2, <1>3, <1>4, <2>1
  <2> QED
    BY <2>2
<1>12. n + 4 \in 1 .. Len(p) /\ (n + 4) - 1 = n + 3
  BY <1>1, <1>2
<1> QED
  BY <1>3, <1>9, <1>10, <1>11, <1>12 DEF p

\* A plan that drops what is held releases it.
LEMMA Unwinding ==
  ASSUME NEW p, NEW R, Drops(p, R), todo' = p,
         R \subseteq Removed, R \subseteq Guarded \cup res' \cup {"pci"},
         \A r \in res' \ Leak : r \in {"irqs", "qdev"} \cup R,
         enables' = 1 => "pci" \in R,
         "pci" \in R => enables' = 1 \/ "reenable" \in Faults,
         "qdev" \in res' =>
           \E k \in 1 .. Len(p) :
             /\ p[k] = <<"cleanup", "device">>
             /\ \A j \in 1 .. k - 1 : p[j] # <<"drop", "bars">> /\ p[j] # <<"drop", "xdev">>,
         \A q \in table' : \E k \in 1 .. Len(p) : p[k] = <<"forget", q>>
  PROVE  Releasing(0)'
<1>1. Len(p) \in Nat
  BY DEF Drops
<1>2. \A k \in 1 .. Len(p) : p[k] \in Steps
  BY DEF Drops
<1>3. ASSUME NEW k \in 1 .. Len(p)
      PROVE  p[k] = <<p[k][1], p[k][2]>>
  BY <1>2 DEF Steps
<1>4. \A k \in 0 + 1 .. Len(p) :
        \/ p[k][1] \in {"cleanup", "forget"}
        \/ p[k][1] = "drop" /\ p[k][2] \in (Resources \cup {"pci"}) \ {"irqs", "qdev"}
  BY DEF Drops, Removed
<1>5. \A r \in res' \ Leak :
        r \notin {"irqs", "qdev"} => \E k \in 0 + 1 .. Len(p) : p[k][1] = "drop" /\ p[k][2] = r
  BY DEF Drops
<1>6. enables' = 1 => \E k \in 0 + 1 .. Len(p) : p[k][1] = "drop" /\ p[k][2] = "pci"
  BY DEF Drops
<1>7. "qdev" \in res' =>
        \E k \in 1 .. Len(p) :
          /\ p[k][1] = "cleanup"
          /\ \A j \in 1 .. k - 1 : ~(p[j][1] = "drop" /\ p[j][2] = "bars")
                                   /\ ~(p[j][1] = "drop" /\ p[j][2] = "xdev")
  <2>1. SUFFICES ASSUME "qdev" \in res'
                 PROVE  \E k \in 1 .. Len(p) :
                          /\ p[k][1] = "cleanup"
                          /\ \A j \in 1 .. k - 1 : ~(p[j][1] = "drop" /\ p[j][2] = "bars")
                                                   /\ ~(p[j][1] = "drop" /\ p[j][2] = "xdev")
    OBVIOUS
  <2>2. PICK k \in 1 .. Len(p) :
          /\ p[k] = <<"cleanup", "device">>
          /\ \A j \in 1 .. k - 1 : p[j] # <<"drop", "bars">> /\ p[j] # <<"drop", "xdev">>
    BY <2>1
  <2>3. \A j \in 1 .. k - 1 : j \in 1 .. Len(p)
    BY <1>1
  <2>4. p[k][1] = "cleanup"
    BY <2>2
  <2>5. ASSUME NEW j \in 1 .. k - 1, p[j][1] = "drop", p[j][2] = "bars" \/ p[j][2] = "xdev" PROVE FALSE
    BY <1>3, <2>2, <2>3, <2>5
  <2> QED
    BY <2>4, <2>5
<1>8. \A k \in 0 + 1 .. Len(p) : p[k][1] = "drop" =>
        /\ \/ p[k][2] \in Guarded \cup res'
           \/ p[k][2] = "pci" /\ (enables' = 1 \/ "reenable" \in Faults)
        /\ \A j \in 0 + 1 .. Len(p) : p[j][1] = "drop" /\ p[j][2] = p[k][2] => j = k
  BY DEF Drops
<1>9. \A q \in table' : \E k \in 0 + 1 .. Len(p) : p[k][1] = "forget" /\ p[k][2] = q
  <2>1. ASSUME NEW q \in table'
        PROVE  \E k \in 0 + 1 .. Len(p) : p[k][1] = "forget" /\ p[k][2] = q
    <3>1. PICK k \in 1 .. Len(p) : p[k] = <<"forget", q>>
      OBVIOUS
    <3>2. p[k][1] = "forget" /\ p[k][2] = q /\ k \in 0 + 1 .. Len(p)
      BY <1>1, <3>1
    <3> QED
      BY <3>2
  <2> QED
    BY <2>1
<1> QED
  BY <1>4, <1>5, <1>6, <1>7, <1>8, <1>9 DEF Releasing, Is

-----------------------------------------------------------------------------
(* Operations begin.                                                       *)

\* Between operations a device is bound, or nothing is held.
LEMMA IdleIs ==
  ASSUME DevInv, Idle
  PROVE  \/ Attached /\ Settled /\ enables = 1
         \/ ~Attached /\ res \subseteq Leak /\ enables = 0 /\ table = {}
<1>1. todo = <<>> /\ Len(todo) = 0
  BY DEF Idle
<1>2. Bound => Attached
  BY DEF Bound, Attached
<1>3. ~Climbing
  BY <1>1 DEF Climbing
<1>4. ~Striking /\ ~Virtualising /\ ~Initialising
  BY <1>1 DEF Striking, Virtualising, Initialising
<1>5. ASSUME NEW n \in 0 .. 4, Cleaning(n) PROVE n = 0 /\ Paired
  BY <1>1, <1>5 DEF Cleaning
<1>6. ~Rebuilding(0)
  BY <1>1 DEF Rebuilding
<1>7. ASSUME Releasing(0), Paired
      PROVE  ~Attached /\ res \subseteq Leak /\ enables = 0 /\ table = {}
  <2>1. \A k \in 0 + 1 .. Len(todo) : FALSE
    BY <1>1
  <2>2. "qdev" \notin res
    BY <1>1, <1>7 DEF Releasing
  <2>3. "irqs" \notin res
    BY <1>7, <2>2 DEF Paired
  <2>4. res \subseteq Leak /\ table = {} /\ enables # 1
    BY <1>7, <2>1, <2>2, <2>3 DEF Releasing
  <2>5. enables \in 0 .. 1
    BY DEF DevInv, Base, Typed
  <2> QED
    BY <2>4, <2>5 DEF Leak, Attached
<1> QED
  BY <1>2, <1>3, <1>4, <1>5, <1>6, <1>7 DEF DevInv, Plan, Adding, Batching, Settled

\* Nothing but the plan changes, and the number of queues of a device without
\* queue arrays.
LEMMA BeginBase ==
  ASSUME DevInv, NEW o, NEW steps \in Seq(Steps), Begin(o, steps),
         qsets' \in Qsets, qsets' = qsets \/ "qdev" \notin res
  PROVE  /\ Base'
         /\ op' = o /\ todo' = steps
         /\ UNCHANGED <<mode, res, enables, coalEn, coal, ranged, queue, table, cdev, bad>>
         /\ Paired' <=> Paired
         /\ Settled' <=> Settled
<1>1. /\ todo = <<>> /\ op' = o /\ todo' = steps
      /\ UNCHANGED <<mode, res, enables, coalEn, coal, ranged, queue, table, cdev, bad>>
  BY DEF Begin, queues, module
<1>2. Typed' /\ todo' \in Seq(Steps)
  BY <1>1 DEF DevInv, Base, Typed
<1>3. Kept' /\ Cdevs' /\ Handled'
  BY <1>1 DEF DevInv, Base, Kept, Cdevs, Handled
<1>4. QueuesBacked'
  BY <1>1 DEF DevInv, Base, QueuesBacked
<1>5. Rings'
  BY <1>1 DEF DevInv, Base, Rings
<1>6. RunsBacked'
  BY <1>1 DEF DevInv, Base, QueuesBacked, RunsBacked
<1>7. (Paired' <=> Paired) /\ (Settled' <=> Settled)
  BY <1>1 DEF Paired, Settled, Bound, Exact, Vacuous
<1> QED
  BY <1>1, <1>2, <1>3, <1>4, <1>5, <1>6, <1>7 DEF Base

LEMMA ProbeOneInv == ASSUME MayFail, DevInv, ProbeOne PROVE DevInv'
<1>1. Begin("probe", Probe) /\ qsets' \in Qsets /\ ~Attached /\ Idle
  BY DEF ProbeOne, Begin, Idle
<1>2. res \subseteq Leak /\ enables = 0 /\ table = {}
  BY <1>1, IdleIs
<1>3. "qdev" \notin res
  BY <1>2 DEF Leak
<1>4. Base' /\ op' = "probe" /\ todo' = Probe /\ res' = res /\ enables' = enables /\ table' = table
  BY <1>1, <1>3, BeginBase, ProbeIs
<1>5. Acquired(1)' = {}
  BY DEF Acquired
<1>6. /\ Len(todo') = 14 - 1
      /\ \A j \in 1 .. 14 - 1 : todo'[j] = Probe[1 - 1 + j]
  BY <1>4, ProbeIs
<1>7. Climbing'
  <2>1. /\ op' = "probe" /\ Len(todo') = 14 - 1
        /\ \A j \in 1 .. 14 - 1 : todo'[j] = Probe[1 - 1 + j]
        /\ Acquired(1)' \subseteq res' /\ res' \subseteq Acquired(1)' \cup Leak
        /\ enables' = IF 1 > 2 THEN 1 ELSE 0
        /\ table' = {}
        /\ 1 > 4 => ~coalEn'
    BY <1>2, <1>4, <1>5, <1>6
  <2> QED
    BY <2>1 DEF Climbing
<1> QED
  BY <1>4, <1>7 DEF DevInv, Plan

LEMMA RemoveOneInv == ASSUME MayFail, DevInv, RemoveOne PROVE DevInv'
<1>1. Begin("remove", Remove) /\ qsets' = qsets /\ Attached /\ Idle /\ qsets \in Qsets
  BY DEF RemoveOne, Begin, Idle, DevInv, Base, Typed
<1>2. Settled /\ enables = 1
  BY <1>1, IdleIs
<1>3. /\ Base' /\ todo' = Remove /\ res' = res /\ enables' = enables /\ table' = table
      /\ Settled'
  BY <1>1, <1>2, BeginBase, RemoveIs
<1>4. res \subseteq Resources /\ table \subseteq Queues
  BY DEF DevInv, Base, Typed
<1>5. /\ Removed \subseteq Guarded \cup res' \cup {"pci"}
      /\ \A r \in res' \ Leak : r \in {"irqs", "qdev"} \cup Removed
      /\ "pci" \in Removed
  BY <1>2, <1>3, <1>4 DEF Settled, Bound, Removed, Guarded, Resources
<1>6. Releasing(0)'
  BY <1>2, <1>3, <1>4, <1>5, RemoveDrops, Unwinding
<1>7. Cleaning(0)'
  <2>1. Paired' /\ Len(todo') \in Nat
    BY <1>3 DEF Settled, Base
  <2> QED
    BY <2>1 DEF Cleaning
<1> QED
  BY <1>3, <1>6, <1>7 DEF DevInv, Plan

LEMMA ResetFunctionInv == ASSUME MayFail, DevInv, ResetFunction PROVE DevInv'
<1>1. /\ Begin("reset", Reset) /\ qsets' = qsets /\ Attached /\ Idle /\ qsets \in Qsets
      /\ mode \in ResetModes
  BY DEF ResetFunction, Begin, Idle, DevInv, Base, Typed
<1>2. Settled /\ enables = 1
  BY <1>1, IdleIs
<1>3. /\ Base' /\ op' = "reset" /\ todo' = Reset /\ res' = res /\ enables' = enables /\ table' = table
      /\ coalEn' = coalEn /\ Settled'
  BY <1>1, <1>2, BeginBase, ResetIs
<1>4. coalEn => "aggregate" \in ResetModes
  BY <1>1 DEF DevInv, Base, Rings
<1> DEFINE n == 2 * TableSize
<1>5. n \in Nat
  BY QsetsAssumption
<1>6. /\ Len(Reset) = n + 5
      /\ Reset[1] = <<"drop", "vfs">> /\ Reset[2] = <<"cleanup", "device">>
      /\ \A k \in 1 .. n : Reset[2 + k][1] = "delete"
      /\ \A q \in Queues : \E k \in 1 .. n : Reset[2 + k] = <<"delete", q>>
      /\ \A k \in 1 .. 3 : Reset[n + 2 + k] = InitDevice[k]
  BY ResetIs
<1> HIDE DEF n
<1>16. /\ Reset[n + 2 + 1] = InitDevice[1] /\ Reset[n + 2 + 2] = InitDevice[2]
       /\ Reset[n + 2 + 3] = InitDevice[3]
  BY <1>6
<1>7. /\ Len(Reset) - 2 = n + 2 + 1 /\ Len(Reset) - 1 = n + 2 + 2 /\ Len(Reset) = n + 2 + 3
      /\ Len(Reset) - 3 = n + 2
  BY <1>5, <1>6
<1>8. /\ Is(Len(todo) - 2, "take", "irqs")'
      /\ Is(Len(todo) - 1, "check", "queues")'
      /\ Is(Len(todo), "take", "qdev")'
  BY <1>3, <1>7, <1>16, InitDeviceIs DEF Is
<1>9. ASSUME NEW k \in 0 + 1 .. n + 2
      PROVE  Reset[k] = <<"drop", "vfs">> \/ Reset[k][1] = "cleanup" \/ Reset[k][1] = "delete"
  <2>1. k = 1 \/ k = 2 \/ (k - 2 \in 1 .. n /\ 2 + (k - 2) = k)
    BY <1>5
  <2> QED
    BY <1>6, <2>1
<1>10. \A k \in 0 + 1 .. Len(todo') - 3 :
         \/ Is(k, "drop", "vfs")' \/ todo'[k][1] \in {"cleanup", "set"}
         \/ todo'[k][1] = "delete" /\ op' = "reset"
  BY <1>3, <1>7, <1>9 DEF Is
<1>11. \E k \in 1 .. Len(todo') - 3 :
         todo'[k][1] = "cleanup" /\ \A j \in 1 .. k - 1 : todo'[j][1] # "set"
  <2>1. 2 \in 1 .. n + 2 /\ \A j \in 1 .. 2 - 1 : j = 1
    BY <1>5
  <2> QED
    BY <1>3, <1>6, <1>7, <2>1
<1>12. ASSUME NEW q \in table' PROVE \E k \in 0 + 1 .. Len(todo') - 3 : Is(k, "delete", q)'
  <2>1. q \in Queues
    BY <1>3 DEF DevInv, Base, Typed
  <2>2. PICK k \in 1 .. n : Reset[2 + k] = <<"delete", q>>
    BY <1>6, <2>1
  <2>3. 2 + k \in 0 + 1 .. n + 2
    BY <1>5
  <2>4. Is(2 + k, "delete", q)'
    BY <1>3, <2>2 DEF Is
  <2> QED
    BY <1>3, <1>7, <2>3, <2>4
<1>13. 0 + 3 <= Len(todo')
  BY <1>3, <1>5, <1>6
<1>14. Rebuilding(0)'
  BY <1>2, <1>3, <1>4, <1>8, <1>10, <1>11, <1>12, <1>13 DEF Rebuilding, Settled
<1>15. Cleaning(0)'
  BY <1>3, <1>13 DEF Cleaning, Settled
<1> QED
  BY <1>3, <1>14, <1>15 DEF DevInv, Plan

LEMMA ErrorDetectedInv == ASSUME MayFail, DevInv, ErrorDetected PROVE DevInv'
<1>1. Begin("error", FrozenError) /\ qsets' = qsets /\ Attached /\ Idle /\ qsets \in Qsets
  BY DEF ErrorDetected, Begin, Idle, DevInv, Base, Typed
<1>2. Settled /\ enables = 1
  BY <1>1, IdleIs
<1>3. /\ FrozenError \in Seq(Steps) /\ Len(FrozenError) = 2
      /\ FrozenError[1] = <<"drop", "pci">> /\ FrozenError[2] = <<"take", "reenable">>
  BY StepsAre DEF FrozenError, Names
<1>4. Base' /\ op' = "error" /\ todo' = FrozenError /\ enables' = enables /\ Settled'
  BY <1>1, <1>2, <1>3, BeginBase
<1>5. Striking'
  BY <1>2, <1>3, <1>4 DEF Striking, Is
<1> QED
  BY <1>4, <1>5 DEF DevInv, Plan

LEMMA SriovConfigInv == ASSUME MayFail, DevInv, NEW on \in BOOLEAN, SriovConfig(on) PROVE DevInv'
<1> DEFINE v == IF on THEN "take" ELSE "drop"
           s == << <<v, "vfs">> >>
<1>1. Begin("sriov", s) /\ qsets' = qsets /\ Attached /\ Idle /\ qsets \in Qsets
  BY DEF SriovConfig, Begin, Idle, DevInv, Base, Typed
<1>2. Settled /\ enables = 1
  BY <1>1, IdleIs
<1>3. v \in {"take", "drop"}
  OBVIOUS
<1> HIDE DEF v
<1>6. <<v, "vfs">> \in Steps
  BY <1>3, StepsAre DEF Names, Resources
<1>7. s \in Seq(Steps) /\ Len(s) = 1 /\ s[1] = <<v, "vfs">>
  BY <1>6
<1> HIDE DEF s
<1>4. Base' /\ op' = "sriov" /\ todo' = s /\ enables' = enables /\ Settled'
  BY <1>1, <1>2, <1>7, BeginBase
<1>5. Virtualising'
  BY <1>2, <1>3, <1>4, <1>7 DEF Virtualising
<1> QED
  BY <1>4, <1>5 DEF DevInv, Plan

LEMMA SysfsSetQmaxInv == ASSUME MayFail, DevInv, NEW n \in Qsets, SysfsSetQmax(n) PROVE DevInv'
<1> DEFINE s == SetQmax(n)
<1>1. /\ Begin("set_qmax", s) /\ qsets' = qsets /\ Attached /\ Idle /\ qsets \in Qsets
      /\ "qdev" \in res /\ ~ranged
  BY DEF SysfsSetQmax, QmaxFree, Begin, Idle, DevInv, Base, Typed
<1>2. Settled /\ enables = 1
  BY <1>1, IdleIs
<1>3. /\ s \in Seq(Steps) /\ Len(s) = 5
      /\ s[1] = <<"cleanup", "device">> /\ s[2] = <<"set", n>>
      /\ s[3] = <<"take", "irqs">> /\ s[4] = <<"check", "queues">> /\ s[5] = <<"take", "qdev">>
  BY SetQmaxIs
<1> HIDE DEF s
<1>4. /\ Base' /\ op' = "set_qmax" /\ todo' = s /\ res' = res /\ enables' = enables
      /\ table' = table /\ coalEn' = coalEn /\ Settled'
  BY <1>1, <1>2, <1>3, BeginBase
<1>5. table = {}
  <2>1. \A q \in table : q \in Queues /\ queue[q] # "free"
    BY <1>1, <1>2 DEF Settled, DevInv, Base, Typed
  <2> QED
    BY <1>1, <2>1 DEF DevInv, Base, QueuesBacked
<1>6. coalEn => "aggregate" \in ResetModes
  BY <1>1 DEF DevInv, Base, Rings, Idle
<1>7. Rebuilding(0)'
  <2>5. /\ Len(todo') = 5 /\ todo'[3] = <<"take", "irqs">> /\ todo'[4] = <<"check", "queues">>
        /\ todo'[5] = <<"take", "qdev">>
    BY <1>3, <1>4
  <2>1. 0 + 3 <= Len(todo') /\ Len(todo') - 3 = 2
    BY <2>5
  <2>2. /\ Is(Len(todo) - 2, "take", "irqs")'
        /\ Is(Len(todo) - 1, "check", "queues")'
        /\ Is(Len(todo), "take", "qdev")'
    BY <2>5 DEF Is
  <2>3. \A k \in 0 + 1 .. 2 : todo'[k][1] \in {"cleanup", "set"}
    BY <1>3, <1>4
  <2>4. \E k \in 1 .. 2 : todo'[k][1] = "cleanup" /\ \A j \in 1 .. k - 1 : todo'[j][1] # "set"
    <3>1. 1 \in 1 .. 2 /\ \A j \in 1 .. 1 - 1 : FALSE
      OBVIOUS
    <3> QED
      BY <1>3, <1>4, <3>1
  <2> QED
    BY <1>2, <1>4, <1>5, <1>6, <2>1, <2>2, <2>3, <2>4 DEF Rebuilding, Settled
<1>8. Cleaning(0)'
  BY <1>3, <1>4 DEF Cleaning, Settled
<1> QED
  BY <1>4, <1>7, <1>8 DEF DevInv, Plan

LEMMA NetlinkInv ==
  ASSUME MayFail, DevInv, NEW verb \in {"add", "start", "stop", "delete"}, NEW dirs \in QueueDirs,
         NEW first \in 0 .. TableSize - 1, NEW num \in 1 .. TableSize,
         Netlink(verb, first, num, dirs)
  PROVE  DevInv'
<1>1. /\ qsets' = qsets /\ Attached /\ Idle /\ qsets \in Qsets /\ first + num <= TableSize
  BY DEF Netlink, Begin, Idle, DevInv, Base, Typed
<1>2. Settled /\ enables = 1
  BY <1>1, IdleIs
<1>3. CASE verb = "add"
  <2> DEFINE s == AddBatch(first, num, dirs)
  <2>1. Begin("netlink", s)
    BY <1>3 DEF Netlink
  <2>2. /\ s \in Seq(Steps)
        /\ \A k \in 1 .. Len(s) :
             \/ s[k][1] = "add"
             \/ /\ s[k][1] = "cdev" /\ k # 1
                /\ s[k - 1] = <<"add", s[k][2]>>
    BY <1>1, AddSteps
  <2> HIDE DEF s
  <2>3. /\ Base' /\ op' = "netlink" /\ todo' = s /\ enables' = enables /\ Settled'
        /\ res' = res /\ "qdev" \in res
    BY <1>1, <1>2, <2>1, <2>2, BeginBase DEF Netlink
  <2>4. Adding'
    <3>1. ASSUME NEW k \in 1 .. Len(s)
          PROVE  \/ s[k][1] = "add"
                 \/ s[k][1] = "cdev" /\ k # 1 /\ s[k - 1][1] = "add" /\ s[k - 1][2] = s[k][2]
      BY <2>2
    <3>2. ASSUME NEW k \in 1 .. Len(todo')
          PROVE  \/ todo'[k][1] = "add"
                 \/ /\ todo'[k][1] = "cdev"
                    /\ k = 1 => queue'[todo'[k][2]] # "free"
                    /\ k # 1 => Is(k - 1, "add", todo[k][2])'
      <4>1. k \in 1 .. Len(s)
        BY <2>3
      <4> QED
        BY <2>3, <3>1, <4>1 DEF Is
    <3> QED
      BY <1>2, <2>3, <3>2 DEF Adding
  <2> QED
    BY <2>3, <2>4 DEF DevInv, Plan
<1>4. CASE verb # "add"
  <2> DEFINE s == Batch(verb, first, num, dirs)
  <2>1. Begin("netlink", s)
    BY <1>4 DEF Netlink
  <2>2. s \in Seq(Steps) /\ \A k \in 1 .. Len(s) : s[k][1] = verb
    BY <1>1, <1>4, BatchSteps
  <2> HIDE DEF s
  <2>3. Base' /\ op' = "netlink" /\ todo' = s /\ enables' = enables /\ Settled'
    BY <1>1, <1>2, <2>1, <2>2, BeginBase
  <2>4. Batching'
    BY <1>2, <1>4, <2>2, <2>3 DEF Batching
  <2> QED
    BY <2>3, <2>4 DEF DevInv, Plan
<1> QED
  BY <1>3, <1>4

-----------------------------------------------------------------------------
(* The probe.                                                              *)

\* A step of the operation under way.
Step ==
  \/ Take \/ Check \/ Fail \/ Drop \/ DropRings \/ CleanupBegins \/ SetNumber \/ StopAll
  \/ AddQueue \/ AddFails \/ AddCdev
  \/ StartQueue \/ StartFails \/ StopQueue \/ StopFails
  \/ DeleteQueue \/ DeleteNone \/ ForgetQueue \/ ForgetNone

\* The step that is next says which action can be taken.
LEMMA StepIs ==
  ASSUME Step
  PROVE  /\ todo # <<>>
         /\ Verb = "take" => Take \/ Fail
         /\ Verb = "check" => Check \/ Fail
         /\ Verb = "drop" => Drop \/ DropRings
         /\ Verb = "cleanup" => CleanupBegins
         /\ Verb = "set" => SetNumber
         /\ Verb = "stop_all" => StopAll
         /\ Verb = "add" => AddQueue \/ AddFails
         /\ Verb = "cdev" => AddCdev
         /\ Verb = "start" => StartQueue \/ StartFails
         /\ Verb = "stop" => StopQueue \/ StopFails
         /\ Verb = "delete" => DeleteQueue \/ DeleteNone
         /\ Verb = "forget" => ForgetQueue \/ ForgetNone
BY DEF Step, On, Take, Check, Fail, Drop, DropRings, CleanupBegins, SetNumber, StopAll,
       AddQueue, AddFails, AddCdev, StartQueue, StartFails, StopQueue, StopFails,
       DeleteQueue, DeleteNone, ForgetQueue, ForgetNone

\* What is left after a step.
LEMMA Advanced ==
  ASSUME Base, todo # <<>>, Advance
  PROVE  /\ Len(todo) \in Nat \ {0} /\ todo[1] \in Steps
         /\ todo' \in Seq(Steps) /\ Len(todo') = Len(todo) - 1
         /\ \A k \in 1 .. Len(todo) - 1 : todo'[k] = todo[k + 1]
BY TailOf DEF Base, Advance

\* What the first steps of the probe acquire.
LEMMA AcquiredIs ==
  ASSUME NEW k \in 1 .. 14
  PROVE  /\ Acquired(k) \subseteq Resources
         /\ "regions" \in Acquired(k) <=> k > 1
         /\ "xdev" \in Acquired(k) <=> k > 4
         /\ "bars" \in Acquired(k) <=> k > 5
         /\ "irqs" \in Acquired(k) <=> k > 7 /\ ~Vacuous("irqs")
         /\ "qdev" \in Acquired(k) <=> k > 9
         /\ "xpdev" \in Acquired(k) <=> k > 10
         /\ "chrdev" \in Acquired(k) <=> k > 11
         /\ "sysfs" \in Acquired(k) <=> k > 12
         /\ "drvdata" \in Acquired(k) <=> k > 13
         /\ "vfs" \notin Acquired(k)
<1>1. \A j \in 1 .. 13 :
        /\ Probe[j] = <<"take", "regions">> <=> j = 1
        /\ Probe[j] = <<"take", "xdev">> <=> j = 4
        /\ Probe[j] = <<"take", "bars">> <=> j = 5
        /\ Probe[j] = <<"take", "irqs">> <=> j = 7
        /\ Probe[j] = <<"take", "qdev">> <=> j = 9
        /\ Probe[j] = <<"take", "xpdev">> <=> j = 10
        /\ Probe[j] = <<"take", "chrdev">> <=> j = 11
        /\ Probe[j] = <<"take", "sysfs">> <=> j = 12
        /\ Probe[j] = <<"take", "drvdata">> <=> j = 13
        /\ Probe[j] # <<"take", "vfs">>
  BY ProbeIs
<1>2. \A j \in 1 .. k - 1 : j \in 1 .. 13
  OBVIOUS
<1>3. \A r \in Resources : r # "irqs" => ~Vacuous(r)
  BY DEF Vacuous
<1>4. ASSUME NEW r \in Resources, NEW m \in 1 .. 13,
             \A j \in 1 .. 13 : Probe[j] = <<"take", r>> <=> j = m
      PROVE  r \in Acquired(k) <=> k > m /\ ~Vacuous(r)
  <2>1. m \in 1 .. k - 1 <=> k > m
    OBVIOUS
  <2> QED
    BY <1>2, <1>4, <2>1 DEF Acquired
<1>5. {"regions", "xdev", "bars", "irqs", "qdev", "xpdev", "chrdev", "sysfs", "drvdata", "vfs"}
        \subseteq Resources
  BY DEF Resources
<1>6. "regions" \in Acquired(k) <=> k > 1
  <2>1. \A j \in 1 .. 13 : Probe[j] = <<"take", "regions">> <=> j = 1
    BY <1>1
  <2>2. 1 \in 1 .. 13 /\ "regions" \in Resources /\ ~Vacuous("regions")
    BY <1>3, <1>5
  <2> QED
    BY <1>4, <2>1, <2>2
<1>7. "xdev" \in Acquired(k) <=> k > 4
  <2>1. \A j \in 1 .. 13 : Probe[j] = <<"take", "xdev">> <=> j = 4
    BY <1>1
  <2>2. 4 \in 1 .. 13 /\ "xdev" \in Resources /\ ~Vacuous("xdev")
    BY <1>3, <1>5
  <2> QED
    BY <1>4, <2>1, <2>2
<1>8. "bars" \in Acquired(k) <=> k > 5
  <2>1. \A j \in 1 .. 13 : Probe[j] = <<"take", "bars">> <=> j = 5
    BY <1>1
  <2>2. 5 \in 1 .. 13 /\ "bars" \in Resources /\ ~Vacuous("bars")
    BY <1>3, <1>5
  <2> QED
    BY <1>4, <2>1, <2>2
<1>9. "irqs" \in Acquired(k) <=> k > 7 /\ ~Vacuous("irqs")
  <2>1. \A j \in 1 .. 13 : Probe[j] = <<"take", "irqs">> <=> j = 7
    BY <1>1
  <2>2. 7 \in 1 .. 13 /\ "irqs" \in Resources
    BY <1>5
  <2> QED
    BY <1>4, <2>1, <2>2
<1>10. "qdev" \in Acquired(k) <=> k > 9
  <2>1. \A j \in 1 .. 13 : Probe[j] = <<"take", "qdev">> <=> j = 9
    BY <1>1
  <2>2. 9 \in 1 .. 13 /\ "qdev" \in Resources /\ ~Vacuous("qdev")
    BY <1>3, <1>5
  <2> QED
    BY <1>4, <2>1, <2>2
<1>11. "xpdev" \in Acquired(k) <=> k > 10
  <2>1. \A j \in 1 .. 13 : Probe[j] = <<"take", "xpdev">> <=> j = 10
    BY <1>1
  <2>2. 10 \in 1 .. 13 /\ "xpdev" \in Resources /\ ~Vacuous("xpdev")
    BY <1>3, <1>5
  <2> QED
    BY <1>4, <2>1, <2>2
<1>12. "chrdev" \in Acquired(k) <=> k > 11
  <2>1. \A j \in 1 .. 13 : Probe[j] = <<"take", "chrdev">> <=> j = 11
    BY <1>1
  <2>2. 11 \in 1 .. 13 /\ "chrdev" \in Resources /\ ~Vacuous("chrdev")
    BY <1>3, <1>5
  <2> QED
    BY <1>4, <2>1, <2>2
<1>13. "sysfs" \in Acquired(k) <=> k > 12
  <2>1. \A j \in 1 .. 13 : Probe[j] = <<"take", "sysfs">> <=> j = 12
    BY <1>1
  <2>2. 12 \in 1 .. 13 /\ "sysfs" \in Resources /\ ~Vacuous("sysfs")
    BY <1>3, <1>5
  <2> QED
    BY <1>4, <2>1, <2>2
<1>14. "drvdata" \in Acquired(k) <=> k > 13
  <2>1. \A j \in 1 .. 13 : Probe[j] = <<"take", "drvdata">> <=> j = 13
    BY <1>1
  <2>2. 13 \in 1 .. 13 /\ "drvdata" \in Resources /\ ~Vacuous("drvdata")
    BY <1>3, <1>5
  <2> QED
    BY <1>4, <2>1, <2>2
<1>15. "vfs" \notin Acquired(k) /\ Acquired(k) \subseteq Resources
  BY <1>1, <1>2 DEF Acquired
<1> QED
  BY <1>6, <1>7, <1>8, <1>9, <1>10, <1>11, <1>12, <1>13, <1>14, <1>15

\* The next step of the probe.
LEMMA ClimbingIs ==
  ASSUME DevInv, Climbing
  PROVE  \E k \in 1 .. 13 :
           /\ op = "probe" /\ Len(todo) = 14 - k
           /\ \A j \in 1 .. 14 - k : todo[j] = Probe[k - 1 + j]
           /\ Acquired(k) \subseteq res /\ res \subseteq Acquired(k) \cup Leak
           /\ enables = IF k > 2 THEN 1 ELSE 0
           /\ table = {}
           /\ k > 4 => ~coalEn
           /\ Verb = Probe[k][1] /\ Object = Probe[k][2] /\ Verb \in {"take", "check"}
<1>1. PICK k \in 1 .. 13 :
        /\ op = "probe" /\ Len(todo) = 14 - k
        /\ \A j \in 1 .. 14 - k : todo[j] = Probe[k - 1 + j]
        /\ Acquired(k) \subseteq res /\ res \subseteq Acquired(k) \cup Leak
        /\ enables = IF k > 2 THEN 1 ELSE 0
        /\ table = {}
        /\ k > 4 => ~coalEn
  BY DEF Climbing
<1>2. 1 \in 1 .. 14 - k /\ k - 1 + 1 = k
  OBVIOUS
<1>3. todo[1] = Probe[k]
  BY <1>1, <1>2
<1>4. Probe[k][1] \in {"take", "check"}
  BY ProbeIs
<1> QED
  BY <1>1, <1>3, <1>4 DEF Verb, Object

-----------------------------------------------------------------------------
(* What the steps keep.                                                    *)

\* Only the plan changes, and the number of queues of a device without them.
LEMMA StillBase ==
  ASSUME Base, todo # <<>>, Verb # "drop", todo' \in Seq(Steps),
         UNCHANGED <<mode, res, enables, ranged, coalEn, coal, queue, table, cdev, bad>>,
         qsets' \in Qsets, qsets' = qsets \/ "qdev" \notin res
  PROVE  /\ Base'
         /\ Paired' <=> Paired
         /\ Settled' <=> Settled
         /\ Bound' <=> Bound
         /\ Exact' <=> Exact
         /\ Vacuous("irqs")' <=> Vacuous("irqs")
<1>1. Typed' /\ Kept' /\ Cdevs' /\ Handled'
  BY DEF Base, Typed, Kept, Cdevs, Handled
<1>2. QueuesBacked'
  BY DEF Base, QueuesBacked
<1>3. ~Is(1, "drop", "qdev")
  BY DEF Is, Verb
<1>4. Rings'
  BY <1>3 DEF Base, Rings
<1>5. RunsBacked'
  BY DEF Base, QueuesBacked, RunsBacked
<1>6. (Paired' <=> Paired) /\ (Settled' <=> Settled) /\ (Bound' <=> Bound) /\ (Exact' <=> Exact)
  BY DEF Paired, Settled, Bound, Exact, Vacuous
<1>7. Vacuous("irqs")' <=> Vacuous("irqs")
  BY DEF Vacuous
<1> QED
  BY <1>1, <1>2, <1>4, <1>5, <1>6, <1>7 DEF Base

\* The constants of a step that takes something.
LEMMA TakeBase ==
  ASSUME Base, Take,
         Object \in Resources \cup {"pci", "reenable"}, IsPci(Object) => enables = 0,
         Object = "irqs" => {"xdev", "bars"} \subseteq res,
         Object = "qdev" => "qdev" \notin res /\ (coalEn => "aggregate" \in ResetModes)
  PROVE  Base'
<1>1. /\ todo # <<>> /\ Verb = "take" /\ Advance
      /\ enables' = (IF IsPci(Object) THEN enables + 1 ELSE enables)
      /\ res' = (IF IsPci(Object) \/ Vacuous(Object) THEN res ELSE res \cup {Object})
      /\ Object = "xdev" => coal' = "none" /\ coalEn' = FALSE
      /\ Object # "xdev" => UNCHANGED <<coal, coalEn>>
      /\ UNCHANGED <<mode, op, qsets, ranged, queue, table, cdev, bad>>
  BY DEF Take, On, module
<1>2. todo' \in Seq(Steps)
  BY <1>1, Advanced
<1>3. IsPci(Object) <=> Object \in {"pci", "reenable"}
  BY DEF IsPci
<1>4. Typed'
  <2>1. enables' \in 0 .. 1
    BY <1>1 DEF Base, Typed
  <2>2. res' \subseteq Resources
    BY <1>1, <1>3 DEF Base, Typed
  <2>3. coalEn' \in BOOLEAN /\ coal' \in {"none", "live", "freed"}
    BY <1>1 DEF Base, Typed
  <2> QED
    BY <1>1, <2>1, <2>2, <2>3 DEF Base, Typed
<1>5. Kept' /\ Cdevs'
  BY <1>1 DEF Base, Kept, Cdevs
<1>6. res \subseteq res' /\ \A r \in res' : r \in res \/ r = Object
  BY <1>1
<1>7. QueuesBacked'
  BY <1>1, <1>6 DEF Base, QueuesBacked
<1>8. ~Is(1, "drop", "qdev")
  BY <1>1 DEF Is, Verb
<1>9. Rings'
  BY <1>1, <1>6, <1>8 DEF Base, Rings, QueuesBacked
<1>10. Handled'
  BY <1>1, <1>6 DEF Base, Handled
<1>11. RunsBacked'
  BY <1>1, <1>6 DEF Base, RunsBacked
<1> QED
  BY <1>2, <1>4, <1>5, <1>7, <1>9, <1>10, <1>11 DEF Base

\* What failed is a place where something can fail.
LEMMA FailIs ==
  ASSUME MayFail, Base, Fail
  PROVE  /\ Object \in Faults /\ ~Vacuous(Object) /\ todo' = Failed(op, Object)
         /\ UNCHANGED <<mode, op, res, enables, qsets, ranged, coalEn, coal, queue, table, cdev, bad>>
<1>1. qsets # 0
  BY DEF MayFail, Base, Typed
<1> QED
  BY <1>1 DEF Fail, queues, module

\* One more step of the probe.
LEMMA AcquiredNext ==
  ASSUME NEW k \in 1 .. 13
  PROVE  Acquired(k + 1) =
           Acquired(k) \cup {r \in Resources : ~Vacuous(r) /\ Probe[k] = <<"take", r>>}
<1>1. 1 .. (k + 1) - 1 = (1 .. k - 1) \cup {k}
  OBVIOUS
<1> QED
  BY <1>1 DEF Acquired

-----------------------------------------------------------------------------
(* The probe goes on, or unwinds.                                          *)

\* A step of the probe is done.
LEMMA ClimbingOn ==
  ASSUME MayFail, DevInv, Climbing, Take \/ Check
  PROVE  DevInv'
<1>1. PICK k \in 1 .. 13 :
        /\ op = "probe" /\ Len(todo) = 14 - k
        /\ \A j \in 1 .. 14 - k : todo[j] = Probe[k - 1 + j]
        /\ Acquired(k) \subseteq res /\ res \subseteq Acquired(k) \cup Leak
        /\ enables = IF k > 2 THEN 1 ELSE 0
        /\ table = {}
        /\ k > 4 => ~coalEn
        /\ Verb = Probe[k][1] /\ Object = Probe[k][2] /\ Verb \in {"take", "check"}
  BY ClimbingIs
<1>2. Base
  BY DEF DevInv
<1>3. /\ todo # <<>> /\ Advance
      /\ Take => Verb = "take"
      /\ Check => Verb = "check"
      /\ UNCHANGED <<mode, op, qsets, table, cdev>>
  BY DEF Take, Check, On, module
<1>4. /\ todo' \in Seq(Steps) /\ Len(todo') = 13 - k
      /\ \A j \in 1 .. 13 - k : todo'[j] = Probe[k + j]
  <2>1. /\ todo' \in Seq(Steps) /\ Len(todo') = Len(todo) - 1
        /\ \A j \in 1 .. Len(todo) - 1 : todo'[j] = todo[j + 1]
    BY <1>2, <1>3, Advanced
  <2>2. ASSUME NEW j \in 1 .. 13 - k PROVE j + 1 \in 1 .. 14 - k /\ k - 1 + (j + 1) = k + j
    OBVIOUS
  <2>3. 13 - k = Len(todo) - 1
    BY <1>1
  <2>4. \A j \in 1 .. 13 - k : todo'[j] = todo[j + 1] /\ todo[j + 1] = Probe[k + j]
    BY <1>1, <2>1, <2>2, <2>3
  <2> QED
    BY <2>1, <2>3, <2>4
<1>5. /\ k \in {1, 2, 4, 5, 7, 9, 10, 11, 12, 13} <=> Verb = "take"
      /\ k = 1 <=> Object = "regions"
      /\ k = 2 <=> Object = "pci"
      /\ k = 4 <=> Object = "xdev"
      /\ k = 7 <=> Object = "irqs"
      /\ k = 9 <=> Object = "qdev"
      /\ Verb = "take" => Object \in Resources \cup {"pci"}
      /\ Probe[k] = <<Verb, Object>>
  <2>1. k \in {1, 2, 3, 4, 5, 6, 7, 8, 9, 10, 11, 12, 13}
    OBVIOUS
  <2> DEFINE v == Probe[k][1]
             o == Probe[k][2]
  <2>2. /\ k \in {1, 2, 4, 5, 7, 9, 10, 11, 12, 13} <=> v = "take"
        /\ k = 1 <=> o = "regions"
        /\ k = 2 <=> o = "pci"
        /\ k = 4 <=> o = "xdev"
        /\ k = 7 <=> o = "irqs"
        /\ k = 9 <=> o = "qdev"
    BY <2>1, ProbeIs
  <2>3. v = "take" => o \in Resources \cup {"pci"}
    BY <2>1, ProbeIs DEF Resources
  <2>4. Probe[k] = <<v, o>>
    BY <2>1, ProbeIs
  <2>5. v = Verb /\ o = Object
    BY <1>1
  <2> HIDE DEF v, o
  <2> QED
    BY <2>2, <2>3, <2>4, <2>5
<1>6. k \in 1 .. 14
  OBVIOUS
<1>7. /\ k > 5 => "xdev" \in res /\ "bars" \in res
      /\ k = 9 => "qdev" \notin res
  <2>1. /\ "xdev" \in Acquired(k) <=> k > 4
        /\ "bars" \in Acquired(k) <=> k > 5
        /\ "qdev" \in Acquired(k) <=> k > 9
    BY <1>6, AcquiredIs
  <2>2. Acquired(k) \subseteq res /\ res \subseteq Acquired(k) \cup Leak /\ "qdev" \notin Leak
    BY <1>1 DEF Leak
  <2>3. (k > 5 => k > 4) /\ (k = 9 => ~(k > 9))
    OBVIOUS
  <2> QED
    BY <2>1, <2>2, <2>3
<1>8. Base'
  <2>1. CASE Take
    <3>1. IsPci(Object) => k = 2
      BY <1>5, <2>1, <1>3 DEF IsPci, Resources
    <3>2. IsPci(Object) => enables = 0
      BY <1>1, <3>1
    <3>3. Object = "irqs" => {"xdev", "bars"} \subseteq res
      BY <1>5, <1>7
    <3>4. Object = "qdev" => "qdev" \notin res /\ (coalEn => "aggregate" \in ResetModes)
      BY <1>1, <1>5, <1>7
    <3> QED
      BY <1>2, <1>3, <1>5, <2>1, <3>2, <3>3, <3>4, TakeBase
  <2>2. CASE Check
    <3>1. /\ Verb # "drop" /\ qsets' = qsets /\ qsets \in Qsets
          /\ UNCHANGED <<mode, res, enables, ranged, coalEn, coal, queue, table, cdev, bad>>
      BY <1>1, <1>2, <2>2 DEF Check, queues, module, Base, Typed
    <3> QED
      BY <1>2, <1>3, <1>4, <3>1, StillBase
  <2> QED
    BY <2>1, <2>2
<1>9. \A r \in Resources : Vacuous(r)' <=> Vacuous(r)
  BY <1>3 DEF Vacuous
<1>10. /\ Acquired(k + 1) \subseteq res' /\ res' \subseteq Acquired(k + 1) \cup Leak
  <2>1. CASE Take
    <3>1. res' = IF IsPci(Object) \/ Vacuous(Object) THEN res ELSE res \cup {Object}
      BY <2>1 DEF Take
    <3>2. \A r \in Resources : Probe[k] = <<"take", r>> <=> r = Object
      BY <1>3, <1>5, <2>1
    <3>3. Object \in Resources => ~IsPci(Object)
      BY DEF Resources, IsPci
    <3>4. Object \notin Resources => IsPci(Object)
      BY <1>3, <1>5, <2>1 DEF IsPci
    <3>5. Acquired(k + 1) = Acquired(k) \cup {r \in Resources : ~Vacuous(r) /\ r = Object}
      BY <3>2, AcquiredNext
    <3>6. CASE IsPci(Object)
      BY <1>1, <3>1, <3>3, <3>5, <3>6
    <3>7. CASE ~IsPci(Object) /\ Vacuous(Object)
      BY <1>1, <3>1, <3>5, <3>7
    <3>8. CASE ~IsPci(Object) /\ ~Vacuous(Object)
      BY <1>1, <3>1, <3>4, <3>5, <3>8
    <3> QED
      BY <3>6, <3>7, <3>8
  <2>2. CASE Check
    <3>1. res' = res /\ \A r : Probe[k] # <<"take", r>>
      BY <1>3, <1>5, <2>2 DEF Check
    <3> QED
      BY <1>1, <3>1, AcquiredNext
  <2> QED
    BY <2>1, <2>2
<1>11. enables' = IF k > 1 THEN 1 ELSE 0
  <2>1. CASE Take
    <3>1. enables' = IF IsPci(Object) THEN enables + 1 ELSE enables
      BY <2>1 DEF Take
    <3>2. IsPci(Object) <=> k = 2
      BY <1>3, <1>5, <2>1 DEF IsPci, Resources
    <3> QED
      BY <1>1, <3>1, <3>2
  <2>2. CASE Check
    <3>1. enables' = enables /\ k # 2 /\ k # 1
      BY <1>3, <1>5, <2>2 DEF Check
    <3> QED
      BY <1>1, <3>1
  <2> QED
    BY <2>1, <2>2
<1>12. k > 3 => ~coalEn'
  <2>1. CASE Take
    BY <1>1, <1>3, <1>5, <2>1 DEF Take
  <2>2. CASE Check
    <3>1. coalEn' = coalEn /\ k # 4
      BY <1>3, <1>5, <2>2 DEF Check, queues
    <3> QED
      BY <1>1, <3>1
  <2> QED
    BY <2>1, <2>2
<1>13. Acquired(k + 1)' = Acquired(k + 1)
  BY <1>9 DEF Acquired
<1>14. CASE k # 13
  <2>1. k + 1 \in 1 .. 13 /\ 14 - (k + 1) = 13 - k /\ \A j : (k + 1) - 1 + j = (k + 1 - 1) + j
    BY <1>14
  <2>2. \A j \in 1 .. 14 - (k + 1) : todo'[j] = Probe[(k + 1) - 1 + j]
    BY <1>4, <2>1
  <2>3. enables' = IF k + 1 > 2 THEN 1 ELSE 0
    BY <1>11
  <2>4. k + 1 > 4 => ~coalEn'
    BY <1>12
  <2>5. /\ op' = "probe" /\ Len(todo') = 14 - (k + 1) /\ table' = {}
        /\ Acquired(k + 1)' \subseteq res' /\ res' \subseteq Acquired(k + 1)' \cup Leak
    BY <1>1, <1>3, <1>4, <1>10, <1>13, <2>1
  <2>6. Climbing'
    BY <2>1, <2>2, <2>3, <2>4, <2>5 DEF Climbing
  <2> QED
    BY <1>8, <2>6 DEF DevInv, Plan
<1>15. CASE k = 13
  <2>1. Idle'
    <3>1. Len(todo') = 0
      BY <1>4, <1>15
    <3> QED
      BY <1>4, <3>1 DEF Idle
  <2>2. k + 1 \in 1 .. 14 /\ k + 1 > 12 /\ k + 1 = 14
    BY <1>15
  <2>3. Bound'
    BY <1>10, <1>15, <2>2, AcquiredIs DEF Bound
  <2>4. "qdev" \in res' /\ ("irqs" \in res' <=> ~Vacuous("irqs"))
    BY <1>10, <2>2, AcquiredIs DEF Leak
  <2>5. Paired'
    BY <1>9, <2>4 DEF Paired, Resources
  <2>6. table' = {}
    BY <1>1, <1>3
  <2>7. Exact'
    BY <1>8, <2>6 DEF Base, Cdevs, Exact
  <2>8. enables' = 1
    BY <1>11, <1>15
  <2> QED
    BY <1>8, <2>1, <2>3, <2>4, <2>5, <2>6, <2>7, <2>8 DEF DevInv, Plan, Settled
<1> QED
  BY <1>14, <1>15

\* A plan that drops what is held, after the interrupts were given back.
LEMMA UnwindingLater ==
  ASSUME NEW x \in Steps, NEW p, NEW R, Drops(p, R), todo' = <<x>> \o p,
         R \subseteq Removed, R \subseteq Guarded \cup res' \cup {"pci"},
         \A r \in res' \ Leak : r \in {"irqs", "qdev"} \cup R,
         "pci" \in R, enables' = 1, table' = {}
  PROVE  Releasing(1)'
<1>1. p \in Seq(Steps) /\ Len(p) \in Nat
  BY DEF Drops
<1>2. /\ Len(todo') = Len(p) + 1
      /\ \A k \in 1 .. Len(p) : todo'[k + 1] = p[k]
  BY <1>1, ConsOf
<1>3. ASSUME NEW k \in 1 + 1 .. Len(todo')
      PROVE  k - 1 \in 1 .. Len(p) /\ todo'[k] = p[k - 1]
  <2>1. k - 1 \in 1 .. Len(p) /\ (k - 1) + 1 = k
    BY <1>1, <1>2
  <2> QED
    BY <1>2, <2>1
<1>4. ASSUME NEW k \in 1 .. Len(p)
      PROVE  k + 1 \in 1 + 1 .. Len(todo') /\ todo'[k + 1] = p[k]
  BY <1>1, <1>2
<1>5. \A k \in 1 + 1 .. Len(todo') :
        \/ todo'[k][1] \in {"cleanup", "forget"}
        \/ todo'[k][1] = "drop" /\ todo'[k][2] \in (Resources \cup {"pci"}) \ {"irqs", "qdev"}
  BY <1>3 DEF Drops, Removed
<1>6. ASSUME NEW r \in R
      PROVE  \E k \in 1 + 1 .. Len(todo') : todo'[k][1] = "drop" /\ todo'[k][2] = r
  <2>1. PICK k \in 1 .. Len(p) : p[k][1] = "drop" /\ p[k][2] = r
    BY DEF Drops
  <2> QED
    BY <1>4, <2>1
<1>7. ASSUME NEW k \in 1 + 1 .. Len(todo'), todo'[k][1] = "drop"
      PROVE  /\ \/ todo'[k][2] \in Guarded \cup res'
                \/ todo'[k][2] = "pci" /\ (enables' = 1 \/ "reenable" \in Faults)
             /\ \A j \in 1 + 1 .. Len(todo') :
                  todo'[j][1] = "drop" /\ todo'[j][2] = todo'[k][2] => j = k
  <2>1. todo'[k][2] \in R
    <3>1. k - 1 \in 1 .. Len(p) /\ p[k - 1][1] = "drop" /\ todo'[k][2] = p[k - 1][2]
      BY <1>3, <1>7
    <3>2. \A i \in 1 .. Len(p) : p[i][1] = "drop" => p[i][2] \in R
      BY DEF Drops
    <3> QED
      BY <3>1, <3>2
  <2>2. ASSUME NEW j \in 1 + 1 .. Len(todo'), todo'[j][1] = "drop", todo'[j][2] = todo'[k][2]
        PROVE  j = k
    <3>2. \A a, b \in 1 .. Len(p) :
            p[a][1] = "drop" /\ p[b][1] = "drop" /\ p[a][2] = p[b][2] => a = b
      BY DEF Drops
    <3>3. /\ j - 1 \in 1 .. Len(p) /\ todo'[j] = p[j - 1]
          /\ k - 1 \in 1 .. Len(p) /\ todo'[k] = p[k - 1]
      BY <1>3
    <3>1. j - 1 = k - 1
      BY <1>7, <2>2, <3>2, <3>3
    <3> QED
      BY <1>1, <1>2, <3>1
  <2> QED
    BY <2>1, <2>2
<1> QED
  BY <1>5, <1>6, <1>7 DEF Releasing, Is

\* qdma_device_cleanup() comes before the registers are unmapped.
LEMMA CleanupFirst ==
  /\ \E k \in 1 .. Len(Close) :
       /\ Close[k] = <<"cleanup", "device">>
       /\ \A j \in 1 .. k - 1 : Close[j] # <<"drop", "bars">> /\ Close[j] # <<"drop", "xdev">>
  /\ LET p == Close \o << <<"drop", "xpdev">> >>
     IN  \E k \in 1 .. Len(p) :
           /\ p[k] = <<"cleanup", "device">>
           /\ \A j \in 1 .. k - 1 : p[j] # <<"drop", "bars">> /\ p[j] # <<"drop", "xdev">>
<1>1. \A j \in 1 .. 2 - 1 : j = 1
  OBVIOUS
<1>2. /\ 2 \in 1 .. Len(Close) /\ Close[2] = <<"cleanup", "device">>
      /\ Close[1] # <<"drop", "bars">> /\ Close[1] # <<"drop", "xdev">>
  BY CloseIs
<1> DEFINE p == Close \o << <<"drop", "xpdev">> >>
<1>3. <<"drop", "xpdev">> \in Steps
  BY StepsAre DEF Names, Resources
<1>4. Len(p) = Len(Close) + 1 /\ \A k \in 1 .. Len(Close) : p[k] = Close[k]
  BY <1>3, CloseIs, AppendOf
<1> HIDE DEF p
<1>5. /\ 2 \in 1 .. Len(p) /\ p[2] = <<"cleanup", "device">>
      /\ p[1] # <<"drop", "bars">> /\ p[1] # <<"drop", "xdev">>
  BY <1>4, CloseIs
<1>6. \E k \in 1 .. Len(Close) :
        /\ Close[k] = <<"cleanup", "device">>
        /\ \A j \in 1 .. k - 1 : Close[j] # <<"drop", "bars">> /\ Close[j] # <<"drop", "xdev">>
  BY <1>1, <1>2
<1>7. \E k \in 1 .. Len(p) :
        /\ p[k] = <<"cleanup", "device">>
        /\ \A j \in 1 .. k - 1 : p[j] # <<"drop", "bars">> /\ p[j] # <<"drop", "xdev">>
  BY <1>1, <1>5
<1> QED
  BY <1>6, <1>7 DEF p

\* The label a failed step of the probe jumps to.
LEMMA ProbeFails ==
  ASSUME NEW f
  PROVE  /\ f = "regions" => Failed("probe", f) = <<>>
         /\ f = "pci" => Failed("probe", f) = ReleaseRegions
         /\ f = "mask" => Failed("probe", f) = DisableDevice
         /\ f \in {"bars", "interface"} => Failed("probe", f) = UnmapBars
         /\ f = "irqs" => Failed("probe", f) = CleanupQdma
         /\ f = "qdev" => Failed("probe", f) = << <<"drop", "irqs">> >> \o CleanupQdma
         /\ f = "xpdev" => Failed("probe", f) = Close
         /\ f \in {"chrdev", "sysfs"} => Failed("probe", f) = Close \o << <<"drop", "xpdev">> >>
<1>1. Failed("probe", f) = InitUndone(f) \o ProbeFailed(f)
  BY DEF Failed
<1>2. /\ f = "regions" => ProbeFailed(f) = <<>>
      /\ f = "pci" => ProbeFailed(f) = ReleaseRegions
      /\ f = "mask" => ProbeFailed(f) = DisableDevice
      /\ f \in {"bars", "interface"} => ProbeFailed(f) = UnmapBars
      /\ f \in {"irqs", "qdev"} => ProbeFailed(f) = CleanupQdma
      /\ f = "xpdev" => ProbeFailed(f) = Close
      /\ f \in {"chrdev", "sysfs"} => ProbeFailed(f) = Close \o << <<"drop", "xpdev">> >>
  BY DEF ProbeFailed, CloseDevice
<1>3. f # "qdev" => InitUndone(f) = <<>>
  BY DEF InitUndone
<1>4. f = "qdev" => InitUndone(f) = << <<"drop", "irqs">> >>
  BY DEF InitUndone
<1>5. \A p \in Seq(Steps) : <<>> \o p = p
  OBVIOUS
<1>6. /\ <<>> \in Seq(Steps) /\ ReleaseRegions \in Seq(Steps) /\ DisableDevice \in Seq(Steps)
      /\ UnmapBars \in Seq(Steps) /\ CleanupQdma \in Seq(Steps) /\ Close \in Seq(Steps)
      /\ Close \o << <<"drop", "xpdev">> >> \in Seq(Steps)
  <2>1. ReleaseRegions \in Seq(Steps) /\ DisableDevice \in Seq(Steps) /\ UnmapBars \in Seq(Steps)
    BY UnmapBarsIs
  <2>2. CleanupQdma \in Seq(Steps) /\ Close \in Seq(Steps) /\ <<>> \in Seq(Steps)
    BY CleanupQdmaIs, CloseIs
  <2>3. Close \o << <<"drop", "xpdev">> >> \in Seq(Steps)
    BY CloseDrops DEF Drops
  <2> QED
    BY <2>1, <2>2, <2>3
<1>7. f # "qdev" /\ ProbeFailed(f) \in Seq(Steps) => Failed("probe", f) = ProbeFailed(f)
  BY <1>1, <1>3, <1>5
<1> QED
  BY <1>1, <1>2, <1>4, <1>6, <1>7

\* The probe fails: everything it acquired is released again.
LEMMA ClimbingFails ==
  ASSUME MayFail, DevInv, Climbing, Fail
  PROVE  DevInv'
<1>1. PICK k \in 1 .. 13 :
        /\ op = "probe"
        /\ Acquired(k) \subseteq res /\ res \subseteq Acquired(k) \cup Leak
        /\ enables = IF k > 2 THEN 1 ELSE 0
        /\ table = {}
        /\ Verb = Probe[k][1] /\ Object = Probe[k][2] /\ Verb \in {"take", "check"}
  BY ClimbingIs
<1> DEFINE f == Object
<1>2. Base /\ todo # <<>> /\ Verb # "drop"
  BY <1>1 DEF DevInv, Fail
<1>3. /\ f \in Faults /\ ~Vacuous(f) /\ todo' = Failed("probe", f)
      /\ UNCHANGED <<mode, op, res, enables, qsets, ranged, coalEn, coal, queue, table, cdev, bad>>
  BY <1>1, <1>2, FailIs
<1>4. /\ f \in {"regions", "pci", "mask", "bars", "interface", "irqs", "qdev", "xpdev", "chrdev", "sysfs"}
      /\ f = "regions" => k = 1
      /\ f = "pci" => k = 2
      /\ f = "mask" => k = 3
      /\ f = "bars" => k = 5
      /\ f = "interface" => k = 6
      /\ f = "irqs" => k = 7
      /\ f = "qdev" => k = 9
      /\ f = "xpdev" => k = 10
      /\ f = "chrdev" => k = 11
      /\ f = "sysfs" => k = 12
  <2>1. k \in {1, 2, 3, 4, 5, 6, 7, 8, 9, 10, 11, 12, 13}
    OBVIOUS
  <2>2. f \in {"regions", "pci", "mask", "xdev", "bars", "interface", "irqs", "queues", "qdev",
               "xpdev", "chrdev", "sysfs", "drvdata"}
    BY <1>1, <2>1, ProbeIs
  <2>3. f \notin {"xdev", "queues", "drvdata"}
    BY <1>3 DEF MayFail
  <2>4. f \in {"regions", "pci", "mask", "bars", "interface", "irqs", "qdev", "xpdev", "chrdev", "sysfs"}
    BY <2>2, <2>3
  <2>5. f = Probe[k][2]
    BY <1>1
  <2> HIDE DEF f
  <2> QED
    BY <2>1, <2>4, <2>5, ProbeIs
<1> HIDE DEF f
<1>5. ASSUME todo' \in Seq(Steps)
      PROVE  Base' /\ (Paired' <=> Paired) /\ (Vacuous("irqs")' <=> Vacuous("irqs"))
  <2>1. qsets \in Qsets
    BY <1>2 DEF Base, Typed
  <2> QED
    BY <1>2, <1>3, <1>5, <2>1, StillBase
<1>6. ASSUME NEW p, NEW R, Drops(p, R), todo' = p, Paired,
             R \subseteq Removed, R \subseteq Guarded \cup res \cup {"pci"},
             \A r \in res \ Leak : r \in {"irqs", "qdev"} \cup R,
             enables = 1 <=> "pci" \in R,
             "qdev" \in res =>
               \E i \in 1 .. Len(p) :
                 /\ p[i] = <<"cleanup", "device">>
                 /\ \A j \in 1 .. i - 1 : p[j] # <<"drop", "bars">> /\ p[j] # <<"drop", "xdev">>
      PROVE  DevInv'
  <2>1. todo' \in Seq(Steps)
    BY <1>6 DEF Drops
  <2>2. Base' /\ Paired'
    BY <1>5, <1>6, <2>1
  <2>3. Releasing(0)'
    BY <1>1, <1>3, <1>6, Unwinding
  <2>4. Cleaning(0)'
    <3>1. 0 <= Len(todo')
      BY <2>1
    <3> QED
      BY <2>2, <3>1 DEF Cleaning
  <2> QED
    BY <2>2, <2>3, <2>4 DEF DevInv, Plan
<1>7. /\ "regions" \in res <=> k > 1
      /\ "xdev" \in res <=> k > 4
      /\ "bars" \in res <=> k > 5
      /\ "irqs" \in res <=> k > 7 /\ ~Vacuous("irqs")
      /\ "qdev" \in res <=> k > 9
      /\ "xpdev" \in res <=> k > 10
      /\ "sysfs" \in res <=> k > 12
      /\ "drvdata" \notin res /\ "vfs" \notin res
      /\ "chrdev" \in res => k > 11 \/ "chrdev" \in Leak
  <2>1. k \in 1 .. 14 /\ ~(k > 13)
    OBVIOUS
  <2> QED
    BY <1>1, <2>1, AcquiredIs DEF Leak
<1>8. res \subseteq Resources
  BY <1>2 DEF Base, Typed
<1>9. k # 9 /\ k # 8 => Paired
  BY <1>7 DEF Paired
<1>10. CASE f = "regions"
  <2>1. k = 1 /\ todo' = <<>>
    BY <1>3, <1>4, <1>10, ProbeFails
  <2>2. /\ \A r \in res \ Leak : r \in {"irqs", "qdev"} \cup {}
        /\ Paired /\ enables = 0 /\ "qdev" \notin res
    BY <1>1, <1>7, <1>8, <1>9, <2>1 DEF Resources
  <2> QED
    BY <1>6, <2>1, <2>2, UnwindDrops
<1>11. CASE f = "pci"
  <2>1. k = 2 /\ todo' = ReleaseRegions
    BY <1>3, <1>4, <1>11, ProbeFails
  <2>2. /\ \A r \in res \ Leak : r \in {"irqs", "qdev"} \cup {"regions"}
        /\ {"regions"} \subseteq Removed /\ {"regions"} \subseteq Guarded \cup res \cup {"pci"}
        /\ Paired /\ enables = 0 /\ "qdev" \notin res
    BY <1>1, <1>7, <1>8, <1>9, <2>1 DEF Resources, Removed
  <2> QED
    BY <1>6, <2>1, <2>2, UnwindDrops
<1>12. CASE f = "mask"
  <2>1. k = 3 /\ todo' = DisableDevice
    BY <1>3, <1>4, <1>12, ProbeFails
  <2> DEFINE R == {"pci", "regions"}
  <2>2. /\ \A r \in res \ Leak : r \in {"irqs", "qdev"} \cup R
        /\ R \subseteq Removed /\ R \subseteq Guarded \cup res \cup {"pci"}
        /\ Paired /\ enables = 1 /\ "qdev" \notin res
    BY <1>1, <1>7, <1>8, <1>9, <2>1 DEF Resources, Removed
  <2> QED
    BY <1>6, <2>1, <2>2, UnwindDrops
<1>13. CASE f \in {"bars", "interface"}
  <2>1. k \in {5, 6} /\ todo' = UnmapBars
    BY <1>3, <1>4, <1>13, ProbeFails
  <2> DEFINE R == {"bars", "xdev", "pci", "regions"}
  <2>2. /\ \A r \in res \ Leak : r \in {"irqs", "qdev"} \cup R
        /\ R \subseteq Removed /\ R \subseteq Guarded \cup res \cup {"pci"}
        /\ Paired /\ enables = 1 /\ "qdev" \notin res
    BY <1>1, <1>7, <1>8, <1>9, <2>1 DEF Resources, Removed, Guarded
  <2> QED
    BY <1>6, <2>1, <2>2, UnwindDrops
<1>14. CASE f = "irqs"
  <2>1. k = 7 /\ todo' = CleanupQdma
    BY <1>3, <1>4, <1>14, ProbeFails
  <2> DEFINE R == {"vfs", "bars", "xdev", "pci", "regions"}
  <2>2. /\ \A r \in res \ Leak : r \in {"irqs", "qdev"} \cup R
        /\ R \subseteq Removed /\ R \subseteq Guarded \cup res \cup {"pci"}
        /\ Paired /\ enables = 1 /\ "qdev" \notin res
    BY <1>1, <1>7, <1>8, <1>9, <2>1 DEF Resources, Removed, Guarded
  <2> QED
    BY <1>6, <2>1, <2>2, UnwindDrops
<1>15. CASE f = "qdev"
  <2> DEFINE x == <<"drop", "irqs">>
             R == {"vfs", "bars", "xdev", "pci", "regions"}
  <2>1. k = 9 /\ todo' = <<x>> \o CleanupQdma
    BY <1>3, <1>4, <1>15, ProbeFails
  <2>2. x \in Steps
    BY StepsAre DEF Names, Resources
  <2>3. todo' \in Seq(Steps) /\ Len(todo') = Len(CleanupQdma) + 1 /\ todo'[1] = x
    BY <2>1, <2>2, CleanupQdmaIs, ConsOf
  <2>4. Base' /\ (Vacuous("irqs")' <=> Vacuous("irqs"))
    BY <1>5, <2>3
  <2>5. /\ \A r \in res \ Leak : r \in {"irqs", "qdev"} \cup R
        /\ R \subseteq Removed /\ R \subseteq Guarded \cup res \cup {"pci"}
        /\ enables = 1
    BY <1>1, <1>7, <1>8, <2>1 DEF Resources, Removed, Guarded
  <2>6. "pci" \in R /\ Drops(CleanupQdma, R)
    BY UnwindDrops
  <2> HIDE DEF x, R
  <2>7. Releasing(1)'
    BY <1>1, <1>3, <2>1, <2>2, <2>5, <2>6, UnwindingLater
  <2>8. "qdev" \notin res' /\ ("irqs" \in res' \/ Vacuous("irqs")')
    BY <1>3, <1>7, <2>1, <2>4
  <2>9. 1 <= Len(todo') /\ Is(1, "drop", "irqs")'
    BY <2>3, CleanupQdmaIs DEF Is, x
  <2>10. Cleaning(1)'
    BY <2>8, <2>9 DEF Cleaning
  <2> QED
    BY <2>4, <2>7, <2>10 DEF DevInv, Plan
<1>16. CASE f = "xpdev"
  <2>1. k = 10 /\ todo' = Close
    BY <1>3, <1>4, <1>16, ProbeFails
  <2> DEFINE R == {"vfs", "bars", "regions", "pci", "xdev"}
  <2>2. /\ \A r \in res \ Leak : r \in {"irqs", "qdev"} \cup R
        /\ R \subseteq Removed /\ R \subseteq Guarded \cup res \cup {"pci"}
        /\ Paired /\ enables = 1
    BY <1>1, <1>7, <1>8, <1>9, <2>1 DEF Resources, Removed, Guarded
  <2> QED
    <3>1. Drops(Close, R) /\ "pci" \in R
      BY CloseDrops
    <3>2. \E i \in 1 .. Len(Close) :
            /\ Close[i] = <<"cleanup", "device">>
            /\ \A j \in 1 .. i - 1 : Close[j] # <<"drop", "bars">> /\ Close[j] # <<"drop", "xdev">>
      BY CleanupFirst
    <3> HIDE DEF R
    <3> QED
      BY <1>6, <2>1, <2>2, <3>1, <3>2
<1>17. CASE f \in {"chrdev", "sysfs"}
  <2> DEFINE p == Close \o << <<"drop", "xpdev">> >>
             R == {"vfs", "bars", "regions", "pci", "xdev", "xpdev"}
  <2>1. k \in {11, 12} /\ todo' = p /\ (k = 12 => f = "sysfs")
    BY <1>3, <1>4, <1>17, ProbeFails
  <2>2. k = 12 => "chrdev" \in Leak
    BY <1>3, <2>1 DEF Leak
  <2>3. /\ \A r \in res \ Leak : r \in {"irqs", "qdev"} \cup R
        /\ R \subseteq Removed /\ R \subseteq Guarded \cup res \cup {"pci"}
        /\ Paired /\ enables = 1
    BY <1>1, <1>7, <1>8, <1>9, <2>1, <2>2 DEF Resources, Removed, Guarded
  <2>4. Drops(p, R)
    BY CloseDrops
  <2>5. \E i \in 1 .. Len(p) :
          /\ p[i] = <<"cleanup", "device">>
          /\ \A j \in 1 .. i - 1 : p[j] # <<"drop", "bars">> /\ p[j] # <<"drop", "xdev">>
    BY CleanupFirst
  <2>6. "pci" \in R
    OBVIOUS
  <2> HIDE DEF p, R
  <2> QED
    BY <1>6, <2>1, <2>3, <2>4, <2>5, <2>6
<1> QED
  BY <1>4, <1>10, <1>11, <1>12, <1>13, <1>14, <1>15, <1>16, <1>17

LEMMA ClimbingInv == ASSUME MayFail, DevInv, Climbing, Step PROVE DevInv'
<1>1. Verb \in {"take", "check"}
  BY ClimbingIs
<1>2. Take \/ Check \/ Fail
  BY <1>1, StepIs
<1> QED
  BY <1>2, ClimbingOn, ClimbingFails

-----------------------------------------------------------------------------
(* Errors, virtual functions and queues.                                   *)

\* Something is released that no queue and no interrupt needs.
LEMMA DropBase ==
  ASSUME Base, Drop, Object \in Removed,
         Object \in {"bars", "xdev"} => "irqs" \notin res /\ "qdev" \notin res,
         \/ Object \in Guarded \cup res
         \/ Object = "pci" /\ (enables = 1 \/ "reenable" \in Faults)
  PROVE  /\ Base' /\ todo # <<>> /\ Advance
         /\ res' = res \ {Object}
         /\ enables' = IF Object = "pci" THEN 0 ELSE enables
         /\ UNCHANGED <<mode, op, qsets, coalEn, table, cdev, queue>>
<1>1. /\ todo # <<>> /\ Verb = "drop" /\ Advance /\ res' = res \ {Object}
      /\ enables' = (IF Object = "pci" /\ enables > 0 THEN enables - 1 ELSE enables)
      /\ UNCHANGED <<mode, op, qsets, coalEn, coal, table, cdev>>
  BY DEF Drop, On, module
<1>2. Object \notin {"irqs", "qdev", "coal"}
  BY DEF Removed, Resources
<1>3. UNCHANGED <<queue, ranged>>
  BY <1>2 DEF Drop
<1>4. \/ bad' = bad
      \/ bad' = bad \cup {Object} /\ Object = "pci" /\ "reenable" \in Faults
  <2>1. bad' = bad \/ bad' = bad \cup {Object}
    BY DEF Drop
  <2>2. Object \in Guarded => bad' = bad
    BY DEF Drop
  <2>3. Object = "pci" /\ enables = 1 => bad' = bad
    BY DEF Drop
  <2>4. Object # "pci" /\ Object \in res => bad' = bad
    BY DEF Drop
  <2>5. Object \in res => Object # "pci"
    BY DEF Base, Typed, Resources
  <2> QED
    BY <2>1, <2>2, <2>3, <2>4, <2>5
<1>5. todo' \in Seq(Steps)
  BY <1>1, Advanced
<1>6. enables' = IF Object = "pci" THEN 0 ELSE enables
  BY <1>1 DEF Base, Typed
<1>7. Typed'
  <2>1. enables' \in 0 .. 1
    BY <1>6 DEF Base, Typed
  <2> QED
    BY <1>1, <1>3, <2>1 DEF Base, Typed
<1>8. Kept'
  BY <1>4 DEF Base, Kept, Twice
<1>9. QueuesBacked'
  BY <1>1, <1>2, <1>3 DEF Base, QueuesBacked
<1>10. ~Is(1, "drop", "qdev")
  BY <1>2 DEF Is, Object
<1>11. Rings'
  BY <1>1, <1>2, <1>3, <1>10 DEF Base, Rings
<1>12. Cdevs'
  BY <1>1 DEF Base, Cdevs
<1>13. Handled'
  BY <1>1, <1>2, <1>3 DEF Base, Handled
<1>14. RunsBacked'
  <2>1. ASSUME NEW q \in Queues, queue[q] = "started"
        PROVE  /\ {"qdev", "bars"} \subseteq res' /\ Idx(q) < qsets'
               /\ mode' # "poll" /\ Vectors > 0 => "irqs" \in res'
    BY <1>1, <1>2, <2>1 DEF Base, RunsBacked
  <2> QED
    BY <1>3, <2>1 DEF RunsBacked
<1> QED
  BY <1>1, <1>3, <1>5, <1>6, <1>7, <1>8, <1>9, <1>11, <1>12, <1>13, <1>14 DEF Base

\* What a device needs is not touched.
LEMMA SettledStays ==
  ASSUME UNCHANGED <<mode, table, cdev>>,
         \A r \in Resources : r # "vfs" => (r \in res' <=> r \in res)
  PROVE  /\ Bound' <=> Bound
         /\ Paired' <=> Paired
         /\ Exact' <=> Exact
         /\ queue' = queue => (Settled' <=> Settled)
<1>1. {"regions", "xdev", "bars", "xpdev", "chrdev", "sysfs", "drvdata", "irqs", "qdev"}
        \subseteq Resources \ {"vfs"}
  BY DEF Resources
<1>2. Bound' <=> Bound
  BY <1>1 DEF Bound
<1>3. Paired' <=> Paired
  BY <1>1 DEF Paired, Vacuous
<1>4. Exact' <=> Exact
  BY DEF Exact
<1>5. "qdev" \in res' <=> "qdev" \in res
  BY <1>1
<1> QED
  BY <1>2, <1>3, <1>4, <1>5 DEF Settled

LEMMA StrikingInv == ASSUME MayFail, DevInv, Striking, Step PROVE DevInv'
<1>1. Base /\ op = "error" /\ Settled
  BY DEF DevInv, Striking
<1>2. CASE Len(todo) = 2 /\ Is(1, "drop", "pci") /\ Is(2, "take", "reenable") /\ enables = 1
  <2>1. Verb = "drop" /\ Object = "pci"
    BY <1>2 DEF Is, Verb, Object
  <2>2. Drop
    BY <2>1, StepIs DEF DropRings
  <2>3. /\ Base' /\ todo # <<>> /\ Advance /\ res' = res \ {"pci"} /\ enables' = 0
        /\ UNCHANGED <<mode, op, table, cdev, queue>>
    <3>1. Object \in Removed /\ ~(Object \in {"bars", "xdev"})
      BY <2>1 DEF Removed
    <3> QED
      BY <1>1, <1>2, <2>1, <2>2, <3>1, DropBase
  <2>4. "pci" \notin Resources
    BY DEF Resources
  <2>5. Settled'
    BY <1>1, <2>3, <2>4, SettledStays
  <2>6. Len(todo') = 1 /\ todo'[1] = todo[2]
    BY <1>1, <1>2, <2>3, Advanced
  <2>7. Striking'
    BY <1>1, <1>2, <2>3, <2>5, <2>6 DEF Striking, Is
  <2> QED
    BY <2>3, <2>7 DEF DevInv, Plan
<1>3. CASE Len(todo) = 1 /\ Is(1, "take", "reenable") /\ enables = 0
  <2>1. Verb = "take" /\ Object = "reenable"
    BY <1>3 DEF Is, Verb, Object
  <2>2. CASE Take
    <3>1. Base'
      <4>1. Object \in Resources \cup {"pci", "reenable"} /\ Object # "irqs" /\ Object # "qdev"
        BY <2>1
      <4> QED
        BY <1>1, <1>3, <2>2, <4>1, TakeBase
    <3>2. /\ todo # <<>> /\ Advance /\ res' = res /\ enables' = 1
          /\ UNCHANGED <<mode, table, cdev, queue>>
      BY <1>3, <2>1, <2>2 DEF Take, On, IsPci, module
    <3>3. Settled'
      BY <1>1, <3>2, SettledStays
    <3>4. Idle'
      <4>1. todo' \in Seq(Steps) /\ Len(todo') = 0
        BY <1>1, <1>3, <3>2, Advanced
      <4> QED
        BY <4>1 DEF Idle
    <3> QED
      BY <3>1, <3>2, <3>3, <3>4 DEF DevInv, Plan
  <2>3. CASE Fail
    <3>1. /\ "reenable" \in Faults /\ todo' = Failed("error", Object) /\ todo # <<>>
          /\ UNCHANGED <<mode, op, res, enables, qsets, ranged, coalEn, coal, queue, table, cdev, bad>>
      BY <1>1, <2>1, <2>3, FailIs DEF Fail
    <3>2. todo' = Remove
      BY <3>1 DEF Failed
    <3>3. Base' /\ Settled'
      <4>1. Verb # "drop" /\ Remove \in Seq(Steps) /\ qsets \in Qsets
        BY <1>1, <2>1, RemoveIs DEF Base, Typed
      <4> QED
        BY <1>1, <3>1, <3>2, <4>1, StillBase
    <3>4. res \subseteq Resources /\ table \subseteq Queues
      BY <1>1 DEF Base, Typed
    <3>5. /\ Removed \subseteq Guarded \cup res' \cup {"pci"}
          /\ \A r \in res' \ Leak : r \in {"irqs", "qdev"} \cup Removed
          /\ enables' # 1
      BY <1>1, <1>3, <3>1, <3>4 DEF Settled, Bound, Removed, Guarded, Resources
    <3>6. Releasing(0)'
      BY <3>1, <3>2, <3>4, <3>5, RemoveDrops, Unwinding
    <3>7. Cleaning(0)'
      <4>1. Paired' /\ Len(todo') \in Nat
        BY <3>3 DEF Settled, Base
      <4> QED
        BY <4>1 DEF Cleaning
    <3> QED
      BY <3>3, <3>6, <3>7 DEF DevInv, Plan
  <2> QED
    BY <2>1, <2>2, <2>3, StepIs
<1> QED
  BY <1>2, <1>3 DEF Striking

LEMMA VirtualisingInv == ASSUME MayFail, DevInv, Virtualising, Step PROVE DevInv'
<1>1. /\ Base /\ op = "sriov" /\ Settled /\ enables = 1 /\ Len(todo) = 1
      /\ Verb \in {"take", "drop"} /\ Object = "vfs"
  BY DEF DevInv, Virtualising, Verb, Object
<1>2. ASSUME todo # <<>>, Advance PROVE Idle'
  <2>1. todo' \in Seq(Steps) /\ Len(todo') = 0
    BY <1>1, <1>2, Advanced
  <2> QED
    BY <2>1 DEF Idle
<1>3. CASE Take
  <2>1. Base'
    <3>1. Object \in Resources /\ Object # "irqs" /\ Object # "qdev" /\ ~IsPci(Object)
      BY <1>1 DEF IsPci, Resources
    <3> QED
      BY <1>1, <1>3, <3>1, TakeBase
  <2>2. /\ todo # <<>> /\ Advance /\ res \subseteq res' /\ res' \subseteq res \cup {"vfs"} /\ enables' = 1
        /\ UNCHANGED <<mode, table, cdev, queue>>
    BY <1>1, <1>3 DEF Take, On, IsPci, module
  <2>3. Settled'
    BY <1>1, <2>2, SettledStays
  <2> QED
    BY <1>2, <2>1, <2>2, <2>3 DEF DevInv, Plan
<1>4. CASE Drop
  <2>1. /\ Base' /\ todo # <<>> /\ Advance /\ res' = res \ {"vfs"} /\ enables' = 1
        /\ UNCHANGED <<mode, table, cdev, queue>>
    <3>1. Object \in Removed /\ Object \in Guarded /\ ~(Object \in {"bars", "xdev"}) /\ Object # "pci"
      BY <1>1 DEF Removed, Resources, Guarded
    <3> QED
      BY <1>1, <1>4, <3>1, DropBase
  <2>2. Settled'
    BY <1>1, <2>1, SettledStays
  <2> QED
    BY <1>2, <2>1, <2>2 DEF DevInv, Plan
<1>5. CASE Fail
  <2>1. /\ todo' = Failed("sriov", Object) /\ todo # <<>> /\ Verb \in {"take", "check"}
        /\ UNCHANGED <<mode, op, res, enables, qsets, ranged, coalEn, coal, queue, table, cdev, bad>>
    BY <1>1, <1>5, FailIs DEF Fail
  <2>2. todo' = <<>>
    BY <2>1 DEF Failed
  <2>3. Base' /\ Settled'
    <3>1. Verb # "drop" /\ qsets \in Qsets
      BY <1>1, <2>1 DEF Base, Typed
    <3>2. todo' \in Seq(Steps)
      BY <2>2
    <3> QED
      BY <1>1, <2>1, <3>1, <3>2, StillBase
  <2> QED
    BY <1>1, <2>1, <2>2, <2>3 DEF DevInv, Plan, Idle
<1>6. Take \/ Drop \/ Fail
  BY <1>1, StepIs DEF DropRings
<1> QED
  BY <1>3, <1>4, <1>5, <1>6

\* The rest of a batch is not handled.
LEMMA FailedBatch ==
  ASSUME NEW ok, BatchFails(ok)
  PROVE  /\ todo' = <<>>
         /\ UNCHANGED <<mode, op, res, enables, qsets, ranged, coalEn, coal, queue, table, cdev, bad>>
BY DEF BatchFails, queues, module

LEMMA BatchEnds ==
  ASSUME DevInv, todo # <<>>, Verb # "drop", todo' = <<>>, Settled, enables = 1,
         UNCHANGED <<mode, op, res, enables, qsets, ranged, coalEn, coal, queue, table, cdev, bad>>
  PROVE  DevInv'
<1>1. /\ todo' = <<>> /\ enables' = 1
      /\ UNCHANGED <<mode, op, res, enables, qsets, ranged, coalEn, coal, queue, table, cdev, bad>>
  OBVIOUS
<1>2. Base /\ qsets \in Qsets
  BY DEF DevInv, Base, Typed
<1>3. todo' \in Seq(Steps)
  BY <1>1
<1>4. Base' /\ Settled'
  BY <1>1, <1>2, <1>3, StillBase
<1> QED
  BY <1>1, <1>4 DEF DevInv, Plan, Idle

\* A step of a batch names a queue.
LEMMA ObjectIs ==
  ASSUME Base, todo # <<>>, Verb \in {"add", "cdev", "start", "stop", "delete", "forget"}
  PROVE  /\ Object \in Queues /\ Dir(Object) \in Dirs /\ Idx(Object) \in 0 .. TableSize - 1
         /\ Object = <<Dir(Object), Idx(Object)>>
<1>1. todo[1] \in Steps
  BY TailOf DEF Base
<1>2. Object \in Queues
  <2>1. \/ todo[1] \in {"take", "check", "drop", "cleanup", "stop_all"} \X Names
        \/ todo[1] \in {"set"} \X Qsets
        \/ todo[1] \in {"add", "cdev", "start", "stop", "delete", "forget"} \X Queues
    BY <1>1 DEF Steps
  <2>2. ~(todo[1][1] \in {"take", "check", "drop", "cleanup", "stop_all"}) /\ todo[1][1] # "set"
    BY DEF Verb
  <2>3. todo[1] \in {"add", "cdev", "start", "stop", "delete", "forget"} \X Queues
    BY <2>1, <2>2
  <2> QED
    BY <2>3 DEF Object
<1> QED
  BY <1>2 DEF Queues, Dir, Idx

\* A queue is added to the library.
LEMMA AddQueueInv == ASSUME MayFail, DevInv, Adding, AddQueue PROVE DevInv'
<1> DEFINE q == Object
<1>1. /\ Base /\ op = "netlink" /\ Settled /\ enables = 1 /\ "qdev" \in res
      /\ \A k \in 1 .. Len(todo) :
           \/ todo[k][1] = "add"
           \/ /\ todo[k][1] = "cdev"
              /\ k = 1 => queue[todo[k][2]] # "free"
              /\ k # 1 => Is(k - 1, "add", todo[k][2])
  BY DEF DevInv, Adding
<1>2. /\ todo # <<>> /\ Verb = "add" /\ Advance /\ Addable(q)
      /\ queue' = [queue EXCEPT ![q] = "added"]
      /\ ranged' = TRUE
      /\ UNCHANGED <<mode, op, res, enables, qsets, table, cdev, bad>>
  BY DEF AddQueue, On, module
<1>3. /\ ranged => coalEn' = coalEn /\ coal' = coal
      /\ ~ranged => coalEn' = Aggregates /\ coal' = IF Aggregates THEN "live" ELSE "none"
  BY DEF AddQueue
<1>4. q \in Queues
  BY <1>1, <1>2, ObjectIs
<1>5. /\ Len(todo) \in Nat \ {0} /\ todo' \in Seq(Steps) /\ Len(todo') = Len(todo) - 1
      /\ \A k \in 1 .. Len(todo) - 1 : todo'[k] = todo[k + 1]
  BY <1>1, <1>2, Advanced
<1>6. queue \in [Queues -> {"free", "added", "started"}] /\ Idx(q) < qsets /\ queue[q] = "free"
  BY <1>1, <1>2 DEF Base, Typed, Addable
<1> HIDE DEF q
<1>7. /\ \A r \in Queues : r # q => queue'[r] = queue[r]
      /\ queue'[q] = "added"
  BY <1>2, <1>4, <1>6
<1>8. Typed'
  <2>1. queue' \in [Queues -> {"free", "added", "started"}]
    BY <1>2, <1>4, <1>6
  <2>2. coalEn' \in BOOLEAN
    <3>1. Aggregates \in BOOLEAN
      BY DEF Aggregates
    <3> QED
      BY <1>1, <1>3, <3>1 DEF Base, Typed
  <2>3. coal' \in {"none", "live", "freed"}
    BY <1>1, <1>3 DEF Base, Typed
  <2> QED
    BY <1>1, <1>2, <2>1, <2>2, <2>3 DEF Base, Typed
<1>9. \A r \in Queues : queue'[r] = "started" => queue[r] = "started"
  BY <1>7
<1>10. QueuesBacked'
  <2>1. \A r \in Queues : queue'[r] # "free" => Idx(r) < qsets'
    BY <1>1, <1>2, <1>6, <1>7 DEF Base, QueuesBacked
  <2> QED
    BY <1>1, <1>2, <2>1 DEF QueuesBacked
<1>11. ~Is(1, "drop", "qdev")
  BY <1>2 DEF Is, Verb
<1>12. Rings'
  <2>1. CASE ranged
    BY <1>1, <1>2, <1>3, <1>11, <2>1 DEF Base, Rings
  <2>2. CASE ~ranged
    <3>1. CASE Aggregates
      <4>1. coalEn' /\ coal' = "live" /\ mode' = "aggregate"
        BY <1>2, <1>3, <2>2, <3>1 DEF Aggregates
      <4> QED
        BY <1>2, <4>1 DEF Rings
    <3>2. CASE ~Aggregates
      <4>1. ~coalEn' /\ coal' = "none"
        BY <1>3, <2>2, <3>2
      <4> QED
        BY <4>1 DEF Rings
    <3> QED
      BY <3>1, <3>2
  <2> QED
    BY <2>1, <2>2
<1>13. Cdevs' /\ Kept'
  BY <1>1, <1>2 DEF Base, Cdevs, Kept
<1>14. ~ranged => Quiet
  BY <1>1 DEF Base, QueuesBacked, Quiet
<1>15. Handled'
  BY <1>1, <1>2, <1>3, <1>9, <1>14 DEF Base, Handled, Quiet
<1>16. RunsBacked'
  BY <1>1, <1>2, <1>9 DEF Base, RunsBacked
<1>17. Base'
  BY <1>5, <1>8, <1>10, <1>12, <1>13, <1>15, <1>16 DEF Base
<1>18. Settled'
  <2>1. Bound' /\ Paired' /\ Exact'
    BY <1>1, <1>2 DEF Settled, Bound, Paired, Exact, Vacuous
  <2>2. table \subseteq Queues
    BY <1>1 DEF Base, Typed
  <2>3. \A r \in table' : queue'[r] # "free"
    BY <1>1, <1>2, <1>7, <2>2 DEF Settled
  <2> QED
    BY <1>1, <1>2, <2>1, <2>3 DEF Settled
<1>19. ASSUME NEW k \in 1 .. Len(todo')
       PROVE  \/ todo'[k][1] = "add"
              \/ /\ todo'[k][1] = "cdev"
                 /\ k = 1 => queue'[todo'[k][2]] # "free"
                 /\ k # 1 => Is(k - 1, "add", todo[k][2])'
  <2>1. k + 1 \in 1 .. Len(todo) /\ k + 1 # 1 /\ (k + 1) - 1 = k /\ k \in 1 .. Len(todo) - 1
    BY <1>5
  <2>2. todo'[k] = todo[k + 1]
    BY <1>5, <2>1
  <2>3. todo[k + 1][1] = "add" \/ (todo[k + 1][1] = "cdev" /\ Is(k, "add", todo[k + 1][2]))
    BY <1>1, <2>1
  <2>4. CASE k = 1 /\ todo[k + 1][1] = "cdev" /\ Is(k, "add", todo[k + 1][2])
    <3>1. todo'[k][2] = q
      BY <2>2, <2>4 DEF Is, q, Object
    <3> QED
      BY <1>7, <2>2, <2>4, <3>1
  <2>5. CASE k # 1 /\ todo[k + 1][1] = "cdev" /\ Is(k, "add", todo[k + 1][2])
    <3>1. k - 1 \in 1 .. Len(todo) - 1 /\ (k - 1) + 1 = k
      BY <1>5, <2>5
    <3>2. todo'[k - 1] = todo[k]
      BY <1>5, <3>1
    <3>3. Is(k - 1, "add", todo[k][2])'
      BY <2>2, <2>5, <3>2 DEF Is
    <3> QED
      BY <2>2, <2>5, <3>3
  <2> QED
    BY <2>2, <2>3, <2>4, <2>5
<1>20. Adding'
  BY <1>1, <1>2, <1>18, <1>19 DEF Adding
<1> QED
  BY <1>17, <1>20 DEF DevInv, Plan

\* A queue gets its place in the table, and its direction of the device.
LEMMA AddCdevInv == ASSUME MayFail, DevInv, Adding, AddCdev PROVE DevInv'
<1> DEFINE q == Object
<1>1. /\ Base /\ op = "netlink" /\ Settled /\ enables = 1 /\ "qdev" \in res
      /\ \A k \in 1 .. Len(todo) :
           \/ todo[k][1] = "add"
           \/ /\ todo[k][1] = "cdev"
              /\ k = 1 => queue[todo[k][2]] # "free"
              /\ k # 1 => Is(k - 1, "add", todo[k][2])
  BY DEF DevInv, Adding
<1>2. /\ todo # <<>> /\ Verb = "cdev" /\ Advance
      /\ cdev' = [cdev EXCEPT ![Idx(q)] = Joined(q)]
      /\ table' = table \cup {q}
      /\ UNCHANGED <<mode, op, res, enables, qsets, ranged, coalEn, coal, queue, bad>>
  BY DEF AddCdev, On, queues
<1>3. q \in Queues /\ Dir(q) \in Dirs /\ Idx(q) \in 0 .. TableSize - 1 /\ q = <<Dir(q), Idx(q)>>
  BY <1>1, <1>2, ObjectIs
<1>4. /\ Len(todo) \in Nat \ {0} /\ todo' \in Seq(Steps) /\ Len(todo') = Len(todo) - 1
      /\ \A k \in 1 .. Len(todo) - 1 : todo'[k] = todo[k + 1]
  BY <1>1, <1>2, Advanced
<1>5. queue[q] # "free"
  <2>1. 1 \in 1 .. Len(todo) /\ todo[1][1] = "cdev" /\ todo[1][2] = q
    BY <1>2, <1>4 DEF Verb, Object
  <2> QED
    BY <1>1, <2>1
<1> DEFINE j == Idx(q)
           s == Dir(q)
<1>6. cdev \in [0 .. TableSize - 1 -> SUBSET Dirs] /\ table \subseteq Queues
  BY <1>1 DEF Base, Typed
<1>7. Joined(q) = cdev[j] \cup {s}
  BY DEF Joined
<1> HIDE DEF q
<1>8. cdev' \in [0 .. TableSize - 1 -> SUBSET Dirs] /\ table' \subseteq Queues
  BY <1>2, <1>3, <1>6, <1>7
<1>9. /\ cdev'[j] = cdev[j] \cup {s}
      /\ \A i \in 0 .. TableSize - 1 : i # j => cdev'[i] = cdev[i]
  BY <1>2, <1>3, <1>6, <1>7
<1>10. ASSUME NEW i \in 0 .. TableSize - 1 PROVE cdev'[i] = {d \in Dirs : <<d, i>> \in table'}
  <2>1. cdev[i] = {d \in Dirs : <<d, i>> \in table}
    BY <1>1 DEF Settled, Exact
  <2> HIDE DEF j, s
  <2>0. q = <<s, j>> /\ s \in Dirs
    BY <1>3 DEF j, s
  <2>2. CASE i = j
    <3>1. \A d \in Dirs : <<d, i>> = q <=> d = s
      BY <2>0, <2>2
    <3> QED
      BY <1>2, <1>9, <2>0, <2>1, <2>2, <3>1
  <2>3. CASE i # j
    <3>1. \A d \in Dirs : <<d, i>> # q
      BY <2>0, <2>3
    <3> QED
      BY <1>2, <1>9, <2>1, <2>3, <3>1
  <2> QED
    BY <2>2, <2>3
<1>11. Exact'
  BY <1>10 DEF Exact
<1>12. Cdevs'
  BY <1>11 DEF Exact, Cdevs
<1>13. Typed'
  BY <1>1, <1>2, <1>8 DEF Base, Typed
<1>14. ~Is(1, "drop", "qdev")
  BY <1>2 DEF Is, Verb
<1>15. Kept' /\ QueuesBacked' /\ Handled' /\ RunsBacked'
  BY <1>1, <1>2 DEF Base, Kept, QueuesBacked, Handled, RunsBacked
<1>16. Rings'
  BY <1>1, <1>2, <1>14 DEF Base, Rings
<1>17. Base'
  BY <1>4, <1>12, <1>13, <1>15, <1>16 DEF Base
<1>18. Settled'
  <2>1. Bound' /\ Paired'
    BY <1>1, <1>2 DEF Settled, Bound, Paired, Vacuous
  <2>2. \A r \in table' : queue'[r] # "free"
    BY <1>1, <1>2, <1>5 DEF Settled
  <2> QED
    BY <1>1, <1>2, <1>11, <2>1, <2>2 DEF Settled
<1>19. ASSUME NEW k \in 1 .. Len(todo')
       PROVE  \/ todo'[k][1] = "add"
              \/ /\ todo'[k][1] = "cdev"
                 /\ k = 1 => queue'[todo'[k][2]] # "free"
                 /\ k # 1 => Is(k - 1, "add", todo[k][2])'
  <2>1. k + 1 \in 1 .. Len(todo) /\ k + 1 # 1 /\ (k + 1) - 1 = k /\ k \in 1 .. Len(todo) - 1
    BY <1>4
  <2>2. todo'[k] = todo[k + 1]
    BY <1>4, <2>1
  <2>3. todo[k + 1][1] = "add" \/ (todo[k + 1][1] = "cdev" /\ Is(k, "add", todo[k + 1][2]))
    BY <1>1, <2>1
  <2>4. k = 1 => ~Is(k, "add", todo[k + 1][2])
    BY <1>2 DEF Is, Verb
  <2>5. CASE k # 1 /\ todo[k + 1][1] = "cdev" /\ Is(k, "add", todo[k + 1][2])
    <3>1. k - 1 \in 1 .. Len(todo) - 1 /\ (k - 1) + 1 = k
      BY <1>4, <2>5
    <3>2. todo'[k - 1] = todo[k]
      BY <1>4, <3>1
    <3>3. Is(k - 1, "add", todo[k][2])'
      BY <2>2, <2>5, <3>2 DEF Is
    <3> QED
      BY <2>2, <2>5, <3>3
  <2> QED
    BY <2>2, <2>3, <2>4, <2>5
<1>20. Adding'
  BY <1>1, <1>2, <1>18, <1>19 DEF Adding
<1> QED
  BY <1>17, <1>20 DEF DevInv, Plan

LEMMA AddingInv == ASSUME MayFail, DevInv, Adding, Step PROVE DevInv'
<1>1. todo # <<>> /\ Base
  BY StepIs DEF DevInv
<1>2. Verb \in {"add", "cdev"}
  <2>1. 1 \in 1 .. Len(todo)
    BY <1>1, TailOf DEF Base
  <2> QED
    BY <2>1 DEF Adding, Verb
<1>3. AddQueue \/ AddFails \/ AddCdev
  BY <1>2, StepIs
<1>4. CASE AddFails
  BY <1>1, <1>2, <1>4, BatchEnds, FailedBatch DEF AddFails, Adding
<1> QED
  BY <1>3, <1>4, AddQueueInv, AddCdevInv

\* A queue is started or stopped.
LEMMA StartStopInv == ASSUME MayFail, DevInv, Batching, StartQueue \/ StopQueue PROVE DevInv'
<1> DEFINE q == Object
<1>1. /\ Base /\ op = "netlink" /\ Settled /\ enables = 1
      /\ \A k \in 1 .. Len(todo) : todo[k][1] \in {"start", "stop", "delete"}
  BY DEF DevInv, Batching
<1>2. /\ todo # <<>> /\ Verb \in {"start", "stop"} /\ Advance /\ q \in table
      /\ queue[q] # "free"
      /\ UNCHANGED <<mode, op, res, enables, qsets, ranged, coalEn, coal, table, cdev, bad>>
  BY DEF StartQueue, StopQueue, Stoppable, On, module
<1>3. \/ queue' = [queue EXCEPT ![q] = "started"]
      \/ queue' = [r \in Queues |-> IF r \in {q} THEN "added" ELSE queue[r]]
  BY DEF StartQueue, StopQueue, Stop
<1>4. q \in Queues
  BY <1>1, <1>2, ObjectIs
<1>5. /\ Len(todo) \in Nat \ {0} /\ todo' \in Seq(Steps) /\ Len(todo') = Len(todo) - 1
      /\ \A k \in 1 .. Len(todo) - 1 : todo'[k] = todo[k + 1]
  BY <1>1, <1>2, Advanced
<1>6. queue \in [Queues -> {"free", "added", "started"}] /\ table \subseteq Queues
  BY <1>1 DEF Base, Typed
<1>7. "qdev" \in res /\ ranged /\ Idx(q) < qsets
  BY <1>1, <1>2, <1>4 DEF Base, QueuesBacked
<1> HIDE DEF q
<1>8. /\ \A r \in Queues : r # q => queue'[r] = queue[r]
      /\ queue'[q] \in {"added", "started"}
      /\ queue' \in [Queues -> {"free", "added", "started"}]
  <2>1. CASE queue' = [queue EXCEPT ![q] = "started"]
    BY <1>4, <1>6, <2>1
  <2>2. CASE queue' = [r \in Queues |-> IF r \in {q} THEN "added" ELSE queue[r]]
    BY <1>4, <1>6, <2>2
  <2> QED
    BY <1>3, <2>1, <2>2
<1>10. QueuesBacked'
  <2>1. \A r \in Queues : queue'[r] # "free" => ranged' /\ Idx(r) < qsets'
    BY <1>1, <1>2, <1>7, <1>8 DEF Base, QueuesBacked
  <2> QED
    BY <1>2, <1>7, <2>1 DEF QueuesBacked
<1>11. ~Is(1, "drop", "qdev")
  BY <1>2 DEF Is, Verb
<1>12. Rings'
  BY <1>1, <1>2, <1>11 DEF Base, Rings
<1>13. Typed' /\ Kept' /\ Cdevs'
  BY <1>1, <1>2, <1>8 DEF Base, Typed, Kept, Cdevs
<1>14. Handled'
  <2>1. coalEn => coal = "live"
    BY <1>1, <1>7, <1>11 DEF Base, Rings
  <2> QED
    BY <1>1, <1>2, <1>7, <2>1 DEF Base, Handled
<1>15. RunsBacked'
  <2>1. "bars" \in res /\ (~Vacuous("irqs") => "irqs" \in res)
    BY <1>1, <1>7 DEF Settled, Bound, Paired
  <2>2. mode # "poll" /\ Vectors > 0 => ~Vacuous("irqs")
    BY QsetsAssumption DEF Vacuous
  <2>3. \A r \in Queues : queue'[r] = "started" => Idx(r) < qsets'
    BY <1>10 DEF QueuesBacked
  <2> QED
    BY <1>2, <1>7, <2>1, <2>2, <2>3 DEF RunsBacked
<1>16. Base'
  BY <1>5, <1>10, <1>12, <1>13, <1>14, <1>15 DEF Base
<1>17. Settled'
  <2>1. Bound' /\ Paired' /\ Exact'
    BY <1>1, <1>2 DEF Settled, Bound, Paired, Exact, Vacuous
  <2>2. \A r \in table' : queue'[r] # "free"
    BY <1>1, <1>2, <1>6, <1>7, <1>8 DEF Settled
  <2> QED
    BY <1>2, <1>7, <2>1, <2>2 DEF Settled
<1>18. \A k \in 1 .. Len(todo') : todo'[k][1] \in {"start", "stop", "delete"}
  <2>1. ASSUME NEW k \in 1 .. Len(todo') PROVE k + 1 \in 1 .. Len(todo) /\ k \in 1 .. Len(todo) - 1
    BY <1>5
  <2> QED
    BY <1>1, <1>5, <2>1
<1>19. Batching'
  BY <1>1, <1>2, <1>17, <1>18 DEF Batching
<1> QED
  BY <1>16, <1>19 DEF DevInv, Plan

\* A queue is deleted: its place and its direction of the device.
LEMMA DeleteBase ==
  ASSUME Base, Exact, DeleteQueue
  PROVE  /\ Base' /\ Exact' /\ todo # <<>> /\ Advance
         /\ Object \in Queues /\ table' = table \ {Object}
         /\ \A r \in Queues : r # Object => queue'[r] = queue[r]
         /\ UNCHANGED <<mode, op, res, enables, qsets, coalEn>>
<1> DEFINE q == Object
           j == Idx(q)
           s == Dir(q)
<1>1. /\ todo # <<>> /\ Verb = "delete" /\ Advance /\ q \in table
      /\ bad' = (IF cdev[j] = {} THEN bad \cup {"cdev"} ELSE bad)
      /\ cdev' = [cdev EXCEPT ![j] = @ \ {s}]
      /\ table' = table \ {q}
      /\ queue' = [queue EXCEPT ![q] = "free"]
      /\ UNCHANGED <<mode, op, res, enables, qsets, ranged, coalEn, coal>>
  BY DEF DeleteQueue, On
<1>2. q \in Queues /\ s \in Dirs /\ j \in 0 .. TableSize - 1 /\ q = <<s, j>>
  BY <1>1, ObjectIs
<1>3. todo' \in Seq(Steps)
  BY <1>1, Advanced
<1>4. /\ queue \in [Queues -> {"free", "added", "started"}] /\ table \subseteq Queues
      /\ cdev \in [0 .. TableSize - 1 -> SUBSET Dirs]
  BY DEF Base, Typed
<1> HIDE DEF q, j, s
<1>5. /\ \A r \in Queues : r # q => queue'[r] = queue[r]
      /\ queue'[q] = "free"
      /\ queue' \in [Queues -> {"free", "added", "started"}]
  BY <1>1, <1>2, <1>4
<1>6. /\ cdev'[j] = cdev[j] \ {s}
      /\ \A i \in 0 .. TableSize - 1 : i # j => cdev'[i] = cdev[i]
      /\ cdev' \in [0 .. TableSize - 1 -> SUBSET Dirs]
  BY <1>1, <1>2, <1>4
<1>7. ASSUME NEW i \in 0 .. TableSize - 1 PROVE cdev'[i] = {d \in Dirs : <<d, i>> \in table'}
  <2>1. cdev[i] = {d \in Dirs : <<d, i>> \in table}
    BY DEF Exact
  <2>2. CASE i = j
    <3>1. \A d \in Dirs : <<d, i>> = q <=> d = s
      BY <1>2, <2>2
    <3> QED
      BY <1>1, <1>2, <1>6, <2>1, <2>2, <3>1
  <2>3. CASE i # j
    <3>1. \A d \in Dirs : <<d, i>> # q
      BY <1>2, <2>3
    <3> QED
      BY <1>1, <1>6, <2>1, <2>3, <3>1
  <2> QED
    BY <2>2, <2>3
<1>8. Exact'
  BY <1>7 DEF Exact
<1>9. Cdevs'
  BY <1>8 DEF Exact, Cdevs
<1>10. bad' = bad
  <2>1. s \in cdev[j]
    BY <1>1, <1>2 DEF Exact
  <2> QED
    BY <1>1, <2>1
<1>11. Typed' /\ Kept'
  BY <1>1, <1>4, <1>5, <1>6, <1>10 DEF Base, Typed, Kept
<1>12. QueuesBacked'
  <2>1. \A r \in Queues : queue'[r] # "free" => ranged' /\ Idx(r) < qsets'
    BY <1>1, <1>5 DEF Base, QueuesBacked
  <2> QED
    BY <1>1, <2>1 DEF Base, QueuesBacked
<1>13. ~Is(1, "drop", "qdev")
  BY <1>1 DEF Is, Verb
<1>14. Rings'
  BY <1>1, <1>13 DEF Base, Rings
<1>15. \A r \in Queues : queue'[r] = "started" => queue[r] = "started"
  BY <1>5
<1>16. Handled'
  BY <1>1, <1>15 DEF Base, Handled
<1>17. RunsBacked'
  BY <1>1, <1>15 DEF Base, RunsBacked
<1>18. Base'
  BY <1>3, <1>9, <1>11, <1>12, <1>14, <1>16, <1>17 DEF Base
<1> QED
  BY <1>1, <1>2, <1>5, <1>8, <1>18 DEF q

LEMMA BatchingInv == ASSUME MayFail, DevInv, Batching, Step PROVE DevInv'
<1>1. /\ todo # <<>> /\ Base /\ op = "netlink" /\ Settled /\ enables = 1
      /\ \A k \in 1 .. Len(todo) : todo[k][1] \in {"start", "stop", "delete"}
  BY StepIs DEF DevInv, Batching
<1>2. Verb \in {"start", "stop", "delete"}
  <2>1. 1 \in 1 .. Len(todo)
    BY <1>1, TailOf DEF Base
  <2> QED
    BY <1>1, <2>1 DEF Verb
<1>3. \/ StartQueue \/ StartFails \/ StopQueue \/ StopFails
      \/ DeleteQueue \/ DeleteNone
  BY <1>2, StepIs
<1>4. CASE StartQueue \/ StopQueue
  BY <1>4, StartStopInv
<1>5. CASE StartFails
  <2>1. todo' = <<>> /\ UNCHANGED <<mode, op, res, enables, qsets, ranged, coalEn, coal, queue, table, cdev, bad>>
    BY <1>5 DEF StartFails, module
  <2> QED
    BY <1>1, <1>2, <2>1, BatchEnds
<1>6. CASE StopFails
  BY <1>1, <1>2, <1>6, BatchEnds, FailedBatch DEF StopFails
<1>7. CASE DeleteNone
  <2>1. todo' = <<>> /\ UNCHANGED <<mode, op, res, enables, qsets, ranged, coalEn, coal, queue, table, cdev, bad>>
    BY <1>1, <1>7 DEF DeleteNone, queues, module
  <2> QED
    BY <1>1, <1>2, <2>1, BatchEnds
<1>8. CASE DeleteQueue
  <2>1. Exact
    BY <1>1 DEF Settled
  <2>2. /\ Base' /\ Exact' /\ Advance
        /\ Object \in Queues /\ table' = table \ {Object}
        /\ \A r \in Queues : r # Object => queue'[r] = queue[r]
        /\ UNCHANGED <<mode, op, res, enables, qsets, coalEn>>
    BY <1>1, <1>8, <2>1, DeleteBase
  <2>3. /\ Len(todo) \in Nat \ {0} /\ todo' \in Seq(Steps) /\ Len(todo') = Len(todo) - 1
        /\ \A k \in 1 .. Len(todo) - 1 : todo'[k] = todo[k + 1]
    BY <1>1, <2>2, Advanced
  <2>4. Settled'
    <3>1. Bound' /\ Paired'
      BY <1>1, <2>2 DEF Settled, Bound, Paired, Vacuous
    <3>2. table \subseteq Queues
      BY <1>1 DEF Base, Typed
    <3>3. "qdev" \in res => \A r \in table' : queue'[r] # "free"
      BY <1>1, <2>2, <3>2 DEF Settled
    <3>4. "qdev" \notin res => table' = {}
      BY <1>1, <2>2 DEF Settled
    <3> QED
      BY <2>2, <3>1, <3>3, <3>4 DEF Settled
  <2>5. \A k \in 1 .. Len(todo') : todo'[k][1] \in {"start", "stop", "delete"}
    <3>1. ASSUME NEW k \in 1 .. Len(todo') PROVE k + 1 \in 1 .. Len(todo) /\ k \in 1 .. Len(todo) - 1
      BY <2>3
    <3> QED
      BY <1>1, <2>3, <3>1
  <2>6. Batching'
    BY <1>1, <2>2, <2>4, <2>5 DEF Batching
  <2> QED
    BY <2>2, <2>6 DEF DevInv, Plan
<1> QED
  BY <1>3, <1>4, <1>5, <1>6, <1>7, <1>8

-----------------------------------------------------------------------------
(* The queue arrays are freed and allocated again.                         *)

\* Where a reset and a new number of queues continue when the device cannot be
\* initialised.
LEMMA InitFails ==
  ASSUME NEW o \in {"reset", "set_qmax"}
  PROVE  /\ LET p == Failed(o, "irqs")
            IN  p \in Seq(Steps) /\ Len(p) = 1 /\ p[1] = <<"cleanup", "device">>
         /\ LET p == Failed(o, "qdev")
            IN  /\ p \in Seq(Steps) /\ Len(p) = 2
                /\ p[1] = <<"drop", "irqs">> /\ p[2] = <<"cleanup", "device">>
<1> DEFINE t == << <<"cleanup", "device">> >>
<1>1. <<"cleanup", "device">> \in Steps /\ <<"drop", "irqs">> \in Steps
  BY StepsAre DEF Names, Resources
<1>2. t \in Seq(Steps) /\ Len(t) = 1 /\ t[1] = <<"cleanup", "device">>
  BY <1>1
<1>3. \A f : Failed(o, f) = InitUndone(f) \o t
  BY DEF Failed
<1> HIDE DEF t
<1>4. InitUndone("irqs") = <<>> /\ InitUndone("qdev") = << <<"drop", "irqs">> >>
  BY DEF InitUndone
<1>5. <<>> \o t = t
  BY <1>2
<1>6. Failed(o, "irqs") = t /\ Failed(o, "qdev") = << <<"drop", "irqs">> >> \o t
  BY <1>3, <1>4, <1>5
<1>7. LET p == << <<"drop", "irqs">> >> \o t
      IN  /\ p \in Seq(Steps) /\ Len(p) = Len(t) + 1 /\ p[1] = <<"drop", "irqs">>
          /\ \A k \in 1 .. Len(t) : p[k + 1] = t[k]
  BY <1>1, <1>2, ConsOf
<1> QED
  BY <1>2, <1>6, <1>7

LEMMA InitialisingInv == ASSUME MayFail, DevInv, Initialising, Step PROVE DevInv'
<1>1. /\ todo # <<>> /\ Base
      /\ op \in {"reset", "set_qmax"} /\ Bound /\ Exact /\ enables = 1
      /\ coalEn => "aggregate" \in ResetModes
      /\ "irqs" \in res <=> ~Vacuous("irqs")
      /\ "qdev" \notin res /\ table = {}
      /\ Len(todo) \in 1 .. 2 /\ Is(Len(todo), "take", "qdev")
      /\ Len(todo) = 2 => Is(1, "check", "queues")
  BY StepIs DEF DevInv, Initialising
<1>2. CASE Len(todo) = 2
  <2>1. Verb = "check" /\ Object = "queues"
    BY <1>1, <1>2 DEF Is, Verb, Object
  <2>2. ~Fail
    BY <1>1, <2>1, FailIs DEF MayFail
  <2>3. Check
    BY <2>1, <2>2, StepIs
  <2>4. /\ Advance
        /\ UNCHANGED <<mode, op, res, enables, qsets, ranged, coalEn, coal, queue, table, cdev, bad>>
    BY <2>3 DEF Check, queues, module
  <2>5. todo' \in Seq(Steps) /\ Len(todo') = 1 /\ todo'[1] = todo[2]
    BY <1>1, <1>2, <2>4, Advanced
  <2>6. Base' /\ Bound' /\ Exact' /\ (Vacuous("irqs")' <=> Vacuous("irqs"))
    <3>1. qsets \in Qsets
      BY <1>1 DEF Base, Typed
    <3> QED
      BY <1>1, <2>1, <2>4, <2>5, <3>1, StillBase
  <2>7. Len(todo') \in 1 .. 2 /\ Is(Len(todo), "take", "qdev")'
    BY <1>1, <1>2, <2>5 DEF Is
  <2>8. Initialising'
    BY <1>1, <2>4, <2>5, <2>6, <2>7 DEF Initialising
  <2> QED
    BY <2>6, <2>8 DEF DevInv, Plan
<1>3. CASE Len(todo) = 1
  <2>1. Verb = "take" /\ Object = "qdev"
    BY <1>1, <1>3 DEF Is, Verb, Object
  <2>2. CASE Take
    <3>1. Base'
      <4>1. Object \in Resources /\ ~IsPci(Object)
        BY <2>1 DEF Resources, IsPci
      <4> QED
        BY <1>1, <2>1, <2>2, <4>1, TakeBase
    <3>2. /\ Advance /\ res' = res \cup {"qdev"} /\ enables' = enables
          /\ UNCHANGED <<mode, table, cdev>>
      BY <2>1, <2>2 DEF Take, IsPci, Vacuous, module
    <3>3. Bound' /\ Exact' /\ (Vacuous("irqs")' <=> Vacuous("irqs"))
      BY <1>1, <3>2 DEF Bound, Exact, Vacuous
    <3>4. Paired'
      BY <1>1, <3>2, <3>3 DEF Paired
    <3>5. Settled'
      BY <1>1, <3>2, <3>3, <3>4 DEF Settled
    <3>6. Idle'
      <4>1. todo' \in Seq(Steps) /\ Len(todo') = 0
        BY <1>1, <1>3, <3>2, Advanced
      <4> QED
        BY <4>1 DEF Idle
    <3> QED
      BY <1>1, <3>1, <3>2, <3>5, <3>6 DEF DevInv, Plan
  <2>3. CASE Fail
    <3>1. /\ todo' = Failed(op, "qdev")
          /\ UNCHANGED <<mode, op, res, enables, qsets, ranged, coalEn, coal, queue, table, cdev, bad>>
      BY <1>1, <2>1, <2>3, FailIs
    <3>2. /\ todo' \in Seq(Steps) /\ Len(todo') = 2
          /\ todo'[1] = <<"drop", "irqs">> /\ todo'[2] = <<"cleanup", "device">>
      BY <1>1, <3>1, InitFails
    <3>3. Base' /\ Bound' /\ Exact' /\ (Vacuous("irqs")' <=> Vacuous("irqs"))
      <4>1. qsets \in Qsets
        BY <1>1 DEF Base, Typed
      <4> QED
        BY <1>1, <2>1, <3>1, <3>2, <4>1, StillBase
    <3>4. Cleaning(1)'
      <4>1. 1 <= Len(todo') /\ Is(1, "drop", "irqs")'
        BY <3>2 DEF Is
      <4> QED
        BY <1>1, <3>1, <3>3, <4>1 DEF Cleaning
    <3>5. Rebuilding(1)'
      <4>1. Len(todo') = 1 + 1 /\ todo'[1 + 1][1] = "cleanup" /\ table' = {}
        BY <1>1, <3>1, <3>2
      <4> QED
        BY <1>1, <3>1, <3>3, <4>1 DEF Rebuilding
    <3> QED
      BY <3>3, <3>4, <3>5 DEF DevInv, Plan
  <2> QED
    BY <2>1, <2>2, <2>3, StepIs
<1> QED
  BY <1>1, <1>2, <1>3

\* A step of qdma_device_cleanup().
LEMMA CleaningStep ==
  ASSUME DevInv, NEW n \in 1 .. 4, Cleaning(n), Step
  PROVE  /\ Base' /\ Cleaning(n - 1)' /\ todo # <<>> /\ Advance
         /\ n = 1 => "qdev" \notin res'
         /\ \A r : r \notin {"irqs", "qdev"} => (r \in res' <=> r \in res)
         /\ UNCHANGED <<mode, op, enables, qsets, coalEn, table, cdev>>
<1>1. Base /\ todo # <<>> /\ n <= Len(todo)
  BY StepIs DEF DevInv, Cleaning
<1> DEFINE K == /\ todo # <<>> /\ Advance
                /\ \A r : r \notin {"irqs", "qdev"} => (r \in res' <=> r \in res)
                /\ UNCHANGED <<mode, op, enables, qsets, coalEn, table, cdev>>
<1>2. ASSUME K
      PROVE  /\ todo' \in Seq(Steps) /\ Len(todo') = Len(todo) - 1
             /\ \A k \in 1 .. Len(todo) - 1 : todo'[k] = todo[k + 1]
             /\ Len(todo) \in Nat \ {0}
             /\ Vacuous("irqs")' <=> Vacuous("irqs")
  BY <1>1, <1>2, Advanced DEF Vacuous
<1>3. CASE n = 4
  <2>1. /\ Verb = "stop_all"
        /\ Is(2, "drop", "irqs") /\ ("irqs" \in res \/ Vacuous("irqs"))
        /\ Is(3, "drop", "coal") /\ Is(4, "drop", "qdev") /\ "qdev" \in res
    BY <1>3 DEF Cleaning, Verb
  <2>2. StopAll
    BY <2>1, StepIs
  <2>3. /\ K
        /\ queue' = [q \in Queues |-> IF q \in {r \in Queues : queue[r] # "free"} THEN "added" ELSE queue[q]]
        /\ UNCHANGED <<res, ranged, coal, bad>>
    BY <2>2 DEF StopAll, Stop, On, module
  <2>4. queue \in [Queues -> {"free", "added", "started"}]
    BY <1>1 DEF Base, Typed
  <2>5. /\ queue' \in [Queues -> {"free", "added", "started"}]
        /\ \A q \in Queues : queue'[q] # "started" /\ (queue'[q] # "free" => queue[q] # "free")
    BY <2>3, <2>4
  <2>6. Typed' /\ Kept' /\ Cdevs' /\ Handled'
    BY <1>1, <2>3, <2>5 DEF Base, Typed, Kept, Cdevs, Handled
  <2>7. QueuesBacked' /\ RunsBacked'
    BY <1>1, <2>3, <2>5 DEF Base, QueuesBacked, RunsBacked
  <2>8. ~Is(1, "drop", "qdev")
    BY <2>1 DEF Is, Verb
  <2>9. Rings'
    BY <1>1, <2>3, <2>8 DEF Base, Rings
  <2>10. Base'
    BY <1>2, <2>3, <2>6, <2>7, <2>9 DEF Base
  <2>11. todo'[1] = todo[2] /\ todo'[2] = todo[3] /\ todo'[3] = todo[4] /\ 3 <= Len(todo')
    <3>1. 1 \in 1 .. Len(todo) - 1 /\ 2 \in 1 .. Len(todo) - 1 /\ 3 \in 1 .. Len(todo) - 1
      BY <1>1, <1>2, <1>3, <2>3
    <3> HIDE DEF K
    <3>2. todo'[1] = todo[1 + 1] /\ todo'[2] = todo[2 + 1] /\ todo'[3] = todo[3 + 1]
      BY <1>2, <2>3, <3>1
    <3> QED
      BY <1>1, <1>2, <1>3, <2>3, <3>2
  <2>12. Is(1, "drop", "irqs")' /\ Is(2, "drop", "coal")' /\ Is(3, "drop", "qdev")'
    BY <2>1, <2>11 DEF Is
  <2>13. Cleaning(3)'
    <3>1. /\ 3 <= Len(todo')
          /\ Is(3 - 2, "drop", "irqs")' /\ ("irqs" \in res' \/ Vacuous("irqs")')
          /\ Is(3 - 1, "drop", "coal")' /\ Is(3, "drop", "qdev")' /\ "qdev" \in res'
          /\ Quiet'
      BY <1>2, <2>1, <2>3, <2>5, <2>11, <2>12 DEF Quiet
    <3> QED
      BY <3>1 DEF Cleaning
  <2> QED
    BY <1>3, <2>3, <2>10, <2>13
<1>4. CASE n = 3
  <2>1. /\ Verb = "drop" /\ Object = "irqs" /\ ("irqs" \in res \/ Vacuous("irqs"))
        /\ Is(2, "drop", "coal") /\ Is(3, "drop", "qdev") /\ "qdev" \in res /\ Quiet
    BY <1>4 DEF Cleaning, Is, Verb, Object
  <2>2. Drop
    BY <2>1, StepIs DEF DropRings
  <2>3. /\ K /\ res' = res \ {"irqs"}
        /\ UNCHANGED <<queue, ranged, coal, bad>>
    BY <2>1, <2>2 DEF Drop, On, module, Guarded
  <2>4. Typed' /\ Kept' /\ Cdevs' /\ Handled'
    BY <1>1, <2>1, <2>3 DEF Base, Typed, Kept, Cdevs, Handled
  <2>5. QueuesBacked' /\ RunsBacked'
    BY <1>1, <2>1, <2>3 DEF Base, QueuesBacked, RunsBacked, Quiet
  <2>6. ~Is(1, "drop", "qdev")
    BY <2>1 DEF Is, Object
  <2>7. Rings'
    BY <1>1, <2>3, <2>6 DEF Base, Rings
  <2>8. Base'
    BY <1>2, <2>3, <2>4, <2>5, <2>7 DEF Base
  <2>9. todo'[1] = todo[2] /\ todo'[2] = todo[3] /\ 2 <= Len(todo')
    <3>1. 1 \in 1 .. Len(todo) - 1 /\ 2 \in 1 .. Len(todo) - 1
      BY <1>1, <1>2, <1>4, <2>3
    <3> HIDE DEF K
    <3>2. todo'[1] = todo[1 + 1] /\ todo'[2] = todo[2 + 1]
      BY <1>2, <2>3, <3>1
    <3> QED
      BY <1>1, <1>2, <1>4, <2>3, <3>2
  <2>10. Is(1, "drop", "coal")' /\ Is(2, "drop", "qdev")'
    BY <2>1, <2>9 DEF Is
  <2>11. Cleaning(2)'
    <3>1. /\ 2 <= Len(todo')
          /\ Is(2 - 1, "drop", "coal")' /\ Is(2, "drop", "qdev")' /\ "qdev" \in res'
          /\ Quiet' /\ "irqs" \notin res'
      BY <2>1, <2>3, <2>9, <2>10 DEF Quiet
    <3> QED
      BY <3>1 DEF Cleaning
  <2> QED
    BY <1>4, <2>3, <2>8, <2>11
<1>5. CASE n = 2
  <2>1. /\ Verb = "drop" /\ Object = "coal" /\ "irqs" \notin res
        /\ Is(2, "drop", "qdev") /\ "qdev" \in res /\ Quiet
    BY <1>5 DEF Cleaning, Is, Verb, Object
  <2>2. DropRings
    BY <2>1, StepIs DEF Drop
  <2>3. /\ K
        /\ coal' = (IF coalEn /\ coal = "live" THEN "freed" ELSE coal)
        /\ bad' = (IF coalEn /\ coal = "freed" THEN bad \cup {"coal"} ELSE bad)
        /\ UNCHANGED <<queue, ranged, res>>
    BY <2>2 DEF DropRings, On, module
  <2>4. ~Is(1, "drop", "qdev")
    BY <2>1 DEF Is, Object
  <2>5. /\ coalEn => mode = "aggregate"
        /\ coal # "none" <=> coalEn
        /\ coal = "live" => ranged
        /\ coalEn => coal = "live" \/ (~ranged /\ "aggregate" \in ResetModes)
    BY <1>1, <2>1, <2>4 DEF Base, Rings
  <2>6. Kept'
    BY <1>1, <2>3, <2>5 DEF Base, Kept, Twice
  <2>7. coal' \in {"none", "freed"} /\ (coal' # "none" <=> coalEn)
    BY <1>1, <2>3, <2>5 DEF Base, Typed
  <2>8. Typed' /\ Cdevs' /\ Handled'
    BY <1>1, <2>1, <2>3, <2>7 DEF Base, Typed, Cdevs, Handled, Quiet
  <2>9. QueuesBacked' /\ RunsBacked'
    BY <1>1, <2>1, <2>3 DEF Base, QueuesBacked, RunsBacked
  <2>10. todo'[1] = todo[2] /\ 1 <= Len(todo')
    <3>1. 1 \in 1 .. Len(todo) - 1
      BY <1>1, <1>2, <1>5, <2>3
    <3> HIDE DEF K
    <3>2. todo'[1] = todo[1 + 1]
      BY <1>2, <2>3, <3>1
    <3> QED
      BY <1>1, <1>2, <1>5, <2>3, <3>2
  <2>11. Is(1, "drop", "qdev")' /\ todo' # <<>>
    BY <2>1, <2>10 DEF Is
  <2>12. Rings'
    <3>1. coalEn' => mode' = "aggregate"
      BY <2>3, <2>5
    <3>2. (coal' # "none" <=> coalEn') /\ coal' # "live"
      BY <2>3, <2>7
    <3>3. coalEn' => (ranged' \/ (~ranged' /\ "aggregate" \in ResetModes))
      BY <2>3, <2>5
    <3> QED
      BY <2>11, <3>1, <3>2, <3>3 DEF Rings
  <2>13. Base'
    BY <1>2, <2>3, <2>6, <2>8, <2>9, <2>12 DEF Base
  <2>14. Cleaning(1)'
    <3>1. "qdev" \in res' /\ "irqs" \notin res' /\ Quiet' /\ coal' # "live"
      BY <2>1, <2>3, <2>7 DEF Quiet
    <3> QED
      BY <2>10, <2>11, <3>1 DEF Cleaning
  <2> QED
    BY <1>5, <2>3, <2>13, <2>14
<1>6. CASE n = 1 /\ Is(1, "drop", "qdev")
  <2>1. /\ Verb = "drop" /\ Object = "qdev" /\ "irqs" \notin res
        /\ "qdev" \in res /\ Quiet /\ coal # "live"
    BY <1>6 DEF Cleaning, Is, Verb, Object
  <2>2. Drop
    BY <2>1, StepIs DEF DropRings
  <2>3. /\ K /\ res' = res \ {"qdev"} /\ queue' = Free /\ ranged' = FALSE
        /\ UNCHANGED <<coal, bad>>
    BY <2>1, <2>2 DEF Drop, On, module, Guarded
  <2>4. queue' \in [Queues -> {"free", "added", "started"}] /\ \A q \in Queues : queue'[q] = "free"
    BY <2>3 DEF Free
  <2>5. Typed' /\ Kept' /\ Cdevs' /\ Handled'
    BY <1>1, <2>1, <2>3, <2>4 DEF Base, Typed, Kept, Cdevs, Handled
  <2>6. QueuesBacked' /\ RunsBacked'
    BY <1>1, <2>1, <2>3, <2>4 DEF Base, QueuesBacked, RunsBacked
  <2>7. Rings'
    BY <1>1, <2>1, <2>3 DEF Base, Rings
  <2>8. Base'
    BY <1>2, <2>3, <2>5, <2>6, <2>7 DEF Base
  <2>9. Paired'
    BY <2>1, <2>3 DEF Paired
  <2>10. Cleaning(0)'
    BY <1>1, <1>2, <2>3, <2>9 DEF Cleaning
  <2> QED
    BY <1>6, <2>3, <2>8, <2>10
<1>7. CASE n = 1 /\ ~Is(1, "drop", "qdev")
  <2>1. /\ Verb = "drop" /\ Object = "irqs" /\ "qdev" \notin res
        /\ ("irqs" \in res \/ Vacuous("irqs"))
    BY <1>7 DEF Cleaning, Is, Verb, Object
  <2>2. Drop
    BY <2>1, StepIs DEF DropRings
  <2>3. /\ K /\ res' = res \ {"irqs"}
        /\ UNCHANGED <<queue, ranged, coal, bad>>
    BY <2>1, <2>2 DEF Drop, On, module, Guarded
  <2>4. Quiet
    BY <1>1, <2>1 DEF Base, RunsBacked, Quiet
  <2>5. Typed' /\ Kept' /\ Cdevs' /\ Handled'
    BY <1>1, <2>3 DEF Base, Typed, Kept, Cdevs, Handled
  <2>6. QueuesBacked' /\ RunsBacked'
    BY <1>1, <2>1, <2>3, <2>4 DEF Base, QueuesBacked, RunsBacked, Quiet
  <2>7. Rings'
    BY <1>1, <2>1, <2>3 DEF Base, Rings
  <2>8. Base'
    BY <1>2, <2>3, <2>5, <2>6, <2>7 DEF Base
  <2>9. Paired'
    BY <2>1, <2>3 DEF Paired
  <2>10. Cleaning(0)'
    BY <1>1, <1>2, <2>3, <2>9 DEF Cleaning
  <2> QED
    BY <1>7, <2>1, <2>3, <2>8, <2>10
<1> QED
  BY <1>3, <1>4, <1>5, <1>6, <1>7

-----------------------------------------------------------------------------
(* What is left of a plan.                                                 *)

\* Where a step was before the first a steps were replaced by m others.
LEMMA ShiftBack ==
  ASSUME NEW a \in Nat, NEW m \in Nat, NEW n \in Nat, NEW l \in Nat, n <= a, a <= l,
         NEW k \in m + 1 .. l - a + m
  PROVE  k - m + a \in a + 1 .. l /\ k - m + a \in n + 1 .. l /\ (k - m + a) - a + m = k
OBVIOUS

\* The first a steps are replaced by m others, a clean-up under way: what the
\* steps after them released they still release.
LEMMA ReleasingMoves ==
  ASSUME NEW n \in 0 .. 4, NEW m \in 0 .. 4, NEW a \in Nat, n <= a, a <= Len(todo),
         Releasing(n), todo \in Seq(Steps), todo' \in Seq(Steps),
         Len(todo') = Len(todo) - a + m,
         \A k \in a + 1 .. Len(todo) : todo'[k - a + m] = todo[k],
         \A r \in res' : r \notin {"irqs", "qdev"} =>
           r \in res /\ \A k \in n + 1 .. a : ~Is(k, "drop", r),
         enables' = 1 => enables = 1 /\ \A k \in n + 1 .. a : ~Is(k, "drop", "pci"),
         \A k \in a + 1 .. Len(todo) : todo[k][1] = "drop" =>
           /\ todo[k][2] \in res => todo[k][2] \in res'
           /\ todo[k][2] = "pci" /\ enables = 1 => enables' = 1,
         \A q \in table' : q \in table /\ \A k \in n + 1 .. a : ~Is(k, "forget", q),
         m = 0 /\ "qdev" \in res' =>
           n = 0 /\ "qdev" \in res /\ \A k \in 1 .. a : todo[k][1] # "cleanup"
  PROVE  Releasing(m)'
<1> DEFINE l == Len(todo)
           s == todo
           t == todo'
<1>1. /\ l \in Nat /\ Len(t) = l - a + m /\ a <= l
      /\ m \in Nat /\ n \in Nat /\ a \in Nat /\ n <= a
      /\ \A k \in a + 1 .. l : t[k - a + m] = s[k]
  OBVIOUS
<1>2. ASSUME NEW k \in m + 1 .. Len(t)
      PROVE  k - m + a \in a + 1 .. l /\ k - m + a \in n + 1 .. l /\ t[k] = s[k - m + a]
  <2> HIDE DEF s, t, l
  <2>1. k - m + a \in a + 1 .. l /\ k - m + a \in n + 1 .. l /\ (k - m + a) - a + m = k
    BY <1>1, ShiftBack
  <2> QED
    BY <1>1, <2>1
<1>3. ASSUME NEW k \in n + 1 .. l, ~(k \in n + 1 .. a)
      PROVE  k \in a + 1 .. l /\ k - a + m \in m + 1 .. Len(t) /\ t[k - a + m] = s[k]
  <2>1. k \in a + 1 .. l /\ k - a + m \in m + 1 .. Len(t)
    BY <1>1, <1>3
  <2> QED
    BY <2>1
<1>4. /\ \A k \in n + 1 .. l :
           \/ s[k][1] \in {"cleanup", "forget"}
           \/ s[k][1] = "drop" /\ s[k][2] \in (Resources \cup {"pci"}) \ {"irqs", "qdev"}
      /\ \A r \in res \ Leak :
           r \notin {"irqs", "qdev"} => \E k \in n + 1 .. l : s[k][1] = "drop" /\ s[k][2] = r
      /\ enables = 1 => \E k \in n + 1 .. l : s[k][1] = "drop" /\ s[k][2] = "pci"
      /\ n = 0 /\ "qdev" \in res =>
           \E k \in 1 .. l :
             /\ s[k][1] = "cleanup"
             /\ \A j \in 1 .. k - 1 : /\ ~(s[j][1] = "drop" /\ s[j][2] = "bars")
                                      /\ ~(s[j][1] = "drop" /\ s[j][2] = "xdev")
      /\ \A k \in n + 1 .. l : s[k][1] = "drop" =>
           /\ \/ s[k][2] \in Guarded \cup res
              \/ s[k][2] = "pci" /\ (enables = 1 \/ "reenable" \in Faults)
           /\ \A j \in n + 1 .. l : s[j][1] = "drop" /\ s[j][2] = s[k][2] => j = k
      /\ \A q \in table : \E k \in n + 1 .. l : s[k][1] = "forget" /\ s[k][2] = q
  BY DEF Releasing, Is
<1>14. /\ \A r \in res' : r \notin {"irqs", "qdev"} =>
            r \in res /\ \A k \in n + 1 .. a : ~(s[k][1] = "drop" /\ s[k][2] = r)
       /\ enables' = 1 => enables = 1 /\ \A k \in n + 1 .. a : ~(s[k][1] = "drop" /\ s[k][2] = "pci")
       /\ \A q \in table' : q \in table /\ \A k \in n + 1 .. a : ~(s[k][1] = "forget" /\ s[k][2] = q)
  BY DEF Is
<1>15. /\ \A k \in a + 1 .. l : s[k][1] = "drop" =>
            /\ s[k][2] \in res => s[k][2] \in res'
            /\ s[k][2] = "pci" /\ enables = 1 => enables' = 1
       /\ m = 0 /\ "qdev" \in res' =>
            n = 0 /\ "qdev" \in res /\ \A k \in 1 .. a : s[k][1] # "cleanup"
  OBVIOUS
<1> HIDE DEF s, t, l
<1>5. \A k \in m + 1 .. Len(t) :
        \/ t[k][1] \in {"cleanup", "forget"}
        \/ t[k][1] = "drop" /\ t[k][2] \in (Resources \cup {"pci"}) \ {"irqs", "qdev"}
  BY <1>2, <1>4
<1>6. ASSUME NEW r \in res' \ Leak, r \notin {"irqs", "qdev"}
      PROVE  \E k \in m + 1 .. Len(t) : t[k][1] = "drop" /\ t[k][2] = r
  <2>1. PICK k \in n + 1 .. l : s[k][1] = "drop" /\ s[k][2] = r
    BY <1>4, <1>6, <1>14
  <2>2. ~(k \in n + 1 .. a)
    BY <1>6, <1>14, <2>1
  <2> QED
    <3>1. k - a + m \in m + 1 .. Len(t) /\ t[k - a + m] = s[k]
      BY <1>3, <2>2
    <3> QED
      BY <2>1, <3>1
<1>7. ASSUME enables' = 1
      PROVE  \E k \in m + 1 .. Len(t) : t[k][1] = "drop" /\ t[k][2] = "pci"
  <2>1. PICK k \in n + 1 .. l : s[k][1] = "drop" /\ s[k][2] = "pci"
    BY <1>4, <1>7, <1>14
  <2>2. ~(k \in n + 1 .. a)
    BY <1>7, <1>14, <2>1
  <2> QED
    <3>1. k - a + m \in m + 1 .. Len(t) /\ t[k - a + m] = s[k]
      BY <1>3, <2>2
    <3> QED
      BY <2>1, <3>1
<1>8. ASSUME m = 0, "qdev" \in res'
      PROVE  \E k \in 1 .. Len(t) :
               /\ t[k][1] = "cleanup"
               /\ \A j \in 1 .. k - 1 : /\ ~(t[j][1] = "drop" /\ t[j][2] = "bars")
                                        /\ ~(t[j][1] = "drop" /\ t[j][2] = "xdev")
  <2>1. n = 0 /\ "qdev" \in res /\ \A k \in 1 .. a : s[k][1] # "cleanup"
    BY <1>8, <1>15
  <2>2. PICK k \in 1 .. l :
          /\ s[k][1] = "cleanup"
          /\ \A j \in 1 .. k - 1 : /\ ~(s[j][1] = "drop" /\ s[j][2] = "bars")
                                   /\ ~(s[j][1] = "drop" /\ s[j][2] = "xdev")
    BY <1>4, <2>1
  <2>3. ~(k \in 1 .. a) /\ k \in n + 1 .. l /\ ~(k \in n + 1 .. a)
    BY <2>1, <2>2
  <2>4. k - a + m \in m + 1 .. Len(t) /\ t[k - a + m] = s[k] /\ k - a + m = k - a
    BY <1>3, <1>8, <2>3
  <2>5. ASSUME NEW j \in 1 .. (k - a) - 1
        PROVE  /\ ~(t[j][1] = "drop" /\ t[j][2] = "bars")
               /\ ~(t[j][1] = "drop" /\ t[j][2] = "xdev")
    <3>1. j \in m + 1 .. Len(t) /\ j - m + a \in 1 .. k - 1
      BY <1>1, <1>8, <2>4
    <3>2. t[j] = s[j - m + a]
      BY <1>2, <3>1
    <3> QED
      BY <2>2, <3>1, <3>2
  <2>6. k - a \in 1 .. Len(t) /\ t[k - a][1] = "cleanup"
    BY <1>8, <2>2, <2>4
  <2> QED
    BY <2>5, <2>6
<1>9. ASSUME NEW k \in m + 1 .. Len(t), t[k][1] = "drop"
      PROVE  /\ \/ t[k][2] \in Guarded \cup res'
                \/ t[k][2] = "pci" /\ (enables' = 1 \/ "reenable" \in Faults)
             /\ \A j \in m + 1 .. Len(t) : t[j][1] = "drop" /\ t[j][2] = t[k][2] => j = k
  <2> DEFINE i == k - m + a
  <2>1. i \in a + 1 .. l /\ i \in n + 1 .. l /\ t[k] = s[i]
    BY <1>2
  <2> HIDE DEF i
  <2>2. \/ s[i][2] \in Guarded \cup res
        \/ s[i][2] = "pci" /\ (enables = 1 \/ "reenable" \in Faults)
    BY <1>4, <1>9, <2>1
  <2>3. /\ s[i][2] \in res => s[i][2] \in res'
        /\ s[i][2] = "pci" /\ enables = 1 => enables' = 1
    BY <1>9, <1>15, <2>1
  <2>4. \/ t[k][2] \in Guarded \cup res'
        \/ t[k][2] = "pci" /\ (enables' = 1 \/ "reenable" \in Faults)
    BY <2>1, <2>2, <2>3
  <2>5. ASSUME NEW j \in m + 1 .. Len(t), t[j][1] = "drop", t[j][2] = t[k][2]
        PROVE  j = k
    <3>1. j - m + a \in n + 1 .. l /\ t[j] = s[j - m + a]
      BY <1>2
    <3>2. j - m + a = i
      BY <1>4, <1>9, <2>1, <2>5, <3>1
    <3>3. j - m + a = k - m + a
      BY <3>2 DEF i
    <3>4. j \in Int /\ k \in Int /\ m \in Int /\ a \in Int
      BY <1>1
    <3> QED
      BY <3>3, <3>4
  <2> QED
    BY <2>4, <2>5
<1>10. ASSUME NEW q \in table'
       PROVE  \E k \in m + 1 .. Len(t) : t[k][1] = "forget" /\ t[k][2] = q
  <2>1. PICK k \in n + 1 .. l : s[k][1] = "forget" /\ s[k][2] = q
    BY <1>4, <1>14
  <2>2. ~(k \in n + 1 .. a)
    BY <1>14, <2>1
  <2> QED
    BY <1>3, <2>1, <2>2
<1>11. Len(t) = Len(todo') /\ t = todo'
  BY DEF t
<1> QED
  BY <1>5, <1>6, <1>7, <1>8, <1>9, <1>10, <1>11 DEF Releasing, Is

LEMMA RebuildingMoves ==
  ASSUME NEW n \in 0 .. 4, NEW m \in 0 .. 4, NEW a \in Nat, n <= a,
         Rebuilding(n), a = n \/ a + 3 <= Len(todo), todo \in Seq(Steps), todo' \in Seq(Steps),
         Len(todo') = Len(todo) - a + m,
         \A k \in a + 1 .. Len(todo) : todo'[k - a + m] = todo[k],
         op' = op, Bound', Exact', enables' = 1, coalEn' = coalEn,
         \A q \in table' : q \in table /\ \A k \in n + 1 .. a : ~Is(k, "delete", q),
         m = 0 /\ "qdev" \in res' =>
           n = 0 /\ "qdev" \in res /\ \A k \in 1 .. a : todo[k][1] # "cleanup"
  PROVE  Rebuilding(m)'
<1> DEFINE l == Len(todo)
           s == todo
           t == todo'
<1>1. /\ l \in Nat /\ Len(t) = l - a + m
      /\ m \in Nat /\ n \in Nat /\ a \in Nat /\ n <= a /\ (a = n \/ a + 3 <= l)
      /\ \A k \in a + 1 .. l : t[k - a + m] = s[k]
  OBVIOUS
<1>2. /\ \A q \in table' : q \in table /\ \A k \in n + 1 .. a : ~(s[k][1] = "delete" /\ s[k][2] = q)
      /\ m = 0 /\ "qdev" \in res' =>
           n = 0 /\ "qdev" \in res /\ \A k \in 1 .. a : s[k][1] # "cleanup"
  BY DEF Is
<1>3. /\ op \in {"reset", "set_qmax"}
      /\ coalEn => "aggregate" \in ResetModes
  BY DEF Rebuilding
<1>4. CASE /\ n + 3 <= l
           /\ s[l - 2][1] = "take" /\ s[l - 2][2] = "irqs"
           /\ s[l - 1][1] = "check" /\ s[l - 1][2] = "queues"
           /\ s[l][1] = "take" /\ s[l][2] = "qdev"
           /\ \A k \in n + 1 .. l - 3 :
                \/ s[k][1] = "drop" /\ s[k][2] = "vfs"
                \/ s[k][1] \in {"cleanup", "set"}
                \/ s[k][1] = "delete" /\ op = "reset"
           /\ n = 0 /\ "qdev" \in res =>
                \E k \in 1 .. l - 3 :
                  s[k][1] = "cleanup" /\ \A j \in 1 .. k - 1 : s[j][1] # "set"
           /\ \A q \in table : \E k \in n + 1 .. l - 3 : s[k][1] = "delete" /\ s[k][2] = q
  <2> HIDE DEF s, t, l
  <2>1. a + 3 <= l
    BY <1>1, <1>4
  <2>2. /\ Len(t) - 2 = (l - 2) - a + m /\ l - 2 \in a + 1 .. l
        /\ Len(t) - 1 = (l - 1) - a + m /\ l - 1 \in a + 1 .. l
        /\ Len(t) = l - a + m /\ l \in a + 1 .. l
        /\ m + 3 <= Len(t)
    BY <1>1, <2>1
  <2>3. t[Len(t) - 2] = s[l - 2] /\ t[Len(t) - 1] = s[l - 1] /\ t[Len(t)] = s[l]
    BY <1>1, <2>2
  <2>4. ASSUME NEW k \in m + 1 .. Len(t) - 3
        PROVE  k - m + a \in a + 1 .. l - 3 /\ k - m + a \in n + 1 .. l - 3 /\ t[k] = s[k - m + a]
    <3>1. k - m + a \in a + 1 .. l - 3
      BY <1>1
    <3>2. k - m + a \in n + 1 .. l - 3 /\ (k - m + a) - a + m = k /\ k - m + a \in a + 1 .. l
      BY <1>1
    <3> QED
      BY <1>1, <3>1, <3>2
  <2>5. ASSUME NEW k \in n + 1 .. l - 3, ~(k \in n + 1 .. a)
        PROVE  k - a + m \in m + 1 .. Len(t) - 3 /\ t[k - a + m] = s[k]
    <3>1. k \in a + 1 .. l /\ k - a + m \in m + 1 .. Len(t) - 3
      BY <1>1, <2>5
    <3> QED
      BY <1>1, <3>1
  <2>6. \A k \in m + 1 .. Len(t) - 3 :
          \/ t[k][1] = "drop" /\ t[k][2] = "vfs"
          \/ t[k][1] \in {"cleanup", "set"}
          \/ t[k][1] = "delete" /\ op = "reset"
    <3> TAKE k \in m + 1 .. Len(t) - 3
    <3>1. k - m + a \in n + 1 .. l - 3 /\ t[k] = s[k - m + a]
      BY <2>4
    <3>2. \/ s[k - m + a][1] = "drop" /\ s[k - m + a][2] = "vfs"
          \/ s[k - m + a][1] \in {"cleanup", "set"}
          \/ s[k - m + a][1] = "delete" /\ op = "reset"
      BY <1>4, <3>1
    <3> QED
      BY <3>1, <3>2
  <2>7. ASSUME m = 0, "qdev" \in res'
        PROVE  \E k \in 1 .. Len(t) - 3 :
                 t[k][1] = "cleanup" /\ \A j \in 1 .. k - 1 : t[j][1] # "set"
    <3>1. n = 0 /\ "qdev" \in res /\ \A k \in 1 .. a : s[k][1] # "cleanup"
      BY <1>2, <2>7
    <3>2. PICK k \in 1 .. l - 3 : s[k][1] = "cleanup" /\ \A j \in 1 .. k - 1 : s[j][1] # "set"
      BY <1>4, <3>1
    <3>3. ~(k \in 1 .. a) /\ k \in n + 1 .. l - 3 /\ ~(k \in n + 1 .. a)
      BY <3>1, <3>2
    <3>4. k - a + m \in m + 1 .. Len(t) - 3 /\ t[k - a + m] = s[k] /\ k - a + m = k - a
      BY <1>1, <2>5, <2>7, <3>3
    <3>5. ASSUME NEW j \in 1 .. (k - a) - 1 PROVE t[j][1] # "set"
      <4>1. j \in m + 1 .. Len(t) - 3 /\ j - m + a \in 1 .. k - 1
        BY <1>1, <2>7, <3>4
      <4>2. t[j] = s[j - m + a]
        BY <2>4, <4>1
      <4> QED
        BY <3>2, <4>1, <4>2
    <3>6. k - a \in 1 .. Len(t) - 3 /\ t[k - a][1] = "cleanup"
      BY <2>7, <3>2, <3>4
    <3> QED
      BY <3>5, <3>6
  <2>8. ASSUME NEW q \in table'
        PROVE  \E k \in m + 1 .. Len(t) - 3 : t[k][1] = "delete" /\ t[k][2] = q
    <3>1. PICK k \in n + 1 .. l - 3 : s[k][1] = "delete" /\ s[k][2] = q
      BY <1>2, <1>4
    <3>2. ~(k \in n + 1 .. a)
      BY <1>2, <3>1
    <3> QED
      BY <2>5, <3>1, <3>2
  <2>9. Len(t) = Len(todo') /\ t = todo'
    BY DEF t
  <2>10. /\ t[Len(t) - 2][1] = "take" /\ t[Len(t) - 2][2] = "irqs"
         /\ t[Len(t) - 1][1] = "check" /\ t[Len(t) - 1][2] = "queues"
         /\ t[Len(t)][1] = "take" /\ t[Len(t)][2] = "qdev"
    BY <1>4, <2>3
  <2>11. /\ Is(Len(todo) - 2, "take", "irqs")'
         /\ Is(Len(todo) - 1, "check", "queues")'
         /\ Is(Len(todo), "take", "qdev")'
    BY <2>9, <2>10 DEF Is
  <2>12. \A k \in m + 1 .. Len(todo') - 3 :
           \/ Is(k, "drop", "vfs")' \/ todo'[k][1] \in {"cleanup", "set"}
           \/ todo'[k][1] = "delete" /\ op' = "reset"
    BY <2>6, <2>9 DEF Is
  <2>13. m = 0 /\ "qdev" \in res' =>
           \E k \in 1 .. Len(todo') - 3 :
             todo'[k][1] = "cleanup" /\ \A j \in 1 .. k - 1 : todo'[j][1] # "set"
    BY <2>7, <2>9
  <2>14. \A q \in table' : \E k \in m + 1 .. Len(todo') - 3 : Is(k, "delete", q)'
    BY <2>8, <2>9 DEF Is
  <2>15. m + 3 <= Len(todo')
    BY <2>2, <2>9
  <2> QED
    BY <1>3, <2>11, <2>12, <2>13, <2>14, <2>15 DEF Rebuilding
<1>5. CASE l = n + 1 /\ s[n + 1][1] = "cleanup" /\ table = {}
  <2> HIDE DEF s, t, l
  <2>1. a = n /\ n + 1 \in a + 1 .. l /\ (n + 1) - a + m = m + 1 /\ Len(t) = m + 1
    BY <1>1, <1>5
  <2>2. t[m + 1][1] = "cleanup"
    BY <1>1, <1>5, <2>1
  <2>3. table' = {}
    BY <1>2, <1>5
  <2>4. m = 0 => "qdev" \notin res'
    <3>1. SUFFICES ASSUME m = 0, "qdev" \in res' PROVE FALSE
      OBVIOUS
    <3>2. n = 0 /\ "qdev" \in res
      BY <1>2, <3>1
    <3>3. Len(todo) = n + 1
      BY <1>5 DEF l
    <3>4. FALSE
      BY <1>1, <3>2, <3>3 DEF Rebuilding
    <3> QED
      BY <3>4
  <2>5. Len(t) = Len(todo') /\ t = todo'
    BY DEF t
  <2> QED
    BY <1>3, <2>1, <2>2, <2>3, <2>4, <2>5 DEF Rebuilding
<1> QED
  BY <1>4, <1>5 DEF Rebuilding, Is

\* qdma_device_cleanup() under way.
LEMMA CleaningInv ==
  ASSUME DevInv, NEW n \in 1 .. 4, Cleaning(n), Releasing(n) \/ Rebuilding(n), Step
  PROVE  DevInv'
<1>1. /\ Base' /\ Cleaning(n - 1)' /\ todo # <<>> /\ Advance
      /\ n = 1 => "qdev" \notin res'
      /\ \A r : r \notin {"irqs", "qdev"} => (r \in res' <=> r \in res)
      /\ UNCHANGED <<mode, op, enables, qsets, coalEn, table, cdev>>
  BY CleaningStep
<1>2. Base /\ todo \in Seq(Steps) /\ n <= Len(todo)
  BY DEF DevInv, Base, Cleaning
<1>3. /\ Len(todo) \in Nat \ {0} /\ todo' \in Seq(Steps) /\ Len(todo') = Len(todo) - 1
      /\ \A k \in 1 .. Len(todo) - 1 : todo'[k] = todo[k + 1]
  BY <1>1, <1>2, Advanced
<1>4. n - 1 \in 0 .. 4 /\ n \in 0 .. 4 /\ n \in Nat /\ n <= n
  OBVIOUS
<1>5. Len(todo') = Len(todo) - n + (n - 1)
  BY <1>3
<1>6. ASSUME NEW k \in n + 1 .. Len(todo) PROVE todo'[k - n + (n - 1)] = todo[k]
  <2>1. k - n + (n - 1) = k - 1 /\ k - 1 \in 1 .. Len(todo) - 1 /\ (k - 1) + 1 = k
    BY <1>3
  <2> QED
    BY <1>3, <2>1
<1>7. \A k \in n + 1 .. n : FALSE
  OBVIOUS
<1>8. ~(n - 1 = 0 /\ "qdev" \in res')
  BY <1>1
<1>9. CASE Releasing(n)
  <2>1. \A k \in n + 1 .. Len(todo) : todo[k][1] = "drop" => todo[k][2] \notin {"irqs", "qdev"}
    BY <1>9 DEF Releasing
  <2>2. \A k \in n + 1 .. Len(todo) : todo[k][1] = "drop" =>
          /\ todo[k][2] \in res => todo[k][2] \in res'
          /\ todo[k][2] = "pci" /\ enables = 1 => enables' = 1
    BY <1>1, <2>1
  <2>3. \A r \in res' : r \notin {"irqs", "qdev"} =>
          r \in res /\ \A k \in n + 1 .. n : ~Is(k, "drop", r)
    BY <1>1, <1>7
  <2>4. /\ enables' = 1 => enables = 1 /\ \A k \in n + 1 .. n : ~Is(k, "drop", "pci")
        /\ \A q \in table' : q \in table /\ \A k \in n + 1 .. n : ~Is(k, "forget", q)
    BY <1>1, <1>7
  <2>5. Releasing(n - 1)'
    BY <1>2, <1>3, <1>4, <1>5, <1>6, <1>8, <1>9, <2>2, <2>3, <2>4, ReleasingMoves
  <2> QED
    BY <1>1, <1>4, <2>5 DEF DevInv, Plan
<1>10. CASE Rebuilding(n)
  <2>1. {"regions", "xdev", "bars", "xpdev", "chrdev", "sysfs", "drvdata"} \cap {"irqs", "qdev"} = {}
    OBVIOUS
  <2>2. Bound' /\ Exact' /\ enables' = 1
    BY <1>1, <1>10, <2>1 DEF Rebuilding, Bound, Exact
  <2>3. \A q \in table' : q \in table /\ \A k \in n + 1 .. n : ~Is(k, "delete", q)
    BY <1>1, <1>7
  <2>4. op' = op /\ coalEn' = coalEn
    BY <1>1
  <2>5. Rebuilding(n - 1)'
    BY <1>2, <1>3, <1>4, <1>5, <1>6, <1>8, <1>10, <2>2, <2>3, <2>4, RebuildingMoves
  <2> QED
    BY <1>1, <1>4, <2>5 DEF DevInv, Plan
<1> QED
  BY <1>9, <1>10

\* qdma_device_cleanup() begins, or returns at once.
LEMMA CleanupPlan ==
  ASSUME Base, CleanupBegins
  PROVE  /\ todo # <<>> /\ Verb = "cleanup" /\ todo' \in Seq(Steps)
         /\ UNCHANGED <<mode, op, res, enables, qsets, ranged, coalEn, coal, queue, table, cdev, bad>>
         /\ "qdev" \in res =>
              /\ Len(todo') = Len(todo) - 1 + 4
              /\ todo'[1] = <<"stop_all", "device">> /\ todo'[2] = <<"drop", "irqs">>
              /\ todo'[3] = <<"drop", "coal">> /\ todo'[4] = <<"drop", "qdev">>
              /\ \A k \in 1 + 1 .. Len(todo) : todo'[k - 1 + 4] = todo[k]
         /\ "qdev" \notin res =>
              /\ Len(todo') = Len(todo) - 1 + 0
              /\ \A k \in 1 + 1 .. Len(todo) : todo'[k - 1 + 0] = todo[k]
<1> DEFINE t == Tail(todo)
<1>1. /\ todo # <<>> /\ Verb = "cleanup"
      /\ todo' = (IF "qdev" \in res THEN Cleanup ELSE <<>>) \o t
      /\ UNCHANGED <<mode, op, res, enables, qsets, ranged, coalEn, coal, queue, table, cdev, bad>>
  BY DEF CleanupBegins, On, queues, module
<1>2. /\ Len(todo) \in Nat \ {0} /\ t \in Seq(Steps) /\ Len(t) = Len(todo) - 1
      /\ \A k \in 1 .. Len(todo) - 1 : t[k] = todo[k + 1]
  BY <1>1, TailOf DEF Base
<1> HIDE DEF t
<1>3. ASSUME NEW k \in 1 + 1 .. Len(todo) PROVE k - 1 \in 1 .. Len(t) /\ t[k - 1] = todo[k]
  <2>1. k - 1 \in 1 .. Len(todo) - 1 /\ (k - 1) + 1 = k
    BY <1>2
  <2> QED
    BY <1>2, <2>1
<1>4. CASE "qdev" \in res
  <2>1. todo' = Cleanup \o t
    BY <1>1, <1>4
  <2>2. /\ todo' \in Seq(Steps) /\ Len(todo') = Len(Cleanup) + Len(t)
        /\ \A k \in 1 .. Len(Cleanup) : todo'[k] = Cleanup[k]
        /\ \A k \in 1 .. Len(t) : todo'[Len(Cleanup) + k] = t[k]
    BY <1>2, <2>1, CleanupIs, ConcatOf
  <2>3. /\ todo' \in Seq(Steps) /\ Len(todo') = 4 + Len(t)
        /\ todo'[1] = Cleanup[1] /\ todo'[2] = Cleanup[2]
        /\ todo'[3] = Cleanup[3] /\ todo'[4] = Cleanup[4]
        /\ \A k \in 1 .. Len(t) : todo'[4 + k] = t[k]
    BY <2>2, CleanupIs
  <2>4. ASSUME NEW k \in 1 + 1 .. Len(todo) PROVE todo'[k - 1 + 4] = todo[k]
    <3>1. k - 1 + 4 = 4 + (k - 1)
      BY <1>2
    <3> QED
      BY <1>3, <2>3, <3>1
  <2>5. Len(todo') = Len(todo) - 1 + 4
    BY <1>2, <2>3, SMTT(40)
  <2> QED
    BY <1>1, <1>4, <2>3, <2>4, <2>5, CleanupIs
<1>5. CASE "qdev" \notin res
  <2>1. todo' = <<>> \o t
    BY <1>1, <1>5
  <2>2. todo' = t
    BY <1>2, <2>1
  <2>3. ASSUME NEW k \in 1 + 1 .. Len(todo) PROVE todo'[k - 1 + 0] = todo[k]
    <3>1. k - 1 + 0 = k - 1
      BY <1>2
    <3> QED
      BY <1>3, <2>2, <3>1
  <2>4. Len(todo') = Len(todo) - 1 + 0
    BY <1>2, <2>2
  <2> QED
    BY <1>1, <1>2, <1>5, <2>2, <2>3, <2>4
<1> QED
  BY <1>4, <1>5

\* It begins in a device that has its queue arrays.
LEMMA CleaningBegins ==
  ASSUME Base, CleanupBegins, Paired, "qdev" \in res
  PROVE  Cleaning(4)'
<1>1. /\ Len(todo) \in Nat \ {0} /\ Len(todo') = Len(todo) - 1 + 4
      /\ todo'[1] = <<"stop_all", "device">> /\ todo'[2] = <<"drop", "irqs">>
      /\ todo'[3] = <<"drop", "coal">> /\ todo'[4] = <<"drop", "qdev">>
      /\ UNCHANGED <<mode, res>>
  BY CleanupPlan, TailOf DEF Base
<1>2. "irqs" \in res' \/ Vacuous("irqs")'
  BY <1>1 DEF Paired, Vacuous
<1>3. /\ 4 <= Len(todo') /\ todo'[1][1] = "stop_all"
      /\ Is(4 - 2, "drop", "irqs")' /\ Is(4 - 1, "drop", "coal")' /\ Is(4, "drop", "qdev")'
  BY <1>1 DEF Is
<1>4. 4 \in 3 .. 4 /\ 4 \in 2 .. 4 /\ 4 # 2 /\ ~(4 \in 2 .. 3) /\ 4 # 1 /\ 4 # 0
  OBVIOUS
<1> QED
  BY <1>1, <1>2, <1>3, <1>4 DEF Cleaning

\* One entry of the table is forgotten; which direction the device keeps is
\* not always the one that is left, but that it has one left is.
LEMMA ForgetBase ==
  ASSUME Base, ForgetQueue
  PROVE  /\ Base' /\ todo # <<>> /\ Verb = "forget" /\ Advance /\ table' = table \ {Object}
         /\ UNCHANGED <<mode, op, res, enables, qsets, coalEn>>
<1> DEFINE q == Object
           j == Idx(q)
           s == Dir(q)
           dirs == cdev[j]
<1>1. /\ todo # <<>> /\ Verb = "forget" /\ Advance /\ q \in table
      /\ bad' = (IF dirs = {} THEN bad \cup {"cdev"} ELSE bad)
      /\ cdev' = [cdev EXCEPT ![j] = IF Cardinality(dirs) = 1 THEN {} ELSE Shifted(dirs)]
      /\ table' = table \ {q}
      /\ UNCHANGED <<mode, op, res, enables, qsets, ranged, coalEn, coal, queue>>
  BY DEF ForgetQueue, On, queues
<1>2. q \in Queues /\ s \in Dirs /\ j \in 0 .. TableSize - 1 /\ q = <<s, j>>
  BY <1>1, ObjectIs
<1>3. todo' \in Seq(Steps)
  BY <1>1, Advanced
<1>4. table \subseteq Queues /\ cdev \in [0 .. TableSize - 1 -> SUBSET Dirs]
  BY DEF Base, Typed
<1> HIDE DEF q, j, s
<1>5. /\ dirs = {} <=> \A d \in Dirs : <<d, j>> \notin table
      /\ dirs = Dirs <=> \A d \in Dirs : <<d, j>> \in table
      /\ dirs \subseteq Dirs
  BY <1>2, <1>4 DEF Base, Cdevs
<1> DEFINE left == IF Cardinality(dirs) = 1 THEN {} ELSE Shifted(dirs)
<1>6. /\ cdev'[j] = left
      /\ \A i \in 0 .. TableSize - 1 : i # j => cdev'[i] = cdev[i]
  BY <1>1, <1>2, <1>4
<1>7. dirs # {}
  BY <1>1, <1>2, <1>5
<1>8. dirs = Dirs \/ dirs = {"h2c"} \/ dirs = {"c2h"}
  BY <1>5, <1>7 DEF Dirs
<1>9. /\ Cardinality({"h2c"}) = 1 /\ Cardinality({"c2h"}) = 1 /\ Cardinality(Dirs) # 1
  <2>1. \A x : Cardinality({x}) = 1 /\ IsFiniteSet({x})
    BY FS_Singleton
  <2>2. Cardinality({"h2c"} \cup {"c2h"}) = 2
    <3>1. "c2h" \notin {"h2c"} /\ IsFiniteSet({"h2c"}) /\ Cardinality({"h2c"}) = 1
      BY <2>1
    <3>2. Cardinality({"h2c"} \cup {"c2h"}) = Cardinality({"h2c"}) + 1
      BY <3>1, FS_AddElement
    <3> QED
      BY <3>1, <3>2
  <2>3. Dirs = {"h2c"} \cup {"c2h"}
    BY DEF Dirs
  <2>4. Cardinality(Dirs) = 2
    BY <2>2, <2>3
  <2>5. Cardinality(Dirs) # 1
    BY <2>4
  <2>6. Cardinality({"h2c"}) = 1
    BY <2>1
  <2>7. Cardinality({"c2h"}) = 1
    BY <2>1
  <2> QED
    BY <2>5, <2>6, <2>7
<1>10. ASSUME dirs = Dirs
       PROVE  /\ left = {} <=> \A d \in Dirs : <<d, j>> \notin table'
              /\ left = Dirs <=> \A d \in Dirs : <<d, j>> \in table'
              /\ left \subseteq Dirs
  <2>1. left = {"h2c"}
    BY <1>9, <1>10 DEF Shifted, Dirs
  <2>2. /\ left # {} /\ left # Dirs /\ left \subseteq Dirs
    BY <2>1 DEF Dirs
  <2>3. ~(\A d \in Dirs : <<d, j>> \in table')
    BY <1>1, <1>2
  <2>4. ~(\A d \in Dirs : <<d, j>> \notin table')
    <3>1. PICK d \in Dirs : d # s
      BY DEF Dirs
    <3>2. <<d, j>> \in table /\ <<d, j>> # q
      BY <1>2, <1>5, <1>10, <3>1
    <3> QED
      BY <1>1, <3>1, <3>2
  <2> QED
    BY <2>2, <2>3, <2>4
<1>11. ASSUME dirs # Dirs
       PROVE  /\ left = {} <=> \A d \in Dirs : <<d, j>> \notin table'
              /\ left = Dirs <=> \A d \in Dirs : <<d, j>> \in table'
              /\ left \subseteq Dirs
  <2>1. left = {}
    BY <1>8, <1>9, <1>11
  <2>2. /\ left # Dirs /\ left \subseteq Dirs
    BY <2>1 DEF Dirs
  <2>3. \A d \in Dirs : <<d, j>> \notin table'
    <3>1. PICK d \in Dirs : <<d, j>> \notin table
      BY <1>5, <1>11
    <3>2. d # s /\ \A e \in Dirs : e = s \/ e = d
      BY <1>1, <1>2, <3>1 DEF Dirs
    <3> QED
      BY <1>1, <1>2, <3>1, <3>2
  <2> QED
    BY <1>2, <2>1, <2>2, <2>3
<1>12. /\ left = {} <=> \A d \in Dirs : <<d, j>> \notin table'
       /\ left = Dirs <=> \A d \in Dirs : <<d, j>> \in table'
       /\ left \subseteq Dirs
  BY <1>10, <1>11
<1> HIDE DEF left, dirs
<1>13. cdev' \in [0 .. TableSize - 1 -> SUBSET Dirs]
  BY <1>1, <1>2, <1>4, <1>12 DEF left
<1>14. Cdevs'
  <2>1. ASSUME NEW i \in 0 .. TableSize - 1
        PROVE  /\ cdev'[i] = {} <=> \A d \in Dirs : <<d, i>> \notin table'
               /\ cdev'[i] = Dirs <=> \A d \in Dirs : <<d, i>> \in table'
    <3>1. CASE i = j
      BY <1>6, <1>12, <3>1
    <3>2. CASE i # j
      <4>1. \A d \in Dirs : <<d, i>> \in table' <=> <<d, i>> \in table
        BY <1>1, <1>2, <3>2
      <4>2. /\ cdev[i] = {} <=> \A d \in Dirs : <<d, i>> \notin table
            /\ cdev[i] = Dirs <=> \A d \in Dirs : <<d, i>> \in table
        BY DEF Base, Cdevs
      <4> QED
        BY <1>6, <3>2, <4>1, <4>2
    <3> QED
      BY <3>1, <3>2
  <2> QED
    BY <2>1 DEF Cdevs
<1>15. bad' = bad
  BY <1>1, <1>7
<1>16. Typed' /\ Kept'
  BY <1>1, <1>4, <1>13, <1>15 DEF Base, Typed, Kept
<1>17. QueuesBacked' /\ Handled' /\ RunsBacked'
  BY <1>1 DEF Base, QueuesBacked, Handled, RunsBacked
<1>18. ~Is(1, "drop", "qdev")
  BY <1>1 DEF Is, Verb
<1>19. Rings'
  BY <1>1, <1>18 DEF Base, Rings
<1>20. Base'
  BY <1>3, <1>14, <1>16, <1>17, <1>19 DEF Base
<1> QED
  BY <1>1, <1>20 DEF q

\* Releasing goes on.
LEMMA ReleasingInv == ASSUME DevInv, Cleaning(0), Releasing(0), Step PROVE DevInv'
<1>1. Base /\ todo # <<>> /\ Paired /\ todo \in Seq(Steps) /\ Len(todo) \in Nat \ {0}
  BY StepIs, TailOf DEF DevInv, Base, Cleaning
<1>2. /\ \/ Verb \in {"cleanup", "forget"}
         \/ Verb = "drop" /\ Object \in Removed
      /\ Verb = "drop" =>
           /\ \/ Object \in Guarded \cup res
              \/ Object = "pci" /\ (enables = 1 \/ "reenable" \in Faults)
           /\ \A j \in 0 + 1 .. Len(todo) : Is(j, "drop", Object) => j = 1
  <2>1. 1 \in 0 + 1 .. Len(todo)
    BY <1>1
  <2>2. /\ \/ todo[1][1] \in {"cleanup", "forget"}
           \/ todo[1][1] = "drop" /\ todo[1][2] \in (Resources \cup {"pci"}) \ {"irqs", "qdev"}
        /\ todo[1][1] = "drop" =>
             /\ \/ todo[1][2] \in Guarded \cup res
                \/ todo[1][2] = "pci" /\ (enables = 1 \/ "reenable" \in Faults)
             /\ \A j \in 0 + 1 .. Len(todo) : Is(j, "drop", todo[1][2]) => j = 1
    BY <2>1 DEF Releasing
  <2> QED
    BY <2>2 DEF Verb, Object, Removed
<1>3. 0 \in 0 .. 4 /\ 4 \in 0 .. 4 /\ 1 \in Nat /\ 0 <= 1 /\ 1 <= Len(todo)
  BY <1>1
<1>4. \A k \in 0 + 1 .. 1 : k = 1
  OBVIOUS
<1>5. ASSUME Advance
      PROVE  /\ todo' \in Seq(Steps) /\ Len(todo') = Len(todo) - 1 + 0
             /\ \A k \in 1 + 1 .. Len(todo) : todo'[k - 1 + 0] = todo[k]
  <2>1. /\ todo' \in Seq(Steps) /\ Len(todo') = Len(todo) - 1
        /\ \A k \in 1 .. Len(todo) - 1 : todo'[k] = todo[k + 1]
    BY <1>1, <1>5, Advanced
  <2>2. ASSUME NEW k \in 1 + 1 .. Len(todo) PROVE todo'[k - 1 + 0] = todo[k]
    <3>1. k - 1 + 0 = k - 1 /\ k - 1 \in 1 .. Len(todo) - 1 /\ (k - 1) + 1 = k
      BY <1>1
    <3> QED
      BY <2>1, <3>1
  <2> QED
    BY <1>1, <2>1, <2>2
<1>6. \A k \in 1 + 1 .. Len(todo) : k \in 0 + 1 .. Len(todo) /\ k # 1
  BY <1>1
<1>7. CASE Verb = "drop"
  <2>1. Drop
    BY <1>1, <1>2, <1>7, StepIs DEF DropRings, Removed, Resources
  <2>2. Object \in {"bars", "xdev"} => "irqs" \notin res /\ "qdev" \notin res
    <3>1. SUFFICES ASSUME Object \in {"bars", "xdev"}, "qdev" \in res PROVE FALSE
      BY <1>1 DEF Paired
    <3>2. PICK k \in 1 .. Len(todo) :
            /\ todo[k][1] = "cleanup"
            /\ \A j \in 1 .. k - 1 : ~Is(j, "drop", "bars") /\ ~Is(j, "drop", "xdev")
      BY <3>1 DEF Releasing
    <3>3. k # 1
      BY <1>7, <3>2 DEF Verb
    <3>4. 1 \in 1 .. k - 1
      BY <1>1, <3>3
    <3>5. ~Is(1, "drop", "bars") /\ ~Is(1, "drop", "xdev")
      BY <3>2, <3>4
    <3> QED
      BY <1>7, <3>1, <3>5 DEF Is, Verb, Object
  <2>3. /\ Base' /\ Advance /\ res' = res \ {Object}
        /\ enables' = (IF Object = "pci" THEN 0 ELSE enables)
        /\ UNCHANGED <<mode, op, qsets, coalEn, table, cdev, queue>>
    BY <1>1, <1>2, <1>7, <2>1, <2>2, DropBase
  <2>4. Object \notin {"irqs", "qdev"}
    BY <1>2, <1>7 DEF Removed
  <2>5. Paired'
    BY <1>1, <2>3, <2>4 DEF Paired, Vacuous
  <2>6. /\ todo' \in Seq(Steps) /\ Len(todo') = Len(todo) - 1 + 0
        /\ \A k \in 1 + 1 .. Len(todo) : todo'[k - 1 + 0] = todo[k]
    BY <1>5, <2>3
  <2>7. \A k \in 0 + 1 .. 1 : \A v, r : Is(k, v, r) <=> v = "drop" /\ r = Object
    BY <1>4, <1>7 DEF Is, Verb, Object
  <2>8. \A r \in res' : r \notin {"irqs", "qdev"} =>
          r \in res /\ \A k \in 0 + 1 .. 1 : ~Is(k, "drop", r)
    BY <2>3, <2>7
  <2>9. enables' = 1 => enables = 1 /\ \A k \in 0 + 1 .. 1 : ~Is(k, "drop", "pci")
    BY <2>3, <2>7
  <2>10. ASSUME NEW k \in 1 + 1 .. Len(todo), todo[k][1] = "drop"
         PROVE  todo[k][2] # Object
    BY <1>2, <1>6, <1>7, <2>10 DEF Is
  <2>11. \A k \in 1 + 1 .. Len(todo) : todo[k][1] = "drop" =>
           /\ todo[k][2] \in res => todo[k][2] \in res'
           /\ todo[k][2] = "pci" /\ enables = 1 => enables' = 1
    BY <2>3, <2>10
  <2>12. \A q \in table' : q \in table /\ \A k \in 0 + 1 .. 1 : ~Is(k, "forget", q)
    BY <2>3, <2>7
  <2>13. 0 = 0 /\ "qdev" \in res' =>
           0 = 0 /\ "qdev" \in res /\ \A k \in 1 .. 1 : todo[k][1] # "cleanup"
    BY <1>7, <2>3 DEF Verb
  <2>14. Releasing(0)'
    BY <1>1, <1>3, <2>6, <2>8, <2>9, <2>11, <2>12, <2>13, ReleasingMoves
  <2>15. Cleaning(0)'
    BY <1>1, <2>5, <2>6 DEF Cleaning
  <2> QED
    BY <2>3, <2>14, <2>15 DEF DevInv, Plan
<1>8. CASE Verb = "cleanup"
  <2>1. CleanupBegins
    BY <1>8, StepIs
  <2>2. /\ todo' \in Seq(Steps)
        /\ UNCHANGED <<mode, op, res, enables, qsets, ranged, coalEn, coal, queue, table, cdev, bad>>
    BY <1>1, <2>1, CleanupPlan
  <2>3. Base' /\ Paired'
    <3>1. qsets \in Qsets /\ Verb # "drop"
      BY <1>1, <1>8 DEF Base, Typed
    <3> QED
      BY <1>1, <2>2, <3>1, StillBase
  <2>4. \A k \in 0 + 1 .. 1 : \A r : ~Is(k, "drop", r) /\ ~Is(k, "forget", r)
    BY <1>4, <1>8 DEF Is, Verb
  <2>5. /\ \A r \in res' : r \notin {"irqs", "qdev"} =>
             r \in res /\ \A k \in 0 + 1 .. 1 : ~Is(k, "drop", r)
        /\ enables' = 1 => enables = 1 /\ \A k \in 0 + 1 .. 1 : ~Is(k, "drop", "pci")
        /\ \A k \in 1 + 1 .. Len(todo) : todo[k][1] = "drop" =>
             /\ todo[k][2] \in res => todo[k][2] \in res'
             /\ todo[k][2] = "pci" /\ enables = 1 => enables' = 1
        /\ \A q \in table' : q \in table /\ \A k \in 0 + 1 .. 1 : ~Is(k, "forget", q)
    BY <2>2, <2>4
  <2>6. CASE "qdev" \in res
    <3>1. /\ Len(todo') = Len(todo) - 1 + 4
          /\ \A k \in 1 + 1 .. Len(todo) : todo'[k - 1 + 4] = todo[k]
      BY <1>1, <2>1, <2>6, CleanupPlan
    <3>2. Releasing(4)'
      BY <1>1, <1>3, <2>2, <2>5, <3>1, ReleasingMoves, SMTT(40)
    <3>3. Cleaning(4)'
      BY <1>1, <2>1, <2>6, CleaningBegins
    <3> QED
      BY <1>3, <2>3, <3>2, <3>3 DEF DevInv, Plan
  <2>7. CASE "qdev" \notin res
    <3>1. /\ Len(todo') = Len(todo) - 1 + 0
          /\ \A k \in 1 + 1 .. Len(todo) : todo'[k - 1 + 0] = todo[k]
      BY <1>1, <2>1, <2>7, CleanupPlan
    <3>2. "qdev" \notin res'
      BY <2>2, <2>7
    <3>3. Releasing(0)'
      BY <1>1, <1>3, <2>2, <2>5, <3>1, <3>2, ReleasingMoves
    <3>4. Cleaning(0)'
      BY <1>1, <2>2, <2>3, <3>1 DEF Cleaning
    <3> QED
      BY <2>3, <3>3, <3>4 DEF DevInv, Plan
  <2> QED
    BY <2>6, <2>7
<1>9. CASE Verb = "forget"
  <2>1. /\ Base' /\ Advance /\ table' = table \ {Object}
        /\ UNCHANGED <<mode, op, res, enables, qsets, coalEn>>
    <3>1. CASE ForgetQueue
      BY <1>1, <3>1, ForgetBase
    <3>2. CASE ForgetNone
      <4>1. /\ Object \notin table /\ Advance
            /\ UNCHANGED <<mode, op, res, enables, qsets, ranged, coalEn, coal, queue, table, cdev, bad>>
        BY <3>2 DEF ForgetNone, queues, module
      <4>2. todo' \in Seq(Steps) /\ qsets \in Qsets /\ Verb # "drop"
        BY <1>1, <1>5, <1>9, <4>1 DEF Base, Typed
      <4> QED
        BY <1>1, <4>1, <4>2, StillBase
    <3> QED
      BY <1>9, <3>1, <3>2, StepIs
  <2>2. Paired'
    BY <1>1, <2>1 DEF Paired, Vacuous
  <2>3. /\ todo' \in Seq(Steps) /\ Len(todo') = Len(todo) - 1 + 0
        /\ \A k \in 1 + 1 .. Len(todo) : todo'[k - 1 + 0] = todo[k]
    BY <1>5, <2>1
  <2>4. \A k \in 0 + 1 .. 1 : \A r : ~Is(k, "drop", r) /\ (Is(k, "forget", r) <=> r = Object)
    BY <1>4, <1>9 DEF Is, Verb, Object
  <2>5. /\ \A r \in res' : r \notin {"irqs", "qdev"} =>
             r \in res /\ \A k \in 0 + 1 .. 1 : ~Is(k, "drop", r)
        /\ enables' = 1 => enables = 1 /\ \A k \in 0 + 1 .. 1 : ~Is(k, "drop", "pci")
        /\ \A k \in 1 + 1 .. Len(todo) : todo[k][1] = "drop" =>
             /\ todo[k][2] \in res => todo[k][2] \in res'
             /\ todo[k][2] = "pci" /\ enables = 1 => enables' = 1
        /\ \A q \in table' : q \in table /\ \A k \in 0 + 1 .. 1 : ~Is(k, "forget", q)
    BY <2>1, <2>4
  <2>6. 0 = 0 /\ "qdev" \in res' =>
          0 = 0 /\ "qdev" \in res /\ \A k \in 1 .. 1 : todo[k][1] # "cleanup"
    BY <1>9, <2>1 DEF Verb
  <2>7. Releasing(0)'
    BY <1>1, <1>3, <2>3, <2>5, <2>6, ReleasingMoves
  <2>8. Cleaning(0)'
    BY <1>1, <2>2, <2>3 DEF Cleaning
  <2> QED
    BY <2>1, <2>7, <2>8 DEF DevInv, Plan
<1> QED
  BY <1>2, <1>7, <1>8, <1>9

\* Rebuilding goes on: the steps before those of qdma_device_init().
LEMMA RebuildingOn ==
  ASSUME DevInv, Cleaning(0), Rebuilding(0), Step, Len(todo) > 3
  PROVE  DevInv'
<1>1. /\ Base /\ todo # <<>> /\ Paired /\ todo \in Seq(Steps) /\ Len(todo) \in Nat \ {0}
      /\ op \in {"reset", "set_qmax"} /\ Bound /\ Exact /\ enables = 1
  BY StepIs, TailOf DEF DevInv, Base, Cleaning, Rebuilding
<1>2. /\ \/ Verb = "drop" /\ Object = "vfs"
         \/ Verb \in {"cleanup", "set"}
         \/ Verb = "delete" /\ op = "reset"
      /\ Verb = "set" => "qdev" \notin res
  <2>1. 1 \in 0 + 1 .. Len(todo) - 3
    BY <1>1
  <2>2. /\ \A k \in 0 + 1 .. Len(todo) - 3 :
             \/ Is(k, "drop", "vfs") \/ todo[k][1] \in {"cleanup", "set"}
             \/ todo[k][1] = "delete" /\ op = "reset"
        /\ "qdev" \in res =>
             \E k \in 1 .. Len(todo) - 3 :
               todo[k][1] = "cleanup" /\ \A j \in 1 .. k - 1 : todo[j][1] # "set"
    BY <1>1 DEF Rebuilding
  <2>3. Is(1, "drop", "vfs") \/ todo[1][1] \in {"cleanup", "set"} \/ (todo[1][1] = "delete" /\ op = "reset")
    BY <2>1, <2>2
  <2>4. ASSUME Verb = "set", "qdev" \in res PROVE FALSE
    <3>1. PICK k \in 1 .. Len(todo) - 3 :
            todo[k][1] = "cleanup" /\ \A j \in 1 .. k - 1 : todo[j][1] # "set"
      BY <2>2, <2>4
    <3>2. k # 1
      BY <2>4, <3>1 DEF Verb
    <3>3. 1 \in 1 .. k - 1
      BY <1>1, <3>2
    <3> QED
      BY <2>4, <3>1, <3>3 DEF Verb
  <2> QED
    BY <2>3, <2>4 DEF Is, Verb, Object
<1>3. 0 \in 0 .. 4 /\ 4 \in 0 .. 4 /\ 1 \in Nat /\ 0 <= 1 /\ 1 + 3 <= Len(todo)
  BY <1>1
<1>4. \A k \in 0 + 1 .. 1 : k = 1
  OBVIOUS
<1>5. ASSUME Advance
      PROVE  /\ todo' \in Seq(Steps) /\ Len(todo') = Len(todo) - 1 + 0
             /\ \A k \in 1 + 1 .. Len(todo) : todo'[k - 1 + 0] = todo[k]
  <2>1. /\ todo' \in Seq(Steps) /\ Len(todo') = Len(todo) - 1
        /\ \A k \in 1 .. Len(todo) - 1 : todo'[k] = todo[k + 1]
    BY <1>1, <1>5, Advanced
  <2>2. ASSUME NEW k \in 1 + 1 .. Len(todo) PROVE todo'[k - 1 + 0] = todo[k]
    <3>1. k - 1 + 0 = k - 1 /\ k - 1 \in 1 .. Len(todo) - 1 /\ (k - 1) + 1 = k
      BY <1>1
    <3> QED
      BY <2>1, <3>1
  <2> QED
    BY <1>1, <2>1, <2>2
<1>6. ASSUME Base', Advance, Paired', Bound', Exact', Verb # "cleanup",
             UNCHANGED <<op, enables, coalEn>>,
             "qdev" \in res' => "qdev" \in res,
             \A q \in table' : q \in table /\ (Verb = "delete" => q # Object)
      PROVE  DevInv'
  <2>1. /\ todo' \in Seq(Steps) /\ Len(todo') = Len(todo) - 1 + 0
        /\ \A k \in 1 + 1 .. Len(todo) : todo'[k - 1 + 0] = todo[k]
    BY <1>5, <1>6
  <2>2. \A q \in table' : q \in table /\ \A k \in 0 + 1 .. 1 : ~Is(k, "delete", q)
    BY <1>4, <1>6 DEF Is, Verb, Object
  <2>3. 0 = 0 /\ "qdev" \in res' =>
          0 = 0 /\ "qdev" \in res /\ \A k \in 1 .. 1 : todo[k][1] # "cleanup"
    BY <1>6 DEF Verb
  <2>4. op' = op /\ enables' = 1 /\ coalEn' = coalEn
    BY <1>1, <1>6
  <2>5. Rebuilding(0)'
    BY <1>1, <1>3, <1>6, <2>1, <2>2, <2>3, <2>4, RebuildingMoves
  <2>6. Cleaning(0)'
    BY <1>1, <1>6, <2>1 DEF Cleaning
  <2> QED
    BY <1>6, <2>5, <2>6 DEF DevInv, Plan
<1>7. CASE Verb = "drop"
  <2>1. Object = "vfs"
    BY <1>2, <1>7
  <2>2. Drop
    BY <1>7, <2>1, StepIs DEF DropRings
  <2>3. /\ Base' /\ Advance /\ res' = res \ {"vfs"} /\ enables' = enables
        /\ UNCHANGED <<mode, op, qsets, coalEn, table, cdev, queue>>
    <3>1. Object \in Removed /\ Object \in Guarded /\ ~(Object \in {"bars", "xdev"}) /\ Object # "pci"
      BY <2>1 DEF Removed, Resources, Guarded
    <3> QED
      BY <1>1, <2>1, <2>2, <3>1, DropBase
  <2>4. Bound' /\ Paired' /\ Exact'
    BY <1>1, <2>3, SettledStays
  <2> QED
    BY <1>6, <1>7, <2>3, <2>4
<1>8. CASE Verb = "set"
  <2>1. SetNumber
    BY <1>8, StepIs
  <2>2. /\ Advance /\ qsets' = Object
        /\ UNCHANGED <<mode, op, res, enables, ranged, coalEn, coal, queue, table, cdev, bad>>
    BY <2>1 DEF SetNumber, queues, module
  <2>3. Object \in Qsets
    <3>1. todo[1] \in Steps
      BY <1>1, TailOf
    <3>2. \/ todo[1] \in {"take", "check", "drop", "cleanup", "stop_all"} \X Names
          \/ todo[1] \in {"set"} \X Qsets
          \/ todo[1] \in {"add", "cdev", "start", "stop", "delete", "forget"} \X Queues
      BY <3>1 DEF Steps
    <3>3. /\ todo[1][1] \notin {"take", "check", "drop", "cleanup", "stop_all"}
          /\ todo[1][1] \notin {"add", "cdev", "start", "stop", "delete", "forget"}
      BY <1>8 DEF Verb
    <3>4. todo[1] \in {"set"} \X Qsets
      BY <3>2, <3>3
    <3> QED
      BY <3>4 DEF Object
  <2>4. Base' /\ Paired' /\ Bound' /\ Exact'
    <3>1. todo' \in Seq(Steps) /\ Verb # "drop" /\ qsets' \in Qsets /\ "qdev" \notin res
      BY <1>2, <1>5, <1>8, <2>2, <2>3
    <3> QED
      BY <1>1, <2>2, <3>1, StillBase
  <2> QED
    BY <1>6, <1>8, <2>2, <2>4
<1>9. CASE Verb = "delete"
  <2>1. CASE DeleteQueue
    <3>1. /\ Base' /\ Exact' /\ Advance /\ table' = table \ {Object}
          /\ UNCHANGED <<mode, op, res, enables, qsets, coalEn>>
      BY <1>1, <2>1, DeleteBase
    <3>2. Bound' /\ Paired'
      BY <1>1, <3>1 DEF Bound, Paired, Vacuous
    <3> QED
      BY <1>6, <1>9, <3>1, <3>2
  <2>2. CASE DeleteNone
    <3>1. /\ Advance /\ Object \notin table
          /\ UNCHANGED <<mode, op, res, enables, qsets, ranged, coalEn, coal, queue, table, cdev, bad>>
      BY <1>2, <1>9, <2>2 DEF DeleteNone, Advance, queues, module
    <3>2. Base' /\ Paired' /\ Bound' /\ Exact'
      <4>1. todo' \in Seq(Steps) /\ Verb # "drop" /\ qsets \in Qsets
        BY <1>1, <1>5, <1>9, <3>1 DEF Base, Typed
      <4> QED
        BY <1>1, <3>1, <4>1, StillBase
    <3> QED
      BY <1>6, <1>9, <3>1, <3>2
  <2> QED
    BY <1>9, <2>1, <2>2, StepIs
<1>10. CASE Verb = "cleanup"
  <2>1. CleanupBegins
    BY <1>10, StepIs
  <2>2. /\ todo' \in Seq(Steps)
        /\ UNCHANGED <<mode, op, res, enables, qsets, ranged, coalEn, coal, queue, table, cdev, bad>>
    BY <1>1, <2>1, CleanupPlan
  <2>3. Base' /\ Paired' /\ Bound' /\ Exact'
    <3>1. qsets \in Qsets /\ Verb # "drop"
      BY <1>1, <1>10 DEF Base, Typed
    <3> QED
      BY <1>1, <2>2, <3>1, StillBase
  <2>4. \A q \in table' : q \in table /\ \A k \in 0 + 1 .. 1 : ~Is(k, "delete", q)
    BY <1>4, <1>10, <2>2 DEF Is, Verb
  <2>5. op' = op /\ enables' = 1 /\ coalEn' = coalEn
    BY <1>1, <2>2
  <2>6. CASE "qdev" \in res
    <3>1. /\ Len(todo') = Len(todo) - 1 + 4
          /\ \A k \in 1 + 1 .. Len(todo) : todo'[k - 1 + 4] = todo[k]
      BY <1>1, <2>1, <2>6, CleanupPlan
    <3>4. ~(4 = 0 /\ "qdev" \in res')
      OBVIOUS
    <3>2. Rebuilding(4)'
      BY <1>1, <1>3, <2>2, <2>3, <2>4, <2>5, <3>1, <3>4, RebuildingMoves
    <3>3. Cleaning(4)'
      BY <1>1, <2>1, <2>6, CleaningBegins
    <3> QED
      BY <1>3, <2>3, <3>2, <3>3 DEF DevInv, Plan
  <2>7. CASE "qdev" \notin res
    <3>1. /\ Len(todo') = Len(todo) - 1 + 0
          /\ \A k \in 1 + 1 .. Len(todo) : todo'[k - 1 + 0] = todo[k]
      BY <1>1, <2>1, <2>7, CleanupPlan
    <3>2. "qdev" \notin res'
      BY <2>2, <2>7
    <3>3. Rebuilding(0)'
      BY <1>1, <1>3, <2>2, <2>3, <2>4, <2>5, <3>1, <3>2, RebuildingMoves
    <3>4. Cleaning(0)'
      BY <1>1, <2>2, <2>3, <3>1 DEF Cleaning
    <3> QED
      BY <2>3, <3>3, <3>4 DEF DevInv, Plan
  <2> QED
    BY <2>6, <2>7
<1> QED
  BY <1>2, <1>7, <1>8, <1>9, <1>10

LEMMA RebuildingInv ==
  ASSUME MayFail, DevInv, Cleaning(0), Rebuilding(0), Step
  PROVE  DevInv'
<1>1. /\ Base /\ todo # <<>> /\ Paired /\ todo \in Seq(Steps) /\ Len(todo) \in Nat \ {0}
      /\ op \in {"reset", "set_qmax"} /\ Bound /\ Exact /\ enables = 1
      /\ coalEn => "aggregate" \in ResetModes
  BY StepIs, TailOf DEF DevInv, Base, Cleaning, Rebuilding
<1>2. CASE Len(todo) > 3
  BY <1>2, RebuildingOn
<1>3. CASE Len(todo) = 3
  <2>1. /\ Verb = "take" /\ Object = "irqs"
        /\ todo[2][1] = "check" /\ todo[2][2] = "queues"
        /\ todo[3][1] = "take" /\ todo[3][2] = "qdev"
        /\ "qdev" \notin res /\ table = {}
    <3>1. /\ Is(Len(todo) - 2, "take", "irqs")
          /\ Is(Len(todo) - 1, "check", "queues")
          /\ Is(Len(todo), "take", "qdev")
          /\ "qdev" \in res => \E k \in 1 .. Len(todo) - 3 : todo[k][1] = "cleanup"
          /\ \A q \in table : \E k \in 0 + 1 .. Len(todo) - 3 : Is(k, "delete", q)
      BY <1>3 DEF Rebuilding
    <3>2. Len(todo) - 2 = 1 /\ Len(todo) - 1 = 2 /\ Len(todo) = 3 /\ Len(todo) - 3 = 0
      BY <1>3
    <3>3. (\A k \in 1 .. 0 : FALSE) /\ \A k \in 0 + 1 .. 0 : FALSE
      OBVIOUS
    <3>4. "qdev" \notin res /\ table = {}
      BY <3>1, <3>2, <3>3
    <3>5. Is(1, "take", "irqs") /\ Is(2, "check", "queues") /\ Is(3, "take", "qdev")
      BY <3>1, <3>2
    <3> QED
      BY <3>4, <3>5 DEF Is, Verb, Object
  <2>2. "irqs" \notin res
    BY <1>1, <2>1 DEF Paired
  <2>3. CASE Take
    <3>1. Base'
      <4>1. /\ Object \in Resources /\ ~IsPci(Object) /\ Object # "qdev"
            /\ {"xdev", "bars"} \subseteq res
        BY <1>1, <2>1 DEF Resources, IsPci, Bound
      <4> QED
        BY <1>1, <2>3, <4>1, TakeBase
    <3>2. /\ Advance /\ res' = (IF Vacuous("irqs") THEN res ELSE res \cup {"irqs"})
          /\ UNCHANGED <<mode, op, enables, coalEn, table, cdev>>
      BY <2>1, <2>3 DEF Take, IsPci, module
    <3>3. /\ todo' \in Seq(Steps) /\ Len(todo') = 2
          /\ todo'[1] = todo[2] /\ todo'[2] = todo[3]
      <4>1. /\ todo' \in Seq(Steps) /\ Len(todo') = Len(todo) - 1
            /\ \A k \in 1 .. Len(todo) - 1 : todo'[k] = todo[k + 1]
        BY <1>1, <3>2, Advanced
      <4>2. 1 \in 1 .. Len(todo) - 1 /\ 2 \in 1 .. Len(todo) - 1
        BY <1>3
      <4>3. todo'[1] = todo[1 + 1] /\ todo'[2] = todo[2 + 1]
        BY <4>1, <4>2
      <4> QED
        BY <1>3, <4>1, <4>3
    <3>4. Bound' /\ Exact' /\ (Vacuous("irqs")' <=> Vacuous("irqs"))
      BY <1>1, <3>2 DEF Bound, Exact, Vacuous
    <3>5. ("irqs" \in res' <=> ~Vacuous("irqs")') /\ "qdev" \notin res'
      BY <2>1, <2>2, <3>2, <3>4
    <3>6. Len(todo') \in 1 .. 2 /\ Is(Len(todo), "take", "qdev")' /\ Is(1, "check", "queues")'
      BY <2>1, <3>3 DEF Is
    <3>7. Initialising'
      BY <1>1, <2>1, <3>2, <3>4, <3>5, <3>6 DEF Initialising
    <3> QED
      BY <3>1, <3>7 DEF DevInv, Plan
  <2>4. CASE Fail
    <3>1. /\ todo' = Failed(op, "irqs")
          /\ UNCHANGED <<mode, op, res, enables, qsets, ranged, coalEn, coal, queue, table, cdev, bad>>
      BY <1>1, <2>1, <2>4, FailIs
    <3>2. /\ todo' \in Seq(Steps) /\ Len(todo') = 1 /\ todo'[1] = <<"cleanup", "device">>
      BY <1>1, <3>1, InitFails
    <3>3. Base' /\ Paired' /\ Bound' /\ Exact'
      <4>1. qsets \in Qsets
        BY <1>1 DEF Base, Typed
      <4> QED
        BY <1>1, <2>1, <3>1, <3>2, <4>1, StillBase
    <3>4. Cleaning(0)'
      BY <3>2, <3>3 DEF Cleaning
    <3>5. Rebuilding(0)'
      <4>1. /\ Len(todo') = 0 + 1 /\ todo'[0 + 1][1] = "cleanup"
            /\ table' = {} /\ "qdev" \notin res'
        BY <2>1, <3>1, <3>2
      <4> QED
        BY <1>1, <3>1, <3>3, <4>1 DEF Rebuilding
    <3> QED
      BY <3>3, <3>4, <3>5 DEF DevInv, Plan
  <2> QED
    BY <2>1, <2>3, <2>4, StepIs
<1>4. CASE Len(todo) \in {1, 2}
  <2>1. Len(todo) = 1 /\ Verb = "cleanup" /\ "qdev" \notin res /\ table = {}
    <3>3. \A l \in {1, 2} : ~(0 + 3 <= l)
      OBVIOUS
    <3>1. ~(0 + 3 <= Len(todo))
      BY <1>4, <3>3
    <3>2. /\ Len(todo) = 0 + 1 /\ todo[0 + 1][1] = "cleanup"
          /\ "qdev" \notin res /\ table = {}
      BY <3>1 DEF Rebuilding
    <3> QED
      BY <3>2 DEF Verb
  <2>2. CleanupBegins
    BY <2>1, StepIs
  <2>3. /\ todo' \in Seq(Steps) /\ Len(todo') = Len(todo) - 1 + 0
        /\ UNCHANGED <<mode, op, res, enables, qsets, ranged, coalEn, coal, queue, table, cdev, bad>>
    BY <1>1, <2>1, <2>2, CleanupPlan
  <2>4. Base' /\ Paired' /\ Bound' /\ Exact'
    <3>1. qsets \in Qsets /\ Verb # "drop"
      BY <1>1, <2>1 DEF Base, Typed
    <3> QED
      BY <1>1, <2>3, <3>1, StillBase
  <2>5. Idle'
    BY <2>1, <2>3 DEF Idle
  <2>6. Settled'
    BY <2>1, <2>3, <2>4 DEF Settled
  <2> QED
    BY <1>1, <2>3, <2>4, <2>5, <2>6 DEF DevInv, Plan
<1>5. Len(todo) > 3 \/ Len(todo) \in {1, 2, 3}
  <2>1. \A l \in Nat \ {0} : l > 3 \/ l \in {1, 2, 3}
    OBVIOUS
  <2> QED
    BY <1>1, <2>1
<1> QED
  BY <1>2, <1>3, <1>4, <1>5

-----------------------------------------------------------------------------
(* The invariant.                                                          *)

LEMMA InitInv == Init => DevInv
<1> SUFFICES ASSUME Init PROVE DevInv
  OBVIOUS
<1>1. /\ mode \in Modes /\ todo = <<>> /\ res = {} /\ enables = 0 /\ qsets \in Qsets
      /\ ranged = FALSE /\ coalEn = FALSE /\ coal = "none"
      /\ queue = Free /\ table = {}
      /\ cdev = [i \in 0 .. TableSize - 1 |-> {}] /\ bad = {}
  BY DEF Init
<1>2. /\ queue \in [Queues -> {"free", "added", "started"}]
      /\ \A q \in Queues : queue[q] = "free"
  BY <1>1 DEF Free
<1>3. /\ cdev \in [0 .. TableSize - 1 -> SUBSET Dirs]
      /\ \A i \in 0 .. TableSize - 1 : cdev[i] = {}
  BY <1>1
<1>4. todo \in Seq(Steps) /\ Len(todo) = 0
  BY <1>1
<1>5. Typed
  <2>1. ranged \in BOOLEAN /\ coalEn \in BOOLEAN
    BY <1>1, Zenon
  <2>2. enables \in 0 .. 1 /\ coal \in {"none", "live", "freed"}
    BY <1>1
  <2>3. res \subseteq Resources /\ table \subseteq Queues
    BY <1>1, Zenon
  <2> QED
    BY <1>1, <1>2, <1>3, <2>1, <2>2, <2>3, Zenon DEF Typed
<1>6. Kept /\ QueuesBacked /\ Handled /\ RunsBacked
  BY <1>1, <1>2 DEF Kept, QueuesBacked, Handled, RunsBacked
<1>7. Rings
  BY <1>1 DEF Rings
<1>8. Cdevs
  <2>1. Dirs # {}
    BY DEF Dirs
  <2> QED
    BY <1>1, <1>3, <2>1 DEF Cdevs
<1>9. Cleaning(0)
  <2>1. Paired
    BY <1>1 DEF Paired
  <2> QED
    BY <1>4, <2>1 DEF Cleaning
<1>10. Releasing(0)
  <2>1. \A k \in 0 + 1 .. Len(todo) : FALSE
    BY <1>4
  <2> QED
    BY <1>1, <2>1 DEF Releasing
<1> QED
  BY <1>4, <1>5, <1>6, <1>7, <1>8, <1>9, <1>10 DEF DevInv, Base, Plan

\* A step of what is under way.
LEMMA StepInv == ASSUME MayFail, DevInv, Step PROVE DevInv'
<1>1. ~Idle
  BY StepIs DEF Idle
<1>2. ASSUME NEW n \in 0 .. 4, Cleaning(n), Releasing(n) \/ Rebuilding(n)
      PROVE  DevInv'
  <2>1. CASE n = 0
    BY <1>2, <2>1, ReleasingInv, RebuildingInv
  <2>2. CASE n # 0
    <3>1. n \in 1 .. 4
      BY <2>2
    <3> QED
      BY <1>2, <3>1, CleaningInv
  <2> QED
    BY <2>1, <2>2
<1> QED
  BY <1>1, <1>2, ClimbingInv, StrikingInv, VirtualisingInv, AddingInv, BatchingInv,
     InitialisingInv DEF DevInv, Plan

LEMMA NextInv == ASSUME MayFail, DevInv, [Next]_vars PROVE DevInv'
<1>1. CASE UNCHANGED vars
  <2>1. /\ UNCHANGED <<mode, op, todo, res, enables, qsets, ranged, coalEn, coal, queue>>
        /\ UNCHANGED <<table, cdev, bad>>
    BY <1>1 DEF vars, queues, module
  <2>2. Typed' /\ Kept' /\ QueuesBacked' /\ Cdevs' /\ Handled' /\ RunsBacked'
    BY <2>1 DEF DevInv, Base, Typed, Kept, QueuesBacked, Cdevs, Handled, RunsBacked
  <2>3. Rings' /\ todo' \in Seq(Steps)
    BY <2>1 DEF DevInv, Base, Rings, Is
  <2>4. /\ Paired' <=> Paired
        /\ Settled' <=> Settled
        /\ Bound' <=> Bound
        /\ Exact' <=> Exact
        /\ Idle' <=> Idle
    BY <2>1 DEF Paired, Settled, Bound, Exact, Vacuous, Idle
  <2>5. Climbing => Climbing'
    <3>1. \A k : Acquired(k)' = Acquired(k)
      BY <2>1 DEF Acquired, Vacuous
    <3> QED
      BY <2>1, <3>1 DEF Climbing
  <2>6. /\ Striking => Striking'
        /\ Virtualising => Virtualising'
        /\ Adding => Adding'
        /\ Batching => Batching'
        /\ Initialising => Initialising'
    BY <2>1, <2>4 DEF Striking, Virtualising, Adding, Batching, Initialising, Is, Vacuous
  <2>7. ASSUME NEW n \in 0 .. 4
        PROVE  /\ Cleaning(n) => Cleaning(n)'
               /\ Releasing(n) => Releasing(n)'
               /\ Rebuilding(n) => Rebuilding(n)'
    <3>1. Cleaning(n) => Cleaning(n)'
      BY <2>1, <2>4 DEF Cleaning, Quiet, Is, Vacuous
    <3>2. Releasing(n) => Releasing(n)'
      BY <2>1, <2>4 DEF Releasing, Is
    <3>3. Rebuilding(n) => Rebuilding(n)'
      BY <2>1, <2>4 DEF Rebuilding, Is
    <3> QED
      BY <3>1, <3>2, <3>3
  <2>8. Plan'
    BY <2>1, <2>4, <2>5, <2>6, <2>7 DEF DevInv, Plan
  <2> QED
    BY <2>2, <2>3, <2>8 DEF DevInv, Base
<1>2. CASE Step
  BY <1>2, StepInv
<1>3. CASE \E on \in BOOLEAN : SriovConfig(on)
  BY <1>3, SriovConfigInv
<1>4. CASE \E n \in Qsets : SysfsSetQmax(n)
  BY <1>4, SysfsSetQmaxInv
<1>5. CASE \E verb \in {"add", "start", "stop", "delete"}, dirs \in QueueDirs,
              first \in 0 .. TableSize - 1, num \in 1 .. TableSize : Netlink(verb, first, num, dirs)
  BY <1>5, NetlinkInv
<1> QED
  BY <1>1, <1>2, <1>3, <1>4, <1>5, ProbeOneInv, RemoveOneInv, ResetFunctionInv, ErrorDetectedInv
     DEF Next, Step

\* Whatever operation is under way, and wherever it fails, what is held is what
\* the steps still to be taken release, or what a bound device has: at most the
\* device numbers are left behind, and only what Twice names is released twice.
THEOREM DeviceInvariant == ASSUME MayFail PROVE Spec => []DevInv
<1>1. Init => DevInv
  BY InitInv
<1>2. DevInv /\ [Next]_vars => DevInv'
  BY NextInv
<1> QED
  BY <1>1, <1>2, PTL DEF Spec

-----------------------------------------------------------------------------
(* The lists of the vectors and the contexts of single queues.             *)

\* A queue that was never stopped when it did not run, and never deleted while
\* it ran, is on the list of its vector and has contexts only while it runs.
\* DevInv knows of queue what these need: none runs when the arrays are freed.
ListInv ==
  /\ ctx \subseteq Queues /\ misused \subseteq Queues
  /\ node \in [Queues -> {"fresh", "listed", "removed", "torn"}]
  /\ Running \subseteq ctx /\ ctx \ Running \subseteq misused
  /\ \A q \in Queues \ misused :
       /\ node[q] # "torn"
       /\ Interrupts => (node[q] = "listed" <=> queue[q] = "started")

\* What ListInv is about is not touched.
LEMMA ListStays ==
  ASSUME ListInv, UNCHANGED <<mode, queue, ctx, node, misused>>
  PROVE  ListInv'
BY DEF ListInv, Running, Interrupts

\* The arrays are freed when no queue runs any more.
LEMMA ArraysQuiet ==
  ASSUME DevInv, todo # <<>>, Is(1, "drop", "qdev")
  PROVE  Quiet
<1>1. Base /\ Len(todo) \in Nat \ {0}
  BY TailOf DEF DevInv, Base
<1>2. ~Idle
  BY DEF Idle
<1>3. ~Climbing
  <2> SUFFICES ASSUME NEW k \in 1 .. 13, Len(todo) = 14 - k,
                      \A j \in 1 .. 14 - k : todo[j] = Probe[k - 1 + j]
               PROVE  FALSE
    BY DEF Climbing
  <2>1. todo[1] = Probe[k]
    <3>1. 1 \in 1 .. 14 - k /\ k - 1 + 1 = k
      OBVIOUS
    <3> QED
      BY <3>1
  <2>2. Probe[k][1] # "drop"
    BY ProbeIs
  <2> QED
    BY <2>1, <2>2 DEF Is
<1>4. ~Striking /\ ~Virtualising
  BY DEF Striking, Virtualising, Is
<1>5. ~Adding /\ ~Batching
  <2>1. 1 \in 1 .. Len(todo)
    BY <1>1
  <2> QED
    BY <2>1 DEF Adding, Batching, Is
<1>6. ~Initialising
  BY DEF Initialising, Is
<1>7. ASSUME NEW n \in 0 .. 4, Cleaning(n), Releasing(n) \/ Rebuilding(n)
      PROVE  Quiet
  <2>1. CASE n = 4 \/ n = 3
    BY <1>7, <2>1 DEF Cleaning, Is
  <2>2. CASE n = 2 \/ n = 1
    BY <1>7, <2>2 DEF Cleaning, Is
  <2>3. CASE n = 0
    <3>1. ~Releasing(0)
      <4>1. 1 \in 0 + 1 .. Len(todo)
        BY <1>1
      <4> QED
        BY <4>1 DEF Releasing, Is
    <3>2. ~Rebuilding(0)
      <4>1. CASE 0 + 3 <= Len(todo) /\ Len(todo) - 2 # 1
        <5> DEFINE L == Len(todo)
        <5>1. L \in Nat /\ 3 <= L /\ L - 2 # 1
          BY <1>1, <4>1
        <5> HIDE DEF L
        <5>2. 1 \in 0 + 1 .. L - 3 /\ L # 0 + 1
          BY <5>1
        <5>3. 1 \in 0 + 1 .. Len(todo) - 3 /\ Len(todo) # 0 + 1
          BY <5>2 DEF L
        <5>4. ~(Is(1, "drop", "vfs") \/ todo[1][1] \in {"cleanup", "set"} \/ (todo[1][1] = "delete" /\ op = "reset"))
          BY DEF Is
        <5> QED
          BY <5>3, <5>4 DEF Rebuilding
      <4>2. todo[0 + 1][1] # "cleanup" /\ todo[1][1] # "take"
        BY DEF Is
      <4>3. CASE ~(0 + 3 <= Len(todo))
        BY <4>2, <4>3 DEF Rebuilding
      <4>4. CASE Len(todo) - 2 = 1
        <5>1. ~Is(Len(todo) - 2, "take", "irqs")
          BY <4>2, <4>4 DEF Is
        <5> QED
          BY <4>2, <5>1 DEF Rebuilding
      <4> QED
        BY <4>1, <4>3, <4>4
    <3> QED
      BY <1>7, <2>3, <3>1, <3>2
  <2> QED
    BY <2>1, <2>2, <2>3
<1> QED
  BY <1>2, <1>3, <1>4, <1>5, <1>6, <1>7 DEF DevInv, Plan

\* Queues are stopped, running or not.
LEMMA StopList ==
  ASSUME ListInv, NEW S \in SUBSET Queues, Stop(S), UNCHANGED mode
  PROVE  ListInv'
<1>1. /\ \A q \in Queues : queue'[q] = IF q \in S THEN "added" ELSE queue[q]
      /\ \A q \in Queues : node'[q] = IF q \in S /\ Interrupts THEN Unlinked(node[q]) ELSE node[q]
      /\ ctx' = ctx \ S
      /\ misused' = misused \cup {q \in S : queue[q] # "started"}
      /\ Interrupts' <=> Interrupts
  BY DEF Stop, Interrupts
<1>2. ctx' \subseteq Queues /\ misused' \subseteq Queues
  BY <1>1 DEF ListInv
<1>3. node' \in [Queues -> {"fresh", "listed", "removed", "torn"}]
  BY DEF Stop, Unlinked, ListInv
<1>4. Running' = Running \ S
  BY <1>1 DEF Running
<1>5. Running' \subseteq ctx' /\ ctx' \ Running' \subseteq misused'
  BY <1>1, <1>4 DEF ListInv
<1>6. ASSUME NEW q \in Queues \ misused'
      PROVE  node'[q] # "torn" /\ (Interrupts' => (node'[q] = "listed" <=> queue'[q] = "started"))
  <2>1. /\ q \in Queues \ misused /\ node[q] # "torn"
        /\ Interrupts => (node[q] = "listed" <=> queue[q] = "started")
    BY <1>1 DEF ListInv
  <2>2. CASE q \in S
    <3>1. queue[q] = "started" /\ queue'[q] = "added"
      BY <1>1, <2>2
    <3>2. Interrupts => node'[q] = "removed"
      BY <1>1, <2>1, <2>2, <3>1 DEF Unlinked
    <3>3. ~Interrupts => node'[q] = node[q]
      BY <1>1
    <3> QED
      BY <1>1, <2>1, <3>1, <3>2, <3>3
  <2>3. CASE q \notin S
    BY <1>1, <2>1, <2>3
  <2> QED
    BY <2>2, <2>3
<1> QED
  BY <1>2, <1>3, <1>5, <1>6 DEF ListInv

\* A queue is started: only one that does not run is.
LEMMA StartList == ASSUME DevInv, ListInv, StartQueue PROVE ListInv'
<1> DEFINE q == Object
<1>1. /\ todo # <<>> /\ Verb = "start" /\ queue[q] = "added"
      /\ queue' = [queue EXCEPT ![q] = "started"] /\ ctx' = ctx \cup {q}
      /\ node' = IF Interrupts THEN [node EXCEPT ![q] = Linked(@)] ELSE node
      /\ UNCHANGED <<mode, misused>>
  BY DEF StartQueue, On
<1>2. q \in Queues /\ queue \in [Queues -> {"free", "added", "started"}]
  BY <1>1, ObjectIs DEF DevInv, Base, Typed
<1> HIDE DEF q
<1>3. /\ queue'[q] = "started" /\ \A r \in Queues : r # q => queue'[r] = queue[r]
      /\ Interrupts' <=> Interrupts
  BY <1>1, <1>2 DEF Interrupts
<1>4. /\ \A r \in Queues : r # q => node'[r] = node[r]
      /\ node'[q] = IF Interrupts THEN Linked(node[q]) ELSE node[q]
  BY <1>1, <1>2 DEF ListInv
<1>5. ctx' \subseteq Queues /\ misused' \subseteq Queues
  BY <1>1, <1>2 DEF ListInv
<1>6. node' \in [Queues -> {"fresh", "listed", "removed", "torn"}]
  <2>1. node \in [Queues -> {"fresh", "listed", "removed", "torn"}]
    BY DEF ListInv
  <2>2. Linked(node[q]) \in {"fresh", "listed", "removed", "torn"}
    BY DEF Linked
  <2> QED
    BY <1>1, <1>2, <2>1, <2>2
<1>7. Running' = Running \cup {q}
  BY <1>2, <1>3 DEF Running
<1>8. Running' \subseteq ctx' /\ ctx' \ Running' \subseteq misused'
  BY <1>1, <1>7 DEF ListInv
<1>9. ASSUME NEW r \in Queues \ misused'
      PROVE  node'[r] # "torn" /\ (Interrupts' => (node'[r] = "listed" <=> queue'[r] = "started"))
  <2>1. /\ r \in Queues \ misused /\ node[r] # "torn"
        /\ Interrupts => (node[r] = "listed" <=> queue[r] = "started")
    BY <1>1 DEF ListInv
  <2>2. CASE r = q
    <3>1. Interrupts => node'[r] = "listed"
      <4>1. node[q] \in {"fresh", "listed", "removed", "torn"}
        BY <1>2 DEF ListInv
      <4> QED
        BY <1>1, <1>4, <2>1, <2>2, <4>1 DEF Linked
    <3> QED
      BY <1>3, <1>4, <2>1, <2>2, <3>1
  <2>3. CASE r # q
    BY <1>3, <1>4, <2>1, <2>3
  <2> QED
    BY <2>2, <2>3
<1> QED
  BY <1>5, <1>6, <1>8, <1>9 DEF ListInv

\* A queue is added, or deleted: its contexts and its place on the list of its
\* vector are left alone.
LEMMA PlaceList == ASSUME DevInv, ListInv, AddQueue \/ DeleteQueue PROVE ListInv'
<1> DEFINE q == Object
<1>1. /\ todo # <<>> /\ Verb \in {"add", "delete"}
      /\ \/ queue[q] = "free" /\ queue' = [queue EXCEPT ![q] = "added"] /\ misused' = misused
         \/ /\ queue' = [queue EXCEPT ![q] = "free"]
            /\ misused' = IF queue[q] = "started" THEN misused \cup {q} ELSE misused
      /\ UNCHANGED <<mode, ctx, node>>
  BY DEF AddQueue, Addable, DeleteQueue, On
<1>2. q \in Queues /\ queue \in [Queues -> {"free", "added", "started"}]
  BY <1>1, ObjectIs DEF DevInv, Base, Typed
<1> HIDE DEF q
<1>3. /\ queue'[q] \in {"free", "added"} /\ \A r \in Queues : r # q => queue'[r] = queue[r]
      /\ Interrupts' <=> Interrupts
      /\ misused \subseteq misused' /\ misused' \subseteq Queues
      /\ queue[q] = "started" => q \in misused'
  BY <1>1, <1>2 DEF Interrupts, ListInv
<1>4. Running' = Running \ {q}
  BY <1>2, <1>3 DEF Running
<1>5. Running' \subseteq ctx' /\ ctx' \ Running' \subseteq misused'
  BY <1>1, <1>3, <1>4 DEF ListInv, Running
<1>6. ASSUME NEW r \in Queues \ misused'
      PROVE  node'[r] # "torn" /\ (Interrupts' => (node'[r] = "listed" <=> queue'[r] = "started"))
  <2>1. /\ r \in Queues \ misused /\ node[r] # "torn"
        /\ Interrupts => (node[r] = "listed" <=> queue[r] = "started")
    BY <1>3 DEF ListInv
  <2>2. queue'[r] = "started" <=> queue[r] = "started"
    BY <1>3
  <2> QED
    BY <1>1, <1>3, <2>1, <2>2
<1> QED
  BY <1>1, <1>3, <1>5, <1>6 DEF ListInv

\* The arrays are freed: what is left are the contexts of queues that were
\* deleted while they ran.
LEMMA DropList == ASSUME DevInv, ListInv, Drop PROVE ListInv'
<1>1. todo # <<>> /\ Verb = "drop" /\ UNCHANGED <<mode, ctx>>
  BY DEF Drop, On
<1>2. CASE Object # "qdev"
  BY <1>1, <1>2, ListStays DEF Drop
<1>3. CASE Object = "qdev"
  <2>1. queue' = Free /\ node' = Fresh /\ misused' = misused \cap ctx
    BY <1>3 DEF Drop
  <2>2. Quiet
    BY <1>1, <1>3, ArraysQuiet DEF Is, Verb, Object
  <2>3. \A q \in Queues : queue'[q] = "free" /\ node'[q] = "fresh"
    BY <2>1 DEF Free, Fresh
  <2>4. Running' = {} /\ Running = {}
    BY <2>2, <2>3 DEF Running, Quiet
  <2>5. node' \in [Queues -> {"fresh", "listed", "removed", "torn"}]
    BY <2>1 DEF Fresh
  <2> QED
    BY <1>1, <2>1, <2>3, <2>4, <2>5 DEF ListInv
<1> QED
  BY <1>2, <1>3

\* Whether a queue runs, its contexts and its place on the list of its vector
\* change together, except when it is stopped or deleted out of order.
LEMMA ListStep == ASSUME DevInv, ListInv, [Next]_vars PROVE ListInv'
<1>1. CASE StopAll
  <2>1. Stop({q \in Queues : queue[q] # "free"}) /\ UNCHANGED mode
    BY <1>1 DEF StopAll
  <2> QED
    BY <2>1, StopList
<1>2. CASE StopQueue
  <2>1. todo # <<>> /\ Verb = "stop" /\ Stop({Object}) /\ UNCHANGED mode
    BY <1>2 DEF StopQueue, On
  <2>2. Object \in Queues
    BY <2>1, ObjectIs DEF DevInv
  <2>3. {Object} \in SUBSET Queues
    BY <2>2
  <2> QED
    BY <2>1, <2>3, StopList
<1>3. CASE StartFails
  <2>1. /\ UNCHANGED <<mode, queue, node, misused>>
        /\ ctx' = ctx \/ (queue[Object] = "added" /\ ctx' = ctx \ {Object})
    BY <1>3 DEF StartFails
  <2>2. Running' = Running /\ (Object \notin Running \/ UNCHANGED ctx)
    BY <2>1 DEF Running
  <2> QED
    BY <2>1, <2>2 DEF ListInv, Running, Interrupts
<1>4. CASE Take \/ Check \/ Fail \/ DropRings \/ CleanupBegins \/ SetNumber
  BY <1>4, ListStays DEF Take, Check, Fail, DropRings, CleanupBegins, SetNumber, queues
<1>5. CASE AddFails \/ AddCdev \/ StopFails \/ DeleteNone \/ ForgetQueue \/ ForgetNone
  BY <1>5, ListStays
     DEF AddFails, AddCdev, StopFails, BatchFails, DeleteNone, ForgetQueue, ForgetNone, queues
<1>6. CASE ProbeOne \/ RemoveOne \/ ResetFunction \/ ErrorDetected
  BY <1>6, ListStays DEF ProbeOne, RemoveOne, ResetFunction, ErrorDetected, Begin, queues
<1>7. CASE \E on \in BOOLEAN : SriovConfig(on)
  BY <1>7, ListStays DEF SriovConfig, Begin, queues
<1>8. CASE \E n \in Qsets : SysfsSetQmax(n)
  BY <1>8, ListStays DEF SysfsSetQmax, Begin, queues
<1>9. CASE \E verb \in {"add", "start", "stop", "delete"}, dirs \in QueueDirs,
              first \in 0 .. TableSize - 1, num \in 1 .. TableSize : Netlink(verb, first, num, dirs)
  BY <1>9, ListStays DEF Netlink, Begin, queues
<1>10. CASE UNCHANGED vars
  BY <1>10, ListStays DEF vars, queues
<1> QED
  BY <1>1, <1>2, <1>3, <1>4, <1>5, <1>6, <1>7, <1>8, <1>9, <1>10,
     StartList, PlaceList, DropList DEF Next

\* A queue that was never stopped when it did not run (qdma_queue_stop() does
\* not look) and never deleted while it ran (qdma_queue_remove() does not
\* either) has its contexts, and its place on the list of its vector, exactly
\* while it runs; whatever was done to it, a queue that runs has its contexts.
THEOREM ListInvariant == ASSUME MayFail PROVE Spec => []ListInv
<1>1. Init => ListInv
  <2> SUFFICES ASSUME Init PROVE ListInv
    OBVIOUS
  <2>1. queue = Free /\ ctx = {} /\ node = Fresh /\ misused = {}
    BY DEF Init
  <2>2. \A q \in Queues : queue[q] = "free" /\ node[q] = "fresh"
    BY <2>1 DEF Free, Fresh
  <2>3. node \in [Queues -> {"fresh", "listed", "removed", "torn"}]
    BY <2>1 DEF Fresh
  <2> QED
    BY <2>1, <2>2, <2>3 DEF ListInv, Running
<1>2. DevInv /\ ListInv /\ [Next]_vars => ListInv'
  BY ListStep
<1> QED
  BY <1>1, <1>2, DeviceInvariant, PTL DEF Spec

-----------------------------------------------------------------------------
(* The properties.                                                         *)

\* An interrupt handler finds the device and its registers, the queues that run
\* on the lists of the vectors and no other but a misused one, and the queue
\* arrays and the rings when queues run in aggregated mode (intr_handler(),
\* intr_ring_teardown()), for every number of queues and vectors and every
\* place a probe, a reset or a removal has come to.
THEOREM InterruptsCorrect == ASSUME MayFail PROVE Spec => []InterruptSafe
<1>1. DevInv /\ ListInv => InterruptSafe
  <2> SUFFICES ASSUME DevInv, ListInv PROVE InterruptSafe
    OBVIOUS
  <2>1. Handled
    BY DEF DevInv, Base
  <2>2. Running \cup (ctx \ misused) = Running
    BY DEF ListInv
  <2>3. \A q \in Queues \ misused : Interrupts => (node[q] = "listed" <=> queue[q] = "started")
    BY DEF ListInv
  <2>4. Running # {} => \E q \in Queues : queue[q] = "started"
    BY DEF Running
  <2> QED
    BY <2>1, <2>2, <2>3, <2>4 DEF Handled, InterruptSafe
<1> QED
  BY <1>1, DeviceInvariant, ListInvariant, PTL

\* A queue that runs has its contexts and what they refer to, and no context
\* survives the queue, the arrays or the interrupts it needs but that of a
\* queue deleted while it ran: qdma_device_cleanup() stops every other queue
\* before it frees anything.
THEOREM ContextsCorrect == ASSUME MayFail PROVE Spec => []ContextsBacked
<1>1. DevInv /\ ListInv => ContextsBacked
  <2> SUFFICES ASSUME DevInv, ListInv PROVE ContextsBacked
    OBVIOUS
  <2>1. RunsBacked
    BY DEF DevInv, Base
  <2>2. \A q \in Running : q \in Queues /\ queue[q] = "started"
    BY DEF Running
  <2>3. Running \subseteq ctx /\ ctx \ Running \subseteq misused
    BY DEF ListInv
  <2> QED
    BY <2>1, <2>2, <2>3 DEF RunsBacked, ContextsBacked
<1> QED
  BY <1>1, DeviceInvariant, ListInvariant, PTL

\* Between operations there is a character device for exactly the pairs that
\* have a queue, with exactly their directions, although the removal of the
\* table goes through wrong ones (xpdev_device_cleanup()).
THEOREM CdevsCorrect == ASSUME MayFail PROVE Spec => []CdevsExact
<1>1. DevInv => CdevsExact
  <2> SUFFICES ASSUME DevInv, Idle
               PROVE  /\ \A i \in DOMAIN cdev : cdev[i] = {d \in Dirs : <<d, i>> \in table}
                      /\ "qdev" \in res => \A q \in table : queue[q] # "free"
    BY DEF CdevsExact
  <2>1. DOMAIN cdev = 0 .. TableSize - 1
    BY DEF DevInv, Base, Typed
  <2>2. CASE Settled
    BY <2>1, <2>2 DEF Settled, Exact
  <2>3. CASE res \subseteq Leak /\ table = {}
    BY <2>1, <2>3 DEF DevInv, Base, Cdevs, Leak
  <2> QED
    BY <2>2, <2>3, IdleIs
<1> QED
  BY <1>1, DeviceInvariant, PTL

\* After a probe that failed anywhere and after a removal nothing is held but
\* the contexts of queues deleted while they ran, when the sysfs group can be
\* created: probe_one() leaves the device numbers behind otherwise.
THEOREM NothingCorrect ==
  ASSUME MayFail, "sysfs" \notin Faults
  PROVE  Spec => []NothingLeft
<1>1. DevInv /\ ListInv => NothingLeft
  <2> SUFFICES ASSUME DevInv, ListInv PROVE NothingLeft
    OBVIOUS
  <2>1. Typed /\ Cdevs /\ QueuesBacked /\ Rings /\ RunsBacked
    BY DEF DevInv, Base
  <2>2. TypeOK
    BY <2>1 DEF Typed, ListInv, TypeOK
  <2>3. ASSUME Idle, ~Attached
        PROVE  /\ res = {} /\ enables = 0 /\ ctx \subseteq misused
               /\ coal # "live" /\ table = {} /\ \A i \in DOMAIN cdev : cdev[i] = {}
    <3>1. res = {} /\ enables = 0 /\ table = {}
      BY <2>3, IdleIs DEF Leak
    <3>2. Running = {}
      BY <2>1, <3>1 DEF RunsBacked, Running
    <3>3. ctx \subseteq misused
      BY <3>2 DEF ListInv
    <3>4. coal # "live"
      BY <2>1, <3>1 DEF Rings, QueuesBacked
    <3>5. \A i \in DOMAIN cdev : cdev[i] = {}
      BY <2>1, <3>1 DEF Typed, Cdevs
    <3> QED
      BY <3>1, <3>3, <3>4, <3>5
  <2> QED
    BY <2>2, <2>3 DEF NothingLeft
<1> QED
  BY <1>1, DeviceInvariant, ListInvariant, PTL

\* Nothing is released twice, no character device is used after it was
\* destroyed, and no queue is put on or taken off the list of its vector twice
\* in a row unless it was misused, when a slot reset succeeds in enabling the
\* device again and no function is reset in aggregated mode.
THEOREM ReleasesCorrect ==
  ASSUME MayFail, "reenable" \notin Faults, "aggregate" \notin ResetModes
  PROVE  Spec => []ReleasedOnce
<1>1. DevInv /\ ListInv => ReleasedOnce
  <2> SUFFICES ASSUME DevInv, ListInv PROVE ReleasedOnce
    OBVIOUS
  <2>1. bad = {}
    BY DEF DevInv, Base, Kept, Twice
  <2>2. \A q \in Queues : node[q] = "torn" => q \in misused
    BY DEF ListInv
  <2> QED
    BY <2>1, <2>2 DEF ReleasedOnce
<1> QED
  BY <1>1, DeviceInvariant, ListInvariant, PTL
=============================================================================
