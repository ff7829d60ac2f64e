--------------------------- MODULE ContextsProofs ---------------------------
(***************************************************************************)
(* Proofs about Contexts for every set of queues, in any mode and of any   *)
(* function, and every number of time outs and of writes that are lost.    *)
(***************************************************************************)
EXTENDS Contexts, SequenceTheorems, TLAPS

-----------------------------------------------------------------------------
(* What the code takes for granted.                                        *)

\* qdma_queue_stop() and the error exit of qdma_queue_start() do not look at
\* the result of clearing.
ClearsSucceed ==
  \A c \in {"CLR", "INV"} : <<"stop", c>> \notin TimeoutOps /\ <<"undo", c>> \notin TimeoutOps

\* make_qid2vec_context() does not look at the result of reading QID2VEC.
ReadsSucceed == <<"start", "RD">> \notin TimeoutOps

-----------------------------------------------------------------------------
(* The inductive invariant.                                                *)

Commands == [op : {"CLR", "INV", "WR", "RD"}, sel : Selects \cup {"qid2vec"}]

\* The commands of an operation that are left.
Left(todo) == {todo[i] : i \in 1 .. Len(todo)}

\* The contexts of a queue that point to its rings.
Own(q) == IF StC2h(q) THEN {"sw", "pftch", "wrb"} ELSE {"sw"}

\* A thread works for its own queues, which know of it.
Working ==
  /\ th \in [Threads -> [op : {"idle", "start", "stop", "undo", "dump"}, q : Queues \cup {<<>>},
                         todo : Seq(Commands), stage : {"lock", "cmd", "wait", "verify"},
                         rd : [Dirs -> {0, OwnVec}]]]
  /\ \A t \in Threads :
       IF th[t].op = "idle" THEN th[t] = Idle
       ELSE th[t].todo # <<>> /\ Q(t) \in Queues /\ Thread(Q(t)) = t
  /\ \A q \in Queues :
       /\ state[q] = "starting" <=> Q(Thread(q)) = q /\ th[Thread(q)].op \in {"start", "undo"}
       /\ state[q] = "stopping" <=> Q(Thread(q)) = q /\ th[Thread(q)].op = "stop"

\* The command in the register.
Pending(t) ==
  [op |-> IF th[t].stage = "wait" THEN Cmd(t).op ELSE "RD", sel |-> Cmd(t).sel, q |-> Q(t)]

\* The registers belong to the thread that has the lock, and hold its command,
\* its data or the answer.
Register ==
  /\ \A t \in Threads :
       /\ th[t].stage # "lock" <=> lock = t
       /\ th[t].stage = "verify" => Cmd(t).op = "WR"
       /\ th[t].stage \in {"cmd", "wait"} /\ Cmd(t).op = "WR" => data = Content(t)
       /\ th[t].stage = "wait" /\ cmd = NoCmd =>
            /\ Cmd(t).op = "CLR" => ctx[Q(t)][Cmd(t).sel] = Cleared
            /\ Cmd(t).op = "INV" => ctx[Q(t)][Cmd(t).sel] = Invalid
  /\ cmd # NoCmd =>
       \E t \in Threads : lock = t /\ th[t].stage \in {"wait", "verify"} /\ cmd = Pending(t)
  /\ OwnAnswer

\* Writes come last, and write the contexts that point to rings and the vectors.
StartPlan(q, todo) ==
  /\ \A i, j \in 1 .. Len(todo) : i < j /\ todo[i].op = "WR" => todo[j].op = "WR"
  /\ \A c \in Left(todo) :
       /\ c.op = "WR" => c.sel \in Own(q) \cup {"qid2vec"}
       /\ c.op = "RD" => c.sel = "qid2vec" /\ Id(q) \notin Virtual
       /\ c.op = "CLR" => c.sel \in Selects
       /\ c.op # "INV"
       /\ c.op # "WR" => \A s \in Own(q) \cup {"qid2vec"} : Command("WR", s) \in Left(todo)

\* What is not left to be written is written, with the vector of the other
\* direction as it was.
Written(q, left, rd) ==
  /\ \A s \in Own(q) : Command("WR", s) \notin left => ctx[q][s] = ring[q]
  /\ \A s \in {"hw", "cr"} : Command("CLR", s) \notin left => ctx[q][s] = Cleared
  /\ Id(q) \notin Virtual =>
       /\ Command("WR", "qid2vec") \notin left => vec[Id(q)][Dir(q)] = OwnVec
       /\ Command("RD", "qid2vec") \notin left =>
            \A d \in Dirs : d = Dir(q) \/ rd[d] = vec[Id(q)][d]

\* What is not left to be cleared is cleared.
ClearPlan(todo) ==
  \A c \in Left(todo) :
    c.op \in {"CLR", "INV"} /\ c.sel \in Selects /\ (c.op = "INV" => c.sel = "sw")

Emptied(q, left) ==
  \A s \in Own(q) :
    Command("CLR", s) \notin left /\ Command("INV", s) \notin left => ctx[q][s] \notin Rings

Plans ==
  \A t \in Threads :
    /\ th[t].op = "start" =>
         StartPlan(Q(t), th[t].todo) /\ Written(Q(t), Left(th[t].todo), th[t].rd)
    /\ th[t].op \in {"stop", "undo"} => ClearPlan(th[t].todo) /\ Emptied(Q(t), Left(th[t].todo))
    /\ th[t].op = "dump" => \A c \in Left(th[t].todo) : c.op = "RD"

\* Contexts other than those of Own(q) never point to a ring.
Pointers == \A q \in Queues : \A s \in Selects \ Own(q) : ctx[q][s] \notin Rings

\* A queue that was started has its contexts.
Complete ==
  \A q \in Queues : state[q] = "started" =>
    /\ \A s \in Own(q) : ctx[q][s] = ring[q]
    /\ Id(q) \notin Virtual => vec[Id(q)][Dir(q)] = OwnVec

\* Programmed and NothingPoints are not inductive alone: that a context is
\* written, or no longer points to a ring, when an operation ends, depends on
\* what each of its commands has left behind.
CtxInv ==
  /\ TypeOK /\ Working /\ Register /\ Plans /\ Pointers
  /\ FreshStart /\ Complete /\ NothingPoints

-----------------------------------------------------------------------------
(* Sequences of commands.                                                  *)

\* What is left after the first command.
LEMMA LeftTail ==
  ASSUME NEW todo \in Seq(Commands), todo # <<>>
  PROVE  /\ todo[1] \in Commands /\ Tail(todo) \in Seq(Commands)
         /\ Left(todo) = {todo[1]} \cup Left(Tail(todo)) /\ Left(todo) \subseteq Commands
         /\ Len(todo) # 1 => Tail(todo) # <<>>
         /\ Len(todo) = 1 => Left(Tail(todo)) = {}
<1>1. /\ Len(todo) \in Nat \ {0} /\ \A i \in 1 .. Len(todo) : todo[i] \in Commands
      /\ Tail(todo) \in Seq(Commands) /\ Len(Tail(todo)) = Len(todo) - 1
      /\ \A i \in 1 .. Len(todo) - 1 : Tail(todo)[i] = todo[i + 1]
  OBVIOUS
<1>2. ASSUME NEW i \in 1 .. Len(todo), i # 1
      PROVE  i - 1 \in 1 .. Len(todo) - 1 /\ Tail(todo)[i - 1] = todo[i]
  <2>1. i - 1 \in 1 .. Len(todo) - 1 /\ (i - 1) + 1 = i
    BY <1>1, <1>2
  <2> QED
    BY <1>1, <2>1
<1>3. Left(todo) = {todo[1]} \cup Left(Tail(todo))
  <2>1. ASSUME NEW c \in Left(todo) PROVE c = todo[1] \/ c \in Left(Tail(todo))
    BY <1>1, <1>2 DEF Left
  <2>2. ASSUME NEW c \in Left(Tail(todo)) PROVE c \in Left(todo)
    <3>1. PICK i \in 1 .. Len(todo) - 1 : c = Tail(todo)[i]
      BY <1>1 DEF Left
    <3>2. i + 1 \in 1 .. Len(todo) /\ c = todo[i + 1]
      BY <1>1, <3>1
    <3> QED
      BY <3>2 DEF Left
  <2>3. todo[1] \in Left(todo)
    BY <1>1 DEF Left
  <2> QED
    BY <2>1, <2>2, <2>3
<1>4. Left(todo) \subseteq Commands
  BY <1>1 DEF Left
<1>5. Len(todo) # 1 => Tail(todo) # <<>>
  <2>1. Tail(todo) = <<>> <=> Len(Tail(todo)) = 0
    BY <1>1, EmptySeq
  <2> QED
    BY <1>1, <2>1
<1>6. Len(todo) = 1 => Left(Tail(todo)) = {}
  BY <1>1 DEF Left
<1> QED
  BY <1>1, <1>3, <1>4, <1>5, <1>6

\* The commands of two sequences, one after the other.
LEMMA LeftConcat ==
  ASSUME NEW a \in Seq(Commands), NEW b \in Seq(Commands)
  PROVE  /\ a \o b \in Seq(Commands) /\ Left(a \o b) = Left(a) \cup Left(b)
         /\ a # <<>> => a \o b # <<>>
<1>1. /\ a \o b \in Seq(Commands) /\ Len(a \o b) = Len(a) + Len(b) /\ Len(a) \in Nat /\ Len(b) \in Nat
      /\ \A i \in 1 .. Len(a) : (a \o b)[i] = a[i]
      /\ \A i \in 1 .. Len(b) : (a \o b)[Len(a) + i] = b[i]
  BY ConcatProperties
<1>2. ASSUME NEW c \in Left(a) PROVE c \in Left(a \o b)
  BY <1>1 DEF Left
<1>3. ASSUME NEW c \in Left(b) PROVE c \in Left(a \o b)
  <2>1. PICK i \in 1 .. Len(b) : c = b[i]
    BY DEF Left
  <2>2. Len(a) + i \in 1 .. Len(a \o b) /\ c = (a \o b)[Len(a) + i]
    BY <1>1, <2>1
  <2> QED
    BY <2>2 DEF Left
<1>4. ASSUME NEW c \in Left(a \o b) PROVE c \in Left(a) \cup Left(b)
  <2>1. PICK i \in 1 .. Len(a \o b) : c = (a \o b)[i]
    BY DEF Left
  <2>2. CASE i <= Len(a)
    BY <1>1, <2>1, <2>2 DEF Left
  <2>3. CASE i > Len(a)
    <3>1. i - Len(a) \in 1 .. Len(b) /\ i = Len(a) + (i - Len(a))
      BY <1>1, <2>1, <2>3
    <3>2. c = b[i - Len(a)]
      BY <1>1, <2>1, <3>1
    <3> QED
      BY <3>1, <3>2 DEF Left
  <2> QED
    BY <1>1, <2>1, <2>2, <2>3
<1>5. a # <<>> => a \o b # <<>>
  BY <1>1
<1> QED
  BY <1>1, <1>2, <1>3, <1>4, <1>5

\* Writes come last in two sequences, if the first one has none, or the second
\* one nothing else.
WritesLast(todo) == \A i, j \in 1 .. Len(todo) : i < j /\ todo[i].op = "WR" => todo[j].op = "WR"

LEMMA WritesLastConcat ==
  ASSUME NEW a \in Seq(Commands), NEW b \in Seq(Commands),
         \/ WritesLast(b) /\ \A c \in Left(a) : c.op # "WR"
         \/ WritesLast(a) /\ \A c \in Left(b) : c.op = "WR"
  PROVE  WritesLast(a \o b)
<1>1. /\ Len(a \o b) = Len(a) + Len(b) /\ Len(a) \in Nat /\ Len(b) \in Nat
      /\ \A i \in 1 .. Len(a) : (a \o b)[i] = a[i]
      /\ \A i \in 1 .. Len(b) : (a \o b)[Len(a) + i] = b[i]
  BY ConcatProperties
<1>2. \A i \in 1 .. Len(a \o b) :
        \/ i \in 1 .. Len(a)
        \/ i > Len(a) /\ i - Len(a) \in 1 .. Len(b) /\ (a \o b)[i] = b[i - Len(a)]
  <2> SUFFICES ASSUME NEW i \in 1 .. Len(a \o b), i \notin 1 .. Len(a)
               PROVE  i > Len(a) /\ i - Len(a) \in 1 .. Len(b) /\ (a \o b)[i] = b[i - Len(a)]
    OBVIOUS
  <2>1. i > Len(a) /\ i - Len(a) \in 1 .. Len(b) /\ i = Len(a) + (i - Len(a))
    BY <1>1
  <2> QED
    BY <1>1, <2>1
<1>3. /\ \A i \in 1 .. Len(a) : a[i] \in Left(a)
      /\ \A i \in 1 .. Len(b) : b[i] \in Left(b)
  BY DEF Left
<1> SUFFICES ASSUME NEW i \in 1 .. Len(a \o b), NEW j \in 1 .. Len(a \o b), i < j, (a \o b)[i].op = "WR"
             PROVE  (a \o b)[j].op = "WR"
  BY DEF WritesLast
<1>4. CASE WritesLast(b) /\ \A c \in Left(a) : c.op # "WR"
  <2>1. i \notin 1 .. Len(a)
    BY <1>1, <1>3, <1>4
  <2>2. /\ i > Len(a) /\ i - Len(a) \in 1 .. Len(b) /\ (a \o b)[i] = b[i - Len(a)]
        /\ j > Len(a) /\ j - Len(a) \in 1 .. Len(b) /\ (a \o b)[j] = b[j - Len(a)]
    BY <1>1, <1>2, <2>1
  <2> QED
    BY <1>1, <1>4, <2>2 DEF WritesLast
<1>5. CASE WritesLast(a) /\ \A c \in Left(b) : c.op = "WR"
  <2>1. CASE j \in 1 .. Len(a)
    BY <1>1, <1>5, <2>1 DEF WritesLast
  <2>2. CASE j \notin 1 .. Len(a)
    BY <1>2, <1>3, <1>5, <2>2
  <2> QED
    BY <2>1, <2>2
<1> QED
  BY <1>4, <1>5

\* qdma_descq_context_clear() clears or invalidates what points to rings.
LEMMA ClearPlanned ==
  ASSUME NEW q \in Queues, NEW first \in {"CLR", "INV"}
  PROVE  /\ Clear(q, first) \in Seq(Commands) /\ Clear(q, first) # <<>>
         /\ ClearPlan(Clear(q, first)) /\ Emptied(q, Left(Clear(q, first)))
         /\ first = "CLR" => \A c \in Left(Clear(q, first)) : c.op = "CLR"
         /\ {Command("CLR", "hw"), Command("CLR", "cr")} \subseteq Left(Clear(q, first))
<1> DEFINE a == <<Command(first, "sw"), Command("CLR", "hw"), Command("CLR", "cr")>>
           b == <<Command("CLR", "pftch"), Command("CLR", "wrb")>>
<1>1. /\ Command(first, "sw") \in Commands
      /\ Command("CLR", "hw") \in Commands /\ Command("CLR", "cr") \in Commands
      /\ Command("CLR", "pftch") \in Commands /\ Command("CLR", "wrb") \in Commands
  BY DEF Command, Commands, Selects
<1>2. /\ a \in Seq(Commands) /\ b \in Seq(Commands) /\ <<>> \in Seq(Commands) /\ a # <<>>
      /\ Left(a) = {Command(first, "sw"), Command("CLR", "hw"), Command("CLR", "cr")}
      /\ Left(b) = {Command("CLR", "pftch"), Command("CLR", "wrb")} /\ Left(<<>>) = {}
  BY <1>1 DEF Left
<1>3. Clear(q, first) = a \o (IF StC2h(q) THEN b ELSE <<>>)
  BY DEF Clear
<1> HIDE DEF a, b
<1>4. /\ Clear(q, first) \in Seq(Commands) /\ Clear(q, first) # <<>>
      /\ Left(Clear(q, first)) = Left(a) \cup (IF StC2h(q) THEN Left(b) ELSE {})
  <2> DEFINE c == IF StC2h(q) THEN b ELSE <<>>
  <2>1. c \in Seq(Commands) /\ Left(c) = IF StC2h(q) THEN Left(b) ELSE {}
    BY <1>2
  <2>2. Clear(q, first) = a \o c
    BY <1>3
  <2> HIDE DEF c
  <2>3. a \o c \in Seq(Commands) /\ a \o c # <<>> /\ Left(a \o c) = Left(a) \cup Left(c)
    BY <1>2, <2>1, LeftConcat
  <2> QED
    BY <2>1, <2>2, <2>3
<1>5. ClearPlan(Clear(q, first)) /\ (first = "CLR" => \A c \in Left(Clear(q, first)) : c.op = "CLR")
  BY <1>2, <1>4 DEF Command, Selects, ClearPlan
<1>6. Emptied(q, Left(Clear(q, first)))
  BY <1>2, <1>4 DEF Command, Own, Emptied
<1> QED
  BY <1>2, <1>4, <1>5, <1>6

\* qdma_descq_context_setup() clears all contexts before it writes them.
LEMMA SetupPlanned ==
  ASSUME NEW q \in Queues
  PROVE  /\ Setup(q) \in Seq(Commands) /\ Setup(q) # <<>> /\ StartPlan(q, Setup(q))
         /\ \A s \in Own(q) \cup {"qid2vec"} : Command("WR", s) \in Left(Setup(q))
         /\ {Command("CLR", "hw"), Command("CLR", "cr")} \subseteq Left(Setup(q))
         /\ Id(q) \notin Virtual => Command("RD", "qid2vec") \in Left(Setup(q))
<1> DEFINE a == Clear(q, "CLR")
           r == IF Id(q) \in Virtual THEN <<>> ELSE <<Command("RD", "qid2vec")>>
           w == <<Command("WR", "sw"), Command("WR", "qid2vec")>>
           v == IF StC2h(q) THEN <<Command("WR", "pftch"), Command("WR", "wrb")>> ELSE <<>>
<1>1. {Command("RD", "qid2vec"), Command("WR", "sw"), Command("WR", "qid2vec"),
       Command("WR", "pftch"), Command("WR", "wrb")} \subseteq Commands
  BY DEF Command, Commands, Selects
<1>2. /\ a \in Seq(Commands) /\ a # <<>>
      /\ \A c \in Left(a) : c.op = "CLR" /\ c.sel \in Selects
      /\ {Command("CLR", "hw"), Command("CLR", "cr")} \subseteq Left(a)
  BY ClearPlanned DEF ClearPlan
<1>3. r \in Seq(Commands) /\ Left(r) = IF Id(q) \in Virtual THEN {} ELSE {Command("RD", "qid2vec")}
  BY <1>1 DEF Left
<1>4. w \in Seq(Commands) /\ Left(w) = {Command("WR", "sw"), Command("WR", "qid2vec")}
  BY <1>1 DEF Left
<1>5. /\ v \in Seq(Commands)
      /\ Left(v) = IF StC2h(q) THEN {Command("WR", "pftch"), Command("WR", "wrb")} ELSE {}
  BY <1>1 DEF Left
<1>6. Setup(q) = (a \o r) \o ((a \o w) \o v)
  BY DEF Setup, Program
<1> HIDE DEF a, r, w, v
<1>7. /\ a \o r \in Seq(Commands) /\ Left(a \o r) = Left(a) \cup Left(r) /\ a \o r # <<>>
      /\ a \o w \in Seq(Commands) /\ Left(a \o w) = Left(a) \cup Left(w)
  BY <1>2, <1>3, <1>4, LeftConcat
<1>8. (a \o w) \o v \in Seq(Commands) /\ Left((a \o w) \o v) = Left(a) \cup Left(w) \cup Left(v)
  BY <1>5, <1>7, LeftConcat
<1>9. /\ Setup(q) \in Seq(Commands) /\ Setup(q) # <<>>
      /\ Left(Setup(q)) = Left(a) \cup Left(r) \cup Left(w) \cup Left(v)
  <2> DEFINE x == a \o r
             y == (a \o w) \o v
  <2>1. x \in Seq(Commands) /\ y \in Seq(Commands) /\ x # <<>> /\ Setup(q) = x \o y
    BY <1>6, <1>7, <1>8
  <2>2. Left(x) = Left(a) \cup Left(r) /\ Left(y) = Left(a) \cup Left(w) \cup Left(v)
    BY <1>7, <1>8
  <2> HIDE DEF x, y
  <2>3. x \o y \in Seq(Commands) /\ Left(x \o y) = Left(x) \cup Left(y) /\ x \o y # <<>>
    BY <2>1, LeftConcat
  <2> QED
    BY <2>1, <2>2, <2>3
<1>10. WritesLast(Setup(q))
  <2>1. WritesLast(w) /\ \A c \in Left(v) : c.op = "WR"
    <3>1. \A c \in Left(w) \cup Left(v) : c.op = "WR"
      BY <1>4, <1>5 DEF Command
    <3> QED
      BY <3>1 DEF WritesLast, Left
  <2>2. WritesLast(a \o w)
    BY <1>2, <1>4, <2>1, WritesLastConcat
  <2>3. WritesLast((a \o w) \o v)
    BY <1>5, <1>7, <2>1, <2>2, WritesLastConcat
  <2>4. \A c \in Left(a \o r) : c.op # "WR"
    BY <1>2, <1>3, <1>7 DEF Command
  <2> QED
    BY <1>6, <1>7, <1>8, <2>3, <2>4, WritesLastConcat
<1>11. \A s \in Own(q) \cup {"qid2vec"} : Command("WR", s) \in Left(Setup(q))
  BY <1>4, <1>5, <1>9 DEF Own
<1>12. \A c \in Left(Setup(q)) :
         /\ c.op = "WR" => c.sel \in Own(q) \cup {"qid2vec"}
         /\ c.op = "RD" => c.sel = "qid2vec" /\ Id(q) \notin Virtual
         /\ c.op = "CLR" => c.sel \in Selects
         /\ c.op # "INV"
  BY <1>2, <1>3, <1>4, <1>5, <1>9 DEF Command, Own
<1> QED
  BY <1>2, <1>3, <1>9, <1>10, <1>11, <1>12 DEF StartPlan, WritesLast

\* qdma_descq_context_read() reads.
LEMMA ReadPlanned ==
  ASSUME NEW q \in Queues
  PROVE  /\ ReadAll(q) \in Seq(Commands) /\ ReadAll(q) # <<>>
         /\ \A c \in Left(ReadAll(q)) : c.op = "RD"
<1> DEFINE a == <<Command("RD", "sw"), Command("RD", "hw"), Command("RD", "cr"), Command("RD", "qid2vec")>>
           b == IF StC2h(q) THEN <<Command("RD", "wrb"), Command("RD", "pftch")>> ELSE <<>>
<1>1. {Command("RD", s) : s \in Selects \cup {"qid2vec"}} \subseteq Commands
  BY DEF Command, Commands
<1>2. /\ a \in Seq(Commands) /\ a # <<>>
      /\ Left(a) = {Command("RD", "sw"), Command("RD", "hw"), Command("RD", "cr"), Command("RD", "qid2vec")}
      /\ b \in Seq(Commands) /\ Left(b) \subseteq {Command("RD", "wrb"), Command("RD", "pftch")}
  <2>1. /\ Command("RD", "sw") \in Commands /\ Command("RD", "hw") \in Commands
        /\ Command("RD", "cr") \in Commands /\ Command("RD", "qid2vec") \in Commands
        /\ Command("RD", "wrb") \in Commands /\ Command("RD", "pftch") \in Commands
    BY <1>1 DEF Selects
  <2> QED
    BY <2>1 DEF Left
<1>3. ReadAll(q) = a \o b
  BY DEF ReadAll
<1> HIDE DEF a, b
<1> QED
  BY <1>2, <1>3, LeftConcat DEF Command

\* What is left of a start after its first command is such a sequence.
LEMMA PlanTail ==
  ASSUME NEW q \in Queues, NEW todo \in Seq(Commands), todo # <<>>, StartPlan(q, todo)
  PROVE  /\ StartPlan(q, Tail(todo))
         /\ todo[1].op = "WR" => \A c \in Left(todo) : c.op = "WR"
<1>1. /\ Len(todo) \in Nat \ {0} /\ Len(Tail(todo)) = Len(todo) - 1
      /\ \A i \in 1 .. Len(todo) - 1 : Tail(todo)[i] = todo[i + 1] /\ i + 1 \in 1 .. Len(todo)
  OBVIOUS
<1>2. /\ todo[1] \in Commands /\ Tail(todo) \in Seq(Commands)
      /\ Left(todo) = {todo[1]} \cup Left(Tail(todo))
  BY LeftTail
<1>3. todo[1].op = "WR" => \A c \in Left(todo) : c.op = "WR"
  <2> SUFFICES ASSUME todo[1].op = "WR", NEW c \in Left(todo) PROVE c.op = "WR"
    OBVIOUS
  <2>1. PICK i \in 1 .. Len(todo) : c = todo[i]
    BY DEF Left
  <2> QED
    BY <1>1, <2>1 DEF StartPlan
<1>4. \A i, j \in 1 .. Len(Tail(todo)) : i < j /\ Tail(todo)[i].op = "WR" => Tail(todo)[j].op = "WR"
  <2> SUFFICES ASSUME NEW i \in 1 .. Len(todo) - 1, NEW j \in 1 .. Len(todo) - 1, i < j, Tail(todo)[i].op = "WR"
               PROVE  Tail(todo)[j].op = "WR"
    BY <1>1
  <2>1. i + 1 < j + 1 /\ todo[i + 1].op = "WR"
    BY <1>1
  <2> QED
    BY <1>1, <2>1 DEF StartPlan
<1>5. ASSUME NEW c \in Left(Tail(todo)), c.op # "WR", NEW s \in Own(q) \cup {"qid2vec"}
      PROVE  Command("WR", s) \in Left(Tail(todo))
  <2>1. Command("WR", s) \in Left(todo) /\ todo[1].op # "WR"
    BY <1>2, <1>3, <1>5 DEF StartPlan
  <2> QED
    BY <1>2, <2>1 DEF Command
<1> QED
  BY <1>2, <1>3, <1>4, <1>5 DEF StartPlan

-----------------------------------------------------------------------------
(* Operations begin.                                                       *)

\* An operation begins: its thread was idle, no other thread and no register
\* changes.
LEMMA BeginEffect ==
  ASSUME CtxInv, NEW q \in Queues, NEW op \in {"start", "stop", "dump"},
         NEW todo \in Seq(Commands), todo # <<>>, Begin(q, op, todo)
  PROVE  /\ Thread(q) \in Threads /\ th[Thread(q)] = Idle
         /\ th'[Thread(q)] = [op |-> op, q |-> q, todo |-> todo, stage |-> "lock", rd |-> NoVecs]
         /\ \A t \in Threads : t # Thread(q) => th'[t] = th[t]
         /\ th' \in [Threads -> [op : {"idle", "start", "stop", "undo", "dump"}, q : Queues \cup {<<>>},
                         todo : Seq(Commands), stage : {"lock", "cmd", "wait", "verify"},
                         rd : [Dirs -> {0, OwnVec}]]]
         /\ cpu' \in Cpus /\ UNCHANGED <<lock, data, cmd, ctx, vec>>
<1>1. Thread(q) \in Threads
  BY DEF Thread, Threads
<1>2. th[Thread(q)] = Idle
  BY <1>1 DEF CtxInv, Working, Begin
<1>4. NoVecs \in [Dirs -> {0, OwnVec}]
  BY DEF NoVecs
<1>5. /\ th' = [th EXCEPT ![Thread(q)] = [op |-> op, q |-> q, todo |-> todo, stage |-> "lock", rd |-> NoVecs]]
      /\ UNCHANGED <<lock, data, cmd, ctx, vec>>
  BY DEF Begin, Task, registers, hardware
<1>6. [op |-> op, q |-> q, todo |-> todo, stage |-> "lock", rd |-> NoVecs]
        \in [op : {"idle", "start", "stop", "undo", "dump"}, q : Queues \cup {<<>>},
             todo : Seq(Commands), stage : {"lock", "cmd", "wait", "verify"}, rd : [Dirs -> {0, OwnVec}]]
  BY <1>4
<1>7. cpu' \in Cpus
  BY DEF Begin, CtxInv, TypeOK
<1> QED
  BY <1>1, <1>2, <1>5, <1>6, <1>7 DEF CtxInv, Working

\* The registers belong to no thread that begins, and the other thread finds
\* them as they were.
LEMMA BeginRegister ==
  ASSUME CtxInv, NEW q \in Queues,
         th[Thread(q)] = Idle, th'[Thread(q)].stage = "lock",
         \A t \in Threads : t # Thread(q) => th'[t] = th[t],
         \A p \in Queues : p # q => ring'[p] = ring[p],
         UNCHANGED <<lock, data, cmd, ctx, vec>>
  PROVE  Register'
<1>1. Thread(q) \in Threads /\ th[Thread(q)].stage = "lock"
  BY DEF Thread, Threads, Idle, Task
<1>2. Register /\ Working
  BY DEF CtxInv
<1>3. ASSUME NEW t \in Threads, th'[t].stage # "lock"
      PROVE  /\ t # Thread(q) /\ th'[t] = th[t] /\ Q(t) \in Queues /\ Q(t) # q
             /\ Cmd(t)' = Cmd(t) /\ Q(t)' = Q(t) /\ Content(t)' = Content(t) /\ Pending(t)' = Pending(t)
  <2>1. t # Thread(q) /\ th'[t] = th[t]
    BY <1>3
  <2>2. th[t].op # "idle"
    BY <1>2, <1>3, <2>1 DEF Working, Idle, Task
  <2>3. Q(t) \in Queues /\ Thread(Q(t)) = t
    BY <1>2, <2>2 DEF Working
  <2>4. Q(t) # q /\ ring'[Q(t)] = ring[Q(t)]
    BY <2>1, <2>3
  <2> QED
    BY <2>1, <2>3, <2>4 DEF Q, Cmd, Content, Vectors, Pending
<1>4. \A t \in Threads : th'[t].stage # "lock" <=> th[t].stage # "lock"
  BY <1>1
<1>5. OwnAnswer'
  BY <1>2, <1>3 DEF Register, OwnAnswer
<1>6. /\ \A t \in Threads : th'[t].stage # "lock" <=> lock' = t
      /\ cmd' # NoCmd => \E t \in Threads : lock' = t /\ th'[t].stage \in {"wait", "verify"} /\ cmd' = Pending(t)'
  BY <1>2, <1>3, <1>4 DEF Register
<1>7. ASSUME NEW t \in Threads
      PROVE  /\ th'[t].stage = "verify" => Cmd(t)'.op = "WR"
             /\ th'[t].stage \in {"cmd", "wait"} /\ Cmd(t)'.op = "WR" => data' = Content(t)'
             /\ th'[t].stage = "wait" /\ cmd' = NoCmd =>
                  /\ Cmd(t)'.op = "CLR" => ctx'[Q(t)'][Cmd(t)'.sel] = Cleared
                  /\ Cmd(t)'.op = "INV" => ctx'[Q(t)'][Cmd(t)'.sel] = Invalid
  BY <1>2, <1>3 DEF Register
<1> QED
  BY <1>5, <1>6, <1>7 DEF Register

\* Such a step keeps the types.
LEMMA BeginTypes ==
  ASSUME TypeOK, NEW q \in Queues,
         state' \in [Queues -> {"stopped", "starting", "started", "stopping"}],
         ring' \in [Queues -> Rings], cpu' \in Cpus, UNCHANGED <<lock, data, cmd, ctx, vec>>,
         th'[Thread(q)].op \in {"start", "stop", "dump"}, th'[Thread(q)].todo # <<>>,
         th'[Thread(q)].stage = "lock",
         \A t \in Threads : t # Thread(q) => th'[t] = th[t]
  PROVE  TypeOK'
<1>1. \A t \in Threads :
        /\ th'[t].op \in {"idle", "start", "stop", "undo", "dump"}
        /\ th'[t].stage \in {"lock", "cmd", "wait", "verify"}
        /\ th'[t].op = "idle" <=> th'[t].todo = <<>>
  BY DEF TypeOK
<1> QED
  BY <1>1 DEF TypeOK

\* The type, the thread and the registers after the first step of an operation.
LEMMA BeginInv ==
  ASSUME CtxInv, NEW q \in Queues, NEW op \in {"start", "stop", "dump"},
         NEW todo \in Seq(Commands), todo # <<>>, Begin(q, op, todo),
         state' \in [Queues -> {"stopped", "starting", "started", "stopping"}],
         state'[q] = "starting" <=> op = "start", state'[q] = "stopping" <=> op = "stop",
         \A p \in Queues : p # q => state'[p] = state[p],
         ring' \in [Queues -> Rings], \A p \in Queues : p # q => ring'[p] = ring[p]
  PROVE  TypeOK' /\ Working' /\ Register'
<1>1. /\ Thread(q) \in Threads /\ th[Thread(q)] = Idle
      /\ th'[Thread(q)] = [op |-> op, q |-> q, todo |-> todo, stage |-> "lock", rd |-> NoVecs]
      /\ \A t \in Threads : t # Thread(q) => th'[t] = th[t]
      /\ th' \in [Threads -> [op : {"idle", "start", "stop", "undo", "dump"}, q : Queues \cup {<<>>},
                         todo : Seq(Commands), stage : {"lock", "cmd", "wait", "verify"},
                         rd : [Dirs -> {0, OwnVec}]]]
      /\ cpu' \in Cpus /\ UNCHANGED <<lock, data, cmd, ctx, vec>>
  BY BeginEffect
<1>2. /\ th'[Thread(q)].op = op /\ th'[Thread(q)].todo = todo /\ th'[Thread(q)].stage = "lock"
      /\ Q(Thread(q))' = q
  BY <1>1 DEF Q
<1>3. TypeOK'
  <2>1. TypeOK /\ th'[Thread(q)].op \in {"start", "stop", "dump"} /\ th'[Thread(q)].todo # <<>>
    BY <1>2 DEF CtxInv
  <2> QED
    BY <1>1, <1>2, <2>1, BeginTypes
<1>4. Working'
  <2>1. \A t \in Threads : IF th'[t].op = "idle" THEN th'[t] = Idle
                            ELSE th'[t].todo # <<>> /\ Q(t)' \in Queues /\ Thread(Q(t)') = t
    <3>1. \A t \in Threads : t # Thread(q) => th'[t] = th[t] /\ Q(t)' = Q(t)
      BY <1>1 DEF Q
    <3> QED
      BY <1>2, <3>1 DEF CtxInv, Working
  <2>2. \A p \in Queues : Thread(p) \in Threads
    BY DEF Thread, Threads
  <2>3. \A p \in Queues :
          /\ state'[p] = "starting" <=> Q(Thread(p))' = p /\ th'[Thread(p)].op \in {"start", "undo"}
          /\ state'[p] = "stopping" <=> Q(Thread(p))' = p /\ th'[Thread(p)].op = "stop"
    <3>1. ASSUME NEW p \in Queues, p # q
          PROVE  /\ state'[p] = "starting" <=> Q(Thread(p))' = p /\ th'[Thread(p)].op \in {"start", "undo"}
                 /\ state'[p] = "stopping" <=> Q(Thread(p))' = p /\ th'[Thread(p)].op = "stop"
      <4>1. Thread(p) \in Threads /\ Working
        BY <2>2, <3>1 DEF CtxInv
      <4>2. CASE Thread(p) = Thread(q)
        <5>1. th[Thread(p)].op = "idle" /\ Q(Thread(p))' # p
          BY <1>1, <1>2, <3>1, <4>2 DEF Idle, Task
        <5>2. state[p] \notin {"starting", "stopping"} /\ state'[p] = state[p]
          BY <3>1, <4>1, <5>1 DEF Working
        <5> QED
          BY <5>1, <5>2
      <4>3. CASE Thread(p) # Thread(q)
        <5>1. th'[Thread(p)] = th[Thread(p)] /\ Q(Thread(p))' = Q(Thread(p)) /\ state'[p] = state[p]
          BY <1>1, <3>1, <4>1, <4>3 DEF Q
        <5> QED
          BY <4>1, <5>1 DEF Working
      <4> QED
        BY <4>2, <4>3
    <3> QED
      BY <1>2, <3>1
  <2> QED
    BY <1>1, <2>1, <2>3 DEF Working
<1>5. Register'
  BY <1>1, <1>2, BeginRegister
<1> QED
  BY <1>3, <1>4, <1>5

\* qdma_queue_start() begins.
LEMMA StartInv ==
  ASSUME CtxInv, NEW q \in Queues, Start(q)
  PROVE  CtxInv'
<1>0. /\ Begin(q, "start", Setup(q)) /\ state[q] = "stopped"
      /\ state' = [state EXCEPT ![q] = "starting"]
      /\ \E r \in Rings : ring' = [ring EXCEPT ![q] = r]
  BY DEF Start
<1>1. /\ Thread(q) \in Threads /\ th[Thread(q)] = Idle
      /\ th'[Thread(q)] = [op |-> "start", q |-> q, todo |-> Setup(q), stage |-> "lock", rd |-> NoVecs]
      /\ \A t \in Threads : t # Thread(q) => th'[t] = th[t]
      /\ UNCHANGED <<lock, data, cmd, ctx, vec>>
  BY <1>0, BeginEffect, SetupPlanned
<1>2. /\ state' \in [Queues -> {"stopped", "starting", "started", "stopping"}]
      /\ state'[q] = "starting" /\ \A p \in Queues : p # q => state'[p] = state[p]
      /\ ring' \in [Queues -> Rings] /\ \A p \in Queues : p # q => ring'[p] = ring[p]
  BY <1>0 DEF CtxInv, TypeOK
<1>3. TypeOK' /\ Working' /\ Register'
  BY <1>0, <1>2, BeginInv, SetupPlanned
<1>4. Plans'
  <2>1. StartPlan(q, Setup(q)) /\ Written(q, Left(Setup(q)), NoVecs)'
    BY <1>1, SetupPlanned DEF Written
  <2>2. ASSUME NEW t \in Threads, t # Thread(q), th[t].op # "idle"
        PROVE  Q(t) \in Queues /\ Q(t) # q /\ th'[t] = th[t] /\ ring'[Q(t)] = ring[Q(t)]
    BY <1>1, <1>2, <2>2 DEF CtxInv, Working
  <2> QED
    BY <1>1, <2>1, <2>2 DEF CtxInv, Plans, Written, Emptied, Q
<1>5. Pointers' /\ FreshStart' /\ Complete' /\ NothingPoints'
  BY <1>0, <1>1, <1>2 DEF CtxInv, TypeOK, Pointers, FreshStart, Complete, NothingPoints, Selects
<1> QED
  BY <1>3, <1>4, <1>5 DEF CtxInv

\* qdma_queue_stop() begins.
LEMMA StopInv ==
  ASSUME CtxInv, NEW q \in Queues, Stop(q)
  PROVE  CtxInv'
<1>0. /\ Begin(q, "stop", Clear(q, "INV")) /\ state[q] = "started"
      /\ state' = [state EXCEPT ![q] = "stopping"] /\ ring' = ring
  BY DEF Stop
<1>1. /\ Thread(q) \in Threads /\ th[Thread(q)] = Idle
      /\ th'[Thread(q)] = [op |-> "stop", q |-> q, todo |-> Clear(q, "INV"), stage |-> "lock", rd |-> NoVecs]
      /\ \A t \in Threads : t # Thread(q) => th'[t] = th[t]
      /\ UNCHANGED <<lock, data, cmd, ctx, vec>>
  BY <1>0, BeginEffect, ClearPlanned
<1>2. /\ state' \in [Queues -> {"stopped", "starting", "started", "stopping"}]
      /\ state'[q] = "stopping" /\ \A p \in Queues : p # q => state'[p] = state[p]
      /\ ring' \in [Queues -> Rings]
  BY <1>0 DEF CtxInv, TypeOK
<1>3. TypeOK' /\ Working' /\ Register'
  BY <1>0, <1>2, BeginInv, ClearPlanned
<1>4. Plans'
  <2>1. ClearPlan(Clear(q, "INV")) /\ Emptied(q, Left(Clear(q, "INV")))'
    <3>1. ClearPlan(Clear(q, "INV")) /\ Emptied(q, Left(Clear(q, "INV")))
      BY ClearPlanned
    <3> QED
      BY <1>1, <3>1 DEF Emptied
  <2> QED
    BY <1>0, <1>1, <2>1 DEF CtxInv, Plans, Written, Emptied, Q
<1>5. Pointers' /\ FreshStart' /\ Complete' /\ NothingPoints'
  BY <1>0, <1>1, <1>2 DEF CtxInv, TypeOK, Pointers, FreshStart, Complete, NothingPoints, Selects
<1> QED
  BY <1>3, <1>4, <1>5 DEF CtxInv

\* A dump of the contexts begins.
LEMMA DumpInv ==
  ASSUME CtxInv, NEW q \in Queues, Dump(q)
  PROVE  CtxInv'
<1>0. Begin(q, "dump", ReadAll(q)) /\ state' = state /\ ring' = ring
  BY DEF Dump
<1>1. /\ Thread(q) \in Threads /\ th[Thread(q)] = Idle
      /\ th'[Thread(q)] = [op |-> "dump", q |-> q, todo |-> ReadAll(q), stage |-> "lock", rd |-> NoVecs]
      /\ \A t \in Threads : t # Thread(q) => th'[t] = th[t]
      /\ UNCHANGED <<lock, data, cmd, ctx, vec>>
  BY <1>0, BeginEffect, ReadPlanned
<1>2. state[q] \notin {"starting", "stopping"}
  BY <1>1 DEF CtxInv, Working, Idle, Task
<1>3. TypeOK' /\ Working' /\ Register'
  <2>1. /\ state' \in [Queues -> {"stopped", "starting", "started", "stopping"}]
        /\ ring' \in [Queues -> Rings]
    BY <1>0 DEF CtxInv, TypeOK
  <2> QED
    BY <1>0, <1>2, <2>1, BeginInv, ReadPlanned
<1>4. Plans'
  BY <1>0, <1>1, ReadPlanned DEF CtxInv, Plans, Written, Emptied, Q
<1>5. Pointers' /\ FreshStart' /\ Complete' /\ NothingPoints'
  BY <1>0, <1>1 DEF CtxInv, TypeOK, Pointers, FreshStart, Complete, NothingPoints
<1> QED
  BY <1>3, <1>4, <1>5 DEF CtxInv

-----------------------------------------------------------------------------
(* The commands of a thread.                                               *)

\* A thread between two of its critical sections has no claim on the registers
\* and leaves the contexts alone; only its place changes.
LEMMA PlaceChanges ==
  ASSUME CtxInv, NEW t \in Threads, NEW s \in {"cmd", "wait", "verify"}, th[t].op # "idle",
         th' = [th EXCEPT ![t].stage = s],
         UNCHANGED <<state, ring, cpu, ctx, vec>>
  PROVE  /\ \A u \in Threads :
              /\ th'[u].op = th[u].op /\ th'[u].todo = th[u].todo /\ th'[u].rd = th[u].rd /\ th'[u].q = th[u].q
              /\ u # t => th'[u] = th[u]
         /\ th'[t].stage = s
         /\ Working' /\ Plans' /\ Pointers' /\ FreshStart' /\ Complete' /\ NothingPoints'
         /\ lock' \in Threads => TypeOK'
<1>1. /\ th \in [Threads -> [op : {"idle", "start", "stop", "undo", "dump"}, q : Queues \cup {<<>>},
                         todo : Seq(Commands), stage : {"lock", "cmd", "wait", "verify"},
                         rd : [Dirs -> {0, OwnVec}]]]
      /\ Working /\ Plans /\ TypeOK
  BY DEF CtxInv, Working
<1>2. \A u \in Threads :
        /\ th'[u].op = th[u].op /\ th'[u].todo = th[u].todo /\ th'[u].rd = th[u].rd /\ th'[u].q = th[u].q
        /\ u # t => th'[u] = th[u]
  BY <1>1
<1>3. th'[t].stage = s
  BY <1>1
<1>5. Working'
  <2>1. th' \in [Threads -> [op : {"idle", "start", "stop", "undo", "dump"}, q : Queues \cup {<<>>},
                         todo : Seq(Commands), stage : {"lock", "cmd", "wait", "verify"},
                         rd : [Dirs -> {0, OwnVec}]]]
    BY <1>1
  <2>2. \A q \in Queues : Thread(q) \in Threads
    BY DEF Thread, Threads
  <2>3. ASSUME NEW u \in Threads
        PROVE  IF th'[u].op = "idle" THEN th'[u] = Idle
               ELSE th'[u].todo # <<>> /\ Q(u)' \in Queues /\ Thread(Q(u)') = u
    BY <1>1, <1>2 DEF Working, Q
  <2>4. ASSUME NEW q \in Queues
        PROVE  /\ state'[q] = "starting" <=> Q(Thread(q))' = q /\ th'[Thread(q)].op \in {"start", "undo"}
               /\ state'[q] = "stopping" <=> Q(Thread(q))' = q /\ th'[Thread(q)].op = "stop"
    BY <1>1, <1>2, <2>2 DEF Working, Q
  <2> QED
    BY <2>1, <2>3, <2>4 DEF Working
<1>6. Plans'
  <2>1. ASSUME NEW u \in Threads, th[u].op = "start" PROVE Written(Q(u), Left(th[u].todo), th[u].rd)'
    BY <1>1, <1>2, <2>1 DEF Plans, Written, Q
  <2>2. ASSUME NEW u \in Threads, th[u].op \in {"stop", "undo"} PROVE Emptied(Q(u), Left(th[u].todo))'
    BY <1>1, <1>2, <2>2 DEF Plans, Emptied, Q
  <2> QED
    BY <1>1, <1>2, <2>1, <2>2 DEF Plans, Q
<1>7. Pointers' /\ FreshStart' /\ Complete' /\ NothingPoints'
  BY DEF CtxInv, Pointers, FreshStart, Complete, NothingPoints
<1>8. lock' \in Threads => TypeOK'
  BY <1>1, <1>2, <1>3 DEF TypeOK
<1> QED
  BY <1>2, <1>3, <1>5, <1>6, <1>7, <1>8

\* The thread that has the lock is the only one that is not waiting for it.
LEMMA OneHolder ==
  ASSUME CtxInv, NEW t \in Threads, th[t].stage # "lock"
  PROVE  /\ lock = t /\ th[t].op # "idle" /\ th[t].todo # <<>> /\ th[t].todo \in Seq(Commands)
         /\ Cmd(t) \in Commands /\ Cmd(t) \in Left(th[t].todo)
         /\ Q(t) \in Queues /\ Thread(Q(t)) = t
         /\ \A u \in Threads : u # t => th[u].stage = "lock"
<1>1. Working /\ Register
  BY DEF CtxInv
<1>2. lock = t /\ \A u \in Threads : u # t => th[u].stage = "lock"
  BY <1>1 DEF Register
<1>3. th[t].op # "idle"
  BY <1>1 DEF Working, Idle, Task
<1>4. th[t].todo # <<>> /\ th[t].todo \in Seq(Commands) /\ Q(t) \in Queues /\ Thread(Q(t)) = t
  BY <1>1, <1>3 DEF Working
<1> QED
  BY <1>2, <1>3, <1>4, LeftTail DEF Cmd

\* The data register and the lock.
LEMMA WriteInv ==
  ASSUME CtxInv, NEW t \in Threads, Write(t)
  PROVE  CtxInv'
<1>1. /\ th[t].todo # <<>> /\ th[t].stage = "lock" /\ lock = "free" /\ lock' = t
      /\ data' = IF Cmd(t).op = "WR" THEN Content(t) ELSE data
      /\ th' = [th EXCEPT ![t].stage = "cmd"]
      /\ UNCHANGED <<state, ring, cpu, ctx, vec>> /\ cmd' = cmd
  BY DEF Write, LockFree, hardware
<1>2. th[t].op # "idle"
  BY <1>1 DEF CtxInv, Working, Idle, Task
<1>3. \A u \in Threads : th[u].stage = "lock"
  BY <1>1 DEF CtxInv, Register, Threads
<1>4. cmd = NoCmd
  BY <1>1 DEF CtxInv, Register, Threads
<1>5. /\ \A u \in Threads :
           /\ th'[u].op = th[u].op /\ th'[u].todo = th[u].todo /\ th'[u].rd = th[u].rd /\ th'[u].q = th[u].q
           /\ u # t => th'[u] = th[u]
      /\ th'[t].stage = "cmd" /\ TypeOK' /\ Working' /\ Plans' /\ Pointers' /\ FreshStart' /\ Complete'
      /\ NothingPoints'
  <2>1. lock' \in Threads /\ "cmd" \in {"cmd", "wait", "verify"}
    BY <1>1, <1>2
  <2> QED
    BY <1>1, <1>2, <2>1, PlaceChanges
<1>6. Register'
  <2>1. OwnAnswer'
    BY <1>3, <1>5 DEF OwnAnswer
  <2>2. /\ lock' = t /\ cmd' = NoCmd /\ Cmd(t)' = Cmd(t) /\ Content(t)' = Content(t)
        /\ Cmd(t).op = "WR" => data' = Content(t)
    BY <1>1, <1>4, <1>5 DEF Cmd, Q, Content, Vectors
  <2>3. \A u \in Threads : u # t => th'[u].stage = "lock" /\ lock' # u
    BY <1>3, <1>5, <2>2
  <2>4. \A u \in Threads :
          /\ th'[u].stage # "lock" <=> lock' = u
          /\ ~(th'[u].stage \in {"wait", "verify"})
          /\ th'[u].stage = "cmd" /\ Cmd(u)'.op = "WR" => data' = Content(u)'
    BY <1>5, <2>2, <2>3
  <2> QED
    BY <2>1, <2>2, <2>4 DEF Register
<1> QED
  BY <1>5, <1>6 DEF CtxInv

\* The command register.
LEMMA IssueInv ==
  ASSUME CtxInv, NEW t \in Threads, Issue(t)
  PROVE  CtxInv'
<1>1. /\ th[t].stage = "cmd" /\ cmd' = [op |-> Cmd(t).op, sel |-> Cmd(t).sel, q |-> Q(t)]
      /\ th' = [th EXCEPT ![t].stage = "wait"]
      /\ UNCHANGED <<state, ring, cpu, ctx, vec>> /\ UNCHANGED <<lock, data>>
  BY DEF Issue, hardware
<1>2. /\ lock = t /\ th[t].op # "idle" /\ Cmd(t) \in Commands
      /\ \A u \in Threads : u # t => th[u].stage = "lock"
  BY <1>1, OneHolder
<1>3. /\ \A u \in Threads :
           /\ th'[u].op = th[u].op /\ th'[u].todo = th[u].todo /\ th'[u].rd = th[u].rd /\ th'[u].q = th[u].q
           /\ u # t => th'[u] = th[u]
      /\ th'[t].stage = "wait" /\ TypeOK' /\ Working' /\ Plans' /\ Pointers' /\ FreshStart' /\ Complete'
      /\ NothingPoints'
  <2>1. lock' \in Threads /\ "wait" \in {"cmd", "wait", "verify"}
    BY <1>1, <1>2
  <2> QED
    BY <1>1, <1>2, <2>1, PlaceChanges
<1>4. cmd' # NoCmd
  BY <1>1, <1>2 DEF NoCmd, Commands
<1>5. cmd' = Pending(t)'
  BY <1>1, <1>3 DEF Pending, Cmd, Q
<1>6. Register'
  <2>1. OwnAnswer'
    BY <1>4 DEF OwnAnswer
  <2>2. \A u \in Threads : /\ Cmd(u)' = Cmd(u) /\ Content(u)' = Content(u)
                           /\ u # t => th'[u].stage = "lock"
    BY <1>1, <1>2, <1>3 DEF Cmd, Q, Content, Vectors
  <2>3. Cmd(t).op = "WR" => data' = Content(t)
    BY <1>1 DEF CtxInv, Register
  <2> QED
    BY <1>1, <1>2, <1>3, <1>4, <1>5, <2>1, <2>2, <2>3 DEF Register
<1> QED
  BY <1>3, <1>6 DEF CtxInv

\* A write is read back.
LEMMA ReadBackInv ==
  ASSUME CtxInv, NEW t \in Threads, ReadBack(t)
  PROVE  CtxInv'
<1>1. /\ th[t].stage = "wait" /\ cmd' = [op |-> "RD", sel |-> Cmd(t).sel, q |-> Q(t)]
      /\ Cmd(t).op = "WR"
      /\ th' = [th EXCEPT ![t].stage = "verify"]
      /\ UNCHANGED <<state, ring, cpu, ctx, vec>> /\ UNCHANGED <<lock, data>>
  BY DEF ReadBack, NeedsVerify, hardware
<1>2. /\ lock = t /\ th[t].op # "idle"
      /\ \A u \in Threads : u # t => th[u].stage = "lock"
  BY <1>1, OneHolder
<1>3. /\ \A u \in Threads :
           /\ th'[u].op = th[u].op /\ th'[u].todo = th[u].todo /\ th'[u].rd = th[u].rd /\ th'[u].q = th[u].q
           /\ u # t => th'[u] = th[u]
      /\ th'[t].stage = "verify" /\ TypeOK' /\ Working' /\ Plans' /\ Pointers' /\ FreshStart' /\ Complete'
      /\ NothingPoints'
  <2>1. lock' \in Threads /\ "verify" \in {"cmd", "wait", "verify"}
    BY <1>1, <1>2
  <2> QED
    BY <1>1, <1>2, <2>1, PlaceChanges
<1>4. cmd' # NoCmd
  BY <1>1 DEF NoCmd
<1>5. cmd' = Pending(t)'
  BY <1>1, <1>3 DEF Pending, Cmd, Q
<1>6. Register'
  <2>1. OwnAnswer'
    BY <1>4 DEF OwnAnswer
  <2>2. lock' = t /\ Cmd(t)' = Cmd(t)
    BY <1>1, <1>2, <1>3 DEF Cmd
  <2>3. th'[t].stage = "verify" /\ Cmd(t)'.op = "WR"
    BY <1>1, <1>3, <2>2
  <2>4. \A u \in Threads : u # t => th'[u].stage = "lock" /\ lock' # u
    BY <1>2, <1>3, <2>2
  <2>5. \A u \in Threads :
          /\ th'[u].stage # "lock" <=> lock' = u
          /\ th'[u].stage = "verify" => Cmd(u)'.op = "WR"
          /\ ~(th'[u].stage \in {"cmd", "wait"})
    BY <2>2, <2>3, <2>4
  <2> QED
    BY <1>5, <2>1, <2>2, <2>3, <2>5 DEF Register
<1> QED
  BY <1>3, <1>6 DEF CtxInv

\* Who waits for the lock has no claim on the registers.
LEMMA Released ==
  ASSUME \A u \in Threads : th'[u].stage = "lock", lock' = "free", cmd' = NoCmd
  PROVE  Register'
<1>1. lock' \notin Threads
  BY DEF Threads
<1>2. OwnAnswer'
  BY DEF OwnAnswer
<1> QED
  BY <1>1, <1>2 DEF Register

\* What the other threads have done stays done.
LEMMA OthersKeepPlans ==
  ASSUME Plans, NEW t \in Threads, \A u \in Threads : u # t => th'[u] = th[u],
         UNCHANGED <<ring, ctx, vec>>,
         th'[t].op = "start" => StartPlan(th'[t].q, th'[t].todo) /\ Written(th'[t].q, Left(th'[t].todo), th'[t].rd),
         th'[t].op \in {"stop", "undo"} => ClearPlan(th'[t].todo) /\ Emptied(th'[t].q, Left(th'[t].todo)),
         th'[t].op = "dump" => \A c \in Left(th'[t].todo) : c.op = "RD"
  PROVE  Plans'
<1>1. ASSUME NEW u \in Threads
      PROVE  /\ th'[u].op = "start" =>
                  StartPlan(th'[u].q, th'[u].todo) /\ Written(th'[u].q, Left(th'[u].todo), th'[u].rd)
             /\ th'[u].op \in {"stop", "undo"} =>
                  ClearPlan(th'[u].todo) /\ Emptied(th'[u].q, Left(th'[u].todo))
             /\ th'[u].op = "dump" => \A c \in Left(th'[u].todo) : c.op = "RD"
  <2>1. CASE u = t
    BY <2>1
  <2>2. CASE u # t
    BY <2>2 DEF Plans, Q
  <2> QED
    BY <2>1, <2>2
<1> QED
  BY <1>1 DEF Plans, Q, Written, Emptied

\* An operation of thread t ends; what it was for is done.
LEMMA EndInv ==
  ASSUME CtxInv, NEW t \in Threads, th[t].stage # "lock", Ended(t),
         lock' = "free", cmd' = NoCmd, UNCHANGED <<ring, cpu, ctx, vec>>,
         th[t].op = "start" => \E rd : Written(Q(t), {}, rd),
         th[t].op \in {"stop", "undo"} => Emptied(Q(t), {})
  PROVE  CtxInv'
<1>0. TypeOK /\ Working /\ Plans /\ Pointers /\ FreshStart /\ Complete /\ NothingPoints
  BY DEF CtxInv
<1>1. /\ lock = t /\ th[t].op # "idle" /\ Q(t) \in Queues /\ Thread(Q(t)) = t
      /\ \A u \in Threads : u # t => th[u].stage = "lock"
  BY OneHolder
<1>2. /\ th'[t] = Idle /\ \A u \in Threads : u # t => th'[u] = th[u]
      /\ th' \in [Threads -> [op : {"idle", "start", "stop", "undo", "dump"}, q : Queues \cup {<<>>},
                         todo : Seq(Commands), stage : {"lock", "cmd", "wait", "verify"},
                         rd : [Dirs -> {0, OwnVec}]]]
  <2>1. Idle \in [op : {"idle", "start", "stop", "undo", "dump"}, q : Queues \cup {<<>>},
                  todo : Seq(Commands), stage : {"lock", "cmd", "wait", "verify"}, rd : [Dirs -> {0, OwnVec}]]
    <3>1. NoVecs \in [Dirs -> {0, OwnVec}] /\ <<>> \in Seq(Commands)
      BY DEF NoVecs
    <3> QED
      BY <3>1 DEF Idle, Task
  <2> QED
    BY <1>0, <2>1 DEF Ended, Working
<1>3. Idle.op = "idle" /\ Idle.stage = "lock" /\ Idle.todo = <<>>
  BY DEF Idle, Task
<1>4. th[t].op \in {"start", "stop", "undo", "dump"}
  BY <1>0, <1>1 DEF Working
<1>5. /\ \A p \in Queues : p # Q(t) => state'[p] = state[p]
      /\ th[t].op = "start" => state'[Q(t)] = "started"
      /\ th[t].op \in {"stop", "undo"} => state'[Q(t)] = "stopped"
      /\ th[t].op = "dump" => state'[Q(t)] = state[Q(t)]
      /\ state' \in [Queues -> {"stopped", "starting", "started", "stopping"}]
  BY <1>0, <1>1, <1>4 DEF Ended, TypeOK
<1>6. TypeOK'
  BY <1>0, <1>2, <1>3, <1>5, ZenonT(60) DEF TypeOK
<1>7. Working'
  <2>1. ASSUME NEW u \in Threads
        PROVE  IF th'[u].op = "idle" THEN th'[u] = Idle
               ELSE th'[u].todo # <<>> /\ Q(u)' \in Queues /\ Thread(Q(u)') = u
    <3>1. CASE u = t
      BY <1>2, <1>3, <3>1
    <3>2. CASE u # t
      BY <1>0, <1>2, <3>2 DEF Working, Q
    <3> QED
      BY <3>1, <3>2
  <2>2. ASSUME NEW q \in Queues
        PROVE  /\ state'[q] = "starting" <=> Q(Thread(q))' = q /\ th'[Thread(q)].op \in {"start", "undo"}
               /\ state'[q] = "stopping" <=> Q(Thread(q))' = q /\ th'[Thread(q)].op = "stop"
    <3>1. Thread(q) \in Threads
      BY DEF Thread, Threads
    <3>2. CASE Thread(q) # t
      <4>1. q # Q(t) /\ th'[Thread(q)] = th[Thread(q)] /\ state'[q] = state[q]
        BY <1>1, <1>2, <1>5, <3>1, <3>2
      <4> QED
        BY <1>0, <4>1 DEF Working, Q
    <3>3. CASE Thread(q) = t
      <4>1. th'[Thread(q)].op = "idle"
        BY <1>2, <1>3, <3>3
      <4>2. q # Q(t) => state[q] \notin {"starting", "stopping"}
        BY <1>0, <3>3 DEF Working
      <4>3. th[t].op = "dump" => state[Q(t)] \notin {"starting", "stopping"}
        BY <1>0, <1>1 DEF Working
      <4> QED
        BY <1>4, <1>5, <4>1, <4>2, <4>3
    <3> QED
      BY <3>2, <3>3
  <2> QED
    BY <1>2, <2>1, <2>2 DEF Working
<1>8. Register'
  BY <1>1, <1>2, <1>3, Released
<1>9. Plans'
  BY <1>0, <1>1, <1>2, <1>3, OthersKeepPlans
<1>10. Pointers'
  BY <1>0 DEF Pointers
<1>11. FreshStart' /\ Complete' /\ NothingPoints'
  <2>1. th[t].op = "start" =>
          /\ \A s \in Own(Q(t)) : ctx[Q(t)][s] = ring[Q(t)]
          /\ Id(Q(t)) \notin Virtual => vec[Id(Q(t))][Dir(Q(t))] = OwnVec
    BY DEF Written
  <2>2. th[t].op \in {"stop", "undo"} => \A s \in Selects : ctx[Q(t)][s] \notin Rings
    BY <1>0, <1>1 DEF Emptied, Pointers
  <2> QED
    BY <1>0, <1>1, <1>4, <1>5, <2>1, <2>2 DEF FreshStart, Complete, NothingPoints
<1> QED
  BY <1>6, <1>7, <1>8, <1>9, <1>10, <1>11 DEF CtxInv

\* The first command of what is left was carried out.
LEMMA HeadDone ==
  ASSUME CtxInv, NEW t \in Threads, Done(t), NEW rd,
         rd = IF Cmd(t).op = "RD" /\ Cmd(t).sel = "qid2vec" THEN data ELSE th[t].rd
  PROVE  /\ rd \in [Dirs -> {0, OwnVec}]
         /\ th[t].op = "start" => Written(Q(t), Left(Tail(th[t].todo)), rd)
         /\ th[t].op \in {"stop", "undo"} => Emptied(Q(t), Left(Tail(th[t].todo)))
<1> DEFINE q == Q(t)
           c == Cmd(t)
           left == Left(th[t].todo)
           rest == Left(Tail(th[t].todo))
<1>0. TypeOK /\ Working /\ Register /\ Plans /\ OwnAnswer
  BY DEF CtxInv, Register
<1>1. /\ cmd = NoCmd /\ th[t].stage # "lock"
      /\ \/ th[t].stage = "wait" /\ c.op # "WR"
         \/ th[t].stage = "verify" /\ data = Content(t)
  BY DEF Done, NeedsVerify, Same
<1>2. /\ th[t].op # "idle" /\ th[t].todo # <<>> /\ th[t].todo \in Seq(Commands)
      /\ c \in Commands /\ q \in Queues /\ Thread(q) = t /\ c = th[t].todo[1]
  BY <1>1, OneHolder DEF Cmd
<1>3. left = {c} \cup rest
  BY <1>2, LeftTail
<1>4. Id(q) \in Ids /\ Dir(q) \in Dirs /\ vec[Id(q)] \in [Dirs -> {0, OwnVec}]
  BY <1>0, <1>2, QueuesAssumption DEF Ids, Dir, Dirs, TypeOK
<1>5. /\ c.op = "CLR" => ctx[q][c.sel] = Cleared
      /\ c.op = "INV" => ctx[q][c.sel] = Invalid
      /\ c.op = "RD" /\ c.sel = "qid2vec" => data = vec[Id(q)]
      /\ c.op = "WR" /\ c.sel = "qid2vec" => Vectors(t) = vec[Id(q)]
      /\ c.op = "WR" /\ c.sel \notin {"qid2vec", "hw", "cr"} => ctx[q][c.sel] = ring[q]
  BY <1>0, <1>1 DEF Register, OwnAnswer, Content
<1>6. rd \in [Dirs -> {0, OwnVec}]
  BY <1>0, <1>4, <1>5 DEF Working
<1>7. \A op, sel : c = Command(op, sel) <=> c.op = op /\ c.sel = sel
  BY <1>2 DEF Commands, Command
<1> HIDE DEF c, left, rest, q
<1>8. ASSUME th[t].op = "start" PROVE Written(q, rest, rd)
  <2>1. Written(q, left, th[t].rd)
    BY <1>0, <1>8 DEF Plans, q, left
  <2>2. ASSUME NEW s \in Own(q), Command("WR", s) \notin rest PROVE ctx[q][s] = ring[q]
    <3>1. s \notin {"qid2vec", "hw", "cr"}
      BY DEF Own
    <3> QED
      BY <1>3, <1>5, <1>7, <2>1, <2>2, <3>1 DEF Written
  <2>3. ASSUME NEW s \in {"hw", "cr"}, Command("CLR", s) \notin rest PROVE ctx[q][s] = Cleared
    BY <1>3, <1>5, <1>7, <2>1, <2>3 DEF Written
  <2>4. ASSUME Id(q) \notin Virtual, Command("WR", "qid2vec") \notin rest
        PROVE  vec[Id(q)][Dir(q)] = OwnVec
    <3>1. CASE c = Command("WR", "qid2vec")
      <4>1. vec[Id(q)] = [th[t].rd EXCEPT ![Dir(q)] = OwnVec]
        BY <1>5, <1>7, <2>4, <3>1 DEF Vectors, q
      <4>2. th[t].rd \in [Dirs -> {0, OwnVec}]
        BY <1>0 DEF Working
      <4> QED
        BY <1>4, <4>1, <4>2
    <3>2. CASE c # Command("WR", "qid2vec")
      BY <1>3, <2>1, <2>4, <3>2 DEF Written
    <3> QED
      BY <3>1, <3>2
  <2>5. ASSUME Id(q) \notin Virtual, Command("RD", "qid2vec") \notin rest, NEW d \in Dirs, d # Dir(q)
        PROVE  rd[d] = vec[Id(q)][d]
    <3>1. CASE c = Command("RD", "qid2vec")
      BY <1>5, <1>7, <3>1 DEF c
    <3>2. CASE c # Command("RD", "qid2vec")
      <4>1. rd = th[t].rd
        BY <1>7, <3>2 DEF c
      <4> QED
        BY <1>3, <2>1, <2>5, <3>2, <4>1 DEF Written
    <3> QED
      BY <3>1, <3>2
  <2> QED
    BY <2>2, <2>3, <2>4, <2>5 DEF Written
<1>9. ASSUME th[t].op \in {"stop", "undo"} PROVE Emptied(q, rest)
  <2>1. Emptied(q, left)
    BY <1>0, <1>9 DEF Plans, q, left
  <2>2. Cleared \notin Rings /\ Invalid \notin Rings
    BY RingsAssumption
  <2> QED
    BY <1>3, <1>5, <1>7, <2>1, <2>2 DEF Emptied
<1> QED
  BY <1>6, <1>8, <1>9 DEF q, rest

\* The next command of an operation is due, with what was read from QID2VEC.
LEMMA NextInv ==
  ASSUME CtxInv, NEW t \in Threads, th[t].stage # "lock", NEW rd \in [Dirs -> {0, OwnVec}],
         Tail(th[t].todo) # <<>>,
         th' = [th EXCEPT ![t].todo = Tail(@), ![t].stage = "lock", ![t].rd = rd],
         lock' = "free", cmd' = NoCmd, UNCHANGED <<state, ring, cpu, ctx, vec>>,
         th[t].op = "start" => Written(Q(t), Left(Tail(th[t].todo)), rd),
         th[t].op \in {"stop", "undo"} => Emptied(Q(t), Left(Tail(th[t].todo)))
  PROVE  CtxInv'
<1>0. TypeOK /\ Working /\ Plans
  BY DEF CtxInv
<1>1. /\ lock = t /\ th[t].op # "idle" /\ th[t].todo # <<>> /\ th[t].todo \in Seq(Commands)
      /\ Q(t) \in Queues /\ Thread(Q(t)) = t
      /\ \A u \in Threads : u # t => th[u].stage = "lock"
  BY OneHolder
<1>2. /\ Tail(th[t].todo) \in Seq(Commands)
      /\ Left(Tail(th[t].todo)) \subseteq Left(th[t].todo)
  BY <1>1, LeftTail
<1>3. /\ th'[t].op = th[t].op /\ th'[t].q = th[t].q /\ th'[t].todo = Tail(th[t].todo)
      /\ th'[t].stage = "lock" /\ th'[t].rd = rd
      /\ \A u \in Threads : u # t => th'[u] = th[u]
      /\ th' \in [Threads -> [op : {"idle", "start", "stop", "undo", "dump"}, q : Queues \cup {<<>>},
                         todo : Seq(Commands), stage : {"lock", "cmd", "wait", "verify"},
                         rd : [Dirs -> {0, OwnVec}]]]
  BY <1>0, <1>2 DEF Working
<1>4. TypeOK'
  BY <1>0, <1>1, <1>3 DEF TypeOK
<1>5. Working'
  <2>1. ASSUME NEW u \in Threads
        PROVE  IF th'[u].op = "idle" THEN th'[u] = Idle
               ELSE th'[u].todo # <<>> /\ Q(u)' \in Queues /\ Thread(Q(u)') = u
    <3>1. CASE u = t
      BY <1>1, <1>3, <3>1 DEF Q
    <3>2. CASE u # t
      BY <1>0, <1>3, <3>2 DEF Working, Q
    <3> QED
      BY <3>1, <3>2
  <2>2. ASSUME NEW q \in Queues
        PROVE  /\ state'[q] = "starting" <=> Q(Thread(q))' = q /\ th'[Thread(q)].op \in {"start", "undo"}
               /\ state'[q] = "stopping" <=> Q(Thread(q))' = q /\ th'[Thread(q)].op = "stop"
    <3>1. Thread(q) \in Threads
      BY DEF Thread, Threads
    <3>2. th'[Thread(q)].op = th[Thread(q)].op /\ th'[Thread(q)].q = th[Thread(q)].q
      BY <1>3, <3>1
    <3> QED
      BY <1>0, <3>2 DEF Working, Q
  <2> QED
    BY <1>3, <2>1, <2>2 DEF Working
<1>6. Register'
  BY <1>1, <1>3, Released
<1>7. Plans'
  <2>1. th[t].op = "start" => StartPlan(Q(t), Tail(th[t].todo))
    BY <1>0, <1>1, PlanTail DEF Plans
  <2>2. th[t].op \in {"stop", "undo"} => ClearPlan(Tail(th[t].todo))
    BY <1>0, <1>2 DEF Plans, ClearPlan
  <2>3. th[t].op = "dump" => \A c \in Left(Tail(th[t].todo)) : c.op = "RD"
    BY <1>0, <1>2 DEF Plans
  <2>4. /\ th'[t].op = "start" =>
             StartPlan(th'[t].q, th'[t].todo) /\ Written(th'[t].q, Left(th'[t].todo), th'[t].rd)
        /\ th'[t].op \in {"stop", "undo"} => ClearPlan(th'[t].todo) /\ Emptied(th'[t].q, Left(th'[t].todo))
        /\ th'[t].op = "dump" => \A c \in Left(th'[t].todo) : c.op = "RD"
    BY <1>3, <2>1, <2>2, <2>3 DEF Q
  <2> QED
    BY <1>0, <1>3, <2>4, OthersKeepPlans
<1>8. Pointers' /\ FreshStart' /\ Complete' /\ NothingPoints'
  BY DEF CtxInv, Pointers, FreshStart, Complete, NothingPoints
<1> QED
  BY <1>4, <1>5, <1>6, <1>7, <1>8 DEF CtxInv

\* A command was carried out.
LEMMA DoneInv ==
  ASSUME CtxInv, NEW t \in Threads, Done(t)
  PROVE  CtxInv'
<1> DEFINE rd == IF Cmd(t).op = "RD" /\ Cmd(t).sel = "qid2vec" THEN data ELSE th[t].rd
<1>1. /\ cmd' = NoCmd /\ th[t].stage # "lock" /\ UNCHANGED <<ring, cpu, ctx, vec>>
      /\ GoesOn(t, rd)
  BY DEF Done, hardware
<1>2. /\ rd \in [Dirs -> {0, OwnVec}]
      /\ th[t].op = "start" => Written(Q(t), Left(Tail(th[t].todo)), rd)
      /\ th[t].op \in {"stop", "undo"} => Emptied(Q(t), Left(Tail(th[t].todo)))
  BY HeadDone
<1>3. th[t].todo # <<>> /\ th[t].todo \in Seq(Commands)
  BY <1>1, OneHolder
<1> HIDE DEF rd
<1>4. CASE Len(th[t].todo) = 1
  <2>1. Ended(t) /\ lock' = "free"
    BY <1>1, <1>4 DEF GoesOn
  <2>2. Left(Tail(th[t].todo)) = {}
    BY <1>3, <1>4, LeftTail
  <2>3. /\ th[t].op = "start" => \E r : Written(Q(t), {}, r)
        /\ th[t].op \in {"stop", "undo"} => Emptied(Q(t), {})
    BY <1>2, <2>2
  <2> QED
    BY <1>1, <2>1, <2>3, EndInv
<1>5. CASE Len(th[t].todo) # 1
  <2>1. /\ th' = [th EXCEPT ![t].todo = Tail(@), ![t].stage = "lock", ![t].rd = rd]
        /\ lock' = "free" /\ UNCHANGED <<state, ring, cpu, ctx, vec>>
    BY <1>1, <1>5 DEF GoesOn
  <2>2. Tail(th[t].todo) # <<>>
    BY <1>3, <1>5, LeftTail
  <2> QED
    BY <1>1, <1>2, <2>1, <2>2, NextInv
<1> QED
  BY <1>4, <1>5

\* Programming the contexts failed; qdma_queue_start() clears them.
LEMMA UndoInv ==
  ASSUME CtxInv, NEW t \in Threads, th[t].stage # "lock", th[t].op = "start", StartFails(t),
         lock' = "free", cmd' = NoCmd, UNCHANGED <<ring, cpu, ctx, vec>>
  PROVE  CtxInv'
<1>0. TypeOK /\ Working /\ Plans
  BY DEF CtxInv
<1>1. /\ lock = t /\ th[t].op # "idle" /\ Q(t) \in Queues /\ Thread(Q(t)) = t
      /\ \A u \in Threads : u # t => th[u].stage = "lock"
  BY OneHolder
<1>2. /\ Undo(Q(t)) \in Seq(Commands) /\ Undo(Q(t)) # <<>> /\ ClearPlan(Undo(Q(t)))
      /\ Emptied(Q(t), Left(Undo(Q(t))))
  BY <1>1, ClearPlanned DEF Undo
<1>3. /\ th'[t].op = "undo" /\ th'[t].q = th[t].q /\ th'[t].todo = Undo(Q(t)) /\ th'[t].stage = "lock"
      /\ \A u \in Threads : u # t => th'[u] = th[u]
      /\ th' \in [Threads -> [op : {"idle", "start", "stop", "undo", "dump"}, q : Queues \cup {<<>>},
                         todo : Seq(Commands), stage : {"lock", "cmd", "wait", "verify"},
                         rd : [Dirs -> {0, OwnVec}]]]
      /\ state' = state
  <2>1. NoVecs \in [Dirs -> {0, OwnVec}]
    BY DEF NoVecs
  <2> QED
    BY <1>0, <1>1, <1>2, <2>1 DEF Working, StartFails, Task, Q
<1>4. TypeOK'
  BY <1>0, <1>2, <1>3, ZenonT(40) DEF TypeOK
<1>5. Working'
  <2>1. ASSUME NEW u \in Threads
        PROVE  IF th'[u].op = "idle" THEN th'[u] = Idle
               ELSE th'[u].todo # <<>> /\ Q(u)' \in Queues /\ Thread(Q(u)') = u
    <3>1. CASE u = t
      BY <1>1, <1>2, <1>3, <3>1 DEF Q
    <3>2. CASE u # t
      BY <1>0, <1>3, <3>2 DEF Working, Q
    <3> QED
      BY <3>1, <3>2
  <2>2. ASSUME NEW q \in Queues
        PROVE  /\ state'[q] = "starting" <=> Q(Thread(q))' = q /\ th'[Thread(q)].op \in {"start", "undo"}
               /\ state'[q] = "stopping" <=> Q(Thread(q))' = q /\ th'[Thread(q)].op = "stop"
    <3>1. Thread(q) \in Threads
      BY DEF Thread, Threads
    <3>2. /\ th'[Thread(q)].q = th[Thread(q)].q
          /\ th'[Thread(q)].op = IF Thread(q) = t THEN "undo" ELSE th[Thread(q)].op
      BY <1>3, <3>1
    <3> QED
      BY <1>0, <1>3, <3>2 DEF Working, Q
  <2> QED
    BY <1>3, <2>1, <2>2 DEF Working
<1>6. Register'
  BY <1>1, <1>3, Released
<1>7. Plans'
  <2>1. ClearPlan(th'[t].todo) /\ Emptied(th'[t].q, Left(th'[t].todo))
    BY <1>2, <1>3 DEF Q
  <2> QED
    BY <1>0, <1>3, <2>1, OthersKeepPlans
<1>8. Pointers' /\ FreshStart' /\ Complete' /\ NothingPoints'
  BY <1>3 DEF CtxInv, Pointers, FreshStart, Complete, NothingPoints
<1> QED
  BY <1>4, <1>5, <1>6, <1>7, <1>8 DEF CtxInv

\* A command failed: only that of a start or of a dump can.
LEMMA FailInv ==
  ASSUME CtxInv, ClearsSucceed, ReadsSucceed, NEW t \in Threads, Mismatch(t) \/ Timeout(t)
  PROVE  CtxInv'
<1>0. Working /\ Register /\ Plans
  BY DEF CtxInv
<1>1. /\ th[t].stage # "lock" /\ cmd' = NoCmd /\ UNCHANGED <<ring, cpu, ctx, vec>> /\ Fails(t)
      /\ Cmd(t).op = "WR" \/ <<th[t].op, Cmd(t).op>> \in TimeoutOps
  BY <1>0 DEF Mismatch, Timeout, hardware, Register
<1>2. /\ th[t].op \in {"start", "stop", "undo", "dump"} /\ Cmd(t) \in Left(th[t].todo) /\ Cmd(t) \in Commands
  BY <1>0, <1>1, OneHolder DEF Working
<1>3. th[t].op \in {"start", "dump"}
  <2>1. ASSUME th[t].op \in {"stop", "undo"} PROVE Cmd(t).op \in {"CLR", "INV"}
    BY <1>0, <1>2, <2>1 DEF Plans, ClearPlan
  <2> QED
    BY <1>1, <1>2, <2>1 DEF ClearsSucceed
<1>4. CASE th[t].op = "start"
  <2>1. Cmd(t).op # "RD"
    BY <1>1, <1>4 DEF ReadsSucceed
  <2>2. StartFails(t) /\ lock' = "free"
    BY <1>1, <1>4, <2>1 DEF Fails
  <2> QED
    BY <1>1, <1>4, <2>2, UndoInv
<1>5. CASE th[t].op = "dump"
  <2>1. Ended(t) /\ lock' = "free"
    BY <1>1, <1>5 DEF Fails
  <2> QED
    BY <1>1, <1>5, <2>1, EndInv
<1> QED
  BY <1>3, <1>4, <1>5

-----------------------------------------------------------------------------
(* The hardware.                                                           *)

\* The command in the register is that of the thread that waits for it; a write
\* is one of a start, and of all that is left of it, clearing has been done or
\* is for a queue that is in no use.
LEMMA CommandOf ==
  ASSUME CtxInv, cmd # NoCmd
  PROVE  \E t \in Threads :
           /\ lock = t /\ th[t].stage \in {"wait", "verify"} /\ th[t].op \in {"start", "stop", "undo", "dump"}
           /\ cmd.op = (IF th[t].stage = "wait" THEN Cmd(t).op ELSE "RD")
           /\ cmd.sel = Cmd(t).sel /\ cmd.q = Q(t) /\ Cmd(t) \in Left(th[t].todo)
           /\ Cmd(t) = Command(Cmd(t).op, Cmd(t).sel) /\ Cmd(t) \in Commands
           /\ Q(t) \in Queues /\ Thread(Q(t)) = t /\ Id(Q(t)) \in Ids /\ Dir(Q(t)) \in Dirs
           /\ \A u \in Threads : u # t => th[u].stage = "lock"
<1>1. PICK t \in Threads : lock = t /\ th[t].stage \in {"wait", "verify"} /\ cmd = Pending(t)
  BY DEF CtxInv, Register
<1>2. /\ th[t].op # "idle" /\ Cmd(t) \in Commands /\ Cmd(t) \in Left(th[t].todo)
      /\ Q(t) \in Queues /\ Thread(Q(t)) = t /\ \A u \in Threads : u # t => th[u].stage = "lock"
  BY <1>1, OneHolder
<1>3. th[t].op \in {"start", "stop", "undo", "dump"}
  BY <1>2 DEF CtxInv, Working
<1>4. Id(Q(t)) \in Ids /\ Dir(Q(t)) \in Dirs
  BY <1>2, QueuesAssumption DEF Ids, Dirs, Dir
<1>5. Cmd(t) = Command(Cmd(t).op, Cmd(t).sel)
  BY <1>2 DEF Commands, Command
<1> QED
  BY <1>1, <1>2, <1>3, <1>4, <1>5 DEF Pending

\* A command is in the register.
LEMMA NoneWaits == cmd.op \in {"WR", "RD", "CLR", "INV"} => cmd # NoCmd
<1>1. NoCmd.op = "none"
  BY DEF NoCmd
<1> QED
  BY <1>1

\* The threads are where they were.
LEMMA ThreadsStay ==
  ASSUME CtxInv, UNCHANGED <<state, th>>
  PROVE  Working'
<1>1. /\ \A u \in Threads : Q(u)' = Q(u)
      /\ Working
  BY DEF Q, CtxInv
<1> QED
  BY <1>1 DEF Working, Q

\* The registers after a command that was carried out or lost.
LEMMA CommandGone ==
  ASSUME CtxInv, NEW t \in Threads, lock = t, th[t].stage \in {"wait", "verify"},
         cmd' = NoCmd, UNCHANGED <<state, ring, th, lock>>,
         th[t].stage = "wait" /\ Cmd(t).op = "WR" => data' = data,
         th[t].stage = "wait" /\ Cmd(t).op = "CLR" => ctx'[Q(t)][Cmd(t).sel] = Cleared,
         th[t].stage = "wait" /\ Cmd(t).op = "INV" => ctx'[Q(t)][Cmd(t).sel] = Invalid,
         th[t].stage = "verify" \/ Cmd(t).op = "RD" =>
           data' = IF Cmd(t).sel = "qid2vec" THEN vec'[Id(Q(t))] ELSE ctx'[Q(t)][Cmd(t).sel]
  PROVE  Register'
<1>1. Register /\ \A u \in Threads : u # t => th[u].stage = "lock"
  BY OneHolder DEF CtxInv
<1>2. ASSUME NEW u \in Threads
      PROVE  /\ th'[u].stage # "lock" <=> lock' = u
             /\ th'[u].stage = "verify" => th'[u].todo[1].op = "WR"
  BY <1>1 DEF Register, Cmd
<1>3. \A u \in Threads : th'[u].stage \in {"cmd", "wait"} /\ Cmd(u).op = "WR" => data' = Content(u)
  BY <1>1 DEF Register
<1>4. \A u \in Threads : Cmd(u)' = Cmd(u) /\ Content(u)' = Content(u) /\ Q(u)' = Q(u)
  BY DEF Cmd, Content, Vectors, Q
<1>5. OwnAnswer'
  BY <1>1 DEF OwnAnswer, Cmd, Q
<1> QED
  BY <1>1, <1>2, <1>3, <1>4, <1>5 DEF Register, Cmd, Q, Content, Vectors

\* A write reaches its context.
LEMMA HwWriteInv ==
  ASSUME CtxInv, HwWrite
  PROVE  CtxInv'
<1>0. TypeOK /\ Working /\ Register /\ Plans /\ Pointers /\ FreshStart /\ Complete /\ NothingPoints
  BY DEF CtxInv
<1>1. cmd.op = "WR" /\ cmd' = NoCmd /\ cmd # NoCmd /\ UNCHANGED <<state, ring, th, cpu, lock, data>>
  BY NoneWaits DEF HwWrite
<1>2. PICK t \in Threads :
        /\ lock = t /\ th[t].stage = "wait" /\ th[t].op \in {"start", "stop", "undo", "dump"}
        /\ Cmd(t).op = "WR" /\ cmd.sel = Cmd(t).sel /\ cmd.q = Q(t)
        /\ Cmd(t) \in Left(th[t].todo) /\ Cmd(t) = Command("WR", Cmd(t).sel)
        /\ Q(t) \in Queues /\ Thread(Q(t)) = t /\ Id(Q(t)) \in Ids /\ Dir(Q(t)) \in Dirs
  BY <1>1, CommandOf
<1>3. data = Content(t) /\ th[t].todo # <<>> /\ th[t].todo \in Seq(Commands)
  BY <1>0, <1>2, OneHolder DEF Register
<1>4. th[t].op = "start"
  BY <1>0, <1>2 DEF Plans, ClearPlan
<1> DEFINE q == Q(t)
           s == Cmd(t).sel
           left == Left(th[t].todo)
<1>5. state[q] = "starting"
  BY <1>0, <1>2, <1>4 DEF Working
<1>6. /\ StartPlan(q, th[t].todo) /\ Written(q, left, th[t].rd) /\ s \in Own(q) \cup {"qid2vec"}
      /\ \A c \in left : c.op = "WR"
  BY <1>0, <1>2, <1>3, <1>4, PlanTail DEF Plans, StartPlan, Cmd
<1>7. Command("WR", s) \in left /\ \A x : Command("CLR", x) \notin left /\ Command("RD", x) \notin left
  BY <1>2, <1>6 DEF Command
<1>8. /\ Dirs = {"h2c", "c2h"} /\ th[t].rd \in [Dirs -> {0, OwnVec}]
      /\ q \in Queues /\ Id(q) \in Ids /\ Dir(q) \in Dirs
  BY <1>0, <1>2 DEF Working, Dirs
<1>9. \A p \in Queues : Id(p) = Id(q) /\ p # q => Dir(p) # Dir(q) /\ Dir(p) \in Dirs
  BY <1>8, QueuesAssumption DEF Id, Dir, Dirs
<1>10. ASSUME s = "qid2vec" PROVE CtxInv'
  <2>1. ctx' = ctx /\ vec' = [vec EXCEPT ![Id(q)] = Vectors(t)]
    BY <1>2, <1>3, <1>10 DEF HwWrite, IsVec, Content
  <2>2. /\ Vectors(t) \in [Dirs -> {0, OwnVec}]
        /\ Id(q) \notin Virtual =>
             Vectors(t)[Dir(q)] = OwnVec /\ \A d \in Dirs : d # Dir(q) => Vectors(t)[d] = th[t].rd[d]
    BY <1>8 DEF Vectors, NoVecs
  <2>3. /\ vec' \in [Ids -> [Dirs -> {0, OwnVec}]] /\ vec'[Id(q)] = Vectors(t)
        /\ \A i \in Ids : i # Id(q) => vec'[i] = vec[i]
    BY <1>0, <1>2, <2>1, <2>2 DEF TypeOK
  <2>4. TypeOK'
    BY <1>0, <1>1, <2>1, <2>3 DEF TypeOK
  <2>5. Working'
    BY <1>1, ThreadsStay
  <2>6. Register'
    BY <1>1, <1>2, CommandGone
  <2>7. Id(q) \notin Virtual => \A d \in Dirs : d = Dir(q) \/ th[t].rd[d] = vec[Id(q)][d]
    BY <1>6, <1>7 DEF Written
  <2>8. Plans'
    <3>1. Written(q, left, th[t].rd)'
      BY <1>1, <1>6, <1>7, <1>10, <2>1, <2>2, <2>3 DEF Written, Q
    <3>2. ASSUME NEW u \in Threads, u # t, th[u].op = "start"
          PROVE  Written(Q(u), Left(th[u].todo), th[u].rd)'
      <4>1. Q(u) \in Queues /\ Thread(Q(u)) = u /\ Id(Q(u)) \in Ids
        BY <1>0, <3>2 DEF Working, Ids
      <4>2. Id(Q(u)) # Id(q)
        BY <1>2, <3>2, <4>1 DEF Thread
      <4> QED
        BY <1>0, <1>1, <2>1, <2>3, <3>2, <4>1, <4>2 DEF Plans, Written, Q
    <3>3. ASSUME NEW u \in Threads, th[u].op \in {"stop", "undo"}
          PROVE  Emptied(Q(u), Left(th[u].todo))'
      BY <1>0, <1>1, <2>1, <3>3 DEF Plans, Emptied, Q
    <3> QED
      BY <1>0, <1>1, <3>1, <3>2, <3>3 DEF Plans, Q
  <2>9. Pointers' /\ FreshStart' /\ NothingPoints'
    BY <1>0, <1>1, <2>1 DEF Pointers, FreshStart, NothingPoints
  <2>10. Complete'
    <3>1. ASSUME NEW p \in Queues, state[p] = "started", Id(p) \notin Virtual
          PROVE  vec'[Id(p)][Dir(p)] = OwnVec
      <4>1. p # q /\ vec[Id(p)][Dir(p)] = OwnVec /\ Id(p) \in Ids
        BY <1>0, <1>5, <3>1 DEF Complete, Ids
      <4> QED
        BY <1>9, <2>2, <2>3, <2>7, <3>1, <4>1
    <3> QED
      BY <1>0, <1>1, <2>1, <3>1 DEF Complete
  <2> QED
    BY <2>4, <2>5, <2>6, <2>8, <2>9, <2>10 DEF CtxInv
<1>11. ASSUME s # "qid2vec" PROVE CtxInv'
  <2>1. vec' = vec /\ ctx' = [ctx EXCEPT ![q][s] = ring[q]] /\ s \in Own(q) /\ s \in Selects \ {"hw", "cr"}
    BY <1>2, <1>3, <1>6, <1>11 DEF HwWrite, IsVec, Content, Own, Selects
  <2>2. /\ ctx' \in [Queues -> [Selects -> Rings \cup {Cleared, Invalid, Used}]]
        /\ ctx'[q][s] = ring[q] /\ \A x \in Selects : x # s => ctx'[q][x] = ctx[q][x]
        /\ \A p \in Queues : p # q => ctx'[p] = ctx[p]
    BY <1>0, <1>2, <2>1 DEF TypeOK
  <2>3. TypeOK'
    BY <1>0, <1>1, <2>1, <2>2 DEF TypeOK
  <2>4. Working'
    BY <1>1, ThreadsStay
  <2>5. Register'
    BY <1>1, <1>2, CommandGone
  <2>6. Plans'
    <3>1. Written(q, left, th[t].rd)'
      <4>1. \A x \in Own(q) : x \in Selects
        BY DEF Own, Selects
      <4> QED
        BY <1>1, <1>6, <1>7, <1>11, <2>1, <2>2, <4>1 DEF Written, Q
    <3>2. ASSUME NEW u \in Threads, u # t, th[u].op # "idle" PROVE ctx'[Q(u)] = ctx[Q(u)]
      BY <1>0, <1>2, <2>2, <3>2 DEF Working
    <3> QED
      BY <1>0, <1>1, <1>4, <2>1, <3>1, <3>2 DEF Plans, Written, Emptied, Q
  <2>7. Pointers' /\ Complete' /\ NothingPoints'
    BY <1>0, <1>1, <1>5, <2>1, <2>2 DEF Pointers, Complete, NothingPoints
  <2>8. FreshStart'
    <3>1. ctx[q]["hw"] = Cleared /\ ctx[q]["cr"] = Cleared
      BY <1>6, <1>7 DEF Written
    <3> QED
      BY <1>0, <1>1, <2>1, <2>2, <3>1 DEF FreshStart, Selects
  <2> QED
    BY <2>3, <2>4, <2>5, <2>6, <2>7, <2>8 DEF CtxInv
<1> QED
  BY <1>10, <1>11

\* Nothing but the registers changes.
LEMMA RegisterOnly ==
  ASSUME CtxInv, Register', UNCHANGED <<state, ring, th, cpu, lock, ctx, vec>>
  PROVE  CtxInv'
<1>1. Working'
  BY ThreadsStay
<1>2. TypeOK' /\ Pointers' /\ FreshStart' /\ Complete' /\ NothingPoints'
  BY DEF CtxInv, TypeOK, Pointers, FreshStart, Complete, NothingPoints
<1>3. Plans'
  BY DEF CtxInv, Plans, Written, Emptied, Q
<1> QED
  BY <1>1, <1>2, <1>3 DEF CtxInv

\* A write does not reach its context.
LEMMA HwLoseInv ==
  ASSUME CtxInv, HwLose
  PROVE  CtxInv'
<1>1. cmd.op = "WR" /\ cmd' = NoCmd /\ cmd # NoCmd /\ UNCHANGED <<state, ring, th, cpu, lock, data, ctx, vec>>
  BY NoneWaits DEF HwLose, hardware
<1>2. PICK t \in Threads : lock = t /\ th[t].stage = "wait" /\ Cmd(t).op = "WR"
  BY <1>1, CommandOf
<1>3. Register'
  BY <1>1, <1>2, CommandGone
<1> QED
  BY <1>1, <1>3, RegisterOnly

\* A read puts the context into the data register.
LEMMA HwReadInv ==
  ASSUME CtxInv, HwRead
  PROVE  CtxInv'
<1>1. /\ cmd.op = "RD" /\ cmd' = NoCmd /\ cmd # NoCmd /\ data' = Stored
      /\ UNCHANGED <<state, ring, th, cpu, lock, ctx, vec>>
  BY NoneWaits DEF HwRead, hardware
<1>2. PICK t \in Threads :
        /\ lock = t /\ th[t].stage \in {"wait", "verify"}
        /\ th[t].stage = "wait" => Cmd(t).op = "RD"
        /\ cmd.sel = Cmd(t).sel /\ cmd.q = Q(t)
  BY <1>1, CommandOf
<1>3. data' = IF Cmd(t).sel = "qid2vec" THEN vec'[Id(Q(t))] ELSE ctx'[Q(t)][Cmd(t).sel]
  BY <1>1, <1>2 DEF Stored, IsVec
<1>4. /\ th[t].stage = "wait" /\ Cmd(t).op = "WR" => data' = data
      /\ th[t].stage = "wait" /\ Cmd(t).op = "CLR" => ctx'[Q(t)][Cmd(t).sel] = Cleared
      /\ th[t].stage = "wait" /\ Cmd(t).op = "INV" => ctx'[Q(t)][Cmd(t).sel] = Invalid
  BY <1>2
<1>5. Register'
  BY <1>1, <1>2, <1>3, <1>4, CommandGone
<1> QED
  BY <1>1, <1>5, RegisterOnly

\* A context is cleared or invalidated.
LEMMA HwClearInv ==
  ASSUME CtxInv, HwClear
  PROVE  CtxInv'
<1>0. TypeOK /\ Working /\ Register /\ Plans /\ Pointers /\ FreshStart /\ Complete /\ NothingPoints
  BY DEF CtxInv
<1>1. /\ cmd.op \in {"CLR", "INV"} /\ cmd' = NoCmd /\ cmd # NoCmd
      /\ UNCHANGED <<state, ring, th, cpu, lock, data, vec>>
  BY NoneWaits DEF HwClear
<1>2. PICK t \in Threads :
        /\ lock = t /\ th[t].stage = "wait" /\ th[t].op \in {"start", "stop", "undo", "dump"}
        /\ cmd.op = Cmd(t).op /\ cmd.sel = Cmd(t).sel /\ cmd.q = Q(t)
        /\ Cmd(t) \in Left(th[t].todo) /\ Cmd(t) = Command(Cmd(t).op, Cmd(t).sel)
        /\ Q(t) \in Queues /\ Thread(Q(t)) = t
  BY <1>1, CommandOf
<1> DEFINE q == Q(t)
           s == Cmd(t).sel
           left == Left(th[t].todo)
           to == IF Cmd(t).op = "CLR" THEN Cleared ELSE Invalid
<1>3. th[t].op \in {"start", "stop", "undo"}
  BY <1>0, <1>1, <1>2 DEF Plans
<1>4. state[q] \in {"starting", "stopping"}
  BY <1>0, <1>2, <1>3 DEF Working
<1>5. /\ th[t].op = "start" => /\ StartPlan(q, th[t].todo) /\ Written(q, left, th[t].rd)
                               /\ \A x \in Own(q) : Command("WR", x) \in left
      /\ th[t].op # "start" => ClearPlan(th[t].todo) /\ Emptied(q, left)
      /\ s \in Selects /\ (Cmd(t).op = "INV" => s = "sw")
  BY <1>0, <1>1, <1>2, <1>3 DEF Plans, StartPlan, ClearPlan
<1>6. to \in {Cleared, Invalid} /\ to \notin Rings /\ Cleared \notin Rings
  BY RingsAssumption
<1>7. ctx' = [ctx EXCEPT ![q][s] = to]
  BY <1>2 DEF HwClear
<1>8. /\ ctx' \in [Queues -> [Selects -> Rings \cup {Cleared, Invalid, Used}]]
      /\ ctx'[q][s] = to /\ \A x \in Selects : x # s => ctx'[q][x] = ctx[q][x]
      /\ \A p \in Queues : p # q => ctx'[p] = ctx[p]
  BY <1>0, <1>2, <1>5, <1>6, <1>7 DEF TypeOK
<1>9. TypeOK'
  BY <1>0, <1>1, <1>8 DEF TypeOK
<1>10. Working'
  BY <1>1, ThreadsStay
<1>11. Register'
  <2>1. /\ Cmd(t).op = "CLR" => ctx'[Q(t)][Cmd(t).sel] = Cleared
        /\ Cmd(t).op = "INV" => ctx'[Q(t)][Cmd(t).sel] = Invalid
    BY <1>8
  <2> QED
    BY <1>1, <1>2, <2>1, CommandGone
<1>12. \A x \in Own(q) \cup {"hw", "cr"} : x \in Selects
  BY DEF Own, Selects
<1>13. Plans'
  <2>1. ASSUME th[t].op = "start" PROVE Written(q, left, th[t].rd)'
    <3>1. ASSUME NEW x \in {"hw", "cr"}, Command("CLR", x) \notin left PROVE ctx'[q][x] = Cleared
      <4>1. x # s
        BY <1>1, <1>2, <1>5, <3>1
      <4> QED
        BY <1>5, <1>8, <1>12, <2>1, <3>1, <4>1 DEF Written
    <3> QED
      BY <1>1, <1>5, <2>1, <3>1 DEF Written, Q
  <2>2. ASSUME th[t].op \in {"stop", "undo"} PROVE Emptied(q, left)'
    <3>1. \A x \in Own(q) : x # s => ctx'[q][x] = ctx[q][x]
      BY <1>8, <1>12
    <3> QED
      BY <1>1, <1>5, <1>6, <1>8, <2>2, <3>1 DEF Emptied, Q
  <2>3. ASSUME NEW u \in Threads, u # t, th[u].op # "idle" PROVE ctx'[Q(u)] = ctx[Q(u)]
    BY <1>0, <1>2, <1>8, <2>3 DEF Working
  <2> QED
    BY <1>0, <1>1, <1>3, <2>1, <2>2, <2>3 DEF Plans, Written, Emptied, Q
<1>14. Pointers' /\ Complete' /\ NothingPoints'
  BY <1>0, <1>1, <1>4, <1>6, <1>8 DEF Pointers, Complete, NothingPoints
<1>15. FreshStart'
  <2>1. ASSUME NEW p \in Queues, state[p] = "starting", ctx'[p]["sw"] \in Rings
        PROVE  ctx'[p]["hw"] = Cleared /\ ctx'[p]["cr"] = Cleared
    <3>1. CASE p # q
      BY <1>0, <1>8, <2>1, <3>1 DEF FreshStart
    <3>2. CASE p = q
      <4>1. s # "sw" /\ Cmd(t).op = "CLR" /\ {"sw", "hw", "cr"} \subseteq Selects
        BY <1>1, <1>2, <1>5, <1>6, <1>8, <2>1, <3>2 DEF Selects
      <4>2. ctx[q]["hw"] = Cleared /\ ctx[q]["cr"] = Cleared
        BY <1>0, <1>2, <1>8, <2>1, <3>2, <4>1 DEF FreshStart
      <4> QED
        BY <1>8, <3>2, <4>1, <4>2
    <3> QED
      BY <3>1, <3>2
  <2> QED
    BY <1>1, <2>1 DEF FreshStart
<1> QED
  BY <1>9, <1>10, <1>11, <1>13, <1>14, <1>15 DEF CtxInv

\* A queue that runs keeps its state in its contexts.
LEMMA HwRunsInv ==
  ASSUME CtxInv, NEW q \in Queues, HwRuns(q)
  PROVE  CtxInv'
<1>0. TypeOK /\ Working /\ Register /\ Plans /\ Pointers /\ FreshStart /\ Complete /\ NothingPoints
  BY DEF CtxInv
<1>1. /\ state[q] = "started" /\ ctx' = [ctx EXCEPT ![q]["hw"] = Used, ![q]["cr"] = Used]
      /\ UNCHANGED <<state, ring, th, cpu, lock, data, cmd, vec>>
  BY DEF HwRuns, registers
<1>2. /\ ctx' \in [Queues -> [Selects -> Rings \cup {Cleared, Invalid, Used}]]
      /\ ctx'[q]["hw"] = Used /\ ctx'[q]["cr"] = Used
      /\ \A x \in Selects \ {"hw", "cr"} : ctx'[q][x] = ctx[q][x]
      /\ \A p \in Queues : p # q => ctx'[p] = ctx[p]
  BY <1>0, <1>1 DEF TypeOK, Selects
<1>3. Used \notin Rings
  BY RingsAssumption
<1>4. TypeOK'
  BY <1>0, <1>1, <1>2 DEF TypeOK
<1>5. Working'
  BY <1>1, ThreadsStay
<1>6. ASSUME NEW t \in Threads, th[t].op \in {"start", "stop", "undo"} PROVE Q(t) # q /\ ctx'[Q(t)] = ctx[Q(t)]
  <2>1. Q(t) \in Queues /\ Thread(Q(t)) = t
    BY <1>0, <1>6 DEF Working
  <2>2. state[Q(t)] \in {"starting", "stopping"}
    BY <1>0, <1>6, <2>1 DEF Working
  <2> QED
    BY <1>1, <1>2, <2>1, <2>2
<1>7. \A p \in Queues : \A x \in Own(p) : x \in Selects \ {"hw", "cr"} /\ ctx'[p][x] = ctx[p][x]
  BY <1>2 DEF Own, Selects
<1>8. Register'
  <2>1. ASSUME NEW t \in Threads, th[t].stage # "lock"
        PROVE  /\ Cmd(t) \in Commands /\ Q(t) \in Queues
               /\ Cmd(t).op \in {"CLR", "INV"} => ctx'[Q(t)] = ctx[Q(t)]
    <3>1. Cmd(t) \in Commands /\ Q(t) \in Queues /\ th[t].op # "idle" /\ Cmd(t) \in Left(th[t].todo)
      BY <2>1, OneHolder
    <3>2. th[t].op \in {"start", "stop", "undo", "dump"}
      BY <1>0, <3>1 DEF Working
    <3>3. th[t].op = "dump" => Cmd(t).op = "RD"
      BY <1>0, <3>1 DEF Plans
    <3> QED
      BY <1>6, <3>1, <3>2, <3>3
  <2>2. OwnAnswer'
    <3>1. \A t \in Threads : th[t].stage # "lock" /\ Cmd(t).sel \notin {"hw", "cr", "qid2vec"} =>
            ctx'[Q(t)][Cmd(t).sel] = ctx[Q(t)][Cmd(t).sel]
      BY <1>2, <2>1 DEF Commands
    <3> QED
      BY <1>0, <1>1, <3>1 DEF Register, OwnAnswer, Cmd, Q
  <2>3. \A t \in Threads : /\ Cmd(t)' = Cmd(t) /\ Content(t)' = Content(t) /\ Q(t)' = Q(t)
                           /\ Pending(t)' = Pending(t) /\ th'[t] = th[t]
    BY <1>1 DEF Cmd, Content, Vectors, Q, Pending
  <2>4. \A t \in Threads :
          /\ th[t].stage # "lock" <=> lock = t
          /\ th[t].stage = "verify" => Cmd(t).op = "WR"
          /\ th[t].stage \in {"cmd", "wait"} /\ Cmd(t).op = "WR" => data = Content(t)
          /\ th[t].stage = "wait" /\ cmd = NoCmd =>
               /\ Cmd(t).op = "CLR" => ctx'[Q(t)][Cmd(t).sel] = Cleared
               /\ Cmd(t).op = "INV" => ctx'[Q(t)][Cmd(t).sel] = Invalid
    BY <1>0, <2>1 DEF Register
  <2>5. cmd # NoCmd =>
          \E t \in Threads : lock = t /\ th[t].stage \in {"wait", "verify"} /\ cmd = Pending(t)
    BY <1>0 DEF Register
  <2>6. cmd' = cmd /\ lock' = lock /\ data' = data
    BY <1>1
  <2>7. \A t \in Threads :
          /\ th'[t].stage # "lock" <=> lock' = t
          /\ th'[t].stage = "verify" => Cmd(t)'.op = "WR"
          /\ th'[t].stage \in {"cmd", "wait"} /\ Cmd(t)'.op = "WR" => data' = Content(t)'
          /\ th'[t].stage = "wait" /\ cmd' = NoCmd =>
               /\ Cmd(t)'.op = "CLR" => ctx'[Q(t)'][Cmd(t)'.sel] = Cleared
               /\ Cmd(t)'.op = "INV" => ctx'[Q(t)'][Cmd(t)'.sel] = Invalid
    BY <2>3, <2>4, <2>6
  <2>8. cmd' # NoCmd =>
          \E t \in Threads : lock' = t /\ th'[t].stage \in {"wait", "verify"} /\ cmd' = Pending(t)'
    BY <2>3, <2>5, <2>6
  <2> QED
    BY <2>2, <2>7, <2>8 DEF Register
<1>9. Plans'
  <2>1. ASSUME NEW t \in Threads, th[t].op = "start"
        PROVE  Written(Q(t), Left(th[t].todo), th[t].rd)'
    <3>1. Written(Q(t), Left(th[t].todo), th[t].rd) /\ ctx'[Q(t)] = ctx[Q(t)]
      BY <1>0, <1>6, <2>1 DEF Plans
    <3> QED
      BY <1>1, <3>1 DEF Written, Q
  <2>2. ASSUME NEW t \in Threads, th[t].op \in {"stop", "undo"}
        PROVE  Emptied(Q(t), Left(th[t].todo))'
    <3>1. Emptied(Q(t), Left(th[t].todo)) /\ ctx'[Q(t)] = ctx[Q(t)]
      BY <1>0, <1>6, <2>2 DEF Plans
    <3> QED
      BY <1>1, <3>1 DEF Emptied, Q
  <2>3. ASSUME NEW t \in Threads
        PROVE  /\ th'[t] = th[t] /\ Q(t)' = Q(t)
               /\ th[t].op = "start" => StartPlan(Q(t), th[t].todo)
               /\ th[t].op \in {"stop", "undo"} => ClearPlan(th[t].todo)
               /\ th[t].op = "dump" => \A c \in Left(th[t].todo) : c.op = "RD"
    BY <1>0, <1>1 DEF Plans, Q
  <2> QED
    BY <2>1, <2>2, <2>3 DEF Plans
<1>10. Pointers' /\ FreshStart' /\ Complete' /\ NothingPoints'
  <2>1. Pointers'
    BY <1>0, <1>2, <1>3 DEF Pointers
  <2>2. FreshStart'
    BY <1>0, <1>1, <1>2 DEF FreshStart
  <2>3. Complete' /\ NothingPoints'
    BY <1>0, <1>1, <1>2, <1>7 DEF Complete, NothingPoints
  <2> QED
    BY <2>1, <2>2, <2>3
<1> QED
  BY <1>4, <1>5, <1>8, <1>9, <1>10 DEF CtxInv

-----------------------------------------------------------------------------
(* The theorems.                                                           *)

\* Before anything was done all contexts are clear.
LEMMA InitInv ==
  ASSUME Init
  PROVE  CtxInv
<1>1. /\ \A q \in Queues : state[q] = "stopped" /\ \A s \in Selects : ctx[q][s] = Cleared
      /\ \A t \in Threads : th[t] = Idle
      /\ lock = "free" /\ cmd = NoCmd
  BY DEF Init
<1>2. /\ Idle.op = "idle" /\ Idle.q = <<>> /\ Idle.todo = <<>> /\ Idle.stage = "lock" /\ Idle.rd = NoVecs
      /\ NoVecs \in [Dirs -> {0, OwnVec}]
      /\ Idle \in [op : {"idle", "start", "stop", "undo", "dump"}, q : Queues \cup {<<>>},
                   todo : Seq(Commands), stage : {"lock", "cmd", "wait", "verify"},
                   rd : [Dirs -> {0, OwnVec}]]
  BY DEF Idle, Task, NoVecs
<1>3. \A q \in Queues : Thread(q) \in Threads
  BY DEF Thread, Threads
<1>4. Cleared \notin Rings
  BY RingsAssumption
<1>5. TypeOK
  BY <1>1, <1>2 DEF Init, TypeOK
<1>6. Working
  BY <1>1, <1>2, <1>3 DEF Init, Working
<1>7. Register
  BY <1>1, <1>2 DEF Register, OwnAnswer, Threads
<1>8. Plans
  BY <1>1, <1>2 DEF Plans
<1>9. Pointers /\ FreshStart /\ Complete /\ NothingPoints
  BY <1>1, <1>4 DEF Pointers, FreshStart, Complete, NothingPoints
<1> QED
  BY <1>5, <1>6, <1>7, <1>8, <1>9 DEF CtxInv

\* Every step keeps the invariant.
LEMMA StepInv ==
  ASSUME ClearsSucceed, ReadsSucceed, CtxInv, [Next]_vars
  PROVE  CtxInv'
<1>1. ASSUME NEW q \in Queues, Start(q) PROVE CtxInv'
  BY <1>1, StartInv
<1>2. ASSUME NEW q \in Queues, Stop(q) PROVE CtxInv'
  BY <1>2, StopInv
<1>3. ASSUME NEW q \in Queues, Dump(q) PROVE CtxInv'
  BY <1>3, DumpInv
<1>4. ASSUME NEW q \in Queues, HwRuns(q) PROVE CtxInv'
  BY <1>4, HwRunsInv
<1>5. ASSUME NEW t \in Threads, Step(t) PROVE CtxInv'
  <2>1. CASE Write(t)
    BY <2>1, WriteInv
  <2>2. CASE Issue(t)
    BY <2>2, IssueInv
  <2>3. CASE ReadBack(t)
    BY <2>3, ReadBackInv
  <2>4. CASE Done(t)
    BY <2>4, DoneInv
  <2>5. CASE Mismatch(t) \/ Timeout(t)
    BY <2>5, FailInv
  <2> QED
    BY <1>5, <2>1, <2>2, <2>3, <2>4, <2>5 DEF Step
<1>6. CASE HwCommand
  BY <1>6, HwWriteInv, HwLoseInv, HwReadInv, HwClearInv DEF HwCommand
<1>7. CASE UNCHANGED vars
  <2>1. UNCHANGED <<state, ring, th, cpu, lock, data, cmd, ctx, vec>>
    BY <1>7 DEF vars, registers, hardware
  <2>2. Register'
    BY <2>1 DEF CtxInv, Register, OwnAnswer, Cmd, Q, Content, Vectors, Pending
  <2> QED
    BY <2>1, <2>2, RegisterOnly
<1> QED
  BY <1>1, <1>2, <1>3, <1>4, <1>5, <1>6, <1>7 DEF Next

\* The inductive invariant holds: whatever the two threads do to their queues
\* through the one register, each command finds what those before it left.
THEOREM ContextsInvariant ==
  ASSUME ClearsSucceed, ReadsSucceed
  PROVE  Spec => []CtxInv
<1>1. Init => CtxInv
  BY InitInv
<1>2. CtxInv /\ [Next]_vars => CtxInv'
  BY StepInv
<1> QED
  BY <1>1, <1>2, PTL DEF Spec

\* A queue that was started has its contexts, all of them, and keeps them
\* whatever happens to other queues or on the other thread; it started without
\* remains, and each thread got its own answers.
THEOREM ProgrammedCorrect ==
  ASSUME ClearsSucceed, ReadsSucceed
  PROVE  Spec => []Programmed
<1>1. CtxInv => Programmed
  BY DEF CtxInv, Register, Complete, Own, Programmed
<1> QED
  BY <1>1, ContextsInvariant, PTL

\* A queue that is stopped, or whose start failed at any command, has no
\* context that points to the rings the driver frees.
THEOREM NothingPointsCorrect ==
  ASSUME ClearsSucceed, ReadsSucceed
  PROVE  Spec => []NothingPoints
<1>1. CtxInv => NothingPoints
  BY DEF CtxInv
<1> QED
  BY <1>1, ContextsInvariant, PTL
=============================================================================
