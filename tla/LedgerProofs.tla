---------------------------- MODULE LedgerProofs ----------------------------
(***************************************************************************)
(* What a reader can rely on, for any capacity of the transition channel   *)
(* and any number of rows: the gaps in the numbers are exactly the rows    *)
(* lost, a snapshot shows the cut of the row it is stamped with, and rows  *)
(* with consecutive numbers chain.                                         *)
(*                                                                         *)
(* The argument is one about the sequence of the rows read and queued,     *)
(* which is appended to, passed on, cut off or aged: the numbers given out *)
(* and not lost are in it once and ascending (Accounted); and while no row *)
(* waits to be emitted, the row with the last number shows the cut of the  *)
(* twin (LastRowShowsCut), so that a snapshot taken then agrees with it.   *)
(* A hop to be emitted follows the row with the last number (HopsChain),   *)
(* because the zones write no field but those of their event (ZoneWrites). *)
(***************************************************************************)
EXTENDS Ledger, DigitalTwinProofs

-----------------------------------------------------------------------------
(* Sequences of rows.                                                       *)

\* A sequence, of whatever elements.
IsQueue(q) == \E S : q \in Seq(S)

\* What of a hop, and of a row, the argument looks at.
IsHop(h) == {"mode", "ctx"} \subseteq DOMAIN h
IsRow(r) == IsHop(r) /\ "seq" \in DOMAIN r

\* Of the numbers before next, the rows q carry those not in gone, ascending.
Accounted(q, gone, next) ==
  /\ \A i, j \in DOMAIN q : i < j => q[i].seq < q[j].seq
  /\ {q[i].seq : i \in DOMAIN q} \intersect gone = {}
  /\ {q[i].seq : i \in DOMAIN q} \union gone = 1..(next - 1)

\* The shape of a queue, of an extended one and of the rest of one.
LEMMA QueueShape ==
  ASSUME NEW q, IsQueue(q)
  PROVE  /\ Len(q) \in Nat /\ DOMAIN q = 1..Len(q)
         /\ \A x : LET t == Append(q, x) IN
              /\ IsQueue(t) /\ Len(t) = Len(q) + 1 /\ DOMAIN t = 1..(Len(q) + 1)
              /\ \A i \in 1..Len(q) : t[i] = q[i]
              /\ t[Len(q) + 1] = x
         /\ q # << >> => LET t == Tail(q) IN
              /\ IsQueue(t) /\ Len(q) \in Nat \ {0} /\ Len(t) = Len(q) - 1
              /\ DOMAIN t = 1..(Len(q) - 1) /\ Head(q) = q[1]
              /\ \A i \in 1..(Len(q) - 1) : t[i] = q[i + 1]
<1>1. PICK S : q \in Seq(S)
  BY DEF IsQueue
<1>2. Len(q) \in Nat /\ DOMAIN q = 1..Len(q)
  BY <1>1, LenProperties
<1>3. ASSUME NEW x
      PROVE  LET t == Append(q, x) IN
              /\ IsQueue(t) /\ Len(t) = Len(q) + 1 /\ DOMAIN t = 1..(Len(q) + 1)
              /\ \A i \in 1..Len(q) : t[i] = q[i]
              /\ t[Len(q) + 1] = x
  <2> DEFINE T == S \union {x}
             t == Append(q, x)
  <2>1. q \in Seq(T) /\ x \in T
    BY <1>1, SeqMonotonic
  <2> HIDE DEF T
  <2>2. /\ t \in Seq(T) /\ Len(t) = Len(q) + 1
        /\ \A i \in 1..Len(q) : t[i] = q[i]
        /\ t[Len(q) + 1] = x
    BY <2>1, AppendProperties
  <2> HIDE DEF t
  <2>3. DOMAIN t = 1..(Len(q) + 1) /\ IsQueue(t)
    BY <2>2, LenProperties DEF IsQueue
  <2>4. QED
    BY <2>2, <2>3 DEF t
<1>4. ASSUME q # << >>
      PROVE  LET t == Tail(q) IN
              /\ IsQueue(t) /\ Len(q) \in Nat \ {0} /\ Len(t) = Len(q) - 1
              /\ DOMAIN t = 1..(Len(q) - 1) /\ Head(q) = q[1]
              /\ \A i \in 1..(Len(q) - 1) : t[i] = q[i + 1]
  <2> DEFINE t == Tail(q)
  <2>1. /\ t \in Seq(S) /\ Len(t) = Len(q) - 1
        /\ \A i \in 1..Len(t) : t[i] = q[i + 1]
        /\ Len(q) \in Nat \ {0} /\ Head(q) = q[1]
    BY <1>1, <1>4, HeadTailProperties, EmptySeq
  <2> HIDE DEF t
  <2>2. DOMAIN t = 1..(Len(q) - 1) /\ IsQueue(t)
    BY <2>1, LenProperties DEF IsQueue
  <2>3. QED
    BY <2>1, <2>2 DEF t
<1>5. QED
  BY <1>2, <1>3, <1>4

\* The shape of two queues in a row.
LEMMA ConcatShape ==
  ASSUME NEW s, NEW t, IsQueue(s), IsQueue(t)
  PROVE  /\ IsQueue(s \o t) /\ Len(s \o t) = Len(s) + Len(t)
         /\ DOMAIN (s \o t) = 1..(Len(s) + Len(t))
         /\ \A i \in 1..Len(s) : (s \o t)[i] = s[i]
         /\ \A i \in (Len(s) + 1)..(Len(s) + Len(t)) : (s \o t)[i] = t[i - Len(s)]
<1>1. PICK S : s \in Seq(S)
  BY DEF IsQueue
<1>2. PICK T : t \in Seq(T)
  BY DEF IsQueue
<1> DEFINE U == S \union T
           u == s \o t
<1>3. s \in Seq(U) /\ t \in Seq(U)
  BY <1>1, <1>2, SeqMonotonic
<1> HIDE DEF U
<1>4. /\ u \in Seq(U) /\ Len(u) = Len(s) + Len(t)
      /\ \A i \in 1..(Len(s) + Len(t)) : u[i] = IF i <= Len(s) THEN s[i] ELSE t[i - Len(s)]
      /\ Len(s) \in Nat /\ Len(t) \in Nat
  BY <1>3, ConcatProperties, LenProperties
<1> HIDE DEF u
<1>5. DOMAIN u = 1..(Len(s) + Len(t)) /\ IsQueue(u)
  BY <1>4, LenProperties DEF IsQueue
<1>6. \A i \in 1..Len(s) : u[i] = s[i]
  BY <1>4
<1>7. \A i \in (Len(s) + 1)..(Len(s) + Len(t)) : u[i] = t[i - Len(s)]
  BY <1>4
<1>8. QED
  BY <1>4, <1>5, <1>6, <1>7 DEF u

\* Two queues with the same elements are the same.
LEMMA SameQueue ==
  ASSUME NEW s, NEW t, IsQueue(s), IsQueue(t), Len(s) = Len(t),
         \A i \in 1..Len(s) : s[i] = t[i]
  PROVE  s = t
<1>1. PICK S : s \in Seq(S)
  BY DEF IsQueue
<1>2. PICK T : t \in Seq(T)
  BY DEF IsQueue
<1>3. s \in Seq(S \union T) /\ t \in Seq(S \union T)
  BY <1>1, <1>2, SeqMonotonic
<1>4. QED
  BY <1>3, SeqEqual

\* Where the border between two queues lies does not matter.
LEMMA Regrouped ==
  ASSUME NEW s, NEW t, NEW a, NEW b,
         IsQueue(s), IsQueue(t), IsQueue(a), IsQueue(b),
         Len(a) = Len(s) + 1, \A i \in 1..Len(s) : a[i] = s[i],
         Len(b) = Len(t) - 1, \A i \in 1..(Len(t) - 1) : b[i] = t[i + 1],
         Len(t) # 0, a[Len(s) + 1] = t[1]
  PROVE  a \o b = s \o t
<1> DEFINE u == s \o t
           v == a \o b
<1>1. Len(s) \in Nat /\ Len(t) \in Nat \ {0}
  BY QueueShape
<1>2. /\ IsQueue(v) /\ Len(v) = Len(a) + Len(b)
      /\ \A i \in 1..Len(a) : v[i] = a[i]
      /\ \A i \in (Len(a) + 1)..(Len(a) + Len(b)) : v[i] = b[i - Len(a)]
  <2>1. IsQueue(a) /\ IsQueue(b)
    OBVIOUS
  <2>2. QED
    BY ONLY <2>1, ConcatShape
<1>3. /\ IsQueue(u) /\ Len(u) = Len(s) + Len(t)
      /\ \A i \in 1..Len(s) : u[i] = s[i]
      /\ \A i \in (Len(s) + 1)..(Len(s) + Len(t)) : u[i] = t[i - Len(s)]
  <2>1. IsQueue(s) /\ IsQueue(t)
    OBVIOUS
  <2>2. QED
    BY ONLY <2>1, ConcatShape
<1> HIDE DEF u, v
<1>4. Len(v) = Len(u)
  BY <1>1, <1>2, <1>3
<1>5. \A i \in 1..Len(v) : v[i] = u[i]
  <2> TAKE i \in 1..Len(v)
  <2>1. CASE i <= Len(s)
    BY <1>1, <1>2, <1>3, <2>1
  <2>2. CASE i = Len(s) + 1
    BY <1>1, <1>2, <1>3, <2>2
  <2>3. CASE i > Len(s) + 1
    <3> DEFINE j == i - Len(a)
    <3>1. /\ i \in (Len(a) + 1)..(Len(a) + Len(b)) /\ j \in 1..(Len(t) - 1)
          /\ i \in (Len(s) + 1)..(Len(s) + Len(t)) /\ i - Len(s) = j + 1
      BY <1>1, <1>2, <2>3
    <3>2. v[i] = b[j] /\ u[i] = t[i - Len(s)]
      BY <1>2, <1>3, <3>1
    <3> HIDE DEF j
    <3>3. QED
      BY <3>1, <3>2
  <2>4. QED
    BY <1>1, <2>1, <2>2, <2>3
<1>6. u = v
  BY <1>2, <1>3, <1>4, <1>5, SameQueue
<1>7. QED
  BY <1>6 DEF u, v

\* A row that passes from the channel to the reader changes nothing of the whole.
LEMMA PassingOn ==
  ASSUME NEW s, NEW t, IsQueue(s), IsQueue(t), t # << >>
  PROVE  /\ IsQueue(Append(s, Head(t))) /\ IsQueue(Tail(t))
         /\ Append(s, Head(t)) \o Tail(t) = s \o t
<1> DEFINE a == Append(s, Head(t))
           b == Tail(t)
<1>1. /\ IsQueue(a) /\ Len(a) = Len(s) + 1
      /\ \A i \in 1..Len(s) : a[i] = s[i]
      /\ a[Len(s) + 1] = t[1]
      /\ IsQueue(b) /\ Len(b) = Len(t) - 1 /\ Len(t) # 0
      /\ \A i \in 1..(Len(t) - 1) : b[i] = t[i + 1]
  BY QueueShape
<1> HIDE DEF a, b
<1>2. a \o b = s \o t
  BY <1>1, Regrouped
<1>3. QED
  BY <1>1, <1>2 DEF a, b

\* A row that is queued comes last in the whole.
LEMMA Queueing ==
  ASSUME NEW s, NEW t, NEW row, IsQueue(s), IsQueue(t)
  PROVE  IsQueue(Append(t, row)) /\ s \o Append(t, row) = Append(s \o t, row)
<1> DEFINE b == Append(t, row)
           u == s \o t
           v == s \o b
           w == Append(u, row)
<1>1. /\ IsQueue(b) /\ Len(b) = Len(t) + 1 /\ Len(s) \in Nat /\ Len(t) \in Nat
      /\ \A i \in 1..Len(t) : b[i] = t[i]
      /\ b[Len(t) + 1] = row
  BY QueueShape
<1> HIDE DEF b
<1>2. /\ IsQueue(v) /\ Len(v) = Len(s) + Len(b)
      /\ \A i \in 1..Len(s) : v[i] = s[i]
      /\ \A i \in (Len(s) + 1)..(Len(s) + Len(b)) : v[i] = b[i - Len(s)]
  BY <1>1, ConcatShape
<1>3. /\ IsQueue(u) /\ Len(u) = Len(s) + Len(t)
      /\ \A i \in 1..Len(s) : u[i] = s[i]
      /\ \A i \in (Len(s) + 1)..(Len(s) + Len(t)) : u[i] = t[i - Len(s)]
  <2>1. IsQueue(s) /\ IsQueue(t)
    OBVIOUS
  <2>2. QED
    BY ONLY <2>1, ConcatShape
<1> HIDE DEF u, v
<1>4. /\ IsQueue(w) /\ Len(w) = Len(u) + 1
      /\ \A i \in 1..Len(u) : w[i] = u[i]
      /\ w[Len(u) + 1] = row
  <2>1. \A q, x : IsQueue(q) =>
          /\ IsQueue(Append(q, x)) /\ Len(Append(q, x)) = Len(q) + 1
          /\ \A i \in 1..Len(q) : Append(q, x)[i] = q[i]
          /\ Append(q, x)[Len(q) + 1] = x
    BY QueueShape
  <2>2. IsQueue(u)
    BY <1>3
  <2>3. QED
    BY <2>1, <2>2, Zenon
<1> HIDE DEF w
<1>5. \A i \in 1..Len(v) : v[i] = w[i]
  <2> TAKE i \in 1..Len(v)
  <2>1. CASE i <= Len(s)
    BY <1>1, <1>2, <1>3, <1>4, <2>1
  <2>2. CASE i > Len(s)
    <3> DEFINE j == i - Len(s)
    <3>1. j \in 1..(Len(t) + 1) /\ i = Len(s) + j /\ i - Len(s) = j
      BY <1>1, <1>2, <2>2
    <3>2. v[i] = b[j]
      BY <1>1, <1>2, <2>2
    <3> HIDE DEF j
    <3>3. CASE j \in 1..Len(t)
      <4>1. i \in (Len(s) + 1)..(Len(s) + Len(t)) /\ i \in 1..Len(u)
        BY <1>1, <1>3, <3>1, <3>3
      <4>2. w[i] = u[i] /\ u[i] = t[i - Len(s)] /\ b[j] = t[j]
        BY <1>1, <1>3, <1>4, <3>3, <4>1
      <4>3. QED
        BY <3>1, <3>2, <4>2
    <3>4. CASE j = Len(t) + 1
      <4>1. i = Len(u) + 1
        BY <1>1, <1>3, <3>1, <3>4
      <4>2. QED
        BY <1>1, <1>4, <3>2, <3>4, <4>1
    <3>5. QED
      BY <1>1, <3>1, <3>3, <3>4
  <2>3. QED
    BY <1>1, <2>1, <2>2
<1>6. v = w
  <2>1. Len(v) = Len(w)
    BY <1>1, <1>2, <1>3, <1>4
  <2>2. QED
    BY <1>2, <1>4, <1>5, <2>1, SameQueue, Zenon
<1>7. QED
  BY <1>1, <1>6 DEF b, u, v, w

-----------------------------------------------------------------------------
(* The numbers.                                                             *)

\* A row with the next number keeps the account.
LEMMA AccountAppend ==
  ASSUME NEW q, NEW gone, NEW next \in Nat \ {0}, NEW row,
         IsQueue(q), Accounted(q, gone, next), row.seq = next
  PROVE  Accounted(Append(q, row), gone, next + 1)
<1> DEFINE t == Append(q, row)
<1>1. /\ Len(q) \in Nat /\ DOMAIN q = 1..Len(q) /\ DOMAIN t = 1..(Len(q) + 1)
      /\ \A i \in 1..Len(q) : t[i] = q[i]
      /\ t[Len(q) + 1] = row
  BY QueueShape
<1> HIDE DEF t
<1>2. \A i \in DOMAIN q : q[i].seq \in 1..(next - 1)
  BY DEF Accounted
<1>3. {t[i].seq : i \in DOMAIN t} = {q[i].seq : i \in DOMAIN q} \union {next}
  BY <1>1
<1>4. \A i, j \in DOMAIN t : i < j => t[i].seq < t[j].seq
  <2> TAKE i, j \in DOMAIN t
  <2> HAVE i < j
  <2>1. i \in 1..Len(q) /\ (j \in 1..Len(q) \/ j = Len(q) + 1)
    BY <1>1
  <2>2. CASE j \in 1..Len(q)
    BY <1>1, <2>1, <2>2 DEF Accounted
  <2>3. CASE j = Len(q) + 1
    BY <1>1, <1>2, <2>1, <2>3
  <2>4. QED
    BY <2>1, <2>2, <2>3
<1>5. next \notin gone /\ gone \subseteq 1..(next - 1)
  BY DEF Accounted
<1>6. 1..((next + 1) - 1) = 1..(next - 1) \union {next}
  OBVIOUS
<1>7. QED
  BY <1>3, <1>4, <1>5, <1>6 DEF Accounted, t

\* So does the loss of the row with the next number.
LEMMA AccountLoss ==
  ASSUME NEW q, NEW gone, NEW next \in Nat \ {0}, Accounted(q, gone, next)
  PROVE  Accounted(q, gone \union {next}, next + 1)
<1>1. 1..((next + 1) - 1) = 1..(next - 1) \union {next}
  OBVIOUS
<1>2. next \notin {q[i].seq : i \in DOMAIN q}
  <2>1. {q[i].seq : i \in DOMAIN q} \subseteq 1..(next - 1)
    BY DEF Accounted
  <2>2. QED
    BY <2>1
<1>3. QED
  BY <1>1, <1>2 DEF Accounted

\* And the loss of all the rows still in the channel.
LEMMA AccountCut ==
  ASSUME NEW s, NEW t, NEW gone, NEW next, IsQueue(s), IsQueue(t),
         Accounted(s \o t, gone, next)
  PROVE  Accounted(s, gone \union {t[i].seq : i \in DOMAIN t}, next)
<1> DEFINE u == s \o t
<1>1. /\ DOMAIN u = 1..(Len(s) + Len(t)) /\ Len(s) \in Nat /\ Len(t) \in Nat
      /\ DOMAIN s = 1..Len(s) /\ DOMAIN t = 1..Len(t)
      /\ \A i \in 1..Len(s) : u[i] = s[i]
      /\ \A i \in (Len(s) + 1)..(Len(s) + Len(t)) : u[i] = t[i - Len(s)]
  BY ConcatShape, QueueShape
<1>2. Accounted(u, gone, next)
  OBVIOUS
<1> HIDE DEF u
<1>0. \A j \in DOMAIN t : Len(s) + j \in DOMAIN u /\ u[Len(s) + j] = t[j]
  <2> TAKE j \in DOMAIN t
  <2>1. /\ Len(s) + j \in (Len(s) + 1)..(Len(s) + Len(t))
        /\ (Len(s) + j) - Len(s) = j
    BY <1>1
  <2>2. QED
    BY <1>1, <2>1
<1>3. {u[i].seq : i \in DOMAIN u}
        = {s[i].seq : i \in DOMAIN s} \union {t[i].seq : i \in DOMAIN t}
  <2>1. \A i \in DOMAIN u : \/ i \in DOMAIN s /\ u[i] = s[i]
                            \/ i - Len(s) \in DOMAIN t /\ u[i] = t[i - Len(s)]
    <3> TAKE i \in DOMAIN u
    <3>1. CASE i <= Len(s)
      BY <1>1, <3>1
    <3>2. CASE i > Len(s)
      <4>1. i - Len(s) \in 1..Len(t) /\ i \in (Len(s) + 1)..(Len(s) + Len(t))
        BY <1>1, <3>2
      <4>2. QED
        BY <1>1, <4>1
    <3>3. QED
      BY <1>1, <3>1, <3>2
  <2>2. \A i \in DOMAIN s : i \in DOMAIN u /\ u[i] = s[i]
    BY <1>1
  <2>3. \A i \in DOMAIN t : Len(s) + i \in DOMAIN u /\ u[Len(s) + i] = t[i]
    BY <1>0
  <2>4. QED
    BY <2>1, <2>2, <2>3
<1>4. \A i \in DOMAIN s, j \in DOMAIN t : s[i].seq < t[j].seq
  <2> TAKE i \in DOMAIN s, j \in DOMAIN t
  <2>1. /\ i \in DOMAIN u /\ Len(s) + j \in DOMAIN u /\ i < Len(s) + j
        /\ u[i] = s[i] /\ u[Len(s) + j] = t[j]
    BY <1>0, <1>1
  <2>2. QED
    BY <1>2, <2>1 DEF Accounted
<1>5. \A i \in DOMAIN s : s[i].seq \in Int
  <2>1. \A i \in DOMAIN s : s[i].seq \in 1..(next - 1)
    BY <1>2, <1>3 DEF Accounted
  <2>2. QED
    BY <2>1
<1>6. {s[i].seq : i \in DOMAIN s} \intersect {t[i].seq : i \in DOMAIN t} = {}
  BY <1>4, <1>5
<1>7. \A i, j \in DOMAIN s : i < j => s[i].seq < s[j].seq
  <2> TAKE i, j \in DOMAIN s
  <2>1. i \in DOMAIN u /\ j \in DOMAIN u /\ u[i] = s[i] /\ u[j] = s[j]
    BY <1>1
  <2>2. QED
    BY <1>2, <2>1 DEF Accounted
<1>8. QED
  BY <1>2, <1>3, <1>6, <1>7 DEF Accounted

-----------------------------------------------------------------------------
(* The inductive invariant.                                                 *)

\* The row, or hop, ends in the cut of the twin.
ShowsCut(r) == r.mode = mode /\ r.ctx = ctx

Shapes ==
  /\ brain \in {"Ready", "Replying", "Stopped"} /\ reader \in {"Up", "Down"}
  /\ nextSeq \in Nat \ {0}
  /\ calls \in Seq({"Open", "Closed"}) /\ Len(calls) <= MaxCalls
  /\ brain = "Replying" => calls # << >> /\ emitting = << >>
  /\ IsQueue(read) /\ IsQueue(sink) /\ Len(sink) <= SinkCapacity

\* The hops of the committed turn that wait for their row, the last with its cut.
HopsWaiting ==
  \/ emitting = << >> /\ nextSeq <= MaxRows + 1
  \/ \E h : IsHop(h) /\ ShowsCut(h) /\ emitting = <<h>> /\ nextSeq <= MaxRows
  \/ \E h, g : /\ IsHop(h) /\ IsHop(g) /\ ShowsCut(g)
               /\ emitting = <<h, g>> /\ nextSeq + 1 <= MaxRows

RowsAccounted ==
  /\ \A i \in DOMAIN Records : IsRow(Records[i])
  /\ Accounted(Records, lost, nextSeq)

LastRowShowsCut ==
  emitting = << >> =>
    \A i \in DOMAIN Records : Records[i].seq = nextSeq - 1 => ShowsCut(Records[i])

SnapshotAgrees ==
  snapshot # NoSnapshot =>
    /\ snapshot = [asOf |-> snapshot.asOf, mode |-> snapshot.mode,
                   ctx |-> snapshot.ctx]
    /\ snapshot.asOf \in Int /\ snapshot.asOf < nextSeq
    /\ SnapshotsReconcile

LedgerInv ==
  IInv /\ Shapes /\ HopsWaiting /\ RowsAccounted /\ LastRowShowsCut /\ SnapshotAgrees

\* The initial state satisfies it.
LEMMA LedgerInitInv == LedgerInit => LedgerInv
<1> SUFFICES ASSUME LedgerInit PROVE LedgerInv
  OBVIOUS
<1>1. IInv
  BY InitInv DEF LedgerInit
<1>2. << >> \in Seq({"Open", "Closed"}) /\ Len(<< >>) = 0 /\ IsQueue(<< >>)
  BY EmptySeq DEF IsQueue
<1>3. Shapes
  BY <1>2, LedgerAssumption DEF LedgerInit, Shapes
<1>4. HopsWaiting
  BY LedgerAssumption DEF LedgerInit, HopsWaiting
<1>5. Records = << >>
  <2>1. << >> \o << >> = << >>
    BY <1>2, ConcatEmptySeq
  <2>2. QED
    BY <2>1 DEF LedgerInit, Records
<1>6. RowsAccounted /\ LastRowShowsCut
  <2>1. DOMAIN << >> = {} /\ 1..(1 - 1) = {}
    OBVIOUS
  <2>2. QED
    BY <1>5, <2>1 DEF LedgerInit, RowsAccounted, LastRowShowsCut, Accounted
<1>7. SnapshotAgrees
  BY DEF LedgerInit, SnapshotAgrees
<1>8. QED
  BY <1>1, <1>3, <1>4, <1>6, <1>7 DEF LedgerInv

\* The rows read and queued are a queue.
LEMMA RecordsShape ==
  ASSUME Shapes
  PROVE  IsQueue(Records) /\ Len(Records) \in Nat /\ DOMAIN Records = 1..Len(Records)
<1>1. IsQueue(Records)
  BY ConcatShape DEF Shapes, Records
<1>2. QED
  BY <1>1, QueueShape

\* A step that leaves the cut alone keeps what holds of the cut.
LEMMA CutStays ==
  ASSUME IInv, UNCHANGED twinCut
  PROVE  IInv' /\ mode' = mode /\ ctx' = ctx
<1>1. UNCHANGED vars /\ mode' = mode /\ ctx' = ctx
  BY DEF twinCut, vars
<1>2. QED
  BY <1>1, NextStep

\* An event is committed at once, with a pair of replies.
LEMMA TurnRepliesType ==
  ASSUME NEW event \in Ingress, NEW reply \in TellBacks
  PROVE  event \in FsmEvents /\ 0 \in Lags /\ TurnReplies(event, reply) \in ReplyPairs
<1>1. reply \in Replies
  BY LedgerAssumption
<1>2. SimulateLocally \in ReplyPairs /\ WithIngress(reply) \in ReplyPairs
      /\ WithReset(reply) \in ReplyPairs
  BY <1>1 DEF SimulateLocally, ReplyPairs, Replies, WithIngress, WithReset
<1>3. TurnReplies(event, reply)
        \in {SimulateLocally, WithIngress(reply), WithReset(reply)}
  BY DEF TurnReplies
<1>4. 0 \in Lags
  BY WaitsAssumption DEF Lags
<1>5. QED
  BY <1>2, <1>3, <1>4, LedgerAssumption

\* A turn is one of the twin's, and its rows wait to be emitted.
LEMMA CommitTurnStep ==
  ASSUME LedgerInv, NEW event \in Ingress, CommitTurn(event)
  PROVE  LedgerInv'
<1> USE DEF LedgerInv
<1>1. /\ brain = "Ready" /\ emitting = << >> /\ nextSeq + 1 <= MaxRows
      /\ UNCHANGED <<brain, nextSeq, sink, reader, read, lost, calls, snapshot>>
  BY DEF CommitTurn, requests
<1>2. PICK reply \in TellBacks :
        \E hops \in RunToQuiescence(mode, ctx, event, warningAge, 0,
                                    TurnReplies(event, reply)) :
          ApplyHops(hops) /\ emitting' = hops
  BY Zenon DEF CommitTurn
<1> DEFINE r == TurnReplies(event, reply)
<1>3. PICK hops \in RunToQuiescence(mode, ctx, event, warningAge, 0, r) :
        ApplyHops(hops) /\ emitting' = hops
  BY <1>2
<1>4. event \in FsmEvents /\ 0 \in Lags /\ r \in ReplyPairs
  BY TurnRepliesType
<1> HIDE DEF r
<1>5. IInv'
  <2>1. Commit(event, 0, r)
    BY <1>3, Zenon DEF Commit
  <2>2. QED
    BY <1>4, <2>1, CommitStep
<1>6. \E h, g : IsHop(h) /\ IsHop(g) /\ hops \in {<<h>>, <<h, g>>}
  <2> DEFINE h == ExternalHop(mode, ctx, event, warningAge, 0, r)
             g == InternalHop(h.mode, h.ctx, LightingUnsafe, h.warningAge, 0)
  <2>1. IsHop(h)
    BY DEF IsHop, ExternalHop, Hop
  <2>2. IsHop(g)
    BY DEF IsHop, InternalHop, Hop
  <2>3. hops = <<h>> \/ hops = <<h, g>>
    <3>1. mode \in {"Driving", "DrivingDangerously"} => ~Stationary(ctx)
      BY DEF IInv, MovingUnlessWarned
    <3>2. QED
      BY <1>3, <1>4, <3>1, TurnFacts DEF IInv, TypeOK
  <2> HIDE DEF h, g
  <2>4. QED
    BY <2>1, <2>2, <2>3
<1>7. HopsWaiting' /\ emitting' # << >>
  <2> PICK h, g : IsHop(h) /\ IsHop(g) /\ hops \in {<<h>>, <<h, g>>}
    BY <1>6
  <2>1. mode' = LastHop(hops).mode /\ ctx' = LastHop(hops).ctx
    BY <1>3 DEF ApplyHops
  <2>2. nextSeq' <= MaxRows /\ nextSeq' + 1 <= MaxRows
    BY <1>1, LedgerAssumption DEF Shapes
  <2>3. CASE hops = <<h>>
    <3>1. LastHop(hops) = h /\ hops # << >>
      BY <2>3 DEF LastHop
    <3>2. QED
      BY <1>3, <2>1, <2>2, <2>3, <3>1 DEF HopsWaiting, ShowsCut
  <2>4. CASE hops = <<h, g>>
    <3>1. LastHop(hops) = g /\ hops # << >>
      BY <2>4 DEF LastHop
    <3>2. QED
      BY <1>3, <2>1, <2>2, <2>4, <3>1 DEF HopsWaiting, ShowsCut
  <2>5. QED
    BY <2>3, <2>4
<1>8. Shapes' /\ RowsAccounted' /\ LastRowShowsCut' /\ SnapshotAgrees'
  BY <1>1, <1>7 DEF Shapes, Records, RowsAccounted, LastRowShowsCut, SnapshotAgrees,
                    SnapshotsReconcile
<1>9. QED
  BY <1>5, <1>7, <1>8

\* A row takes its number whether it is queued or lost.
LEMMA EmitRowStep ==
  ASSUME LedgerInv, EmitRow
  PROVE  LedgerInv'
<1> USE DEF LedgerInv
<1> DEFINE row == Row(nextSeq, Head(emitting))
<1>1. /\ emitting # << >> /\ nextSeq' = nextSeq + 1 /\ emitting' = Tail(emitting)
      /\ UNCHANGED <<twinCut, brain, reader, read, calls, snapshot>>
      /\ \/ TryEmit /\ sink' = Append(sink, row) /\ UNCHANGED lost
         \/ lost' = lost \union {nextSeq} /\ UNCHANGED sink
  BY DEF EmitRow, requests
<1>2. /\ row.seq = nextSeq /\ IsRow(row)
      /\ row.mode = Head(emitting).mode /\ row.ctx = Head(emitting).ctx
  BY DEF Row, IsRow, IsHop
<1> HIDE DEF row
<1>3. IInv' /\ mode' = mode /\ ctx' = ctx
  BY <1>1, CutStays
<1>4. nextSeq \in Nat \ {0} /\ MaxRows \in Nat
  BY LedgerAssumption DEF Shapes
<1>5. /\ HopsWaiting' /\ nextSeq <= MaxRows
      /\ emitting' = << >> => row.mode = mode /\ row.ctx = ctx
  <2>1. ASSUME NEW h, IsHop(h), ShowsCut(h), emitting = <<h>>, nextSeq <= MaxRows
        PROVE  /\ HopsWaiting' /\ nextSeq <= MaxRows
               /\ emitting' = << >> => row.mode = mode /\ row.ctx = ctx
    <3>1. Head(emitting) = h /\ emitting' = << >>
      BY <1>1, <2>1
    <3>2. QED
      BY <1>1, <1>2, <1>4, <2>1, <3>1 DEF HopsWaiting, ShowsCut
  <2>2. ASSUME NEW h, NEW g, IsHop(h), IsHop(g), ShowsCut(g), emitting = <<h, g>>,
               nextSeq + 1 <= MaxRows
        PROVE  /\ HopsWaiting' /\ nextSeq <= MaxRows
               /\ emitting' = << >> => row.mode = mode /\ row.ctx = ctx
    <3>1. emitting' = <<g>>
      BY <1>1, <2>2
    <3>2. nextSeq' <= MaxRows /\ nextSeq <= MaxRows /\ <<g>> # << >>
      BY <1>1, <1>4, <2>2
    <3>3. ShowsCut(g)'
      BY <1>3, <2>2 DEF ShowsCut
    <3>4. QED
      BY <2>2, <3>1, <3>2, <3>3 DEF HopsWaiting
  <2>3. QED
    BY <1>1, <2>1, <2>2 DEF HopsWaiting
<1>6. IsQueue(Records) /\ DOMAIN Records = 1..Len(Records) /\ Len(Records) \in Nat
  BY RecordsShape
<1>7. \A i \in DOMAIN Records : Records[i].seq \in 1..(nextSeq - 1)
  BY DEF RowsAccounted, Accounted
<1>8. CASE TryEmit /\ sink' = Append(sink, row) /\ UNCHANGED lost
  <2>1. Records' = Append(Records, row) /\ IsQueue(sink')
    BY <1>1, <1>8, Queueing DEF Records, Shapes
  <2>2. Shapes'
    <3>1. Len(sink') = Len(sink) + 1 /\ Len(sink) \in Nat
      BY <1>8, QueueShape DEF Shapes
    <3>2. Len(sink') <= SinkCapacity
      BY <1>8, <3>1, LedgerAssumption DEF TryEmit, Shapes
    <3>3. brain # "Replying"
      BY <1>1 DEF Shapes
    <3>4. QED
      BY <1>1, <1>4, <2>1, <3>2, <3>3 DEF Shapes
  <2>3. /\ DOMAIN Records' = 1..(Len(Records) + 1)
        /\ \A i \in 1..Len(Records) : Records'[i] = Records[i]
        /\ Records'[Len(Records) + 1] = row
    BY <1>6, <2>1, QueueShape
  <2>4. \A i \in DOMAIN Records' : i \in DOMAIN Records \/ i = Len(Records) + 1
    BY <1>6, <2>3
  <2>5. RowsAccounted'
    <3>1. \A i \in DOMAIN Records' : IsRow(Records'[i])
      BY <1>2, <1>6, <2>3, <2>4 DEF RowsAccounted
    <3>2. Accounted(Records', lost', nextSeq')
      BY <1>1, <1>2, <1>4, <1>6, <1>8, <2>1, AccountAppend DEF RowsAccounted
    <3>3. QED
      BY <3>1, <3>2 DEF RowsAccounted
  <2>6. LastRowShowsCut'
    <3> SUFFICES ASSUME emitting' = << >>, NEW i \in DOMAIN Records',
                        Records'[i].seq = nextSeq' - 1
                 PROVE  Records'[i].mode = mode' /\ Records'[i].ctx = ctx'
      BY DEF LastRowShowsCut, ShowsCut
    <3>1. i = Len(Records) + 1
      BY <1>1, <1>4, <1>6, <1>7, <2>3, <2>4
    <3>2. QED
      BY <1>3, <1>5, <2>3, <3>1
  <2>7. SnapshotAgrees'
    <3> SUFFICES ASSUME snapshot # NoSnapshot, NEW i \in DOMAIN Records'
                 PROVE  /\ snapshot = [asOf |-> snapshot.asOf, mode |-> snapshot.mode,
                                       ctx |-> snapshot.ctx]
                        /\ snapshot.asOf \in Int /\ snapshot.asOf < nextSeq'
                        /\ Records'[i].seq = snapshot.asOf =>
                             Records'[i].mode = snapshot.mode
                             /\ Records'[i].ctx = snapshot.ctx
      BY <1>1, <2>3 DEF SnapshotAgrees, SnapshotsReconcile
    <3>1. /\ snapshot = [asOf |-> snapshot.asOf, mode |-> snapshot.mode,
                         ctx |-> snapshot.ctx]
          /\ snapshot.asOf \in Int /\ snapshot.asOf < nextSeq
          /\ SnapshotsReconcile
      BY DEF SnapshotAgrees
    <3>2. CASE i \in DOMAIN Records
      BY <1>1, <1>4, <1>6, <2>3, <3>1, <3>2 DEF SnapshotsReconcile
    <3>3. CASE i = Len(Records) + 1
      BY <1>1, <1>2, <1>4, <2>3, <3>1, <3>3
    <3>4. QED
      BY <2>4, <3>2, <3>3
  <2>8. QED
    BY <1>3, <1>5, <2>2, <2>5, <2>6, <2>7
<1>9. CASE lost' = lost \union {nextSeq} /\ UNCHANGED sink
  <2>1. Records' = Records
    BY <1>1, <1>9 DEF Records
  <2>2. Shapes'
    BY <1>1, <1>4, <1>9 DEF Shapes
  <2>3. RowsAccounted'
    BY <1>1, <1>4, <1>9, <2>1, AccountLoss DEF RowsAccounted
  <2>4. LastRowShowsCut'
    BY <1>1, <1>4, <1>7, <2>1 DEF LastRowShowsCut
  <2>5. SnapshotAgrees'
    BY <1>1, <1>4, <2>1 DEF SnapshotAgrees, SnapshotsReconcile
  <2>6. QED
    BY <1>3, <1>5, <2>2, <2>3, <2>4, <2>5
<1>10. QED
  BY <1>1, <1>8, <1>9

\* A row the reader takes stays one of the rows.
LEMMA ReadRowStep ==
  ASSUME LedgerInv, ReadRow
  PROVE  LedgerInv'
<1> USE DEF LedgerInv
<1>1. /\ sink # << >> /\ read' = Append(read, Head(sink)) /\ sink' = Tail(sink)
      /\ UNCHANGED <<twinCut, brain, nextSeq, emitting, reader, lost, calls, snapshot>>
  BY DEF ReadRow, requests
<1>2. IInv' /\ mode' = mode /\ ctx' = ctx
  BY <1>1, CutStays
<1>3. Records' = Records /\ IsQueue(read') /\ IsQueue(sink')
  BY <1>1, PassingOn DEF Shapes, Records
<1>4. Len(sink') <= SinkCapacity
  <2>1. Len(sink') = Len(sink) - 1 /\ Len(sink) \in Nat
    BY <1>1, QueueShape DEF Shapes
  <2>2. QED
    BY <2>1, LedgerAssumption DEF Shapes
<1>5. Shapes'
  BY <1>1, <1>3, <1>4 DEF Shapes
<1>6. HopsWaiting' /\ RowsAccounted' /\ LastRowShowsCut' /\ SnapshotAgrees'
  BY <1>1, <1>2, <1>3 DEF HopsWaiting, RowsAccounted, LastRowShowsCut, ShowsCut,
                          SnapshotAgrees, SnapshotsReconcile
<1>7. QED
  BY <1>2, <1>5, <1>6

\* A reader that ends leaves the rows it has read; the queued ones are lost.
LEMMA ReaderEndsStep ==
  ASSUME LedgerInv, ReaderEnds
  PROVE  LedgerInv'
<1> USE DEF LedgerInv
<1>1. /\ reader' = "Down" /\ sink' = << >>
      /\ lost' = lost \union {sink[i].seq : i \in DOMAIN sink}
      /\ UNCHANGED <<twinCut, brain, nextSeq, emitting, read, calls, snapshot>>
  BY DEF ReaderEnds, requests
<1>2. IInv' /\ mode' = mode /\ ctx' = ctx
  BY <1>1, CutStays
<1>3. Records' = read
  <2>1. PICK S : read \in Seq(S)
    BY DEF Shapes, IsQueue
  <2>2. read \o << >> = read
    BY <2>1, ConcatEmptySeq
  <2>3. QED
    BY <1>1, <2>2 DEF Records
<1>4. Shapes'
  <2>1. IsQueue(<< >>) /\ Len(<< >>) = 0
    BY EmptySeq DEF IsQueue
  <2>2. QED
    BY <1>1, <2>1, LedgerAssumption DEF Shapes
<1>5. \A i \in DOMAIN read : i \in DOMAIN Records /\ Records[i] = read[i]
  BY ConcatShape, QueueShape DEF Shapes, Records
<1>6. RowsAccounted'
  <2>1. Accounted(read, lost', nextSeq)
    BY <1>1, AccountCut DEF RowsAccounted, Shapes, Records
  <2>2. QED
    BY <1>1, <1>3, <1>5, <2>1 DEF RowsAccounted
<1>7. HopsWaiting' /\ LastRowShowsCut' /\ SnapshotAgrees'
  BY <1>1, <1>2, <1>3, <1>5 DEF HopsWaiting, LastRowShowsCut, ShowsCut,
                                SnapshotAgrees, SnapshotsReconcile
<1>8. QED
  BY <1>2, <1>4, <1>6, <1>7

\* Requests come, expire and are looked at: no row and no cut is touched.
LEMMA RequestStep ==
  ASSUME LedgerInv, GetSnapshot \/ CallTimesOut \/ GetStatus
  PROVE  LedgerInv'
<1> USE DEF LedgerInv
<1>1. UNCHANGED <<twinCut, nextSeq, emitting, sink, reader, read, lost, snapshot>>
  BY DEF GetSnapshot, CallTimesOut, GetStatus, ledger
<1>2. IInv' /\ mode' = mode /\ ctx' = ctx
  BY <1>1, CutStays
<1>3. Records' = Records
  BY <1>1 DEF Records
<1>4. /\ brain' \in {"Ready", "Replying", "Stopped"}
      /\ calls' \in Seq({"Open", "Closed"}) /\ Len(calls') <= MaxCalls
      /\ brain' = "Replying" => calls' # << >> /\ emitting = << >>
  <2> DEFINE P == {"Open", "Closed"}
  <2>1. calls \in Seq(P) /\ Len(calls) \in Nat /\ MaxCalls \in Nat
        /\ "Open" \in P /\ "Closed" \in P /\ Len(calls) <= MaxCalls
    BY LenProperties, LedgerAssumption DEF Shapes
  <2>2. CASE GetSnapshot
    <3>1. calls' = Append(calls, "Open") /\ Len(calls) < MaxCalls /\ brain' = brain
      BY <2>2 DEF GetSnapshot
    <3> HIDE DEF P
    <3>2. calls' \in Seq(P) /\ calls' # << >> /\ Len(calls') = Len(calls) + 1
      BY <2>1, <3>1, AppendProperties
    <3>3. QED
      BY <2>1, <3>1, <3>2 DEF Shapes, P
  <2>3. CASE CallTimesOut
    <3>1. PICK i \in DOMAIN calls : calls' = [calls EXCEPT ![i] = "Closed"]
      BY <2>3 DEF CallTimesOut
    <3>2. brain' = brain
      BY <2>3 DEF CallTimesOut
    <3> HIDE DEF P
    <3>3. i \in 1..Len(calls)
      BY <2>1, LenProperties
    <3>4. calls' \in Seq(P) /\ Len(calls') = Len(calls)
      BY <2>1, <3>1, <3>3, ExceptSeq
    <3>5. calls' # << >>
      BY <2>1, <3>3, <3>4, EmptySeq
    <3>6. QED
      BY <2>1, <3>2, <3>4, <3>5 DEF Shapes, P
  <2>4. CASE GetStatus
    <3>1. brain = "Ready" /\ emitting = << >> /\ calls # << >>
          /\ \/ brain' = "Replying" /\ calls' = calls
             \/ brain' = brain /\ calls' = Tail(calls)
      BY <2>4 DEF GetStatus
    <3> HIDE DEF P
    <3>2. Tail(calls) \in Seq(P) /\ Len(Tail(calls)) = Len(calls) - 1
      BY <2>1, <3>1, HeadTailProperties
    <3>3. QED
      BY <2>1, <3>1, <3>2 DEF P
  <2>5. QED
    BY <2>2, <2>3, <2>4
<1>5. Shapes'
  BY <1>1, <1>4 DEF Shapes
<1>6. HopsWaiting' /\ RowsAccounted' /\ LastRowShowsCut' /\ SnapshotAgrees'
  BY <1>1, <1>2, <1>3 DEF HopsWaiting, RowsAccounted, LastRowShowsCut, ShowsCut,
                          SnapshotAgrees, SnapshotsReconcile
<1>7. QED
  BY <1>2, <1>5, <1>6

\* A snapshot shows the cut, and so does the last row, if it was not lost.
LEMMA SendSnapshotStep ==
  ASSUME LedgerInv, SendSnapshot
  PROVE  LedgerInv'
<1> USE DEF LedgerInv
<1>1. /\ brain = "Replying" /\ calls' = Tail(calls)
      /\ \/ /\ snapshot' = [asOf |-> nextSeq - 1, mode |-> mode, ctx |-> ctx]
            /\ brain' = "Ready"
         \/ brain' = "Stopped" /\ UNCHANGED snapshot
      /\ UNCHANGED <<twinCut, nextSeq, emitting, sink, reader, read, lost>>
  BY DEF SendSnapshot, ledger
<1>2. IInv' /\ mode' = mode /\ ctx' = ctx
  BY <1>1, CutStays
<1>3. Records' = Records
  BY <1>1 DEF Records
<1>4. Shapes'
  <2>1. calls # << >> /\ calls \in Seq({"Open", "Closed"}) /\ Len(calls) <= MaxCalls
        /\ MaxCalls \in Nat
    BY <1>1, LedgerAssumption DEF Shapes
  <2>2. /\ Tail(calls) \in Seq({"Open", "Closed"})
        /\ Len(Tail(calls)) = Len(calls) - 1 /\ Len(calls) \in Nat
    BY <2>1, HeadTailProperties, LenProperties
  <2>3. QED
    BY <1>1, <2>1, <2>2 DEF Shapes
<1>5. HopsWaiting' /\ RowsAccounted' /\ LastRowShowsCut'
  BY <1>1, <1>2, <1>3 DEF HopsWaiting, RowsAccounted, LastRowShowsCut, ShowsCut
<1>6. SnapshotAgrees'
  <2>1. CASE UNCHANGED snapshot
    BY <1>1, <1>3, <2>1 DEF SnapshotAgrees, SnapshotsReconcile
  <2>2. CASE snapshot' = [asOf |-> nextSeq - 1, mode |-> mode, ctx |-> ctx]
    <3>1. emitting = << >> /\ nextSeq \in Nat
      BY <1>1 DEF Shapes
    <3>2. \A i \in DOMAIN Records : Records[i].seq = nextSeq - 1 =>
            Records[i].mode = mode /\ Records[i].ctx = ctx
      BY <3>1 DEF LastRowShowsCut, ShowsCut
    <3>3. QED
      BY <1>1, <1>3, <2>2, <3>1, <3>2 DEF SnapshotAgrees, SnapshotsReconcile
  <2>3. QED
    BY <1>1, <2>1, <2>2
<1>7. QED
  BY <1>2, <1>4, <1>5, <1>6

-----------------------------------------------------------------------------
(* The clock.  The instants in rows, hops and snapshots age with the twin's. *)

AgeRecord(r) == [r EXCEPT !.oldCtx = AgeCtx(@), !.ctx = AgeCtx(@)]

\* A queue ages record by record.
LEMMA AgeQueue ==
  ASSUME NEW q, IsQueue(q)
  PROVE  /\ IsQueue(AgeRows(q)) /\ Len(AgeRows(q)) = Len(q)
         /\ \A i \in 1..Len(q) : AgeRows(q)[i] = AgeRecord(q[i])
<1> DEFINE T == {AgeRecord(q[i]) : i \in 1..Len(q)}
           t == [i \in 1..Len(q) |-> AgeRecord(q[i])]
<1>1. Len(q) \in Nat /\ DOMAIN q = 1..Len(q)
  BY QueueShape
<1>2. AgeRows(q) = t
  BY <1>1 DEF AgeRows, AgeRecord
<1> HIDE DEF AgeRecord
<1>3. \A i \in 1..Len(q) : AgeRecord(q[i]) \in T
  OBVIOUS
<1> HIDE DEF T
<1>4. t \in Seq(T) /\ Len(t) = Len(q)
  BY <1>1, <1>3
<1>5. QED
  BY <1>2, <1>4 DEF IsQueue

\* A record keeps its number and mode; the instants of its cut age.
LEMMA AgeRecordFacts ==
  ASSUME NEW r, IsHop(r)
  PROVE  /\ IsHop(AgeRecord(r)) /\ AgeRecord(r).mode = r.mode
         /\ AgeRecord(r).ctx = AgeCtx(r.ctx)
         /\ IsRow(r) => IsRow(AgeRecord(r)) /\ AgeRecord(r).seq = r.seq
<1> DEFINE p == [r EXCEPT !.oldCtx = AgeCtx(@)]
           q == [p EXCEPT !.ctx = AgeCtx(@)]
<1>1. /\ DOMAIN p = DOMAIN r
      /\ \A f \in DOMAIN r \ {"oldCtx"} : p[f] = r[f]
  OBVIOUS
<1> HIDE DEF p
<1>2. /\ DOMAIN q = DOMAIN p
      /\ \A f \in DOMAIN p \ {"ctx"} : q[f] = p[f]
      /\ "ctx" \in DOMAIN p => q["ctx"] = AgeCtx(p["ctx"])
  OBVIOUS
<1>3. AgeRecord(r) = q
  BY Zenon DEF AgeRecord, p
<1> HIDE DEF q
<1>4. QED
  BY <1>1, <1>2, <1>3 DEF IsHop, IsRow

\* The one or two hops of a turn age.
LEMMA AgeHops ==
  ASSUME NEW h, NEW g
  PROVE  /\ IsQueue(<<h>>) /\ AgeRows(<<h>>) = <<AgeRecord(h)>>
         /\ IsQueue(<<h, g>>) /\ AgeRows(<<h, g>>) = <<AgeRecord(h), AgeRecord(g)>>
<1>1. \A x, y : IsQueue(<<x>>) /\ IsQueue(<<x, y>>)
  <2> TAKE x, y
  <2>1. <<x>> \in Seq({x}) /\ <<x, y>> \in Seq({x, y})
    OBVIOUS
  <2>2. QED
    BY <2>1 DEF IsQueue
<1> DEFINE one == <<h>>
           two == <<h, g>>
           ageOne == AgeRows(one)
           ageTwo == AgeRows(two)
           k == AgeRecord(h)
           l == AgeRecord(g)
<1>2. /\ Len(one) = 1 /\ one[1] = h /\ Len(two) = 2 /\ two[1] = h /\ two[2] = g
      /\ IsQueue(one) /\ IsQueue(two)
  BY <1>1
<1> HIDE DEF one, two
<1>3. /\ IsQueue(ageOne) /\ Len(ageOne) = 1 /\ ageOne[1] = k
      /\ IsQueue(ageTwo) /\ Len(ageTwo) = 2 /\ ageTwo[1] = k /\ ageTwo[2] = l
  BY <1>2, AgeQueue
<1> HIDE DEF ageOne, ageTwo, k, l
<1>4. ageOne = <<k>>
  <2>1. IsQueue(<<k>>) /\ Len(<<k>>) = 1 /\ <<k>>[1] = k
    BY <1>1
  <2>2. QED
    BY <1>3, <2>1, SameQueue
<1>5. ageTwo = <<k, l>>
  <2>1. IsQueue(<<k, l>>) /\ Len(<<k, l>>) = 2 /\ <<k, l>>[1] = k /\ <<k, l>>[2] = l
    BY <1>1
  <2>2. \A i \in 1..2 : i = 1 \/ i = 2
    OBVIOUS
  <2>3. \A i \in 1..Len(ageTwo) : ageTwo[i] = <<k, l>>[i]
    BY <1>3, <2>1, <2>2
  <2>4. QED
    BY <1>3, <2>1, <2>3, SameQueue
<1>6. QED
  BY <1>2, <1>4, <1>5 DEF one, two, ageOne, ageTwo, k, l

\* The whole of the rows ages as its parts do.
LEMMA AgeConcat ==
  ASSUME NEW s, NEW t, IsQueue(s), IsQueue(t)
  PROVE  AgeRows(s) \o AgeRows(t) = AgeRows(s \o t)
<1> DEFINE u == s \o t
           a == AgeRows(s)
           b == AgeRows(t)
           v == a \o b
           w == AgeRows(u)
<1>1. /\ IsQueue(u) /\ Len(u) = Len(s) + Len(t) /\ Len(s) \in Nat /\ Len(t) \in Nat
      /\ \A i \in 1..Len(s) : u[i] = s[i]
      /\ \A i \in (Len(s) + 1)..(Len(s) + Len(t)) : u[i] = t[i - Len(s)]
  BY ConcatShape, QueueShape
<1>2. /\ IsQueue(a) /\ Len(a) = Len(s)
      /\ \A i \in 1..Len(s) : a[i] = AgeRecord(s[i])
  BY AgeQueue
<1>3. /\ IsQueue(b) /\ Len(b) = Len(t)
      /\ \A i \in 1..Len(t) : b[i] = AgeRecord(t[i])
  BY AgeQueue
<1> HIDE DEF u
<1>4. /\ IsQueue(w) /\ Len(w) = Len(u)
      /\ \A i \in 1..Len(u) : w[i] = AgeRecord(u[i])
  BY <1>1, AgeQueue
<1> HIDE DEF a, b, w
<1>5. /\ IsQueue(v) /\ Len(v) = Len(a) + Len(b)
      /\ \A i \in 1..Len(a) : v[i] = a[i]
      /\ \A i \in (Len(a) + 1)..(Len(a) + Len(b)) : v[i] = b[i - Len(a)]
  BY <1>2, <1>3, ConcatShape
<1> HIDE DEF v
<1>6. Len(v) = Len(w)
  BY <1>1, <1>2, <1>3, <1>4, <1>5
<1>7. \A i \in 1..Len(v) : v[i] = w[i]
  <2> TAKE i \in 1..Len(v)
  <2>1. i \in 1..(Len(s) + Len(t))
    BY <1>2, <1>3, <1>5
  <2>2. w[i] = AgeRecord(u[i])
    BY <1>1, <1>4, <2>1
  <2>3. CASE i <= Len(s)
    <3>1. i \in 1..Len(s)
      BY <1>1, <2>1, <2>3
    <3>2. QED
      BY <1>1, <1>2, <1>5, <2>2, <3>1
  <2>4. CASE i > Len(s)
    <3>1. /\ i \in (Len(s) + 1)..(Len(s) + Len(t)) /\ i - Len(s) \in 1..Len(t)
      BY <1>1, <2>1, <2>4
    <3>2. v[i] = b[i - Len(s)] /\ u[i] = t[i - Len(s)]
      BY <1>1, <1>2, <1>3, <1>5, <3>1
    <3>3. QED
      BY <1>3, <2>2, <3>1, <3>2
  <2>5. QED
    BY <1>1, <2>1, <2>3, <2>4
<1>8. v = w
  BY <1>4, <1>5, <1>6, <1>7, SameQueue
<1>9. QED
  BY <1>8 DEF u, v, w, a, b

\* Time passes for the twin, its rows and its snapshots alike.
LEMMA ElapseAllStep ==
  ASSUME LedgerInv, ElapseAll
  PROVE  LedgerInv'
<1> USE DEF LedgerInv
<1>1. /\ Elapse /\ mode' = mode /\ ctx' = AgeCtx(ctx)
      /\ emitting' = AgeRows(emitting) /\ sink' = AgeRows(sink) /\ read' = AgeRows(read)
      /\ snapshot' = IF snapshot = NoSnapshot THEN snapshot
                     ELSE [snapshot EXCEPT !.ctx = AgeCtx(@)]
      /\ UNCHANGED <<brain, nextSeq, reader, lost, calls>>
  BY DEF ElapseAll, Elapse, AgeCtx
<1>2. IInv'
  BY <1>1, ElapseStep
<1>3. Records' = AgeRows(Records)
  BY <1>1, AgeConcat DEF Records, Shapes
<1>4. /\ IsQueue(Records') /\ IsQueue(Records) /\ Len(Records') = Len(Records)
      /\ DOMAIN Records' = 1..Len(Records) /\ DOMAIN Records = 1..Len(Records)
      /\ \A i \in DOMAIN Records : Records'[i] = AgeRecord(Records[i])
  <2>1. IsQueue(Records) /\ DOMAIN Records = 1..Len(Records)
    BY RecordsShape
  <2>2. /\ IsQueue(Records') /\ Len(Records') = Len(Records)
        /\ \A i \in 1..Len(Records) : Records'[i] = AgeRecord(Records[i])
    BY <1>3, <2>1, AgeQueue
  <2>3. DOMAIN Records' = 1..Len(Records)
    BY <2>2, QueueShape
  <2>4. QED
    BY <2>1, <2>2, <2>3
<1>5. \A i \in DOMAIN Records :
        /\ IsRow(Records'[i]) /\ Records'[i].seq = Records[i].seq
        /\ Records'[i].mode = Records[i].mode
        /\ Records'[i].ctx = AgeCtx(Records[i].ctx)
  <2> TAKE i \in DOMAIN Records
  <2>1. IsRow(Records[i]) /\ IsHop(Records[i]) /\ Records'[i] = AgeRecord(Records[i])
    BY <1>4 DEF RowsAccounted, IsRow
  <2>2. QED
    BY <2>1, AgeRecordFacts
<1>6. RowsAccounted'
  <2>1. {Records'[i].seq : i \in DOMAIN Records'} = {Records[i].seq : i \in DOMAIN Records}
    BY <1>4, <1>5
  <2>2. \A i, j \in DOMAIN Records' : i < j => Records'[i].seq < Records'[j].seq
    BY <1>4, <1>5 DEF RowsAccounted, Accounted
  <2>3. Accounted(Records', lost, nextSeq)
    BY <2>1, <2>2 DEF RowsAccounted, Accounted
  <2>4. QED
    BY <1>1, <1>4, <1>5, <2>3 DEF RowsAccounted
<1>7. emitting' = << >> <=> emitting = << >>
  <2>1. IsQueue(emitting)
    <3>1. IsQueue(<< >>)
      BY EmptySeq DEF IsQueue
    <3>2. QED
      BY <3>1, AgeHops DEF HopsWaiting
  <2>2. \A q : IsQueue(q) => (q = << >> <=> Len(q) = 0)
    BY EmptySeq DEF IsQueue
  <2>3. QED
    BY <1>1, <2>1, <2>2, AgeQueue
<1>8. Shapes'
  <2>1. /\ IsQueue(read') /\ IsQueue(sink') /\ Len(sink') = Len(sink)
    BY <1>1, AgeQueue DEF Shapes
  <2>2. QED
    BY <1>1, <1>7, <2>1 DEF Shapes
<1>9. HopsWaiting'
  <2>1. ASSUME NEW h, IsHop(h), ShowsCut(h), emitting = <<h>>, nextSeq <= MaxRows
        PROVE  HopsWaiting'
    <3>1. PICK k : k = AgeRecord(h)
      OBVIOUS
    <3>2. emitting' = <<k>>
      BY <1>1, <2>1, <3>1, AgeHops
    <3>3. IsHop(k) /\ k.mode = mode' /\ k.ctx = ctx'
      BY <1>1, <2>1, <3>1, AgeRecordFacts DEF ShowsCut
    <3>4. QED
      BY <1>1, <2>1, <3>2, <3>3 DEF HopsWaiting, ShowsCut
  <2>2. ASSUME NEW h, NEW g, IsHop(h), IsHop(g), ShowsCut(g), emitting = <<h, g>>,
               nextSeq + 1 <= MaxRows
        PROVE  HopsWaiting'
    <3>1. PICK k, l : k = AgeRecord(h) /\ l = AgeRecord(g)
      OBVIOUS
    <3>2. emitting' = <<k, l>>
      BY <1>1, <2>2, <3>1, AgeHops
    <3>3. IsHop(k) /\ IsHop(l) /\ l.mode = mode' /\ l.ctx = ctx'
      BY <1>1, <2>2, <3>1, AgeRecordFacts DEF ShowsCut
    <3>4. QED
      BY <1>1, <2>2, <3>2, <3>3 DEF HopsWaiting, ShowsCut
  <2>3. CASE emitting = << >> /\ nextSeq <= MaxRows + 1
    BY <1>1, <1>7, <2>3 DEF HopsWaiting
  <2>4. QED
    BY <2>1, <2>2, <2>3 DEF HopsWaiting
<1>10. LastRowShowsCut'
  BY <1>1, <1>4, <1>5, <1>7 DEF LastRowShowsCut, ShowsCut
<1>11. SnapshotAgrees'
  <2>1. CASE snapshot = NoSnapshot
    BY <1>1, <2>1 DEF SnapshotAgrees
  <2>2. CASE snapshot # NoSnapshot
    <3>1. /\ snapshot = [asOf |-> snapshot.asOf, mode |-> snapshot.mode,
                         ctx |-> snapshot.ctx]
          /\ snapshot.asOf \in Int /\ snapshot.asOf < nextSeq
          /\ \A i \in DOMAIN Records : Records[i].seq = snapshot.asOf =>
               Records[i].mode = snapshot.mode /\ Records[i].ctx = snapshot.ctx
      BY <2>2 DEF SnapshotAgrees, SnapshotsReconcile
    <3>2. snapshot' = [asOf |-> snapshot.asOf, mode |-> snapshot.mode,
                       ctx |-> AgeCtx(snapshot.ctx)]
      BY <1>1, <2>2, <3>1
    <3>3. /\ snapshot'.asOf = snapshot.asOf /\ snapshot'.mode = snapshot.mode
          /\ snapshot'.ctx = AgeCtx(snapshot.ctx)
          /\ snapshot' = [asOf |-> snapshot'.asOf, mode |-> snapshot'.mode,
                          ctx |-> snapshot'.ctx]
      BY <3>2
    <3>4. \A i \in DOMAIN Records' : Records'[i].seq = snapshot'.asOf =>
            Records'[i].mode = snapshot'.mode /\ Records'[i].ctx = snapshot'.ctx
      BY <1>4, <1>5, <3>1, <3>3
    <3>5. QED
      BY <1>1, <3>1, <3>3, <3>4 DEF SnapshotAgrees, SnapshotsReconcile
  <2>3. QED
    BY <2>1, <2>2
<1>12. QED
  BY <1>2, <1>6, <1>8, <1>9, <1>10, <1>11

\* Every step keeps the invariant.
LEMMA LedgerStep ==
  ASSUME LedgerInv, [LedgerNext]_ledgerVars
  PROVE  LedgerInv'
<1>1. CASE UNCHANGED ledgerVars
  <2>1. UNCHANGED <<twinCut, brain, nextSeq, emitting, sink, reader, read, lost,
                    calls, snapshot>>
    BY <1>1 DEF ledgerVars, ledger, requests
  <2>2. IInv' /\ mode' = mode /\ ctx' = ctx
    BY <2>1, CutStays DEF LedgerInv
  <2>3. QED
    BY <2>1, <2>2 DEF LedgerInv, Shapes, HopsWaiting, RowsAccounted, LastRowShowsCut,
                      ShowsCut, SnapshotAgrees, SnapshotsReconcile, Records
<1>2. QED
  BY <1>1, CommitTurnStep, EmitRowStep, ReadRowStep, ReaderEndsStep, RequestStep,
     SendSnapshotStep, ElapseAllStep DEF LedgerNext

-----------------------------------------------------------------------------
(* Rows that follow each other.                                             *)

\* A row starts where the row before it ended, but for what its own event wrote.
Chains(one, next, event) ==
  /\ next.oldMode = one.mode
  /\ \A field \in DOMAIN one.ctx \ WrittenBy(event) :
       next.oldCtx[field] = one.ctx[field]

\* What of a hop, and of a row, is compared.
IsWhole(r) ==
  /\ {"oldMode", "mode", "oldCtx", "ctx", "event"} \subseteq DOMAIN r
  /\ r.oldCtx \in VehicleContext /\ r.ctx \in VehicleContext

\* The hops that wait follow each other, and the row with the last number.
HopsChain ==
  /\ emitting # << >> =>
       \A i \in DOMAIN Records :
         Records[i].seq = nextSeq - 1 =>
           Chains(Records[i], emitting[1], emitting[1].event.kind)
  /\ \A i \in 1..(Len(emitting) - 1) :
       Chains(emitting[i], emitting[i + 1], emitting[i + 1].event.kind)

AllWhole ==
  /\ \A i \in DOMAIN Records : IsWhole(Records[i])
  /\ \A i \in DOMAIN emitting : IsWhole(emitting[i])

ChainInv == AllWhole /\ RowsChain /\ HopsChain

\* The hops that wait are a queue.
LEMMA EmittingShape ==
  ASSUME HopsWaiting
  PROVE  IsQueue(emitting) /\ Len(emitting) \in Nat /\ DOMAIN emitting = 1..Len(emitting)
<1>1. IsQueue(<< >>)
  BY EmptySeq DEF IsQueue
<1>2. IsQueue(emitting)
  BY <1>1, AgeHops DEF HopsWaiting
<1>3. QED
  BY <1>2, QueueShape

\* The zones write of a context only what belongs to the event.
LEMMA ZoneWrites ==
  ASSUME NEW m, NEW c \in VehicleContext, NEW e \in FsmEvents, NEW n, NEW r,
         NEW field \in DOMAIN c \ WrittenBy(e.kind)
  PROVE  ZoneTurn(m, c, e, n, r).ctx[field] = c[field]
<1>1. field \in {"rpm", "speed", "lux", "headlamp"}
  BY DEF VehicleContext
<1>2. CASE e.kind = "UpdateRpm"
  <2>1. field \notin {"rpm", "speed"}
    BY <1>2 DEF WrittenBy
  <2>2. ZoneTurn(m, c, e, n, r).ctx = ApplyRpm(c, e.rpm, m)
    BY <1>2 DEF ZoneTurn, HeadlampBearing, HeadlampEvents
  <2>3. QED
    BY <1>1, <2>1, <2>2 DEF ApplyRpm, VehicleContext
<1>3. CASE HeadlampBearing(e) \/ e.kind = "TimerTick"
  <2> DEFINE reply == MergeHeadlamp(c.headlamp, e, n, r.ingress)
  <2>1. e.kind # "UpdateRpm"
    BY <1>3 DEF HeadlampBearing, HeadlampEvents
  <2>2. ZoneTurn(m, c, e, n, r).ctx =
          [c EXCEPT !.headlamp = reply.ctx,
                    !.lux = IF e.kind = "UpdateAmbientLux" THEN e.lux ELSE @]
    BY <1>3, <2>1 DEF ZoneTurn
  <2> HIDE DEF reply
  <2>3. field # "headlamp" /\ (e.kind = "UpdateAmbientLux" => field # "lux")
    BY <1>3 DEF WrittenBy, HeadlampBearing, HeadlampEvents
  <2>4. QED
    BY <1>1, <2>2, <2>3 DEF VehicleContext
<1>4. CASE e.kind # "UpdateRpm" /\ ~HeadlampBearing(e) /\ e.kind # "TimerTick"
  BY <1>4 DEF ZoneTurn
<1>5. QED
  BY <1>2, <1>3, <1>4

\* The first row of a turn starts in the cut; the detector's starts where the
\* first one ended.
LEMMA CommitTurnChains ==
  ASSUME LedgerInv, ChainInv, NEW event \in Ingress, CommitTurn(event)
  PROVE  ChainInv'
<1> USE DEF LedgerInv
<1>1. /\ emitting = << >> /\ UNCHANGED <<nextSeq, sink, read>>
      /\ Records' = Records
  BY DEF CommitTurn, Records
<1>2. PICK reply \in TellBacks :
        \E hops \in RunToQuiescence(mode, ctx, event, warningAge, 0,
                                    TurnReplies(event, reply)) :
          ApplyHops(hops) /\ emitting' = hops
  BY Zenon DEF CommitTurn
<1> DEFINE r == TurnReplies(event, reply)
           z == ZoneTurn(mode, ctx, event, 0, r).ctx
           h == ExternalHop(mode, ctx, event, warningAge, 0, r)
           g == InternalHop(h.mode, h.ctx, LightingUnsafe, h.warningAge, 0)
<1>3. PICK hops \in RunToQuiescence(mode, ctx, event, warningAge, 0, r) :
        ApplyHops(hops) /\ emitting' = hops
  BY <1>2
<1>4. event \in FsmEvents /\ 0 \in Lags /\ r \in ReplyPairs
  BY TurnRepliesType
<1> HIDE DEF r
<1>5. /\ mode \in Modes /\ ctx \in VehicleContext /\ warningAge \in 0..WarningHorizon
      /\ mode \in {"Driving", "DrivingDangerously"} => ~Stationary(ctx)
  BY DEF IInv, TypeOK, MovingUnlessWarned
<1>6. z \in VehicleContext /\ h.ctx \in VehicleContext
  <2>1. HopOK(h, mode)
    BY <1>4, <1>5, ExternalHopFacts
  <2>2. QED
    BY <1>4, <1>5, <2>1, ZoneTurnFacts DEF HopOK
<1>7. /\ h.event = event /\ h.oldMode = mode /\ h.oldCtx = z
      /\ {"oldMode", "mode", "oldCtx", "ctx", "event"} \subseteq DOMAIN h
  BY DEF ExternalHop, Hop
<1>8. /\ g.oldMode = h.mode /\ g.oldCtx = h.ctx /\ g.ctx = h.ctx
      /\ {"oldMode", "mode", "oldCtx", "ctx", "event"} \subseteq DOMAIN g
  BY DEF InternalHop, Hop
<1>9. \A one : one.mode = mode /\ one.ctx = ctx => Chains(one, h, h.event.kind)
  BY <1>4, <1>5, <1>7, ZoneWrites DEF Chains
<1>10. hops = <<h>> \/ hops = <<h, g>>
  BY <1>3, <1>4, <1>5, TurnFacts
<1>11. IsWhole(h) /\ IsWhole(g) /\ Chains(h, g, g.event.kind)
  BY <1>6, <1>7, <1>8 DEF IsWhole, Chains
<1> HIDE DEF h, g, z
<1>12. /\ hops[1] = h /\ \A i \in DOMAIN hops : hops[i] = h \/ hops[i] = g
       /\ \A i \in 1..(Len(hops) - 1) : hops[i] = h /\ hops[i + 1] = g
  <2>1. CASE hops = <<h>>
    BY <2>1
  <2>2. CASE hops = <<h, g>>
    BY <2>2
  <2>3. QED
    BY <1>10, <2>1, <2>2
<1>13. \A i \in DOMAIN Records : Records[i].seq = nextSeq - 1 =>
         Records[i].mode = mode /\ Records[i].ctx = ctx
  BY <1>1 DEF LastRowShowsCut, ShowsCut
<1>14. AllWhole' /\ RowsChain'
  BY <1>1, <1>3, <1>11, <1>12 DEF ChainInv, AllWhole, RowsChain
<1>15. HopsChain'
  BY <1>1, <1>3, <1>9, <1>11, <1>12, <1>13 DEF HopsChain
<1>16. QED
  BY <1>14, <1>15 DEF ChainInv

\* The hop that gets its row follows the row with the number before, if that is
\* not lost; the hop behind it follows this row.
LEMMA EmitRowChains ==
  ASSUME LedgerInv, ChainInv, EmitRow
  PROVE  ChainInv'
<1> USE DEF LedgerInv
<1> DEFINE hop == emitting[1]
           row == Row(nextSeq, Head(emitting))
<1>1. /\ emitting # << >> /\ nextSeq' = nextSeq + 1 /\ emitting' = Tail(emitting)
      /\ UNCHANGED read
      /\ sink' = Append(sink, row) \/ UNCHANGED sink
  BY DEF EmitRow
<1>2. /\ IsQueue(emitting) /\ Len(emitting) \in Nat \ {0}
      /\ DOMAIN emitting = 1..Len(emitting)
      /\ Head(emitting) = hop
      /\ IsQueue(emitting') /\ Len(emitting') = Len(emitting) - 1
      /\ DOMAIN emitting' = 1..(Len(emitting) - 1)
      /\ \A i \in 1..(Len(emitting) - 1) : emitting'[i] = emitting[i + 1]
  BY <1>1, EmittingShape, QueueShape
<1>3. IsWhole(hop)
  BY <1>2 DEF ChainInv, AllWhole
<1>4. /\ row.seq = nextSeq /\ row.event = hop.event.kind
      /\ row.oldMode = hop.oldMode /\ row.oldCtx = hop.oldCtx
      /\ row.mode = hop.mode /\ row.ctx = hop.ctx
      /\ IsWhole(row)
  BY <1>2, <1>3 DEF Row, IsWhole
<1> HIDE DEF row
<1>5. /\ IsQueue(Records) /\ DOMAIN Records = 1..Len(Records) /\ Len(Records) \in Nat
      /\ \A i \in DOMAIN Records : Records[i].seq \in 1..(nextSeq - 1)
      /\ nextSeq \in Nat \ {0}
  BY RecordsShape DEF RowsAccounted, Accounted, Shapes
<1>6. \A i \in DOMAIN Records : Records[i].seq = nextSeq - 1 =>
        Chains(Records[i], row, row.event)
  <2>1. \A i \in DOMAIN Records : Records[i].seq = nextSeq - 1 =>
          Chains(Records[i], hop, hop.event.kind)
    BY <1>1 DEF ChainInv, HopsChain
  <2> HIDE DEF hop
  <2>2. QED
    BY <1>4, <2>1 DEF Chains
<1>7. /\ \A i \in DOMAIN emitting' : IsWhole(emitting'[i])
      /\ \A i \in 1..(Len(emitting') - 1) :
           Chains(emitting'[i], emitting'[i + 1], emitting'[i + 1].event.kind)
  <2>1. \A i \in 1..(Len(emitting) - 1) :
          i + 1 \in 1..Len(emitting) /\ i + 1 \in DOMAIN emitting
    BY <1>2
  <2>2. \A i \in 1..(Len(emitting') - 1) :
          /\ i + 1 \in 1..(Len(emitting) - 1) /\ i \in 1..(Len(emitting) - 1)
    BY <1>2
  <2>3. QED
    BY <1>2, <2>1, <2>2 DEF ChainInv, AllWhole, HopsChain
<1>8. emitting' # << >> => Chains(row, emitting'[1], emitting'[1].event.kind)
  <2> HAVE emitting' # << >>
  <2>1. Len(emitting') # 0
    BY <1>2, EmptySeq DEF IsQueue
  <2>2. 1 \in 1..(Len(emitting) - 1)
    BY <1>2, <2>1
  <2>3. Chains(hop, emitting[1 + 1], emitting[1 + 1].event.kind)
    BY <2>2 DEF ChainInv, HopsChain
  <2>4. emitting'[1] = emitting[1 + 1]
    BY <1>2, <2>2
  <2> HIDE DEF hop
  <2>5. QED
    BY <1>4, <2>3, <2>4 DEF Chains
<1> HIDE DEF hop
<1>9. CASE sink' = Append(sink, row)
  <2>1. Records' = Append(Records, row)
    BY <1>1, <1>9, Queueing DEF Records, Shapes
  <2>2. /\ Len(Records') = Len(Records) + 1
        /\ DOMAIN Records' = 1..(Len(Records) + 1)
        /\ \A i \in 1..Len(Records) : Records'[i] = Records[i]
        /\ Records'[Len(Records) + 1] = row
    BY <1>5, <2>1, QueueShape
  <2>3. \A i \in DOMAIN Records' : i \in DOMAIN Records \/ i = Len(Records) + 1
    BY <1>5, <2>2
  <2>4. AllWhole'
    BY <1>4, <1>5, <1>7, <2>2, <2>3 DEF ChainInv, AllWhole
  <2>5. RowsChain'
    <3> SUFFICES ASSUME NEW i \in 1..(Len(Records') - 1),
                        Records'[i + 1].seq = Records'[i].seq + 1
                 PROVE  Chains(Records'[i], Records'[i + 1], Records'[i + 1].event)
      BY DEF RowsChain, Chains
    <3>1. i \in 1..Len(Records) /\ Records'[i] = Records[i]
      BY <1>5, <2>2
    <3>2. CASE i = Len(Records)
      <4>1. Records'[i + 1] = row
        BY <2>2, <3>2
      <4>2. Records[i].seq = nextSeq - 1
        BY <1>4, <1>5, <3>1, <4>1
      <4>3. QED
        BY <1>5, <1>6, <3>1, <4>1, <4>2
    <3>3. CASE i # Len(Records)
      <4>1. i \in 1..(Len(Records) - 1) /\ i + 1 \in 1..Len(Records)
        BY <1>5, <3>1, <3>3
      <4>2. Records'[i + 1] = Records[i + 1]
        BY <2>2, <4>1
      <4>3. QED
        BY <3>1, <4>1, <4>2 DEF ChainInv, RowsChain, Chains
    <3>4. QED
      BY <3>2, <3>3
  <2>6. HopsChain'
    <3>1. \A i \in DOMAIN Records' :
            Records'[i].seq = nextSeq' - 1 => Records'[i] = row
      BY <1>1, <1>5, <2>2, <2>3
    <3>2. QED
      BY <1>7, <1>8, <3>1 DEF HopsChain
  <2>7. QED
    BY <2>4, <2>5, <2>6 DEF ChainInv
<1>10. CASE UNCHANGED sink
  <2>1. Records' = Records
    BY <1>1, <1>10 DEF Records
  <2>2. \A i \in DOMAIN Records' : Records'[i].seq # nextSeq' - 1
    BY <1>1, <1>5, <2>1
  <2>3. HopsChain'
    BY <1>7, <2>2 DEF HopsChain
  <2>4. QED
    BY <1>7, <2>1, <2>3 DEF ChainInv, AllWhole, RowsChain
<1>11. QED
  BY <1>1, <1>9, <1>10

\* The rows read are the first of the rows, and chain like them.
LEMMA ReaderEndsChains ==
  ASSUME LedgerInv, ChainInv, ReaderEnds
  PROVE  ChainInv'
<1> USE DEF LedgerInv
<1>1. sink' = << >> /\ UNCHANGED <<nextSeq, emitting, read>>
  BY DEF ReaderEnds
<1>2. Records' = read
  <2>1. PICK S : read \in Seq(S)
    BY DEF Shapes, IsQueue
  <2>2. read \o << >> = read
    BY <2>1, ConcatEmptySeq
  <2>3. QED
    BY <1>1, <2>2 DEF Records
<1>3. /\ Len(read) \in Nat /\ DOMAIN read = 1..Len(read) /\ Len(read) <= Len(Records)
      /\ Len(Records) \in Nat
      /\ \A i \in 1..Len(read) : i \in DOMAIN Records /\ Records[i] = read[i]
  BY ConcatShape, QueueShape DEF Shapes, Records
<1>4. \A i \in 1..(Len(read) - 1) :
        /\ i \in 1..Len(read) /\ i + 1 \in 1..Len(read) /\ i \in 1..(Len(Records) - 1)
  BY <1>3
<1>5. AllWhole' /\ HopsChain'
  BY <1>1, <1>2, <1>3 DEF ChainInv, AllWhole, HopsChain
<1>6. RowsChain'
  <2> SUFFICES ASSUME NEW i \in 1..(Len(read) - 1), read[i + 1].seq = read[i].seq + 1
               PROVE  Chains(read[i], read[i + 1], read[i + 1].event)
    BY <1>2 DEF RowsChain, Chains
  <2>1. /\ i \in 1..(Len(Records) - 1)
        /\ Records[i] = read[i] /\ Records[i + 1] = read[i + 1]
    BY <1>3, <1>4
  <2>2. QED
    BY <2>1 DEF ChainInv, RowsChain, Chains
<1>7. QED
  BY <1>5, <1>6 DEF ChainInv

\* A whole record ages whole, and keeps its event and its modes.
LEMMA AgeWhole ==
  ASSUME NEW r, IsWhole(r)
  PROVE  LET a == AgeRecord(r) IN
         /\ IsWhole(a) /\ a.event = r.event
         /\ a.mode = r.mode /\ a.oldMode = r.oldMode
         /\ a.ctx = AgeCtx(r.ctx) /\ a.oldCtx = AgeCtx(r.oldCtx)
<1> DEFINE a == AgeRecord(r)
           p == [r EXCEPT !.oldCtx = AgeCtx(@)]
           q == [p EXCEPT !.ctx = AgeCtx(@)]
<1>1. \A c \in VehicleContext : AgeCtx(c) \in VehicleContext
  BY AgeHeadlampType DEF AgeCtx, VehicleContext
<1>2. /\ DOMAIN p = DOMAIN r
      /\ \A f \in DOMAIN r \ {"oldCtx"} : p[f] = r[f]
      /\ "oldCtx" \in DOMAIN r => p["oldCtx"] = AgeCtx(r["oldCtx"])
  OBVIOUS
<1> HIDE DEF p
<1>3. /\ DOMAIN q = DOMAIN p
      /\ \A f \in DOMAIN p \ {"ctx"} : q[f] = p[f]
      /\ "ctx" \in DOMAIN p => q["ctx"] = AgeCtx(p["ctx"])
  OBVIOUS
<1>4. a = q
  BY Zenon DEF AgeRecord, p
<1> HIDE DEF q, a
<1>5. /\ DOMAIN a = DOMAIN r /\ a.event = r.event
      /\ a.mode = r.mode /\ a.oldMode = r.oldMode
      /\ a.ctx = AgeCtx(r.ctx) /\ a.oldCtx = AgeCtx(r.oldCtx)
  BY <1>2, <1>3, <1>4 DEF IsWhole
<1>6. QED
  BY <1>1, <1>5 DEF IsWhole, a

\* What is compared of two records ages alike.
LEMMA AgeChains ==
  ASSUME NEW one, NEW next, NEW event, IsWhole(one), IsWhole(next),
         Chains(one, next, event)
  PROVE  Chains(AgeRecord(one), AgeRecord(next), event)
<1>1. /\ AgeRecord(one).mode = one.mode /\ AgeRecord(one).ctx = AgeCtx(one.ctx)
      /\ AgeRecord(next).oldMode = next.oldMode
      /\ AgeRecord(next).oldCtx = AgeCtx(next.oldCtx)
  BY AgeWhole
<1>2. ASSUME NEW c \in VehicleContext
      PROVE  /\ DOMAIN AgeCtx(c) = DOMAIN c
             /\ AgeCtx(c)["headlamp"] = AgeHeadlamp(c["headlamp"])
             /\ \A field \in DOMAIN c \ {"headlamp"} : AgeCtx(c)[field] = c[field]
  BY <1>2 DEF AgeCtx, VehicleContext
<1>3. \A c, d \in VehicleContext : DOMAIN c = DOMAIN d /\ "headlamp" \in DOMAIN c
  BY DEF VehicleContext
<1>4. one.ctx \in VehicleContext /\ next.oldCtx \in VehicleContext
  BY DEF IsWhole
<1>5. \A field \in DOMAIN AgeCtx(one.ctx) \ WrittenBy(event) :
        AgeCtx(next.oldCtx)[field] = AgeCtx(one.ctx)[field]
  BY <1>2, <1>3, <1>4 DEF Chains
<1>6. QED
  BY <1>1, <1>5 DEF Chains

\* Time ages both ends of every link.
LEMMA ElapseAllChains ==
  ASSUME LedgerInv, ChainInv, ElapseAll
  PROVE  ChainInv'
<1> USE DEF LedgerInv
<1>1. /\ emitting' = AgeRows(emitting) /\ sink' = AgeRows(sink) /\ read' = AgeRows(read)
      /\ UNCHANGED nextSeq
  BY DEF ElapseAll
<1>2. Records' = AgeRows(Records)
  BY <1>1, AgeConcat DEF Records, Shapes
<1>3. ASSUME NEW q, IsQueue(q)
      PROVE  /\ Len(AgeRows(q)) = Len(q) /\ DOMAIN AgeRows(q) = DOMAIN q
             /\ Len(q) \in Nat /\ DOMAIN q = 1..Len(q)
             /\ \A i \in DOMAIN q : AgeRows(q)[i] = AgeRecord(q[i])
             /\ AgeRows(q) = << >> <=> q = << >>
  <2>1. DOMAIN q = 1..Len(q) /\ Len(q) \in Nat
    BY <1>3, QueueShape
  <2>2. /\ IsQueue(AgeRows(q)) /\ Len(AgeRows(q)) = Len(q)
        /\ \A i \in 1..Len(q) : AgeRows(q)[i] = AgeRecord(q[i])
    BY <1>3, AgeQueue
  <2>3. DOMAIN AgeRows(q) = 1..Len(q)
    BY <2>2, QueueShape
  <2>4. \A s : IsQueue(s) => (s = << >> <=> Len(s) = 0)
    BY EmptySeq DEF IsQueue
  <2>5. QED
    BY <1>3, <2>1, <2>2, <2>3, <2>4
<1>4. /\ Len(Records') = Len(Records) /\ DOMAIN Records' = DOMAIN Records
      /\ Len(Records) \in Nat /\ DOMAIN Records = 1..Len(Records)
      /\ \A i \in DOMAIN Records : Records'[i] = AgeRecord(Records[i])
  BY <1>2, <1>3, RecordsShape
<1>5. /\ Len(emitting') = Len(emitting) /\ DOMAIN emitting' = DOMAIN emitting
      /\ Len(emitting) \in Nat /\ DOMAIN emitting = 1..Len(emitting)
      /\ \A i \in DOMAIN emitting : emitting'[i] = AgeRecord(emitting[i])
      /\ emitting' = << >> <=> emitting = << >>
  BY <1>1, <1>3, EmittingShape
<1>6. \A i \in DOMAIN Records :
        /\ IsWhole(Records[i]) /\ IsWhole(Records'[i])
        /\ Records'[i].event = Records[i].event /\ Records'[i].seq = Records[i].seq
  <2> TAKE i \in DOMAIN Records
  <2>1. IsWhole(Records[i]) /\ IsHop(Records[i]) /\ IsRow(Records[i])
    BY DEF ChainInv, AllWhole, RowsAccounted, IsRow
  <2>2. QED
    BY <1>4, <2>1, AgeWhole, AgeRecordFacts
<1>7. \A i \in DOMAIN emitting :
        /\ IsWhole(emitting[i]) /\ IsWhole(emitting'[i])
        /\ emitting'[i].event = emitting[i].event
  BY <1>5, AgeWhole DEF ChainInv, AllWhole
<1>8. AllWhole'
  BY <1>4, <1>5, <1>6, <1>7 DEF AllWhole
<1>9. RowsChain'
  <2> SUFFICES ASSUME NEW i \in 1..(Len(Records') - 1),
                      Records'[i + 1].seq = Records'[i].seq + 1
               PROVE  Chains(Records'[i], Records'[i + 1], Records'[i + 1].event)
    BY DEF RowsChain, Chains
  <2>1. i \in 1..(Len(Records) - 1) /\ i \in DOMAIN Records /\ i + 1 \in DOMAIN Records
    BY <1>4
  <2>2. Chains(Records[i], Records[i + 1], Records[i + 1].event)
    BY <1>6, <2>1 DEF ChainInv, RowsChain, Chains
  <2>3. QED
    BY <1>4, <1>6, <2>1, <2>2, AgeChains
<1>10. HopsChain'
  <2>1. ASSUME emitting # << >>, NEW i \in DOMAIN Records, Records[i].seq = nextSeq - 1
        PROVE  Chains(Records'[i], emitting'[1], emitting'[1].event.kind)
    <3>1. Chains(Records[i], emitting[1], emitting[1].event.kind)
      BY <2>1 DEF ChainInv, HopsChain
    <3>2. 1 \in DOMAIN emitting
      <4>1. \A s : IsQueue(s) => (s = << >> <=> Len(s) = 0)
        BY EmptySeq DEF IsQueue
      <4>2. Len(emitting) # 0
        BY <2>1, <4>1, EmittingShape
      <4>3. QED
        BY <1>5, <4>2
    <3>3. QED
      BY <1>4, <1>5, <1>6, <1>7, <2>1, <3>1, <3>2, AgeChains
  <2>2. ASSUME NEW i \in 1..(Len(emitting') - 1)
        PROVE  Chains(emitting'[i], emitting'[i + 1], emitting'[i + 1].event.kind)
    <3>1. /\ i \in 1..(Len(emitting) - 1) /\ i \in DOMAIN emitting
          /\ i + 1 \in DOMAIN emitting
      BY <1>5, <2>2
    <3>2. Chains(emitting[i], emitting[i + 1], emitting[i + 1].event.kind)
      BY <3>1 DEF ChainInv, HopsChain
    <3>3. QED
      BY <1>5, <1>7, <3>1, <3>2, AgeChains
  <2>3. QED
    BY <1>1, <1>4, <1>5, <1>6, <2>1, <2>2 DEF HopsChain
<1>11. QED
  BY <1>8, <1>9, <1>10 DEF ChainInv

\* Every step keeps the rows chained.
LEMMA ChainStep ==
  ASSUME LedgerInv, ChainInv, [LedgerNext]_ledgerVars
  PROVE  ChainInv'
<1>1. ASSUME UNCHANGED <<nextSeq, emitting>>, Records' = Records
      PROVE  ChainInv'
  BY <1>1 DEF ChainInv, AllWhole, RowsChain, HopsChain
<1>2. CASE ReadRow
  <2>1. /\ sink # << >> /\ read' = Append(read, Head(sink)) /\ sink' = Tail(sink)
        /\ UNCHANGED <<nextSeq, emitting>>
    BY <1>2 DEF ReadRow
  <2>2. Records' = Records
    BY <2>1, PassingOn DEF LedgerInv, Shapes, Records
  <2>3. QED
    BY <1>1, <2>1, <2>2
<1>3. CASE GetSnapshot \/ CallTimesOut \/ GetStatus \/ SendSnapshot
            \/ UNCHANGED ledgerVars
  <2>1. UNCHANGED <<nextSeq, emitting, sink, read>>
    BY <1>3 DEF GetSnapshot, CallTimesOut, GetStatus, SendSnapshot, ledgerVars, ledger
  <2>2. QED
    BY <1>1, <2>1 DEF Records
<1>4. QED
  BY <1>2, <1>3, CommitTurnChains, EmitRowChains, ReaderEndsChains, ElapseAllChains
  DEF LedgerNext

\* Every step of the ledger is one of the atomic twin or leaves the cut alone:
\* what reads and writes rows and snapshots decides nothing.
LEMMA LedgerRefines == LedgerInv /\ [LedgerNext]_ledgerVars => [Next]_vars
<1> SUFFICES ASSUME LedgerInv, [LedgerNext]_ledgerVars PROVE [Next]_vars
  OBVIOUS
<1> DEFINE same == UNCHANGED vars
<1>1. mode \in Modes
  BY DEF LedgerInv, IInv, TypeOK
<1>2. ASSUME NEW e \in Ingress, CommitTurn(e) PROVE Next
  <2>1. PICK reply \in TellBacks :
          \E hops \in RunToQuiescence(mode, ctx, e, warningAge, 0,
                                      TurnReplies(e, reply)) :
            ApplyHops(hops)
    BY <1>2 DEF CommitTurn
  <2>2. Commit(e, 0, TurnReplies(e, reply))
    BY <2>1 DEF Commit
  <2>3. /\ e \in FsmEvents /\ reply \in Replies /\ 0 \in Lags
        /\ e.kind = "UpdateRpm" => e.rpm \in RpmReadings
        /\ e.kind = "UpdateAmbientLux" => e.lux \in LuxReadings
    BY LedgerAssumption, WaitsAssumption DEF Lags
  <2>4. /\ HeadlampBearing(e) => TurnReplies(e, reply) = WithIngress(reply)
        /\ ~HeadlampBearing(e) /\ mode = "Idle" /\ e.kind = "PowerOff"
             => TurnReplies(e, reply) = WithReset(reply)
        /\ ~HeadlampBearing(e) /\ ~(mode = "Idle" /\ e.kind = "PowerOff")
             => TurnReplies(e, reply) = SimulateLocally
    BY <1>1, <2>3, LandsOffFromIdle DEF TurnReplies
  <2>5. QED
    BY <1>1, <2>2, <2>3, <2>4, CommitRefines
<1>3. ASSUME ElapseAll PROVE Next
  BY <1>3 DEF ElapseAll, Next
<1>4. CASE \/ EmitRow \/ ReadRow \/ ReaderEnds \/ GetSnapshot \/ CallTimesOut
           \/ GetStatus \/ SendSnapshot \/ UNCHANGED ledgerVars
  BY <1>4 DEF EmitRow, ReadRow, ReaderEnds, GetSnapshot, CallTimesOut, GetStatus,
    SendSnapshot, ledgerVars, twinCut, vars
<1>5. QED
  BY <1>2, <1>3, <1>4 DEF LedgerNext

-----------------------------------------------------------------------------
(* The theorems.                                                            *)

\* The invariant is an invariant of the ledger.
THEOREM LedgerInvariance == LedgerSpec => []LedgerInv
  BY LedgerInitInv, LedgerStep, PTL DEF LedgerSpec

\* Rows, channel, requests and snapshots keep to their types and capacities.
THEOREM LedgerTypeCorrect == LedgerSpec => []LedgerTypeOK
<1>1. LedgerInv => LedgerTypeOK
  <2> SUFFICES ASSUME LedgerInv PROVE LedgerTypeOK
    OBVIOUS
  <2>1. TypeOK
    BY DEF LedgerInv, IInv
  <2>2. nextSeq \in 1..(MaxRows + 1)
    BY LedgerAssumption DEF LedgerInv, Shapes, HopsWaiting
  <2>3. lost \subseteq 1..MaxRows
    <3>1. lost \subseteq 1..(nextSeq - 1)
      BY DEF LedgerInv, RowsAccounted, Accounted
    <3>2. 1..(nextSeq - 1) \subseteq 1..MaxRows
      BY <2>2, LedgerAssumption
    <3>3. QED
      BY <3>1, <3>2
  <2>4. QED
    BY <2>1, <2>2, <2>3 DEF LedgerInv, Shapes, LedgerTypeOK
<1>2. QED
  BY <1>1, LedgerInvariance, PTL

\* A reader can tell from the numbers what it has lost (virtual_car_actor.rs,
\* try_emit_transition_record): they ascend, and the gaps are exactly the rows lost.
THEOREM LossesAreGaps == LedgerSpec => []GapsAreLosses
<1>1. LedgerInv => GapsAreLosses
  BY DEF LedgerInv, RowsAccounted, Accounted, GapsAreLosses
<1>2. QED
  BY <1>1, LedgerInvariance, PTL

\* A snapshot (reply_get_status) shows the cut of the row it is stamped with.
THEOREM SnapshotsMatchRows == LedgerSpec => []SnapshotsReconcile
<1>1. LedgerInv => SnapshotsReconcile
  BY DEF LedgerInv, SnapshotAgrees, SnapshotsReconcile
<1>2. QED
  BY <1>1, LedgerInvariance, PTL

\* Where no row is missing, a reader can follow the twin from row to row: each
\* starts where the one before it ended, but for what the zones made of its own
\* event (PublishedTransitionRecord::project, published.rs).
THEOREM RowsAreChained == LedgerSpec => []RowsChain
<1>1. LedgerInit => ChainInv
  <2> SUFFICES ASSUME LedgerInit PROVE ChainInv
    OBVIOUS
  <2>1. emitting = << >> /\ Records = << >> \o << >>
    BY DEF LedgerInit, Records
  <2>2. << >> \o << >> = << >>
    BY EmptySeq, ConcatEmptySeq
  <2>3. QED
    BY <2>1, <2>2 DEF ChainInv, AllWhole, RowsChain, HopsChain
<1>2. LedgerInv /\ ChainInv /\ [LedgerNext]_ledgerVars => ChainInv'
  BY ChainStep
<1>3. ChainInv => RowsChain
  BY DEF ChainInv
<1>4. QED
  BY <1>1, <1>2, <1>3, LedgerInvariance, PTL DEF LedgerSpec

\* The twin whose turns are published row by row is still the atomic twin: what
\* is proved of every Spec holds of it too (handle_fsm_ingress and try_emit,
\* virtual_car_actor.rs).
THEOREM LedgerImplementsTwin == LedgerSpec => Spec
<1>1. LedgerInit => Init
  BY DEF LedgerInit
<1>2. QED
  BY <1>1, LedgerRefines, LedgerInvariance, PTL DEF LedgerSpec, Spec
=============================================================================
