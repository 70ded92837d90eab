-------------------------- MODULE LedgerSyncProofs --------------------------
(***************************************************************************)
(* What holds of LedgerSync for every number of steps, cap and bound, of   *)
(* one-shot and of recurring plans: types and sound queues; that the row   *)
(* outlives the step that runs from it (Serving); and that it is dropped   *)
(* only when Brain knows how the intent has ended (EndTold).               *)
(***************************************************************************)
EXTENDS LedgerSync, SequenceTheorems, WellFoundedInduction, NaturalsInduction, TLAPS

-----------------------------------------------------------------------------
(* What the ledger's row operations do to a well-formed row: they keep its *)
(* type and the soundness of its queues.  The proofs below cite these      *)
(* lemmas instead of opening the operations.                               *)

(* The least element of a nonempty set of naturals exists.                 *)
LEMMA MinNat ==
  ASSUME NEW S, S \subseteq Nat, S # {}
  PROVE  Min(S) \in S /\ \A y \in S : Min(S) <= y
<1>1. \E x \in S : \A y \in S : ~(<<y, x>> \in OpToRel(<, Nat))
  BY NatLessThanWellFounded, WFMin
<1>2. PICK x \in S : \A y \in S : ~(<<y, x>> \in OpToRel(<, Nat))
  BY <1>1
<1>3. \A y \in S : x <= y
  <2>. SUFFICES ASSUME NEW y \in S, y < x PROVE FALSE
    OBVIOUS
  <2>. QED
    BY <1>2 DEF OpToRel
<1>. QED
  BY <1>3 DEF Min

(* The first event with a given status, as post_terminal_step_now looks    *)
(* for it.                                                                 *)
LEMMA FirstWithIndex ==
  ASSUME NEW q \in Seq(Event), NEW st
  PROVE  /\ FirstWith(q, st) \in 0..Len(q)
         /\ FirstWith(q, st) # 0 => q[FirstWith(q, st)].status = st
         /\ FirstWith(q, st) # 0 =>
              \A j \in 1..(FirstWith(q, st) - 1) : q[j].status # st
         /\ FirstWith(q, st) = 0 => \A j \in 1..Len(q) : q[j].status # st
<1>. DEFINE I == {i \in 1..Len(q) : q[i].status = st}
<1>1. FirstWith(q, st) = IF I # {} THEN Min(I) ELSE 0
  BY DEF FirstWith, SelectInSeq
<1>2. I \subseteq Nat
  OBVIOUS
<1>3. CASE I = {}
  BY <1>1, <1>3
<1>4. CASE I # {}
  <2>1. Min(I) \in I /\ \A y \in I : Min(I) <= y
    BY <1>2, <1>4, MinNat
  <2>2. FirstWith(q, st) = Min(I)
    BY <1>1, <1>4
  <2>. DEFINE m == Min(I)
  <2>. HIDE DEF m
  <2>3. m \in I /\ \A y \in I : m <= y
    BY <2>1 DEF m
  <2>4. Len(q) \in Nat
    OBVIOUS
  <2>5. \A j \in 1..(m - 1) : q[j].status # st
    BY <2>3, <2>4
  <2>6. m \in 1..Len(q) /\ q[m].status = st
    BY <2>3
  <2>. QED
    BY <2>2, <2>5, <2>6 DEF m
<1>. QED
  BY <1>3, <1>4

-----------------------------------------------------------------------------
(* Every operation that takes events off a queue keeps the others in       *)
(* order.                                                                  *)

Thinned(t, q) ==
    /\ t \in Seq(Event)
    /\ Len(t) <= Len(q)
    /\ \E f \in [1..Len(t) -> 1..Len(q)] :
          /\ \A i, j \in 1..Len(t) : i < j => f[i] < f[j]
          /\ \A i \in 1..Len(t) : t[i] = q[f[i]]

(* A sound step stays sound when its queue is thinned.                     *)
LEMMA ThinnedSound ==
  ASSUME NEW s \in StepRow, StepSound(s), NEW t, Thinned(t, s.queue)
  PROVE  WithQueue(s, t) \in StepRow /\ StepSound(WithQueue(s, t))
<1>. DEFINE u == WithQueue(s, t)
<1>1. /\ s.queue \in Seq(Event) /\ s.seq \in Nat /\ s.status \in StepStatus
      /\ t \in Seq(Event) /\ Len(t) <= Len(s.queue)
  BY DEF StepRow, Thinned
<1>2. /\ u.queue = t /\ u.seq = s.seq /\ u.status = s.status
      /\ u.synced = (t = <<>>) /\ u \in StepRow
  BY <1>1 DEF StepRow, WithQueue
<1>3. PICK f \in [1..Len(t) -> 1..Len(s.queue)] :
          /\ \A i, j \in 1..Len(t) : i < j => f[i] < f[j]
          /\ \A i \in 1..Len(t) : t[i] = s.queue[f[i]]
  BY DEF Thinned
<1>4. Len(t) <= QueueCap
  BY <1>1, CapAssumption DEF StepSound
<1>5. \A i \in 1..Len(t) : t[i].seq \in 1..s.seq
  BY <1>3 DEF StepSound
<1>6. \A i, j \in 1..Len(t) : i < j => t[i].seq < t[j].seq
  BY <1>3 DEF StepSound
<1>. HIDE DEF u
<1>7. StepSound(u)
  BY <1>2, <1>4, <1>5, <1>6 DEF StepSound
<1>. QED
  BY <1>2, <1>7 DEF u

(* A queue is what is left of itself when nothing is taken.                *)
LEMMA SelfThinned ==
  ASSUME NEW q \in Seq(Event)
  PROVE  Thinned(q, q)
<1>. DEFINE f == [i \in 1..Len(q) |-> i]
<1>1. Len(q) \in Nat
  OBVIOUS
<1>2. /\ f \in [1..Len(q) -> 1..Len(q)]
      /\ \A i, j \in 1..Len(q) : i < j => f[i] < f[j]
      /\ \A i \in 1..Len(q) : q[i] = q[f[i]]
  BY <1>1
<1>. HIDE DEF f
<1>. QED
  BY <1>1, <1>2 DEF Thinned

(* Giving a sound step its own queue changes nothing.                      *)
LEMMA SameQueue ==
  ASSUME NEW s \in StepRow, StepSound(s)
  PROVE  WithQueue(s, s.queue) = s
BY DEF StepRow, StepSound, WithQueue

(* The queue without its head is thinned.                                  *)
LEMMA TailThinned ==
  ASSUME NEW q \in Seq(Event), q # <<>>
  PROVE  Thinned(Tail(q), q)
<1>1. /\ Tail(q) \in Seq(Event) /\ Len(Tail(q)) = Len(q) - 1
      /\ \A i \in 1..Len(Tail(q)) : Tail(q)[i] = q[i + 1]
  BY HeadTailProperties
<1>2. Len(q) \in Nat
  OBVIOUS
<1>. DEFINE f == [i \in 1..Len(Tail(q)) |-> i + 1]
<1>3. f \in [1..Len(Tail(q)) -> 1..Len(q)]
  BY <1>1, <1>2
<1>4. /\ \A i, j \in 1..Len(Tail(q)) : i < j => f[i] < f[j]
      /\ \A i \in 1..Len(Tail(q)) : Tail(q)[i] = q[f[i]]
  BY <1>1, <1>2
<1>5. Len(Tail(q)) <= Len(q)
  BY <1>1, <1>2
<1>. HIDE DEF f
<1>. QED
  BY <1>1, <1>3, <1>4, <1>5 DEF Thinned

(* So is a queue whose first events are taken.                             *)
LEMMA SuffixThinned ==
  ASSUME NEW q \in Seq(Event), NEW k \in 1..Len(q)
  PROVE  Thinned(SubSeq(q, k, Len(q)), q)
<1>. DEFINE t == SubSeq(q, k, Len(q))
<1>1. Len(q) \in Nat /\ k \in Int /\ \A i \in k..Len(q) : q[i] \in Event
  OBVIOUS
<1>2. /\ t \in Seq(Event) /\ Len(t) = Len(q) - k + 1
      /\ \A i \in 1..(Len(q) - k + 1) : t[i] = q[k + i - 1]
  BY <1>1, SubSeqProperties
<1>. HIDE DEF t
<1>. DEFINE f == [i \in 1..Len(t) |-> k + i - 1]
<1>3. f \in [1..Len(t) -> 1..Len(q)]
  BY <1>1, <1>2
<1>4. /\ \A i, j \in 1..Len(t) : i < j => f[i] < f[j]
      /\ \A i \in 1..Len(t) : t[i] = q[f[i]]
  BY <1>1, <1>2
<1>5. Len(t) <= Len(q)
  BY <1>1, <1>2
<1>. QED
  BY <1>2, <1>3, <1>4, <1>5 DEF Thinned, t

(* What is left of a list when its k-th element is taken out.              *)
LEMMA RemoveAtElements ==
  ASSUME NEW T, NEW q \in Seq(T), NEW k \in 1..Len(q)
  PROVE  /\ RemoveAt(q, k) \in Seq(T) /\ Len(RemoveAt(q, k)) = Len(q) - 1
         /\ \A i \in 1..(Len(q) - 1) :
               RemoveAt(q, k)[i] = IF i < k THEN q[i] ELSE q[i + 1]
<1>. DEFINE a == SubSeq(q, 1, k - 1)
            b == SubSeq(q, k + 1, Len(q))
            t == RemoveAt(q, k)
<1>1. Len(q) \in Nat /\ \A i \in 1..Len(q) : q[i] \in T
  OBVIOUS
<1>2. /\ a \in Seq(T) /\ Len(a) = k - 1
      /\ \A i \in 1..(k - 1) : a[i] = q[i]
  BY <1>1, SubSeqProperties
<1>3. /\ b \in Seq(T) /\ Len(b) = Len(q) - k
      /\ \A i \in 1..(Len(q) - k) : b[i] = q[k + i]
  BY <1>1, SubSeqProperties
<1>4. t = a \o b
  BY DEF RemoveAt
<1>. HIDE DEF a, b, t
<1>5. /\ t \in Seq(T) /\ Len(t) = Len(q) - 1
      /\ \A i \in 1..(Len(q) - 1) : t[i] = IF i < k THEN q[i] ELSE q[i + 1]
  <2>1. /\ t \in Seq(T) /\ Len(t) = Len(a) + Len(b)
        /\ \A i \in 1..(Len(a) + Len(b)) :
              t[i] = IF i <= Len(a) THEN a[i] ELSE b[i - Len(a)]
    BY <1>2, <1>3, <1>4, ConcatProperties
  <2>2. Len(a) + Len(b) = Len(q) - 1
    BY <1>1, <1>2, <1>3
  <2>3. ASSUME NEW i \in 1..(Len(q) - 1)
        PROVE  t[i] = IF i < k THEN q[i] ELSE q[i + 1]
    <3>1. t[i] = IF i <= k - 1 THEN a[i] ELSE b[i - (k - 1)]
      BY <1>2, <2>1, <2>2
    <3>2. CASE i < k
      BY <1>1, <1>2, <3>1, <3>2
    <3>3. CASE ~(i < k)
      <4>1. i - (k - 1) \in 1..(Len(q) - k) /\ k + (i - (k - 1)) = i + 1
        BY <1>1, <3>3
      <4>. QED
        BY <1>1, <1>3, <3>1, <3>3, <4>1
    <3>. QED
      BY <3>2, <3>3
  <2>. QED
    BY <2>1, <2>2, <2>3
<1>. QED
  BY <1>5 DEF t

(* Taking one event out of a queue.                                        *)
LEMMA RemoveAtThinned ==
  ASSUME NEW q \in Seq(Event), NEW k \in 1..Len(q)
  PROVE  Thinned(RemoveAt(q, k), q)
<1>. DEFINE t == RemoveAt(q, k)
<1>1. Len(q) \in Nat /\ \A i \in 1..Len(q) : q[i] \in Event
  OBVIOUS
<1>2. /\ t \in Seq(Event) /\ Len(t) = Len(q) - 1
      /\ \A i \in 1..(Len(q) - 1) : t[i] = IF i < k THEN q[i] ELSE q[i + 1]
  BY RemoveAtElements
<1>. HIDE DEF t
<1>. DEFINE f == [i \in 1..Len(t) |-> IF i < k THEN i ELSE i + 1]
<1>3. f \in [1..Len(t) -> 1..Len(q)]
  BY <1>1, <1>2
<1>4. /\ \A i, j \in 1..Len(t) : i < j => f[i] < f[j]
      /\ \A i \in 1..Len(t) : t[i] = q[f[i]]
  BY <1>1, <1>2
<1>5. Len(t) <= Len(q)
  BY <1>1, <1>2
<1>. QED
  BY <1>2, <1>3, <1>4, <1>5 DEF Thinned, t

(* _enqueue_step_event numbers the new event above all others, and makes   *)
(* room under the cap: the step stays sound.                               *)
LEMMA EnqueueSound ==
  ASSUME NEW s \in StepRow, StepSound(s), NEW st \in StepStatus
  PROVE  LET u == [EnqueueStepEvent(s, st) EXCEPT !.status = st]
         IN  u \in StepRow /\ StepSound(u)
<1>. DEFINE e == EnqueueStepEvent(s, st)
            u == [e EXCEPT !.status = st]
            ev == [status |-> st, seq |-> s.seq + 1]
            q == Append(s.queue, ev)
            t == IF Len(q) > QueueCap THEN Tail(q) ELSE q
<1>1. /\ s.queue \in Seq(Event) /\ s.seq \in Nat /\ s.status \in StepStatus
      /\ s.synced \in BOOLEAN /\ Len(s.queue) \in Nat /\ QueueCap \in Nat \ {0}
  BY CapAssumption DEF StepRow
<1>2. e \in StepRow /\ StepSound(e)
  <2>1. CASE st = s.status \/ (s.queue # <<>> /\ s.queue[Len(s.queue)].status = st)
    BY <2>1 DEF EnqueueStepEvent
  <2>2. CASE ~(st = s.status \/ (s.queue # <<>> /\ s.queue[Len(s.queue)].status = st))
    <3>1. e = [status |-> s.status, seq |-> s.seq + 1, synced |-> FALSE, queue |-> t]
      BY <2>2 DEF EnqueueStepEvent
    <3>2. ev \in Event
      BY <1>1 DEF Event
    <3>. HIDE DEF ev
    <3>3. /\ q \in Seq(Event) /\ Len(q) = Len(s.queue) + 1 /\ q # <<>>
          /\ \A i \in 1..Len(s.queue) : q[i] = s.queue[i]
          /\ q[Len(s.queue) + 1] = ev
      BY <1>1, <3>2, AppendProperties
    <3>. HIDE DEF q
    <3>4. \A i \in 1..Len(q) : q[i].seq \in 1..(s.seq + 1)
      <4>. SUFFICES ASSUME NEW i \in 1..Len(q) PROVE q[i].seq \in 1..(s.seq + 1)
        OBVIOUS
      <4>1. CASE i = Len(s.queue) + 1
        BY <1>1, <3>3, <4>1 DEF ev
      <4>2. CASE i # Len(s.queue) + 1
        BY <1>1, <3>3, <4>2 DEF StepSound
      <4>. QED
        BY <4>1, <4>2
    <3>5. \A i, j \in 1..Len(q) : i < j => q[i].seq < q[j].seq
      <4>. SUFFICES ASSUME NEW i \in 1..Len(q), NEW j \in 1..Len(q), i < j
                    PROVE  q[i].seq < q[j].seq
        OBVIOUS
      <4>1. i \in 1..Len(s.queue) /\ q[i] = s.queue[i]
        BY <1>1, <3>3
      <4>2. CASE j = Len(s.queue) + 1
        BY <1>1, <3>3, <4>1, <4>2 DEF StepSound, ev
      <4>3. CASE j # Len(s.queue) + 1
        BY <1>1, <3>3, <4>1, <4>3 DEF StepSound
      <4>. QED
        BY <4>2, <4>3
    <3>6. /\ t \in Seq(Event) /\ t # <<>> /\ Len(t) <= QueueCap
          /\ \A i \in 1..Len(t) : t[i].seq \in 1..(s.seq + 1)
          /\ \A i, j \in 1..Len(t) : i < j => t[i].seq < t[j].seq
      <4>1. CASE Len(q) > QueueCap
        <5>1. /\ Tail(q) \in Seq(Event) /\ Len(Tail(q)) = Len(q) - 1
              /\ \A i \in 1..Len(Tail(q)) : Tail(q)[i] = q[i + 1]
          BY <3>3, HeadTailProperties
        <5>2. Len(Tail(q)) <= QueueCap /\ Len(Tail(q)) # 0
          BY <1>1, <3>3, <4>1, <5>1 DEF StepSound
        <5>3. Tail(q) # <<>>
          <6>1. Len(<<>>) = 0
            BY EmptySeq
          <6>. QED
            BY <5>2, <6>1, Zenon
        <5>4. \A i \in 1..Len(Tail(q)) : i \in Int /\ i + 1 \in 1..Len(q)
          BY <1>1, <3>3, <5>1
        <5>5. \A i \in 1..Len(Tail(q)) : Tail(q)[i].seq \in 1..(s.seq + 1)
          BY <3>4, <5>1, <5>4
        <5>6. \A i, j \in 1..Len(Tail(q)) : i < j => Tail(q)[i].seq < Tail(q)[j].seq
          <6>. SUFFICES ASSUME NEW i \in 1..Len(Tail(q)), NEW j \in 1..Len(Tail(q)), i < j
                        PROVE  q[i + 1].seq < q[j + 1].seq
            BY <5>1
          <6>1. i + 1 \in 1..Len(q) /\ j + 1 \in 1..Len(q) /\ i + 1 < j + 1
            BY <5>4
          <6>. QED
            BY <3>5, <6>1
        <5>. QED
          BY <4>1, <5>1, <5>2, <5>3, <5>5, <5>6
      <4>2. CASE ~(Len(q) > QueueCap)
        BY <1>1, <3>3, <3>4, <3>5, <4>2
      <4>. QED
        BY <4>1, <4>2
    <3>. HIDE DEF t
    <3>7. /\ e.queue = t /\ e.seq = s.seq + 1 /\ e.synced = FALSE
          /\ e.status = s.status /\ e \in StepRow
      BY <1>1, <3>1, <3>6 DEF StepRow
    <3>. HIDE DEF e
    <3>. QED
      BY <3>6, <3>7 DEF StepSound
  <2>. QED
    BY <2>1, <2>2
<1>. HIDE DEF e
<1>3. /\ u \in StepRow /\ u.queue = e.queue /\ u.seq = e.seq /\ u.synced = e.synced
  BY <1>2 DEF StepRow
<1>. HIDE DEF u
<1>4. StepSound(u)
  BY <1>2, <1>3 DEF StepSound
<1>. QED
  BY <1>3, <1>4 DEF u, e

-----------------------------------------------------------------------------
(* The operations on a row.                                                *)

WellFormed(r) == r \in Row \cup {NoRow} /\ RowSound(r)

(* A well-formed row stays so when one step is replaced by a sound one.    *)
LEMMA ReplaceStep ==
  ASSUME NEW r \in Row, RowSound(r), NEW n \in Steps,
         NEW u \in StepRow, StepSound(u)
  PROVE  LET q == [r EXCEPT !.steps[n] = u]
         IN  /\ q \in Row /\ WellFormed(q)
             /\ q.steps = [r.steps EXCEPT ![n] = u]
             /\ q.wire = r.wire /\ q.hist = r.hist /\ q.synced = r.synced
<1>. DEFINE q == [r EXCEPT !.steps[n] = u]
<1>1. /\ q \in Row /\ q.steps = [r.steps EXCEPT ![n] = u]
      /\ q.wire = r.wire /\ q.hist = r.hist /\ q.synced = r.synced
  BY DEF Row
<1>2. r.steps \in [Steps -> StepRow] /\ r # NoRow
  BY NoRowAssumption DEF Row
<1>. HIDE DEF q
<1>3. \A m \in Steps : StepSound(q.steps[m])
  BY <1>1, <1>2 DEF RowSound
<1>. QED
  BY <1>1, <1>3 DEF WellFormed, RowSound, q

(* Dropping the row when it is done keeps it well formed.                  *)
LEMMA DropKeeps ==
  ASSUME NEW r, WellFormed(r), NEW open
  PROVE  WellFormed(DropIfDone(r, open))
BY DEF WellFormed, DropIfDone, RowSound

(* set_step_status keeps the row well formed.                              *)
LEMMA SetStepStatusKeeps ==
  ASSUME NEW r, WellFormed(r), NEW n \in Steps, NEW st \in StepStatus
  PROVE  /\ WellFormed(SetStepStatus(r, n, st))
         /\ r # NoRow => SetStepStatus(r, n, st) \in Row
<1>1. CASE r = NoRow
  BY <1>1 DEF SetStepStatus, WellFormed, RowSound
<1>2. CASE r # NoRow
  <2>. DEFINE u == [EnqueueStepEvent(r.steps[n], st) EXCEPT !.status = st]
  <2>1. r \in Row /\ r.steps[n] \in StepRow /\ StepSound(r.steps[n])
    BY <1>2 DEF WellFormed, RowSound, Row
  <2>2. u \in StepRow /\ StepSound(u)
    BY <2>1, EnqueueSound
  <2>3. SetStepStatus(r, n, st) = [r EXCEPT !.steps[n] = u]
    BY <1>2 DEF SetStepStatus
  <2>. HIDE DEF u
  <2>. QED
    BY <2>1, <2>2, <2>3, ReplaceStep DEF WellFormed
<1>. QED
  BY <1>1, <1>2

(* set_intent_status keeps the row well formed.                            *)
LEMMA SetIntentStatusKeeps ==
  ASSUME NEW r, WellFormed(r), NEW w \in IntentStatus
  PROVE  /\ WellFormed(SetIntentStatus(r, w))
         /\ r # NoRow => SetIntentStatus(r, w) \in Row
<1>1. CASE r = NoRow \/ r.wire = w
  BY <1>1 DEF SetIntentStatus, WellFormed
<1>2. CASE ~(r = NoRow \/ r.wire = w)
  <2>. DEFINE q == SetIntentStatus(r, w)
              h == Append(r.hist, [status |-> w, synced |-> FALSE])
  <2>1. r \in Row
    BY <1>2 DEF WellFormed
  <2>2. h \in Seq(HistEntry)
    <3>1. [status |-> w, synced |-> FALSE] \in HistEntry
      BY DEF HistEntry
    <3>. QED
      BY <2>1, <3>1, AppendProperties DEF Row
  <2>3. q = [wire |-> w, hist |-> h, synced |-> FALSE, steps |-> r.steps]
    BY <1>2, <2>1 DEF SetIntentStatus, Row
  <2>. HIDE DEF h, q
  <2>4. q \in Row /\ q.steps = r.steps
    BY <2>1, <2>2, <2>3 DEF Row
  <2>. QED
    BY <1>2, <2>4 DEF WellFormed, RowSound, q
<1>. QED
  BY <1>1, <1>2

(* Taking the leading WAITING and RUNNING events thins the queue.          *)
LEMMA WithoutLeadingThinned ==
  ASSUME NEW q \in Seq(Event)
  PROVE  Thinned(WithoutLeading(q), q)
<1>. DEFINE I == {i \in 1..Len(q) : q[i].status \in Terminal}
            m == Min(I)
<1>1. WithoutLeading(q) = LET i == IF I # {} THEN Min(I) ELSE 0
                          IN  IF i = 0 THEN <<>> ELSE SubSeq(q, i, Len(q))
  BY DEF WithoutLeading, SelectInSeq
<1>2. CASE I = {}
  <2>1. WithoutLeading(q) = <<>>
    BY <1>1, <1>2
  <2>2. Len(<<>>) = 0 /\ <<>> \in Seq(Event) /\ Len(q) \in Nat
    BY EmptySeq, LenProperties
  <2>. DEFINE f == [i \in 1..Len(<<>>) |-> 1]
  <2>3. f \in [1..Len(<<>>) -> 1..Len(q)]
    BY <2>2
  <2>4. 1..Len(<<>>) = {}
    BY <2>2
  <2>. HIDE DEF f
  <2>5. \A i, j \in 1..Len(<<>>) : i < j => f[i] < f[j]
    BY <2>4
  <2>6. \A i \in 1..Len(<<>>) : <<>>[i] = q[f[i]]
    BY <2>4, Zenon
  <2>7. Len(<<>>) <= Len(q)
    BY <2>2
  <2>8. Thinned(<<>>, q)
    BY <2>2, <2>3, <2>5, <2>6, <2>7, Zenon DEF Thinned
  <2>. QED
    BY <2>1, <2>8
<1>3. CASE I # {}
  <2>1. m \in I
    <3>1. I \subseteq Nat
      OBVIOUS
    <3>. HIDE DEF I
    <3>. QED
      BY <1>3, <3>1, MinNat
  <2>. HIDE DEF m
  <2>2. m \in 1..Len(q) /\ m # 0
    BY <2>1
  <2>3. WithoutLeading(q) = SubSeq(q, m, Len(q))
    BY <1>1, <1>3, <2>2 DEF m
  <2>. QED
    BY <2>2, <2>3, SuffixThinned
<1>. QED
  BY <1>2, <1>3

(* _discard_leading_non_terminal keeps the row well formed.                *)
LEMMA DiscardLeadingKeeps ==
  ASSUME NEW r, WellFormed(r), NEW n \in Steps
  PROVE  WellFormed(DiscardLeadingNonTerminal(r, n))
<1>. DEFINE t == WithoutLeading(r.steps[n].queue)
<1>1. CASE r = NoRow
  BY <1>1 DEF DiscardLeadingNonTerminal, WellFormed, RowSound
<1>2. CASE r # NoRow /\ t = r.steps[n].queue
  BY <1>2 DEF DiscardLeadingNonTerminal
<1>3. CASE r # NoRow /\ t # r.steps[n].queue
  <2>1. r \in Row /\ r.steps[n] \in StepRow /\ StepSound(r.steps[n])
        /\ r.steps[n].queue \in Seq(Event)
    BY <1>3 DEF WellFormed, RowSound, Row, StepRow
  <2>2. Thinned(t, r.steps[n].queue)
    BY <2>1, WithoutLeadingThinned
  <2>. DEFINE u == WithQueue(r.steps[n], t)
  <2>3. u \in StepRow /\ StepSound(u)
    BY <2>1, <2>2, ThinnedSound
  <2>4. DiscardLeadingNonTerminal(r, n) = [r EXCEPT !.steps[n] = u]
    BY <1>3 DEF DiscardLeadingNonTerminal
  <2>. HIDE DEF u
  <2>. QED
    BY <2>1, <2>3, <2>4, ReplaceStep DEF WellFormed
<1>. QED
  BY <1>1, <1>2, <1>3

(* _discard_matching_step_event keeps the row well formed.                 *)
LEMMA DiscardMatchingKeeps ==
  ASSUME NEW r, WellFormed(r), NEW n \in Steps, NEW st, NEW open
  PROVE  WellFormed(DiscardMatchingStepEvent(r, n, st, open))
<1>. DEFINE i == FirstWith(r.steps[n].queue, st)
<1>1. CASE r = NoRow
  BY <1>1 DEF DiscardMatchingStepEvent, WellFormed, RowSound
<1>2. CASE r # NoRow /\ i = 0
  BY <1>2 DEF DiscardMatchingStepEvent
<1>3. CASE r # NoRow /\ i # 0
  <2>1. r \in Row /\ r.steps[n] \in StepRow /\ StepSound(r.steps[n])
        /\ r.steps[n].queue \in Seq(Event)
    BY <1>3 DEF WellFormed, RowSound, Row, StepRow
  <2>. DEFINE q == r.steps[n].queue
              u == WithQueue(r.steps[n], RemoveAt(q, i))
  <2>2. i \in 1..Len(q)
    <3>1. i \in 0..Len(q)
      BY <2>1, FirstWithIndex
    <3>. HIDE DEF i
    <3>. QED
      BY <1>3, <3>1
  <2>3. Thinned(RemoveAt(q, i), q)
    BY <2>1, <2>2, RemoveAtThinned
  <2>4. u \in StepRow /\ StepSound(u)
    BY <2>1, <2>3, ThinnedSound
  <2>5. DiscardMatchingStepEvent(r, n, st, open)
          = DropIfDone([r EXCEPT !.steps[n] = u], open)
    BY <1>3 DEF DiscardMatchingStepEvent
  <2>. HIDE DEF u
  <2>6. WellFormed([r EXCEPT !.steps[n] = u])
    BY <2>1, <2>4, ReplaceStep DEF WellFormed
  <2>. QED
    BY <2>5, <2>6, DropKeeps
<1>. QED
  BY <1>1, <1>2, <1>3

(* Taking the head of a nonempty queue keeps the step sound.               *)
LEMMA PopHeadSound ==
  ASSUME NEW s \in StepRow, StepSound(s), s.queue # <<>>
  PROVE  PopHead(s) \in StepRow /\ StepSound(PopHead(s))
<1>1. s.queue \in Seq(Event)
  BY DEF StepRow
<1>2. Thinned(Tail(s.queue), s.queue)
  BY <1>1, TailThinned
<1>. QED
  BY <1>2, ThinnedSound DEF PopHead

(* Marking a step synced whose queue is empty changes nothing.             *)
LEMMA EmptyQueueSynced ==
  ASSUME NEW s \in StepRow, StepSound(s), s.queue = <<>>
  PROVE  [s EXCEPT !.synced = TRUE] = s
BY DEF StepRow, StepSound

(* _discard_queued_event keeps the row well formed.                        *)
LEMMA DiscardQueuedKeeps ==
  ASSUME NEW r, WellFormed(r), NEW n \in Steps
  PROVE  WellFormed(DiscardQueuedEvent(r, n))
<1>1. CASE r = NoRow
  BY <1>1 DEF DiscardQueuedEvent, WellFormed, RowSound
<1>2. CASE r # NoRow
  <2>. DEFINE s == r.steps[n]
              u == IF s.queue = <<>> THEN [s EXCEPT !.synced = TRUE] ELSE PopHead(s)
  <2>1. r \in Row /\ RowSound(r) /\ s \in StepRow /\ StepSound(s)
    BY <1>2 DEF WellFormed, RowSound, Row
  <2>2. u \in StepRow /\ StepSound(u)
    BY <2>1, PopHeadSound, EmptyQueueSynced
  <2>3. DiscardQueuedEvent(r, n) = [r EXCEPT !.steps[n] = u]
    BY <1>2 DEF DiscardQueuedEvent
  <2>. HIDE DEF u
  <2>. QED
    BY <2>1, <2>2, <2>3, ReplaceStep
<1>. QED
  BY <1>1, <1>2

(* mark_step_synced keeps the row well formed, whatever event was posted.  *)
LEMMA MarkStepSyncedKeeps ==
  ASSUME NEW r, WellFormed(r), NEW n \in Steps, NEW ev, NEW open
  PROVE  WellFormed(MarkStepSynced(r, n, ev, open))
<1>1. CASE r = NoRow
  BY <1>1 DEF MarkStepSynced, WellFormed, RowSound
<1>2. CASE r # NoRow
  <2>. DEFINE s == r.steps[n]
              u == IF s.queue = <<>>        THEN [s EXCEPT !.synced = TRUE]
                   ELSE IF s.queue[1] = ev  THEN PopHead(s)
                   ELSE s
  <2>1. r \in Row /\ RowSound(r) /\ s \in StepRow /\ StepSound(s)
    BY <1>2 DEF WellFormed, RowSound, Row
  <2>2. u \in StepRow /\ StepSound(u)
    BY <2>1, PopHeadSound, EmptyQueueSynced
  <2>3. MarkStepSynced(r, n, ev, open) = DropIfDone([r EXCEPT !.steps[n] = u], open)
    BY <1>2 DEF MarkStepSynced
  <2>. HIDE DEF u
  <2>4. WellFormed([r EXCEPT !.steps[n] = u])
    BY <2>1, <2>2, ReplaceStep
  <2>. QED
    BY <2>3, <2>4, DropKeeps
<1>. QED
  BY <1>1, <1>2

(* mark_intent_synced touches the history and its marks, then may drop.    *)
LEMMA MarkIntentParts ==
  ASSUME NEW r \in Row, NEW w, NEW open
  PROVE  \E q \in Row : q.steps = r.steps /\ MarkIntentSynced(r, w, open) = DropIfDone(q, open)
<1>. DEFINE I == {k \in 1..Len(r.hist) : r.hist[k].status = w /\ ~r.hist[k].synced}
            i == IF I # {} THEN Min(I) ELSE 0
            h == IF i = 0 THEN r.hist ELSE [r.hist EXCEPT ![i].synced = TRUE]
            y == IF h = <<>> THEN r.synced \/ w = r.wire
                 ELSE r.synced \/ \A j \in DOMAIN h : h[j].synced
            q == [r EXCEPT !.hist = h, !.synced = y]
<1>1. r # NoRow /\ r.hist \in Seq(HistEntry)
  BY NoRowAssumption DEF Row
<1>2. MarkIntentSynced(r, w, open) = DropIfDone(q, open)
  BY <1>1 DEF MarkIntentSynced, SelectInSeq
<1>3. i \in 0..Len(r.hist)
  <2>1. CASE I = {}
    BY <1>1, <2>1
  <2>2. CASE I # {}
    <3>1. I \subseteq 1..Len(r.hist) /\ I \subseteq Nat
      OBVIOUS
    <3>. HIDE DEF I
    <3>2. Min(I) \in I
      BY <2>2, <3>1, MinNat
    <3>3. i \in 1..Len(r.hist)
      BY <2>2, <3>1, <3>2, Zenon
    <3>. HIDE DEF i
    <3>. QED
      BY <1>1, <3>3
  <2>. QED
    BY <2>1, <2>2
<1>. HIDE DEF i
<1>4. h \in Seq(HistEntry)
  <2>1. CASE i = 0
    BY <1>1, <2>1
  <2>2. CASE i # 0
    <3>1. i \in 1..Len(r.hist)
      BY <1>3, <2>2
    <3>2. r.hist[i] \in HistEntry
      BY <1>1, <3>1, ElementOfSeq
    <3>3. [r.hist[i] EXCEPT !.synced = TRUE] \in HistEntry
      BY <3>2 DEF HistEntry
    <3>4. h = [r.hist EXCEPT ![i] = [r.hist[i] EXCEPT !.synced = TRUE]]
      BY <2>2
    <3>. HIDE DEF h
    <3>. QED
      BY <1>1, <3>1, <3>3, <3>4, ExceptSeq
  <2>. QED
    BY <2>1, <2>2
<1>. HIDE DEF h
<1>5. y \in BOOLEAN
  BY <1>1 DEF Row
<1>. HIDE DEF y
<1>6. q \in Row /\ q.steps = r.steps
  BY <1>4, <1>5 DEF Row
<1>. HIDE DEF q
<1>. QED
  BY <1>2, <1>6

(* mark_intent_synced keeps the row well formed.                           *)
LEMMA MarkIntentSyncedKeeps ==
  ASSUME NEW r, WellFormed(r), NEW w, NEW open
  PROVE  WellFormed(MarkIntentSynced(r, w, open))
<1>1. CASE r = NoRow
  BY <1>1 DEF MarkIntentSynced, WellFormed, RowSound
<1>2. CASE r # NoRow
  <2>1. r \in Row /\ RowSound(r)
    BY <1>2 DEF WellFormed
  <2>2. PICK q \in Row : /\ q.steps = r.steps
                         /\ MarkIntentSynced(r, w, open) = DropIfDone(q, open)
    BY <2>1, MarkIntentParts
  <2>3. WellFormed(q)
    BY <1>2, <2>1, <2>2 DEF WellFormed, RowSound
  <2>. QED
    BY <2>2, <2>3, DropKeeps
<1>. QED
  BY <1>1, <1>2

-----------------------------------------------------------------------------
(* What else the operations change, and what they leave alone.             *)

(* set_step_status: the step's status and its queue, nothing else.         *)
LEMMA SetStepEffect ==
  ASSUME NEW r \in Row, RowSound(r), NEW n \in Steps, NEW st \in StepStatus
  PROVE  LET q == SetStepStatus(r, n, st)
         IN  /\ q \in Row /\ q # NoRow
             /\ q.wire = r.wire /\ q.hist = r.hist /\ q.synced = r.synced
             /\ \A k \in Steps : q.steps[k].status = IF k = n THEN st ELSE r.steps[k].status
<1>. DEFINE e == EnqueueStepEvent(r.steps[n], st)
            u == [e EXCEPT !.status = st]
            q == SetStepStatus(r, n, st)
<1>1. r # NoRow /\ r.steps \in [Steps -> StepRow] /\ r.steps[n] \in StepRow
      /\ StepSound(r.steps[n])
  BY NoRowAssumption DEF Row, RowSound
<1>2. u \in StepRow /\ StepSound(u)
  BY <1>1, EnqueueSound
<1>3. u.status = st
  <2>1. e = r.steps[n] \/ e.status = r.steps[n].status
    BY DEF EnqueueStepEvent
  <2>2. "status" \in DOMAIN e
    BY <1>1 DEF EnqueueStepEvent, StepRow
  <2>. HIDE DEF e
  <2>. QED
    BY <2>2
<1>4. q = [r EXCEPT !.steps[n] = u]
  BY <1>1 DEF SetStepStatus
<1>. HIDE DEF u
<1>5. /\ q \in Row /\ q.steps = [r.steps EXCEPT ![n] = u]
      /\ q.wire = r.wire /\ q.hist = r.hist /\ q.synced = r.synced
  BY <1>2, <1>4, ReplaceStep
<1>. HIDE DEF q
<1>. QED
  BY <1>1, <1>3, <1>5, NoRowAssumption DEF q

(* set_intent_status: the wire status, with one entry more in the history. *)
LEMMA SetIntentEffect ==
  ASSUME NEW r \in Row, NEW w \in IntentStatus
  PROVE  LET q == SetIntentStatus(r, w)
         IN  /\ q \in Row /\ q # NoRow /\ q.wire = w /\ q.steps = r.steps
             /\ r.wire = w => q = r
             /\ r.wire # w => /\ q.synced = FALSE
                              /\ q.hist = Append(r.hist, [status |-> w, synced |-> FALSE])
<1>1. r # NoRow
  BY NoRowAssumption
<1>2. CASE r.wire = w
  BY <1>1, <1>2 DEF SetIntentStatus
<1>3. CASE r.wire # w
  <2>. DEFINE h == Append(r.hist, [status |-> w, synced |-> FALSE])
              q == SetIntentStatus(r, w)
  <2>1. h \in Seq(HistEntry)
    BY DEF Row, HistEntry
  <2>2. q = [r EXCEPT !.wire = w, !.hist = h, !.synced = FALSE]
    BY <1>1, <1>3 DEF SetIntentStatus
  <2>. HIDE DEF h
  <2>3. q \in Row /\ q.wire = w /\ q.steps = r.steps /\ q.synced = FALSE /\ q.hist = h
    BY <2>1, <2>2 DEF Row
  <2>. HIDE DEF q
  <2>. QED
    BY <1>3, <2>3, NoRowAssumption DEF q, h
<1>. QED
  BY <1>2, <1>3

(* Events have left a row r, and it may have been dropped: no status has   *)
(* changed, and it went only if Brain knew the end of its intent.          *)
TakenOff(q, r) ==
    /\ q = NoRow => r.synced /\ r.wire \in IntentTerminal
    /\ q # NoRow => /\ q.wire = r.wire /\ q.hist = r.hist /\ q.synced = r.synced
                    /\ \A k \in Steps : q.steps[k].status = r.steps[k].status

(* The queue of one step replaced, then perhaps dropped.                   *)
LEMMA ReplaceTakesOff ==
  ASSUME NEW r \in Row, RowSound(r), NEW n \in Steps, NEW u \in StepRow, StepSound(u),
         u.status = r.steps[n].status, NEW open
  PROVE  LET q == [r EXCEPT !.steps[n] = u]
         IN  TakenOff(q, r) /\ TakenOff(DropIfDone(q, open), r)
<1>. DEFINE q == [r EXCEPT !.steps[n] = u]
<1>1. /\ q \in Row /\ q.steps = [r.steps EXCEPT ![n] = u]
      /\ q.wire = r.wire /\ q.hist = r.hist /\ q.synced = r.synced
  BY ReplaceStep
<1>2. r.steps \in [Steps -> StepRow] /\ q # NoRow
  BY <1>1, NoRowAssumption DEF Row
<1>. HIDE DEF q
<1>3. TakenOff(q, r)
  BY <1>1, <1>2 DEF TakenOff
<1>4. DropIfDone(q, open) = q \/ (DropIfDone(q, open) = NoRow /\ DropReady(q, open))
  BY DEF DropIfDone
<1>5. DropReady(q, open) => r.synced /\ r.wire \in IntentTerminal
  BY <1>1 DEF DropReady
<1>. QED
  BY <1>3, <1>4, <1>5 DEF TakenOff, q

(* Every operation that takes events off a queue is of this kind.          *)
LEMMA TakesOff ==
  ASSUME NEW r \in Row, RowSound(r), NEW n \in Steps
  PROVE  /\ \A ev, open : TakenOff(MarkStepSynced(r, n, ev, open), r)
         /\ TakenOff(DiscardQueuedEvent(r, n), r)
         /\ TakenOff(DiscardLeadingNonTerminal(r, n), r)
         /\ \A st, open : TakenOff(DiscardMatchingStepEvent(r, n, st, open), r)
<1>. DEFINE s == r.steps[n]
<1>1. r # NoRow /\ s \in StepRow /\ StepSound(s) /\ s.queue \in Seq(Event)
  BY NoRowAssumption DEF Row, RowSound, StepRow
<1>2. TakenOff(r, r)
  BY <1>1 DEF TakenOff
<1>3. ASSUME NEW t, Thinned(t, s.queue)
      PROVE  WithQueue(s, t) \in StepRow /\ StepSound(WithQueue(s, t))
             /\ WithQueue(s, t).status = s.status
  <2>1. WithQueue(s, t) \in StepRow /\ StepSound(WithQueue(s, t))
    BY <1>1, <1>3, ThinnedSound
  <2>. QED
    BY <2>1 DEF WithQueue
<1>4. s.queue = <<>> => [s EXCEPT !.synced = TRUE] = s
  BY <1>1, EmptyQueueSynced
<1>5. s.queue # <<>> => PopHead(s) \in StepRow /\ StepSound(PopHead(s)) /\ PopHead(s).status = s.status
  BY <1>1, <1>3, TailThinned DEF PopHead
<1>. HIDE DEF s
<1>6. ASSUME NEW ev, NEW open PROVE TakenOff(MarkStepSynced(r, n, ev, open), r)
  <2>. DEFINE t == IF s.queue = <<>>       THEN [s EXCEPT !.synced = TRUE]
                   ELSE IF s.queue[1] = ev THEN PopHead(s)
                   ELSE s
  <2>1. t \in StepRow /\ StepSound(t) /\ t.status = s.status
    BY <1>1, <1>4, <1>5
  <2>2. MarkStepSynced(r, n, ev, open) = DropIfDone([r EXCEPT !.steps[n] = t], open)
    BY <1>1 DEF MarkStepSynced, s
  <2>. HIDE DEF t
  <2>. QED
    BY <2>1, <2>2, ReplaceTakesOff DEF s
<1>7. TakenOff(DiscardQueuedEvent(r, n), r)
  <2>. DEFINE t == IF s.queue = <<>> THEN [s EXCEPT !.synced = TRUE] ELSE PopHead(s)
  <2>1. t \in StepRow /\ StepSound(t) /\ t.status = s.status
    BY <1>1, <1>4, <1>5
  <2>2. DiscardQueuedEvent(r, n) = [r EXCEPT !.steps[n] = t]
    BY <1>1 DEF DiscardQueuedEvent, s
  <2>. HIDE DEF t
  <2>. QED
    BY <2>1, <2>2, ReplaceTakesOff DEF s
<1>8. TakenOff(DiscardLeadingNonTerminal(r, n), r)
  <2>. DEFINE u == WithQueue(s, WithoutLeading(s.queue))
  <2>1. u \in StepRow /\ StepSound(u) /\ u.status = s.status
    BY <1>1, <1>3, WithoutLeadingThinned
  <2>2. \/ DiscardLeadingNonTerminal(r, n) = r
        \/ DiscardLeadingNonTerminal(r, n) = [r EXCEPT !.steps[n] = u]
    BY <1>1 DEF DiscardLeadingNonTerminal, s
  <2>. HIDE DEF u
  <2>. QED
    BY <1>2, <2>1, <2>2, ReplaceTakesOff DEF s
<1>9. ASSUME NEW st, NEW open PROVE TakenOff(DiscardMatchingStepEvent(r, n, st, open), r)
  <2>. DEFINE i == FirstWith(s.queue, st)
              u == WithQueue(s, RemoveAt(s.queue, i))
  <2>1. CASE i = 0
    BY <1>1, <1>2, <2>1 DEF DiscardMatchingStepEvent, s
  <2>2. CASE i # 0
    <3>1. i \in 1..Len(s.queue)
      BY <1>1, <2>2, FirstWithIndex
    <3>2. u \in StepRow /\ StepSound(u) /\ u.status = s.status
      BY <1>1, <1>3, <3>1, RemoveAtThinned
    <3>3. DiscardMatchingStepEvent(r, n, st, open) = DropIfDone([r EXCEPT !.steps[n] = u], open)
      BY <1>1, <2>2 DEF DiscardMatchingStepEvent, s
    <3>. HIDE DEF u
    <3>. QED
      BY <3>2, <3>3, ReplaceTakesOff DEF s
  <2>. QED
    BY <2>1, <2>2
<1>. QED
  BY <1>6, <1>7, <1>8, <1>9

(* mark_intent_synced, for a row with a history: one entry of that status  *)
(* may be marked, the row with the last of them, and then it may go.       *)
Marked(q, r, w) ==
    /\ q = NoRow => /\ r.wire \in IntentTerminal
                    /\ r.synced \/ \A j \in 1..Len(r.hist) :
                                      r.hist[j].synced \/ r.hist[j].status = w
    /\ q # NoRow =>
         /\ q.wire = r.wire /\ q.steps = r.steps /\ Len(q.hist) = Len(r.hist)
         /\ \A j \in 1..Len(r.hist) :
               /\ q.hist[j].status = r.hist[j].status
               /\ r.hist[j].synced => q.hist[j].synced
               /\ q.hist[j].synced => r.hist[j].synced \/ r.hist[j].status = w
         /\ q.synced => r.synced \/ \A j \in 1..Len(r.hist) : q.hist[j].synced

LEMMA MarkIntentEffect ==
  ASSUME NEW r \in Row, r.hist # <<>>, NEW w, NEW open
  PROVE  Marked(MarkIntentSynced(r, w, open), r, w)
<1>. DEFINE I == {k \in 1..Len(r.hist) : r.hist[k].status = w /\ ~r.hist[k].synced}
            i == IF I # {} THEN Min(I) ELSE 0
            h == IF i = 0 THEN r.hist ELSE [r.hist EXCEPT ![i].synced = TRUE]
            y == IF h = <<>> THEN r.synced \/ w = r.wire
                 ELSE r.synced \/ \A j \in DOMAIN h : h[j].synced
            q == [r EXCEPT !.hist = h, !.synced = y]
<1>1. r # NoRow /\ r.hist \in Seq(HistEntry) /\ Len(r.hist) \in Nat
  BY NoRowAssumption DEF Row
<1>2. MarkIntentSynced(r, w, open) = DropIfDone(q, open)
  BY <1>1 DEF MarkIntentSynced, SelectInSeq
<1>3. i = 0 \/ (i \in 1..Len(r.hist) /\ r.hist[i].status = w)
  <2>1. I \subseteq 1..Len(r.hist) /\ I \subseteq Nat
    BY <1>1
  <2>2. CASE I = {}
    BY <2>2
  <2>3. CASE I # {}
    <3>1. \A k \in I : k \in 1..Len(r.hist) /\ r.hist[k].status = w
      OBVIOUS
    <3>. HIDE DEF I
    <3>2. Min(I) \in I
      BY <2>1, <2>3, MinNat
    <3>3. i = Min(I)
      BY <2>3, Zenon
    <3>. QED
      BY <3>1, <3>2, <3>3
  <2>. QED
    BY <2>2, <2>3
<1>. HIDE DEF i
<1>4. /\ h \in Seq(HistEntry) /\ Len(h) = Len(r.hist) /\ DOMAIN h = 1..Len(r.hist) /\ h # <<>>
      /\ \A j \in 1..Len(r.hist) :
            /\ h[j].status = r.hist[j].status
            /\ r.hist[j].synced => h[j].synced
            /\ h[j].synced => r.hist[j].synced \/ r.hist[j].status = w
  <2>1. \A j \in 1..Len(r.hist) : r.hist[j] \in HistEntry
    BY <1>1
  <2>2. CASE i = 0
    BY <1>1, <2>2
  <2>3. CASE i # 0
    <3>1. /\ DOMAIN h = 1..Len(r.hist) /\ h \in Seq(HistEntry)
          /\ \A j \in 1..Len(r.hist) :
                h[j] = IF j = i THEN [r.hist[i] EXCEPT !.synced = TRUE] ELSE r.hist[j]
      <4>1. r.hist[i] \in HistEntry /\ i \in 1..Len(r.hist)
        BY <1>3, <2>1, <2>3
      <4>2. [r.hist[i] EXCEPT !.synced = TRUE] \in HistEntry
        BY <4>1 DEF HistEntry
      <4>3. h = [r.hist EXCEPT ![i] = [r.hist[i] EXCEPT !.synced = TRUE]]
        BY <2>3
      <4>. HIDE DEF h
      <4>. QED
        BY <1>1, <4>1, <4>2, <4>3, ExceptSeq
    <3>. HIDE DEF h
    <3>2. Len(h) = Len(r.hist) /\ h # <<>>
      <4>1. 1 \in DOMAIN h
        BY <1>1, <3>1, EmptySeq
      <4>. QED
        BY <1>1, <3>1, <4>1
    <3>3. [r.hist[i] EXCEPT !.synced = TRUE].status = r.hist[i].status
          /\ [r.hist[i] EXCEPT !.synced = TRUE].synced = TRUE
      BY <1>3, <2>1, <2>3 DEF HistEntry
    <3>. QED
      BY <1>3, <2>3, <3>1, <3>2, <3>3
  <2>. QED
    BY <2>2, <2>3
<1>. HIDE DEF h
<1>5. y => r.synced \/ \A j \in 1..Len(r.hist) : h[j].synced
  BY <1>4
<1>6. y \in BOOLEAN
  BY <1>1 DEF Row
<1>. HIDE DEF y
<1>7. /\ q.hist = h /\ q.synced = y /\ q.wire = r.wire /\ q.steps = r.steps
  BY DEF Row
<1>8. q # NoRow
  BY <1>4, <1>6, NoRowAssumption DEF Row
<1>. HIDE DEF q
<1>9. DropIfDone(q, open) = q \/ (DropIfDone(q, open) = NoRow /\ DropReady(q, open))
  BY DEF DropIfDone
<1>10. CASE DropIfDone(q, open) = q
  BY <1>2, <1>4, <1>5, <1>7, <1>8, <1>10 DEF Marked
<1>11. CASE DropIfDone(q, open) = NoRow /\ DropReady(q, open)
  <2>1. y /\ r.wire \in IntentTerminal
    BY <1>7, <1>11 DEF DropReady
  <2>. QED
    BY <1>2, <1>4, <1>5, <1>11, <2>1 DEF Marked
<1>. QED
  BY <1>9, <1>10, <1>11

-----------------------------------------------------------------------------
(* The ledger of the edge, Brain and the calls between them.               *)

(* The messages the edge sends are messages.                               *)
LEMMA Messages ==
  /\ \A n \in Steps : \A ev \in Event : StepMsg(n, ev) \in Msgs
  /\ \A w \in IntentStatus : IntentMsg(w) \in Msgs
  /\ \A m \in Msgs : Sent(m) \in Calls
  /\ NoReq \in Calls
<1>1. \A n \in Steps : \A ev \in Event : StepMsg(n, ev) \in Msgs
  BY DEF Event, StepMsg, Msgs, StepMsgs
<1>2. \A w \in IntentStatus : IntentMsg(w) \in Msgs
  BY DEF IntentMsg, Msgs, IntentMsgs
<1>3. IntentMsg("parsed") \in Msgs
  BY <1>2 DEF IntentStatus
<1>. QED
  BY <1>1, <1>2, <1>3 DEF Sent, Calls, NoReq

(* What Brain answers leaves its own records well typed.                   *)
LEMMA BrainTyped ==
  ASSUME TypeOK, NEW m \in Msgs, BrainTakes(m)
  PROVE  brain' \in Brains /\ heard' \subseteq Steps \X Nat
<1>. USE DEF TypeOK, Brains
<1>1. CASE m \in StepMsgs
  <2>1. m.kind = "step" /\ m.n \in Steps /\ m.status \in StepStatus /\ m.seq \in Nat
    BY <1>1 DEF StepMsgs
  <2>2. heard' \subseteq Steps \X Nat
    BY <2>1 DEF BrainTakes
  <2>3. brain' \in Brains
    BY <2>1 DEF BrainTakes
  <2>. QED
    BY <2>2, <2>3
<1>2. CASE m \in IntentMsgs
  <2>1. m.kind = "intent" /\ m.wire \in IntentStatus
    BY <1>2 DEF IntentMsgs
  <2>. QED
    BY <2>1 DEF BrainTakes
<1>. QED
  BY <1>1, <1>2 DEF Msgs

-----------------------------------------------------------------------------
(* Type correctness and the order of the queues are preserved together: a  *)
(* queue's events are numbered within a counter, so neither is inductive   *)
(* without the other.  FlushCall is what they miss: a flush that waits for *)
(* the answer to a step's event did send a step's event.                   *)

FlushCall == fl.pc = "step" => req["flush"].msg \in StepMsgs

Inv == TypeOK /\ QueueSound /\ FlushCall

(* The invariant speaks of the row only through WellFormed.                *)
LEMMA InvRow == Inv => WellFormed(row)
BY DEF Inv, TypeOK, QueueSound, WellFormed

(* The threads at rest.                                                    *)
LEMMA IdleTyped == ExIdle \in Executors /\ FlushIdle \in Flushers
<1>1. [status |-> WAITING, seq |-> 0] \in Event
  BY DEF Event, StepStatus
<1>2. [n \in Steps |-> WAITING] \in [Steps -> StepStatus]
  BY DEF StepStatus
<1>3. ExIdle \in Executors
  BY <1>1, <1>2, PlanAssumption DEF ExIdle, Executors, ExPC, IntentStatus, Steps
<1>4. FlushIdle \in Flushers
  BY DEF FlushIdle, Flushers, FlPC
<1>. QED
  BY <1>3, <1>4

(* The initial row is a row, and everything starts well typed.             *)
LEMMA InitTyped == Init => Inv
<1>. SUFFICES ASSUME Init PROVE Inv
  OBVIOUS
<1>. DEFINE r == FromBrain("parsed", AllWaiting)
<1>1. AllWaiting \in [Steps -> StepStatus]
  BY DEF AllWaiting, StepStatus
<1>2. r \in Row
  <2>1. \A n \in Steps : [status |-> AllWaiting[n], queue |-> <<>>, seq |-> 0, synced |-> TRUE]
                            \in StepRow
    BY <1>1 DEF StepRow
  <2>. QED
    BY <2>1 DEF FromBrain, Row, IntentStatus
<1>3. \A n \in Steps : StepSound(r.steps[n])
  <2>1. SUFFICES ASSUME NEW n \in Steps PROVE StepSound(r.steps[n])
    OBVIOUS
  <2>2. /\ r.steps[n].queue = <<>> /\ r.steps[n].synced = TRUE
        /\ Len(r.steps[n].queue) = 0
    BY EmptySeq DEF FromBrain
  <2>3. Len(r.steps[n].queue) <= QueueCap
    BY <2>2, CapAssumption
  <2>4. 1..Len(r.steps[n].queue) = {}
    BY <2>2
  <2>. HIDE DEF r
  <2>. QED
    BY <2>2, <2>3, <2>4 DEF StepSound
<1>4. WellFormed(row)
  <2>1. WellFormed(r)
    BY <1>2, <1>3 DEF WellFormed, RowSound
  <2>2. row = SetIntentStatus(r, "intent_dispatched")
    BY DEF Init
  <2>. QED
    BY <2>1, <2>2, SetIntentStatusKeeps DEF IntentStatus
<1>7. pool \in Seq(Msgs)
  BY Messages DEF Init, IntentStatus
<1>8. req \in [Callers -> Calls]
  BY Messages DEF Init
<1>9. brain \in Brains
  BY <1>1 DEF Init, Brains, IntentStatus
<1>. QED
  BY <1>1, <1>4, <1>7, <1>8, <1>9, IdleTyped, BoundsAssumption
  DEF Init, Inv, TypeOK, QueueSound, WellFormed, FlushCall, FlushIdle

(* Brain's answers, failed calls and the pool's jobs.                      *)
LEMMA NetworkTyped ==
  ASSUME Inv,
         \/ \E c \in Callers : BrainAnswers(c) \/ CallFails(c)
         \/ \E m \in late : LateArrives(m)
         \/ \E i \in InFlight : PoolDelivers(i) \/ PoolFails(i) \/ PoolStale(i)
  PROVE  Inv'
<1>1. TypeOK /\ QueueSound /\ FlushCall
  BY DEF Inv
<1>2. ASSUME NEW c \in Callers, BrainAnswers(c) PROVE Inv'
  <2>1. req[c].msg \in Msgs
    BY <1>1 DEF TypeOK, Calls
  <2>2. brain' \in Brains /\ heard' \subseteq Steps \X Nat
    BY <1>1, <1>2, <2>1, BrainTyped DEF BrainAnswers
  <2>3. req' \in [Callers -> Calls]
    BY <1>1, <1>2 DEF BrainAnswers, TypeOK, Calls
  <2>4. FlushCall'
    BY <1>1, <1>2 DEF BrainAnswers, FlushCall, TypeOK
  <2>. QED
    BY <1>1, <1>2, <2>2, <2>3, <2>4 DEF BrainAnswers, Inv, TypeOK, QueueSound
<1>3. ASSUME NEW c \in Callers, CallFails(c) PROVE Inv'
  <2>1. req[c].msg \in Msgs
    BY <1>1 DEF TypeOK, Calls
  <2>2. req' \in [Callers -> Calls]
    BY <1>1, <1>3 DEF CallFails, TypeOK, Calls
  <2>3. late' \subseteq Msgs /\ faults' \in 0..MaxFaults
    BY <1>1, <1>3, <2>1, BoundsAssumption DEF CallFails, TypeOK
  <2>4. FlushCall'
    BY <1>1, <1>3 DEF CallFails, FlushCall, TypeOK
  <2>. QED
    BY <1>1, <1>3, <2>2, <2>3, <2>4 DEF CallFails, Inv, TypeOK, QueueSound
<1>4. ASSUME NEW m \in late, LateArrives(m) PROVE Inv'
  <2>1. m \in Msgs
    BY <1>1 DEF TypeOK
  <2>2. brain' \in Brains /\ heard' \subseteq Steps \X Nat
    BY <1>1, <1>4, <2>1, BrainTyped DEF LateArrives
  <2>. QED
    BY <1>1, <1>4, <2>2 DEF LateArrives, Inv, TypeOK, QueueSound, FlushCall
<1>5. ASSUME NEW i \in InFlight PROVE i \in 1..Len(pool) /\ pool[i] \in Msgs
  BY <1>1 DEF InFlight, TypeOK
<1>6. ASSUME NEW i \in InFlight, PoolDelivers(i) PROVE Inv'
  <2>1. brain' \in Brains /\ heard' \subseteq Steps \X Nat
    BY <1>1, <1>5, <1>6, BrainTyped DEF PoolDelivers
  <2>2. pool' \in Seq(Msgs)
    BY <1>1, <1>5, <1>6, RemoveAtElements DEF PoolDelivers, TypeOK
  <2>. QED
    BY <1>1, <1>6, <2>1, <2>2 DEF PoolDelivers, Inv, TypeOK, QueueSound, FlushCall
<1>7. ASSUME NEW i \in InFlight, PoolFails(i) PROVE Inv'
  <2>1. pool' \in Seq(Msgs)
    BY <1>1, <1>5, <1>7, RemoveAtElements DEF PoolFails, TypeOK
  <2>2. late' \subseteq Msgs /\ faults' \in 0..MaxFaults
    BY <1>1, <1>5, <1>7, BoundsAssumption DEF PoolFails, TypeOK
  <2>. QED
    BY <1>1, <1>7, <2>1, <2>2 DEF PoolFails, Inv, TypeOK, QueueSound, FlushCall
<1>8. ASSUME NEW i \in InFlight, PoolStale(i) PROVE Inv'
  <2>1. pool' \in Seq(Msgs)
    BY <1>1, <1>5, <1>8, RemoveAtElements DEF PoolStale, TypeOK
  <2>. QED
    BY <1>1, <1>8, <2>1 DEF PoolStale, Inv, TypeOK, QueueSound, FlushCall
<1>. QED
  BY <1>2, <1>3, <1>4, <1>6, <1>7, <1>8

(* The executor leaves the lock it has flushed under.                      *)
LEMMA ReturnTyped ==
  ASSUME Inv, FlushReturns
  PROVE  fl' \in Flushers /\ ex' \in Executors
<1>1. fl' \in Flushers
  BY DEF FlushReturns, FlushIdle, Flushers, FlPC
<1>2. ex' \in Executors
  BY DEF FlushReturns, Inv, TypeOK, Executors
<1>. QED
  BY <1>1, <1>2

(* The flush: each of its steps takes at most one event off a queue.       *)
LEMMA FlushTyped ==
  ASSUME Inv, FlushStep \/ \E by \in {"thread", "executor"} : FlushBegin(by)
  PROVE  Inv'
<1>1. TypeOK /\ QueueSound /\ FlushCall /\ WellFormed(row)
  BY InvRow DEF Inv
<1>. USE DEF FlushRest
<1>2. CASE \E by \in {"thread", "executor"} : FlushBegin(by)
  <2>1. fl' \in Flushers /\ ex' \in Executors
    BY <1>1, <1>2 DEF FlushBegin, TypeOK, Flushers, FlPC, Executors, ExPC
  <2>. QED
    BY <1>1, <1>2, <2>1 DEF FlushBegin, Inv, TypeOK, QueueSound, FlushCall
<1>3. CASE FlushPostStep
  <2>1. row \in Row
    BY <1>1, <1>3 DEF FlushPostStep, Busy, TypeOK
  <2>2. Busy \subseteq Nat /\ Busy # {}
    BY <1>3 DEF FlushPostStep, Busy, Steps
  <2>3. Min(Busy) \in Busy
    BY <2>2, MinNat
  <2>4. PICK n \in Steps : n = Min(Busy) /\ row.steps[n].queue # <<>>
    BY <2>1, <2>3, NoRowAssumption DEF Busy
  <2>5. row.steps[n].queue \in Seq(Event)
    BY <2>1 DEF Row, StepRow
  <2>6. row.steps[n].queue[1] \in Event
    BY <2>4, <2>5, EmptySeq
  <2>7. Sent(StepMsg(n, row.steps[n].queue[1])) \in Calls
    BY <2>6, Messages
  <2>8. req' \in [Callers -> Calls]
    BY <1>1, <1>3, <2>4, <2>7 DEF FlushPostStep, TypeOK
  <2>9. fl' \in Flushers
    BY <1>1, <1>3 DEF FlushPostStep, TypeOK, Flushers, FlPC
  <2>10. req'["flush"].msg \in StepMsgs
    BY <1>1, <1>3, <2>4, <2>6 DEF FlushPostStep, TypeOK, Callers, Sent, StepMsg, StepMsgs, Event
  <2>. QED
    BY <1>1, <1>3, <2>8, <2>9, <2>10 DEF FlushPostStep, Inv, TypeOK, QueueSound, FlushCall
<1>4. CASE FlushStepAnswered
  <2>1. req["flush"].msg \in StepMsgs /\ req["flush"].msg.n \in Steps
    BY <1>1, <1>4 DEF FlushStepAnswered, FlushCall, StepMsgs
  <2>2. WellFormed(row')
    BY <1>1, <1>4, <2>1, MarkStepSyncedKeeps, DiscardQueuedKeeps DEF FlushStepAnswered
  <2>3. req' \in [Callers -> Calls]
    BY <1>1, <1>4, Messages DEF FlushStepAnswered, TypeOK
  <2>4. fl' \in Flushers /\ fl'.pc = "scan"
    BY <1>1, <1>4 DEF FlushStepAnswered, TypeOK, Flushers, FlPC
  <2>. QED
    BY <1>1, <1>4, <2>2, <2>3, <2>4
    DEF FlushStepAnswered, Inv, TypeOK, QueueSound, WellFormed, FlushCall
<1>5. CASE FlushQueuesEmpty
  <2>1. fl' \in Flushers /\ fl'.pc = "snapshot"
    BY <1>1, <1>5 DEF FlushQueuesEmpty, TypeOK, Flushers, FlPC
  <2>. QED
    BY <1>1, <1>5, <2>1 DEF FlushQueuesEmpty, Inv, TypeOK, QueueSound, FlushCall
<1>6. CASE FlushSnapshot
  <2>1. row # NoRow => row.hist \in Seq(HistEntry)
    BY <1>1 DEF TypeOK, Row
  <2>2. fl' \in Flushers /\ fl'.pc = "intents"
    <3>. DEFINE h == IF row = NoRow THEN <<>> ELSE row.hist
    <3>1. h \in Seq(HistEntry)
      BY <2>1
    <3>2. fl' = [fl EXCEPT !.pc = "intents", !.jobs = h]
      BY <1>6 DEF FlushSnapshot
    <3>. HIDE DEF h
    <3>. QED
      BY <1>1, <3>1, <3>2 DEF TypeOK, Flushers, FlPC
  <2>. QED
    BY <1>1, <1>6, <2>2 DEF FlushSnapshot, Inv, TypeOK, QueueSound, FlushCall
<1>7. ASSUME fl.jobs # <<>>
      PROVE  fl.jobs[1] \in HistEntry /\ Tail(fl.jobs) \in Seq(HistEntry)
  BY <1>1, <1>7, EmptySeq DEF TypeOK, Flushers
<1>8. CASE FlushSkipIntent
  <2>1. fl' \in Flushers /\ fl'.pc = "intents"
    BY <1>1, <1>7, <1>8 DEF FlushSkipIntent, TypeOK, Flushers, FlPC
  <2>2. WellFormed(row')
    BY <1>1, <1>8, MarkIntentSyncedKeeps DEF FlushSkipIntent
  <2>. QED
    BY <1>1, <1>8, <2>1, <2>2
    DEF FlushSkipIntent, Inv, TypeOK, QueueSound, WellFormed, FlushCall
<1>9. CASE FlushPostIntent
  <2>1. fl' \in Flushers /\ fl'.pc = "intent"
    BY <1>1, <1>7, <1>9 DEF FlushPostIntent, TypeOK, Flushers, FlPC
  <2>2. fl.jobs[1].status \in IntentStatus
    BY <1>7, <1>9 DEF FlushPostIntent, HistEntry
  <2>3. req' \in [Callers -> Calls]
    BY <1>1, <1>9, <2>2, Messages DEF FlushPostIntent, TypeOK
  <2>. QED
    BY <1>1, <1>9, <2>1, <2>3 DEF FlushPostIntent, Inv, TypeOK, QueueSound, FlushCall
<1>10. CASE FlushIntentAnswered
  <2>1. fl' \in Flushers /\ fl'.pc = "intents"
    BY <1>1, <1>10 DEF FlushIntentAnswered, TypeOK, Flushers, FlPC
  <2>2. WellFormed(row')
    BY <1>1, <1>10, MarkIntentSyncedKeeps DEF FlushIntentAnswered
  <2>3. req' \in [Callers -> Calls]
    BY <1>1, <1>10, Messages DEF FlushIntentAnswered, TypeOK
  <2>. QED
    BY <1>1, <1>10, <2>1, <2>2, <2>3
    DEF FlushIntentAnswered, Inv, TypeOK, QueueSound, WellFormed, FlushCall
<1>11. CASE FlushGivesUp
  <2>1. fl' \in Flushers /\ ex' \in Executors /\ fl'.pc = "idle"
    BY <1>11, ReturnTyped DEF FlushGivesUp, FlushReturns, FlushIdle
  <2>2. req' \in [Callers -> Calls]
    BY <1>1, <1>11, Messages DEF FlushGivesUp, TypeOK
  <2>. QED
    BY <1>1, <1>11, <2>1, <2>2 DEF FlushGivesUp, Inv, TypeOK, QueueSound, FlushCall
<1>12. CASE FlushEnd
  <2>1. fl' \in Flushers /\ ex' \in Executors /\ fl'.pc = "idle"
    BY <1>12, ReturnTyped DEF FlushEnd, FlushReturns, FlushIdle
  <2>. QED
    BY <1>1, <1>12, <2>1 DEF FlushEnd, Inv, TypeOK, QueueSound, FlushCall
<1>. QED
  BY <1>2, <1>3, <1>4, <1>5, <1>6, <1>8, <1>9, <1>10, <1>11, <1>12 DEF FlushStep

(* Submitting a job keeps the pool a list of jobs.                         *)
LEMMA SubmitTyped ==
  ASSUME TypeOK, NEW m \in Msgs, Submit(m)
  PROVE  pool' \in Seq(Msgs)
BY DEF TypeOK, Submit

(* A reported result: recorded in the row, then posted or submitted.       *)
LEMMA ReportTyped ==
  ASSUME Inv, NEW n \in Steps, NEW st \in Terminal, NEW next \in ExPC,
         Report(n, st, next)
  PROVE  /\ WellFormed(row') /\ ex' \in Executors /\ pool' \in Seq(Msgs)
         /\ outcome' \in [Steps -> StepStatus]
<1>. DEFINE ev == EventIn(row', n, st)
<1>1. st \in StepStatus
  BY DEF Terminal, StepStatus
<1>2. WellFormed(row')
  BY <1>1, InvRow, SetStepStatusKeeps DEF Report
<1>3. ev \in Event
  <2>1. row' # NoRow => row'.steps[n].seq \in Nat
    BY <1>2 DEF WellFormed, Row, StepRow
  <2>. QED
    BY <1>1, <2>1 DEF EventIn, Event
<1>4. outcome' \in [Steps -> StepStatus]
  BY <1>1 DEF Report, Inv, TypeOK
<1>5. pool' \in Seq(Msgs)
  <2>1. StepMsg(n, ev) \in Msgs
    BY <1>3, Messages
  <2>2. Submit(StepMsg(n, ev)) \/ pool' = pool
    BY DEF Report
  <2>. QED
    BY <2>1, <2>2, SubmitTyped DEF Inv, TypeOK
<1>6. ex' \in Executors
  <2>1. ex' = [ex EXCEPT !.pc = IF st = FAILED THEN next ELSE "report",
                         !.next = next, !.n = n, !.ev = ev, !.plan[n] = st]
    BY DEF Report
  <2>. HIDE DEF ev
  <2>. QED
    BY <1>1, <1>3, <2>1 DEF Inv, TypeOK, Executors, ExPC
<1>. QED
  BY <1>2, <1>4, <1>5, <1>6

(* A re-armed step: WAITING in the row and in the executor's copy.         *)
LEMMA RearmTyped ==
  ASSUME Inv, NEW next \in ExPC, Rearm(next)
  PROVE  WellFormed(row') /\ ex' \in Executors
<1>1. 1 \in Steps /\ WAITING \in StepStatus
  BY PlanAssumption DEF Steps, StepStatus
<1>2. WellFormed(row')
  BY <1>1, InvRow, SetStepStatusKeeps DEF Rearm
<1>3. ex' \in Executors
  BY <1>1 DEF Rearm, Inv, TypeOK, Executors, ExPC
<1>. QED
  BY <1>2, <1>3

(* A closed intent: recorded in the row and submitted to the pool.         *)
LEMMA CloseTyped ==
  ASSUME Inv, NEW w \in IntentStatus, CloseIntent(w)
  PROVE  WellFormed(row') /\ pool' \in Seq(Msgs)
<1>1. WellFormed(row')
  BY InvRow, SetIntentStatusKeeps DEF CloseIntent
<1>2. pool' \in Seq(Msgs)
  BY Messages, SubmitTyped DEF CloseIntent, Inv
<1>. QED
  BY <1>1, <1>2

(* The executor.                                                           *)
LEMMA ExecutorTyped ==
  ASSUME Inv, ExStep
  PROVE  Inv'
<1>1. TypeOK /\ QueueSound /\ FlushCall /\ WellFormed(row)
  BY InvRow DEF Inv
<1>. USE DEF ExRest
<1>. DEFINE Kept == UNCHANGED <<fl, late, brain, heard, faults, crashes>>
            Typed == /\ WellFormed(row') /\ beat' \in 0..MaxBeats /\ ex' \in Executors
                     /\ pool' \in Seq(Msgs) /\ outcome' \in [Steps -> StepStatus]
            Quiet == req' = req
            Calling == /\ req' \in [Callers -> Calls]
                       /\ req'["flush"] = req["flush"]
<1>2. ASSUME Kept, Typed, Quiet \/ Calling PROVE Inv'
  BY <1>1, <1>2 DEF Inv, TypeOK, QueueSound, WellFormed, FlushCall
<1>3. CASE ExTake
  <2>1. row \in Row /\ RowStatus(row) \in [Steps -> StepStatus] /\ row.wire \in IntentStatus
    BY <1>1, <1>3 DEF ExTake, TypeOK, RowStatus, Row, StepRow
  <2>2. ex' \in Executors
    <3>1. ExIdle \in Executors
      BY IdleTyped
    <3>. QED
      BY <1>3, <2>1, <3>1 DEF ExTake, Executors, ExPC
  <2>. QED
    BY <1>1, <1>2, <1>3, <2>2 DEF ExTake, TypeOK
<1>4. CASE ExAdvanced \/ ExLoopEnds
  <2>1. ex' \in Executors
    BY <1>1, <1>4 DEF ExAdvanced, ExLoopEnds, TypeOK, Executors, ExPC
  <2>. QED
    BY <1>1, <1>2, <1>4, <2>1 DEF ExAdvanced, ExLoopEnds, TypeOK
<1>5. CASE ExSkipBeats
  <2>1. beat' \in 0..MaxBeats
    BY <1>1, <1>5 DEF ExSkipBeats, TypeOK
  <2>2. CASE Report(1, SUCCEEDED, "find")
    <3>1. 1 \in Steps /\ SUCCEEDED \in Terminal /\ "find" \in ExPC
      BY PlanAssumption DEF Steps, Terminal, ExPC
    <3>2. Typed
      BY <2>1, <2>2, <3>1, ReportTyped
    <3>. QED
      BY <1>2, <1>5, <3>2 DEF ExSkipBeats
  <2>3. CASE Rearm("find") /\ UNCHANGED <<pool, outcome>>
    <3>1. Typed
      BY <1>1, <2>1, <2>3, RearmTyped DEF ExPC, TypeOK
    <3>. QED
      BY <1>2, <1>5, <3>1 DEF ExSkipBeats
  <2>4. CASE row' = row /\ ex' = [ex EXCEPT !.pc = "find"] /\ UNCHANGED <<pool, outcome>>
    <3>1. ex' \in Executors
      BY <1>1, <2>4 DEF TypeOK, Executors, ExPC
    <3>. QED
      BY <1>1, <1>2, <1>5, <2>1, <2>4, <3>1 DEF ExSkipBeats, TypeOK
  <2>. QED
    BY <1>5, <2>2, <2>3, <2>4 DEF ExSkipBeats
<1>6. CASE ExIntentRunning
  <2>1. WellFormed(row')
    BY <1>1, <1>6, SetIntentStatusKeeps DEF ExIntentRunning, IntentStatus
  <2>2. ex' \in Executors
    BY <1>1, <1>6 DEF ExIntentRunning, TypeOK, Executors, ExPC
  <2>. QED
    BY <1>1, <1>2, <1>6, <2>1, <2>2 DEF ExIntentRunning, TypeOK
<1>7. ASSUME NEW n \in Steps, ExMissed(n) PROVE Inv'
  <2>1. FAILED \in Terminal /\ "advance" \in ExPC
    BY DEF Terminal, ExPC
  <2>2. Typed
    BY <1>1, <1>7, <2>1, ReportTyped DEF ExMissed, TypeOK
  <2>. QED
    BY <1>2, <1>7, <2>2 DEF ExMissed
<1>8. ASSUME NEW n \in Steps, ExUnresolved(n) PROVE Inv'
  <2>1. FAILED \in Terminal /\ "failing" \in ExPC
    BY DEF Terminal, ExPC
  <2>2. Typed
    BY <1>1, <1>8, <2>1, ReportTyped DEF ExUnresolved, TypeOK
  <2>. QED
    BY <1>2, <1>8, <2>2 DEF ExUnresolved
<1>9. ASSUME NEW n \in Steps, ExStart(n) PROVE Inv'
  <2>1. RUNNING \in StepStatus
    BY DEF StepStatus
  <2>2. WellFormed(row')
    BY <1>1, <1>9, <2>1, SetStepStatusKeeps DEF ExStart
  <2>3. ex' \in Executors
    BY <1>1, <1>9, <2>1 DEF ExStart, TypeOK, Executors, ExPC
  <2>. QED
    BY <1>1, <1>2, <1>9, <2>2, <2>3 DEF ExStart, TypeOK
<1>10. CASE ExCapabilityEnds
  <2>1. PICK st \in Terminal : 
          Report(ex.n, st, IF Recurring THEN "beat" ELSE IF st = FAILED THEN "failing"
                                                     ELSE "advance")
    BY <1>10 DEF ExCapabilityEnds
  <2>2. ex.n \in Steps /\ {"beat", "failing", "advance"} \subseteq ExPC
    BY <1>1 DEF TypeOK, Executors, ExPC
  <2>3. Typed
    BY <1>1, <1>10, <2>1, <2>2, ReportTyped DEF ExCapabilityEnds, TypeOK
  <2>. QED
    BY <1>2, <1>10, <2>3 DEF ExCapabilityEnds
<1>11. CASE ExPost
  <2>. DEFINE q == IF row = NoRow THEN <<>> ELSE row.steps[ex.n].queue
              i == FirstWith(q, ex.ev.status)
              e == IF i = 0 THEN ex.ev ELSE q[i]
  <2>1. ex.n \in Steps /\ ex.ev \in Event
    BY <1>1 DEF TypeOK, Executors
  <2>2. q \in Seq(Event)
    BY <1>1, <2>1 DEF TypeOK, Row, StepRow
  <2>. HIDE DEF q
  <2>3. i \in 0..Len(q)
    BY <2>2, FirstWithIndex
  <2>. HIDE DEF i
  <2>4. e \in Event
    BY <2>1, <2>2, <2>3
  <2>5. req' = [req EXCEPT !["executor"] = Sent(StepMsg(ex.n, e))]
    BY <1>11 DEF ExPost, q, i
  <2>. HIDE DEF e
  <2>6. Sent(StepMsg(ex.n, e)) \in Calls
    BY <2>1, <2>4, Messages
  <2>7. Calling
    BY <1>1, <2>5, <2>6 DEF TypeOK, Callers
  <2>8. ex' \in Executors
    BY <1>1, <1>11 DEF ExPost, TypeOK, Executors, ExPC
  <2>. QED
    BY <1>1, <1>2, <1>11, <2>7, <2>8 DEF ExPost, TypeOK
<1>12. CASE ExPostAnswered
  <2>1. ex.n \in Steps
    BY <1>1 DEF TypeOK, Executors
  <2>2. WellFormed(row')
    BY <1>1, <1>12, <2>1, DiscardLeadingKeeps DEF ExPostAnswered
  <2>3. Calling
    BY <1>1, <1>12, Messages DEF ExPostAnswered, TypeOK, Callers
  <2>4. ex' \in Executors
    BY <1>1, <1>12 DEF ExPostAnswered, TypeOK, Executors, ExPC
  <2>. QED
    BY <1>1, <1>2, <1>12, <2>2, <2>3, <2>4 DEF ExPostAnswered, TypeOK
<1>13. CASE ExDiscard
  <2>1. ex.n \in Steps
    BY <1>1 DEF TypeOK, Executors
  <2>2. WellFormed(row')
    BY <1>1, <1>13, <2>1, DiscardMatchingKeeps DEF ExDiscard
  <2>3. ex' \in Executors
    BY <1>1, <1>13 DEF ExDiscard, TypeOK, Executors
  <2>. QED
    BY <1>1, <1>2, <1>13, <2>2, <2>3 DEF ExDiscard, TypeOK
<1>14. CASE ExPostFailed
  <2>1. Calling
    BY <1>1, <1>14, Messages DEF ExPostFailed, TypeOK, Callers
  <2>2. ex' \in Executors
    BY <1>1, <1>14 DEF ExPostFailed, TypeOK, Executors
  <2>. QED
    BY <1>1, <1>2, <1>14, <2>1, <2>2 DEF ExPostFailed, TypeOK
<1>15. CASE ExFailIntent
  <2>1. WellFormed(row') /\ pool' \in Seq(Msgs)
    BY <1>15, CloseTyped DEF ExFailIntent, IntentStatus
  <2>2. ex' \in Executors
    BY <1>1, <1>15 DEF ExFailIntent, TypeOK, Executors, ExPC
  <2>. QED
    BY <1>1, <1>2, <1>15, <2>1, <2>2 DEF ExFailIntent, TypeOK
<1>16. CASE ExAdvanceBeat
  <2>1. beat' \in 0..MaxBeats
    BY <1>1, <1>16, BoundsAssumption DEF ExAdvanceBeat, TypeOK
  <2>2. ex' \in Executors
    BY <1>1, <1>16 DEF ExAdvanceBeat, TypeOK, Executors, ExPC
  <2>. QED
    BY <1>1, <1>2, <1>16, <2>1, <2>2 DEF ExAdvanceBeat, TypeOK
<1>17. CASE ExSeriesDone
  <2>1. WellFormed(row') /\ pool' \in Seq(Msgs)
    BY <1>17, CloseTyped DEF ExSeriesDone, IntentStatus
  <2>2. ex' \in Executors
    BY <1>1, <1>17 DEF ExSeriesDone, TypeOK, Executors, ExPC
  <2>. QED
    BY <1>1, <1>2, <1>17, <2>1, <2>2 DEF ExSeriesDone, TypeOK
<1>18. CASE ExRearm
  <2>1. WellFormed(row') /\ ex' \in Executors
    BY <1>18, RearmTyped DEF ExRearm, ExPC
  <2>. QED
    BY <1>1, <1>2, <1>18, <2>1 DEF ExRearm, TypeOK
<1>19. CASE ExFinalize
  <2>1. ex' \in Executors
    BY <1>19, IdleTyped DEF ExFinalize
  <2>2. WellFormed(row') /\ pool' \in Seq(Msgs)
    <3>1. CASE FinalWire = "none"
      BY <1>1, <1>19, <3>1 DEF ExFinalize, TypeOK
    <3>2. CASE FinalWire # "none"
      <4>1. FinalWire \in IntentStatus
        BY <3>2 DEF FinalWire, IntentStatus
      <4>. QED
        BY <1>19, <3>2, <4>1, CloseTyped DEF ExFinalize
    <3>. QED
      BY <3>1, <3>2
  <2>. QED
    BY <1>1, <1>2, <1>19, <2>1, <2>2 DEF ExFinalize, TypeOK
<1>. QED
  BY <1>3, <1>4, <1>5, <1>6, <1>7, <1>8, <1>9, <1>10, <1>11, <1>12, <1>13, <1>14,
     <1>15, <1>16, <1>17, <1>18, <1>19 DEF ExStep

(* Pruning and crashing.                                                   *)
LEMMA HousekeepingTyped ==
  ASSUME Inv, Prune \/ Crash
  PROVE  Inv'
<1>1. TypeOK /\ QueueSound /\ FlushCall
  BY DEF Inv
<1>2. CASE Prune
  BY <1>1, <1>2 DEF Prune, Inv, TypeOK, QueueSound, FlushCall, RowSound
<1>3. CASE Crash
  <2>1. {req[c].msg : c \in {d \in Callers : req[d].ans = "sent"}} \subseteq Msgs
    BY <1>1 DEF TypeOK, Calls
  <2>2. {pool[i] : i \in InFlight} \subseteq Msgs
    BY <1>1 DEF InFlight, TypeOK
  <2>3. late' \subseteq Msgs
    BY <1>1, <1>3, <2>1, <2>2 DEF Crash, TypeOK
  <2>4. /\ ex' \in Executors /\ fl' \in Flushers /\ fl'.pc = "idle"
        /\ req' \in [Callers -> Calls] /\ pool' \in Seq(Msgs)
    BY <1>3, IdleTyped, Messages DEF Crash, FlushIdle
  <2>5. crashes' \in 0..MaxCrashes
    BY <1>1, <1>3, BoundsAssumption DEF Crash, TypeOK
  <2>. QED
    BY <1>1, <1>3, <2>3, <2>4, <2>5 DEF Crash, Inv, TypeOK, QueueSound, FlushCall
<1>. QED
  BY <1>2, <1>3

(* So does a step that changes nothing.                                    *)
LEMMA StutterTyped == Inv /\ UNCHANGED vars => Inv'
BY DEF vars, Inv, TypeOK, QueueSound, FlushCall

(* The strengthened invariant holds of every behaviour.                    *)
THEOREM Invariance == Spec => []Inv
<1>1. Init => Inv
  BY InitTyped
<1>2. Inv /\ [Next]_vars => Inv'
  <2>1. SUFFICES ASSUME Inv, [Next]_vars PROVE Inv'
    OBVIOUS
  <2>2. CASE UNCHANGED vars
    BY <2>1, <2>2, StutterTyped
  <2>3. CASE Next
    BY <2>1, <2>3, NetworkTyped, FlushTyped, ExecutorTyped, HousekeepingTyped DEF Next
  <2>. QED
    BY <2>1, <2>2, <2>3
<1>. QED
  BY <1>1, <1>2, PTL DEF Spec

(* Every variable keeps its shape, for any plan, cap and number of         *)
(* failures.                                                               *)
THEOREM TypeCorrect == Spec => []TypeOK
<1>1. Inv => TypeOK
  BY DEF Inv
<1>. QED
  BY <1>1, Invariance, PTL

(* Every step's queue on disk is sound at all times: in the order the      *)
(* status changes happened, under the cap, empty exactly when the step is  *)
(* marked synced. No interleaving of executor, flush, pool and prune, no   *)
(* failed call and no crash breaks it.                                     *)
THEOREM QueuesStaySound == Spec => []QueueSound
<1>1. Inv => QueueSound
  BY DEF Inv
<1>. QED
  BY <1>1, Invariance, PTL

-----------------------------------------------------------------------------
(* A row outlives the step that runs from it.  The executor works on a     *)
(* copy; what makes the copy safe is that a row goes only when nothing in  *)
(* it is left to run, and that nothing makes work where there was none.    *)
(* Statuses s and a number of beats b stand for a row's or the copy's.     *)

\* RemainingWork, Eligible and FinalWire of any statuses, beats and executor.
Work(s, b) == \E n \in Steps : /\ Prepared(s, n)
                               /\ IF Recurring THEN b < MaxBeats
                                  ELSE s[n] \in {WAITING, RUNNING}
Ready(s, n) == s[n] \in {WAITING, RUNNING} /\ Prepared(s, n)
Complete(s, b) == IF Recurring THEN ~(b < MaxBeats) ELSE \A n \in Steps : s[n] = SUCCEEDED
Final(e, b) ==
    IF e.wire \in IntentTerminal THEN "none"
    ELSE IF Complete(e.plan, b) THEN "succeeded"
    ELSE IF e.failed \/ Work(e.plan, b) THEN "none"
    ELSE IF \E n \in Steps : e.plan[n] = FAILED THEN "failed"
    ELSE "none"

LEMMA Readings ==
  /\ \A s : RemainingWork(s) = Work(s, beat)
  /\ SeriesOpen = (Recurring /\ beat < MaxBeats)
  /\ \A n \in Steps : Eligible(n) = Ready(ex.plan, n)
  /\ FinalWire = Final(ex, beat)
<1>1. SeriesOpen = (Recurring /\ beat < MaxBeats)
  BY DEF SeriesOpen
<1>2. \A s : RemainingWork(s) = Work(s, beat)
  BY RecurringAssumption DEF RemainingWork, Work, SeriesOpen
<1>3. \A s : AllSucceeded(s) = Complete(s, beat)
  BY RecurringAssumption DEF AllSucceeded, Complete, SeriesOpen
<1>. QED
  BY <1>1, <1>2, <1>3, RecurringAssumption DEF FinalWire, Final, Eligible, Ready

(* A step that is ready is work, unless the series is over.                *)
LEMMA ReadyIsWork ==
  ASSUME NEW s, NEW b, NEW n \in Steps, Ready(s, n), Recurring => b < MaxBeats
  PROVE  Work(s, b)
BY RecurringAssumption DEF Ready, Work

(* Of a recurring plan, there is work while there are beats.               *)
LEMMA SeriesWork ==
  ASSUME Recurring, NEW s, NEW b
  PROVE  Work(s, b) <=> b < MaxBeats
<1>1. 1 \in Steps /\ \A m \in 1..(1 - 1) : s[m] = SUCCEEDED
  BY PlanAssumption DEF Steps
<1>. QED
  BY <1>1, RecurringAssumption DEF Work, Prepared

(* A step that fails, or was complete anyway, makes no work.               *)
LEMMA FailureIsNoWork ==
  ASSUME NEW s \in [Steps -> StepStatus], NEW b, ~Work(s, b), NEW n \in Steps
  PROVE  ~Work([s EXCEPT ![n] = FAILED], b)
<1>. DEFINE t == [s EXCEPT ![n] = FAILED]
<1>1. \A k \in Steps : t[k] = IF k = n THEN FAILED ELSE s[k]
  OBVIOUS
<1>. HIDE DEF t
<1>2. CASE Recurring
  BY <1>2, SeriesWork DEF t
<1>3. CASE ~Recurring
  <2>1. SUFFICES ASSUME NEW k \in Steps, Prepared(t, k), t[k] \in {WAITING, RUNNING}
                 PROVE  FALSE
    BY <1>3 DEF Work, t
  <2>2. s[k] \in {WAITING, RUNNING}
    BY <1>1, <2>1 DEF FAILED, WAITING, RUNNING
  <2>3. \A m \in 1..(k - 1) : m \in Steps /\ t[m] = SUCCEEDED
    BY <2>1, PlanAssumption DEF Prepared, Steps
  <2>4. Prepared(s, k)
    BY <1>1, <2>3 DEF Prepared, FAILED, SUCCEEDED
  <2>. QED
    BY <1>3, <2>2, <2>4 DEF Work
<1>. QED
  BY <1>2, <1>3 DEF t

(* A complete plan has none.                                               *)
LEMMA CompleteIsNoWork ==
  ASSUME NEW s, NEW b, Complete(s, b)
  PROVE  ~Work(s, b)
BY DEF Complete, Work, SUCCEEDED, WAITING, RUNNING

-----------------------------------------------------------------------------
(* The parts of the argument.                                              *)

\* The copy is what the row says, while there is one.
CopyTrue == ex.pc # "idle" /\ row # NoRow => ex.plan = RowStatus(row)

\* A row that is gone, or has a terminal status, had nothing left to run.
GoneIsDone   == ex.pc # "idle" /\ row = NoRow => ~Work(ex.plan, beat)
ClosedIsDone == row # NoRow /\ row.wire \in IntentTerminal => ~Work(RowStatus(row), beat)

\* A step begun was ready, and a beat was left for it.
Begun == ex.pc \in {"starting", "capability"} =>
            Ready(ex.plan, ex.n) /\ (Recurring => beat < MaxBeats)

Failing == ex.pc = "failing" =>
              ~Recurring /\ ex.plan[ex.n] = FAILED /\ ~Work(ex.plan, beat)

\* Where the executor goes, with a one-shot plan and with a recurring step.
OneShotGoesOn == ~Recurring =>
    /\ ex.pc \notin {"beat", "gate", "flush", "flushing"}
    /\ ex.pc \in {"report", "posted", "discard"} => ex.next = "advance"

SeriesGoesOn == Recurring =>
    /\ ex.pc = "advance" => beat < MaxBeats
    /\ ex.pc = "find" => beat < MaxBeats \/ ex.plan[1] = SUCCEEDED
    /\ ex.pc \in {"report", "posted", "discard"} =>
         ex.next = "beat" \/ (ex.next = "find" /\ ex.plan[1] = SUCCEEDED)
    /\ ex.pc \in {"flush", "flushing"} =>
         ex.next = "final" \/ (ex.next = "find" /\ beat < MaxBeats)

FlushOwner == fl.by = "executor" => ex.pc = "flushing"

\* An intent is closed at the end of a pass, and once.
Closing == ex.pc # "idle" /\ row # NoRow /\ row.wire \in IntentTerminal =>
              ex.pc = "final" /\ Final(ex, beat) \in {"none", row.wire}

Serving == /\ CopyTrue /\ GoneIsDone /\ ClosedIsDone /\ Begun /\ Failing
           /\ OneShotGoesOn /\ SeriesGoesOn /\ FlushOwner /\ Closing

SInv == Inv /\ Serving

(* No status of the row changes, and it goes only when nothing is left.    *)
Still ==
    /\ row = NoRow => row' = NoRow
    /\ row # NoRow /\ row' # NoRow =>
          row'.wire = row.wire /\ RowStatus(row') = RowStatus(row)
    /\ row # NoRow /\ row' = NoRow => ~Work(RowStatus(row), beat)

(* Operations that take events off the row are of this kind.               *)
LEMMA TakenOffStill ==
  ASSUME SInv, \/ row = NoRow /\ row' = NoRow
               \/ row # NoRow /\ (TakenOff(row', row) \/ \E w : Marked(row', row, w))
  PROVE  Still
<1>1. CASE row = NoRow
  BY <1>1 DEF Still
<1>2. CASE row # NoRow /\ row' = NoRow
  <2>1. row.wire \in IntentTerminal
    BY <1>2 DEF TakenOff, Marked
  <2>. QED
    BY <1>2, <2>1 DEF Still, SInv, Serving, ClosedIsDone
<1>3. CASE row # NoRow /\ row' # NoRow
  <2>1. row'.wire = row.wire /\ \A k \in Steps : row'.steps[k].status = row.steps[k].status
    BY <1>2, <1>3 DEF TakenOff, Marked
  <2>. QED
    BY <1>3, <2>1 DEF Still, RowStatus
<1>. QED
  BY <1>1, <1>2, <1>3

(* Leaving the executor where it is, such a step keeps all parts.          *)
LEMMA StillServes ==
  ASSUME SInv, Still, beat' = beat, ex' = ex, fl'.by = fl.by \/ fl'.by = "thread"
  PROVE  Serving'
<1>. USE DEF SInv, Serving
<1>1. CopyTrue' /\ GoneIsDone' /\ ClosedIsDone'
  BY DEF CopyTrue, GoneIsDone, ClosedIsDone, Still
<1>2. Begun' /\ Failing' /\ OneShotGoesOn' /\ SeriesGoesOn' /\ FlushOwner'
  BY DEF Begun, Failing, OneShotGoesOn, SeriesGoesOn, FlushOwner
<1>3. Closing'
  BY DEF Closing, Still
<1>. QED
  BY <1>1, <1>2, <1>3

(* The executor goes on to a point where nothing is begun and nothing is   *)
(* failing.                                                                *)
LEMMA GoesOnServes ==
  ASSUME SInv, Still, beat' = beat, NEW p \in ExPC, fl'.by = "executor" => p = "flushing",
         ex' = [ex EXCEPT !.pc = p], ex.pc \notin {"idle", "final"},
         p \notin {"starting", "capability", "failing"},
         ~Recurring => p \notin {"beat", "gate", "flush", "flushing"},
         p \in {"report", "posted", "discard"} => ex.pc \in {"report", "posted", "discard"},
         Recurring /\ p = "advance" => beat < MaxBeats,
         Recurring /\ p = "find" => beat < MaxBeats \/ ex.plan[1] = SUCCEEDED,
         p \in {"flush", "flushing"} => ex.pc \in {"flush", "flushing"}
  PROVE  Serving'
<1>. USE DEF SInv, Serving
<1>0. ex'.pc = p /\ ex'.plan = ex.plan /\ ex'.n = ex.n /\ ex'.next = ex.next
  BY DEF Inv, TypeOK, Executors
<1>1. CopyTrue' /\ GoneIsDone' /\ ClosedIsDone'
  BY <1>0 DEF CopyTrue, GoneIsDone, ClosedIsDone, Still
<1>2. Begun' /\ Failing' /\ OneShotGoesOn' /\ SeriesGoesOn' /\ FlushOwner'
  BY <1>0 DEF Begun, Failing, OneShotGoesOn, SeriesGoesOn, FlushOwner
<1>3. Closing'
  BY <1>0 DEF Closing, Still
<1>. QED
  BY <1>1, <1>2, <1>3

(* What can be said of a row that is there.                                *)
LEMMA RowFacts ==
  ASSUME Inv, row # NoRow
  PROVE  /\ row \in Row /\ RowSound(row) /\ RowStatus(row) \in [Steps -> StepStatus]
         /\ row.wire \in IntentStatus
BY DEF Inv, TypeOK, QueueSound, RowStatus, Row, StepRow

(* The flush.                                                              *)
LEMMA FlushServes ==
  ASSUME SInv, row # NoRow => row.hist # <<>>,
         FlushStep \/ \E by \in {"thread", "executor"} : FlushBegin(by)
  PROVE  Serving'
<1>. USE DEF SInv, FlushRest
<1>1. row' = row => Still
  BY DEF Still
<1>2. /\ beat' = beat /\ ex \in Executors /\ fl \in Flushers
      /\ FlushOwner /\ OneShotGoesOn /\ SeriesGoesOn
  BY DEF FlushStep, FlushPostStep, FlushStepAnswered, FlushQueuesEmpty, FlushSnapshot,
         FlushSkipIntent, FlushPostIntent, FlushIntentAnswered, FlushGivesUp, FlushEnd,
         FlushBegin, Inv, TypeOK, Serving
<1>3. ASSUME Still, FlushReturns PROVE Serving'
  <2>1. fl'.by = "thread"
    BY <1>3 DEF FlushReturns, FlushIdle
  <2>2. CASE fl.by = "executor"
    <3>1. ex' = [ex EXCEPT !.pc = ex.next] /\ ex.pc = "flushing"
      BY <1>2, <1>3, <2>2 DEF FlushReturns, FlushOwner
    <3>2. ex.next \in {"final", "find"} /\ (ex.next = "find" => beat < MaxBeats)
      BY <1>2, <3>1 DEF OneShotGoesOn, SeriesGoesOn
    <3>. QED
      BY <1>2, <1>3, <2>1, <3>1, <3>2, GoesOnServes DEF ExPC
  <2>3. CASE fl.by # "executor"
    BY <1>2, <1>3, <2>1, <2>3, StillServes DEF FlushReturns
  <2>. QED
    BY <2>2, <2>3
<1>4. CASE \E by \in {"thread", "executor"} : FlushBegin(by)
  <2>1. PICK by \in {"thread", "executor"} : FlushBegin(by)
    BY <1>4
  <2>2. row' = row /\ fl'.by = by
    BY <1>2, <2>1 DEF FlushBegin, Flushers
  <2>3. CASE by = "thread"
    BY <1>1, <1>2, <2>1, <2>2, <2>3, StillServes DEF FlushBegin
  <2>4. CASE by = "executor"
    <3>1. ex.pc = "flush" /\ ex' = [ex EXCEPT !.pc = "flushing"]
      BY <2>1, <2>4 DEF FlushBegin
    <3>2. Recurring
      BY <1>2, <3>1 DEF OneShotGoesOn
    <3>. QED
      BY <1>1, <1>2, <2>2, <3>1, <3>2, GoesOnServes DEF ExPC
  <2>. QED
    BY <2>3, <2>4
<1>5. CASE FlushPostStep \/ FlushQueuesEmpty \/ FlushSnapshot \/ FlushPostIntent
  <2>1. row' = row /\ ex' = ex /\ fl'.by = fl.by
    BY <1>2, <1>5 DEF FlushPostStep, FlushQueuesEmpty, FlushSnapshot, FlushPostIntent, Flushers
  <2>. QED
    BY <1>1, <1>2, <2>1, StillServes
<1>6. CASE FlushStepAnswered
  <2>1. req["flush"].msg.n \in Steps
    BY <1>6 DEF FlushStepAnswered, Inv, FlushCall, StepMsgs
  <2>2. row = NoRow => row' = NoRow
    BY <1>6 DEF FlushStepAnswered, MarkStepSynced, DiscardQueuedEvent
  <2>3. row # NoRow => TakenOff(row', row)
    BY <1>6, <2>1, RowFacts, TakesOff DEF FlushStepAnswered
  <2>4. ex' = ex /\ fl'.by = fl.by
    BY <1>2, <1>6 DEF FlushStepAnswered, Flushers
  <2>. QED
    BY <1>2, <2>2, <2>3, <2>4, TakenOffStill, StillServes
<1>7. CASE FlushSkipIntent \/ FlushIntentAnswered
  <2>1. row' = row \/ \E w : row' = MarkIntentSynced(row, w, SeriesOpen)
    BY <1>7 DEF FlushSkipIntent, FlushIntentAnswered
  <2>2. row = NoRow => row' = NoRow
    BY <2>1 DEF MarkIntentSynced
  <2>3. row # NoRow => row' = row \/ \E w : Marked(row', row, w)
    BY <2>1, RowFacts, MarkIntentEffect
  <2>4. ex' = ex /\ fl'.by = fl.by
    BY <1>2, <1>7 DEF FlushSkipIntent, FlushIntentAnswered, Flushers
  <2>. QED
    BY <1>1, <1>2, <2>2, <2>3, <2>4, TakenOffStill, StillServes
<1>8. CASE FlushGivesUp \/ FlushEnd
  BY <1>1, <1>3, <1>8 DEF FlushGivesUp, FlushEnd
<1>. QED
  BY <1>4, <1>5, <1>6, <1>7, <1>8 DEF FlushStep

(* A status set in the row and in the copy keeps them alike.               *)
LEMMA StatusServes ==
  ASSUME SInv, ex.pc # "idle", NEW n \in Steps, NEW st \in StepStatus,
         row' = SetStepStatus(row, n, st), ex'.plan = [ex.plan EXCEPT ![n] = st],
         st # FAILED /\ ~Recurring => row # NoRow /\ row.wire \notin IntentTerminal,
         Recurring => beat' >= beat, beat' \in Nat, ~Recurring => beat' = beat
  PROVE  /\ CopyTrue' /\ GoneIsDone' /\ ClosedIsDone'
         /\ (row = NoRow <=> row' = NoRow)
         /\ row # NoRow => row'.wire = row.wire /\ RowStatus(row') = ex'.plan
<1>. USE DEF SInv, Serving
<1>1. /\ ex.plan \in [Steps -> StepStatus] /\ beat \in Nat /\ MaxBeats \in Nat
  BY BoundsAssumption DEF Inv, TypeOK, Executors
<1>2. row = NoRow <=> row' = NoRow
  BY RowFacts, SetStepEffect DEF SetStepStatus
<1>3. ASSUME row # NoRow
      PROVE  row'.wire = row.wire /\ RowStatus(row') = ex'.plan /\ ex.plan = RowStatus(row)
  <2>1. /\ row'.wire = row.wire
        /\ \A k \in Steps : row'.steps[k].status = IF k = n THEN st ELSE row.steps[k].status
    BY <1>3, RowFacts, SetStepEffect
  <2>2. ex.plan = RowStatus(row)
    BY <1>3 DEF CopyTrue
  <2>3. \A k \in Steps : ex'.plan[k] = IF k = n THEN st ELSE row.steps[k].status
    BY <1>1, <2>2 DEF RowStatus
  <2>4. ex'.plan = [k \in Steps |-> ex'.plan[k]]
    BY <1>1
  <2>. QED
    BY <2>1, <2>2, <2>3, <2>4 DEF RowStatus
<1>4. ASSUME ~Work(ex.plan, beat), Recurring \/ st = FAILED PROVE ~Work(ex'.plan, beat')
  <2>1. CASE Recurring
    BY <1>1, <1>4, <2>1, SeriesWork
  <2>2. CASE ~Recurring
    BY <1>1, <1>4, <2>2, FailureIsNoWork
  <2>. QED
    BY <2>1, <2>2
<1>5. CopyTrue'
  BY <1>2, <1>3 DEF CopyTrue
<1>6. GoneIsDone'
  BY <1>2, <1>4 DEF GoneIsDone
<1>7. ClosedIsDone'
  BY <1>2, <1>3, <1>4 DEF ClosedIsDone
<1>. QED
  BY <1>2, <1>3, <1>5, <1>6, <1>7

(* When a step fails whose predecessors have succeeded, nothing is left.   *)
LEMMA FailureEndsPlan ==
  ASSUME ~Recurring, NEW s \in [Steps -> StepStatus], NEW b, NEW n \in Steps, Prepared(s, n)
  PROVE  ~Work([s EXCEPT ![n] = FAILED], b)
<1>. DEFINE t == [s EXCEPT ![n] = FAILED]
<1>1. \A k \in Steps : t[k] = IF k = n THEN FAILED ELSE s[k]
  OBVIOUS
<1>. HIDE DEF t
<1>2. SUFFICES ASSUME NEW k \in Steps, Prepared(t, k), t[k] \in {WAITING, RUNNING}
               PROVE  FALSE
  BY DEF Work, t
<1>3. n \in Nat /\ k \in Nat /\ 1 <= n /\ 1 <= k /\ k # n
  BY <1>1, <1>2, PlanAssumption DEF Steps, FAILED, WAITING, RUNNING
<1>4. CASE k < n
  <2>1. k \in 1..(n - 1)
    BY <1>3, <1>4
  <2>. QED
    BY <1>1, <1>2, <2>1 DEF Prepared, SUCCEEDED, FAILED, WAITING, RUNNING
<1>5. CASE n < k
  <2>1. n \in 1..(k - 1)
    BY <1>3, <1>5
  <2>. QED
    BY <1>1, <1>2, <2>1 DEF Prepared, SUCCEEDED, FAILED
<1>. QED
  BY <1>3, <1>4, <1>5

(* A reported result.                                                      *)
LEMMA ReportServes ==
  ASSUME SInv, ex.pc \notin {"idle", "final", "flushing"}, fl' = fl,
         NEW n \in Steps, NEW st \in Terminal,
         NEW next \in {"advance", "failing", "beat", "find"}, Report(n, st, next),
         st # FAILED /\ ~Recurring => row # NoRow /\ row.wire \notin IntentTerminal /\ next = "advance",
         Recurring => next = "beat" \/ (next = "find" /\ st = SUCCEEDED),
         ~Recurring => next \in {"advance", "failing"},
         next = "failing" => Prepared(ex.plan, n),
         Recurring => beat' >= beat, beat' \in Nat, ~Recurring => beat' = beat
  PROVE  Serving'
<1>. USE DEF SInv
<1>1. ex \in Executors /\ ex.plan \in [Steps -> StepStatus] /\ st \in StepStatus
  BY DEF Inv, TypeOK, Executors, Terminal, StepStatus
<1>2. /\ row' = SetStepStatus(row, n, st)
      /\ ex'.pc = IF st = FAILED THEN next ELSE "report"
      /\ ex'.next = next /\ ex'.n = n /\ ex'.plan = [ex.plan EXCEPT ![n] = st]
  BY <1>1 DEF Report, Executors
<1>3. /\ CopyTrue' /\ GoneIsDone' /\ ClosedIsDone'
      /\ row # NoRow => row'.wire = row.wire
      /\ (row = NoRow <=> row' = NoRow)
  BY <1>1, <1>2, StatusServes
<1>4. Begun' /\ OneShotGoesOn' /\ FlushOwner'
  BY <1>2 DEF Begun, OneShotGoesOn, FlushOwner, Serving, Terminal
<1>5. Failing'
  <2>1. SUFFICES ASSUME ex'.pc = "failing" PROVE Failing'
    BY DEF Failing
  <2>2. st = FAILED /\ next = "failing" /\ ~Recurring
    BY <1>2, <2>1
  <2>3. ~Work(ex'.plan, beat')
    BY <1>1, <1>2, <2>2, FailureEndsPlan
  <2>. QED
    BY <1>1, <1>2, <2>2, <2>3 DEF Failing
<1>6. SeriesGoesOn'
  <2>1. SUFFICES ASSUME Recurring PROVE SeriesGoesOn'
    BY DEF SeriesGoesOn
  <2>2. n = 1
    BY <2>1, RecurringAssumption DEF Steps
  <2>3. ex'.plan[1] = st
    BY <1>1, <1>2, <2>2
  <2>4. ex'.pc \in {"beat", "report"}
    BY <1>2, <2>1 DEF SUCCEEDED, FAILED, Terminal
  <2>. QED
    BY <1>2, <2>1, <2>3, <2>4 DEF SeriesGoesOn
<1>7. Closing'
  BY <1>2, <1>3 DEF Closing, Serving
<1>. QED
  BY <1>3, <1>4, <1>5, <1>6, <1>7 DEF Serving

(* The intent's status set: terminal only when nothing is left.            *)
LEMMA IntentServes ==
  ASSUME SInv, NEW w \in IntentStatus, row' = SetIntentStatus(row, w), beat' = beat,
         ex'.plan = ex.plan \/ ex'.pc = "idle", ex.pc # "idle",
         w \in IntentTerminal => ~Work(ex.plan, beat),
         w \notin IntentTerminal /\ row # NoRow => row.wire \notin IntentTerminal
  PROVE  /\ CopyTrue' /\ GoneIsDone' /\ ClosedIsDone'
         /\ (row = NoRow <=> row' = NoRow)
         /\ row # NoRow => row'.wire = w /\ RowStatus(row') = RowStatus(row)
<1>. USE DEF SInv, Serving
<1>1. row = NoRow <=> row' = NoRow
  <2>1. row = NoRow => row' = NoRow
    BY DEF SetIntentStatus
  <2>2. row # NoRow => row' # NoRow
    BY RowFacts, SetIntentEffect
  <2>. QED
    BY <2>1, <2>2
<1>2. row # NoRow => row'.wire = w /\ RowStatus(row') = RowStatus(row)
  BY RowFacts, SetIntentEffect DEF RowStatus
<1>3. CopyTrue' /\ GoneIsDone'
  BY <1>1, <1>2 DEF CopyTrue, GoneIsDone
<1>4. ClosedIsDone'
  BY <1>1, <1>2 DEF ClosedIsDone, CopyTrue
<1>. QED
  BY <1>1, <1>2, <1>3, <1>4

(* The executor.                                                           *)
LEMMA ExecutorServes ==
  ASSUME SInv, ExStep
  PROVE  Serving'
<1>. USE DEF SInv, ExRest
<1>1. /\ ex \in Executors /\ ex.plan \in [Steps -> StepStatus] /\ ex.n \in Steps
      /\ beat \in Nat /\ beat \in 0..MaxBeats /\ MaxBeats \in Nat
      /\ CopyTrue /\ GoneIsDone /\ ClosedIsDone /\ Begun /\ Failing
      /\ OneShotGoesOn /\ SeriesGoesOn /\ FlushOwner /\ Closing
  BY BoundsAssumption DEF Inv, TypeOK, Executors, Serving
<1>2. row' = row => Still
  BY DEF Still
<1>3. fl' = fl
  BY Zenon
  DEF ExStep, ExTake, ExAdvanced, ExSkipBeats, ExLoopEnds, ExIntentRunning, ExMissed,
      ExStart, ExUnresolved, ExCapabilityEnds, ExPost, ExPostAnswered, ExDiscard,
      ExPostFailed, ExFailIntent, ExAdvanceBeat, ExSeriesDone, ExRearm, ExFinalize
<1>4. fl.by = "executor" => ex.pc = "flushing"
  BY <1>1 DEF FlushOwner
<1>5. CASE ExTake
  <2>1. row # NoRow /\ Work(RowStatus(row), beat) /\ row' = row /\ beat' = beat /\ ex.pc = "idle"
    BY <1>5, Readings DEF ExTake
  <2>2. ex'.pc = "advance" /\ ex'.plan = RowStatus(row)
    BY <1>5 DEF ExTake, ExIdle
  <2>3. Recurring => beat < MaxBeats
    BY <2>1, SeriesWork
  <2>. QED
    BY <1>1, <1>3, <2>1, <2>2, <2>3
    DEF Serving, CopyTrue, GoneIsDone, ClosedIsDone, Begun, Failing, OneShotGoesOn,
        SeriesGoesOn, FlushOwner, Closing
<1>6. CASE ExAdvanced
  <2>1. ex' = [ex EXCEPT !.pc = "find"] /\ row' = row /\ beat' = beat /\ ex.pc = "advance"
    BY <1>6 DEF ExAdvanced
  <2>2. Recurring => beat < MaxBeats
    BY <1>1, <2>1 DEF SeriesGoesOn
  <2>. QED
    BY <1>2, <1>3, <1>4, <2>1, <2>2, GoesOnServes DEF ExPC
<1>7. CASE ExSkipBeats
  <2>1. ex.pc = "advance" /\ Recurring /\ beat' \in beat..MaxBeats /\ beat' \in Nat /\ beat' >= beat
    BY <1>1, <1>7 DEF ExSkipBeats
  <2>2. 1 \in Steps /\ WAITING \in StepStatus
    BY PlanAssumption DEF Steps, StepStatus
  <2>3. CASE Report(1, SUCCEEDED, "find")
    BY <1>3, <2>1, <2>2, <2>3, ReportServes DEF Terminal
  <2>4. CASE beat' # MaxBeats /\ Rearm("find")
    <3>1. /\ row' = SetStepStatus(row, 1, WAITING) /\ ex'.pc = "flush" /\ ex'.next = "find"
          /\ ex'.plan = [ex.plan EXCEPT ![1] = WAITING]
      BY <1>1, <2>4 DEF Rearm, Executors
    <3>2. /\ CopyTrue' /\ GoneIsDone' /\ ClosedIsDone' /\ (row = NoRow <=> row' = NoRow)
          /\ row # NoRow => row'.wire = row.wire
      BY <2>1, <2>2, <3>1, StatusServes
    <3>3. beat' < MaxBeats
      BY <1>1, <2>1, <2>4
    <3>. QED
      BY <1>1, <1>3, <1>4, <2>1, <3>1, <3>2, <3>3
      DEF Serving, Begun, Failing, OneShotGoesOn, SeriesGoesOn, FlushOwner, Closing
  <2>5. CASE beat' # MaxBeats /\ row' = row /\ ex' = [ex EXCEPT !.pc = "find"]
    <3>1. ex'.pc = "find" /\ ex'.plan = ex.plan /\ beat' < MaxBeats /\ beat < MaxBeats
      BY <1>1, <2>1, <2>5 DEF Executors
    <3>2. Work(ex.plan, beat) /\ Work(RowStatus(row), beat)
      BY <2>1, <3>1, SeriesWork
    <3>. QED
      BY <1>1, <1>3, <1>4, <2>1, <2>5, <3>1, <3>2
      DEF Serving, CopyTrue, GoneIsDone, ClosedIsDone, Begun, Failing, OneShotGoesOn,
          SeriesGoesOn, FlushOwner, Closing
  <2>. QED
    BY <1>7, <2>3, <2>4, <2>5 DEF ExSkipBeats
<1>8. CASE ExLoopEnds
  <2>1. ex' = [ex EXCEPT !.pc = "final"] /\ row' = row /\ beat' = beat /\ ex.pc = "find"
    BY <1>8 DEF ExLoopEnds
  <2>. QED
    BY <1>2, <1>3, <1>4, <2>1, GoesOnServes DEF ExPC
<1>9. CASE ExIntentRunning
  <2>1. /\ row' = SetIntentStatus(row, "running") /\ beat' = beat /\ ex.pc = "starting"
        /\ ex'.pc = "capability" /\ ex'.plan = ex.plan /\ ex'.n = ex.n
    BY <1>1, <1>9 DEF ExIntentRunning, Executors
  <2>2. row # NoRow => row.wire \notin IntentTerminal
    BY <1>1, <2>1 DEF Closing
  <2>3. /\ CopyTrue' /\ GoneIsDone' /\ ClosedIsDone'
        /\ row' # NoRow => row'.wire = "running"
    BY <2>1, <2>2, IntentServes DEF IntentStatus, IntentTerminal
  <2>. QED
    BY <1>1, <1>3, <1>4, <2>1, <2>3
    DEF Serving, Begun, Failing, OneShotGoesOn, SeriesGoesOn, FlushOwner, Closing,
        IntentTerminal
<1>10. ASSUME NEW n \in Steps, ExMissed(n) PROVE Serving'
  BY <1>1, <1>3, <1>10, ReportServes DEF ExMissed, Terminal
<1>11. ASSUME NEW n \in Steps, ExUnresolved(n) PROVE Serving'
  BY <1>1, <1>3, <1>11, ReportServes DEF ExUnresolved, Eligible, Terminal
<1>12. ASSUME NEW n \in Steps, ExStart(n) PROVE Serving'
  <2>1. /\ row' = SetStepStatus(row, n, RUNNING) /\ beat' = beat /\ ex.pc = "find"
        /\ ex'.pc = "starting" /\ ex'.n = n /\ ex'.plan = [ex.plan EXCEPT ![n] = RUNNING]
        /\ Ready(ex.plan, n) /\ RUNNING \in StepStatus
    BY <1>1, <1>12, Readings DEF ExStart, Executors, StepStatus
  <2>2. Recurring => beat < MaxBeats
    <3>1. Recurring => n = 1
      BY RecurringAssumption DEF Steps
    <3>. QED
      BY <1>1, <2>1, <3>1 DEF SeriesGoesOn, Ready, SUCCEEDED, WAITING, RUNNING
  <2>3. row # NoRow /\ row.wire \notin IntentTerminal
    <3>1. Work(ex.plan, beat)
      BY <2>1, <2>2, ReadyIsWork
    <3>. QED
      BY <1>1, <2>1, <3>1 DEF GoneIsDone, ClosedIsDone, CopyTrue
  <2>4. /\ CopyTrue' /\ GoneIsDone' /\ ClosedIsDone'
        /\ row # NoRow => row'.wire = row.wire
    BY <1>1, <2>1, <2>3, StatusServes
  <2>5. Ready(ex'.plan, n)
    <3>1. \A m \in 1..(n - 1) : m \in Steps /\ m # n
      BY PlanAssumption DEF Steps
    <3>. QED
      BY <1>1, <2>1, <3>1 DEF Ready, Prepared
  <2>. QED
    BY <1>1, <1>3, <1>4, <2>1, <2>2, <2>3, <2>4, <2>5
    DEF Serving, Begun, Failing, OneShotGoesOn, SeriesGoesOn, FlushOwner, Closing
<1>13. CASE ExCapabilityEnds
  <2>1. ex.pc = "capability" /\ beat' = beat
    BY <1>13 DEF ExCapabilityEnds
  <2>2. Ready(ex.plan, ex.n) /\ (Recurring => beat < MaxBeats)
    BY <1>1, <2>1 DEF Begun
  <2>3. row # NoRow /\ row.wire \notin IntentTerminal
    <3>1. Work(ex.plan, beat)
      BY <1>1, <2>2, ReadyIsWork
    <3>. QED
      BY <1>1, <2>1, <3>1 DEF GoneIsDone, ClosedIsDone, CopyTrue
  <2>4. PICK st \in Terminal :
          Report(ex.n, st, IF Recurring THEN "beat" ELSE IF st = FAILED THEN "failing"
                                                     ELSE "advance")
    BY <1>13 DEF ExCapabilityEnds
  <2>5. Prepared(ex.plan, ex.n)
    BY <2>2 DEF Ready
  <2>6. CASE Recurring
    BY <1>1, <1>3, <2>1, <2>4, <2>6, ReportServes
  <2>7. CASE ~Recurring /\ st = FAILED
    BY <1>1, <1>3, <2>1, <2>4, <2>5, <2>7, ReportServes
  <2>8. CASE ~Recurring /\ st # FAILED
    BY <1>1, <1>3, <2>1, <2>3, <2>4, <2>8, ReportServes
  <2>. QED
    BY <2>6, <2>7, <2>8
<1>14. CASE ExPost
  <2>1. ex' = [ex EXCEPT !.pc = "posted"] /\ row' = row /\ beat' = beat /\ ex.pc = "report"
    BY <1>14 DEF ExPost
  <2>. QED
    BY <1>2, <1>3, <1>4, <2>1, GoesOnServes DEF ExPC
<1>15. CASE ExPostAnswered
  <2>1. /\ ex' = [ex EXCEPT !.pc = "discard"] /\ beat' = beat /\ ex.pc = "posted"
        /\ row' = DiscardLeadingNonTerminal(row, ex.n)
    BY <1>15 DEF ExPostAnswered
  <2>2. row = NoRow => row' = NoRow
    BY <2>1 DEF DiscardLeadingNonTerminal
  <2>3. row # NoRow => TakenOff(row', row)
    BY <1>1, <2>1, RowFacts, TakesOff
  <2>4. Still
    BY <2>2, <2>3, TakenOffStill
  <2>. QED
    BY <1>3, <1>4, <2>1, <2>4, GoesOnServes DEF ExPC
<1>16. ASSUME ex.pc \in {"posted", "discard"}, ex' = [ex EXCEPT !.pc = ex.next], Still,
              beat' = beat
       PROVE  Serving'
  <2>1. \/ ex.next = "advance" /\ ~Recurring
        \/ Recurring /\ ex.next = "beat"
        \/ Recurring /\ ex.next = "find" /\ ex.plan[1] = SUCCEEDED
    BY <1>1, <1>16 DEF OneShotGoesOn, SeriesGoesOn
  <2>. QED
    BY <1>3, <1>4, <1>16, <2>1, GoesOnServes DEF ExPC
<1>17. CASE ExDiscard
  <2>1. /\ ex' = [ex EXCEPT !.pc = ex.next] /\ beat' = beat /\ ex.pc = "discard"
        /\ row' = DiscardMatchingStepEvent(row, ex.n, ex.ev.status, SeriesOpen)
    BY <1>17 DEF ExDiscard
  <2>2. row = NoRow => row' = NoRow
    BY <2>1 DEF DiscardMatchingStepEvent
  <2>3. row # NoRow => TakenOff(row', row)
    BY <1>1, <2>1, RowFacts, TakesOff
  <2>4. Still
    BY <2>2, <2>3, TakenOffStill
  <2>. QED
    BY <1>16, <2>1, <2>4
<1>18. CASE ExPostFailed
  BY <1>2, <1>16, <1>18 DEF ExPostFailed
<1>19. CASE ExFailIntent
  <2>1. /\ row' = SetIntentStatus(row, "failed") /\ beat' = beat /\ ex.pc = "failing"
        /\ ex'.pc = "final" /\ ex'.plan = ex.plan /\ ex'.failed = TRUE
    BY <1>1, <1>19 DEF ExFailIntent, CloseIntent, Executors
  <2>2. ~Recurring /\ ex.plan[ex.n] = FAILED /\ ~Work(ex.plan, beat)
    BY <1>1, <2>1 DEF Failing
  <2>3. /\ CopyTrue' /\ GoneIsDone' /\ ClosedIsDone'
    BY <2>1, <2>2, IntentServes DEF IntentStatus, IntentTerminal
  <2>4. ~Complete(ex'.plan, beat')
    BY <1>1, <2>1, <2>2 DEF Complete, SUCCEEDED, FAILED
  <2>5. Final(ex', beat') = "none"
    BY <2>1, <2>4 DEF Final
  <2>. QED
    BY <1>1, <1>3, <1>4, <2>1, <2>2, <2>3, <2>5
    DEF Serving, Begun, Failing, OneShotGoesOn, SeriesGoesOn, FlushOwner, Closing
<1>20. CASE ExAdvanceBeat
  <2>1. /\ ex'.pc = "gate" /\ ex'.plan = ex.plan /\ row' = row /\ ex.pc = "beat"
        /\ beat' \in (beat + 1)..MaxBeats
    BY <1>1, <1>20 DEF ExAdvanceBeat, Executors
  <2>2. Recurring /\ beat < MaxBeats
    BY <1>1, <2>1 DEF OneShotGoesOn
  <2>3. Work(ex.plan, beat) /\ Work(RowStatus(row), beat)
    BY <2>2, SeriesWork
  <2>. QED
    BY <1>1, <1>3, <1>4, <2>1, <2>2, <2>3
    DEF Serving, CopyTrue, GoneIsDone, ClosedIsDone, Begun, Failing, OneShotGoesOn,
        SeriesGoesOn, FlushOwner, Closing
<1>21. CASE ExSeriesDone
  <2>1. /\ row' = SetIntentStatus(row, "succeeded") /\ beat' = beat /\ ex.pc = "gate"
        /\ ex'.pc = "final" /\ ex'.plan = ex.plan /\ ~SeriesOpen
    BY <1>1, <1>21 DEF ExSeriesDone, CloseIntent, Executors
  <2>2. Recurring /\ ~(beat < MaxBeats)
    BY <1>1, <2>1, Readings DEF OneShotGoesOn
  <2>3. ~Work(ex.plan, beat)
    BY <2>2, SeriesWork
  <2>4. /\ CopyTrue' /\ GoneIsDone' /\ ClosedIsDone'
        /\ row' # NoRow => row'.wire = "succeeded"
    BY <2>1, <2>3, IntentServes DEF IntentStatus, IntentTerminal
  <2>5. Final(ex', beat') \in {"none", "succeeded"}
    BY <2>1, <2>2 DEF Final, Complete
  <2>. QED
    BY <1>1, <1>3, <1>4, <2>1, <2>2, <2>4, <2>5
    DEF Serving, Begun, Failing, OneShotGoesOn, SeriesGoesOn, FlushOwner, Closing
<1>22. CASE ExRearm
  <2>1. /\ row' = SetStepStatus(row, 1, WAITING) /\ ex'.pc = "flush" /\ ex'.next = "final"
        /\ ex'.plan = [ex.plan EXCEPT ![1] = WAITING] /\ ex.pc = "gate" /\ beat' = beat
    BY <1>1, <1>22 DEF ExRearm, Rearm, Executors
  <2>2. Recurring /\ 1 \in Steps /\ WAITING \in StepStatus
    BY <1>1, <2>1, PlanAssumption DEF OneShotGoesOn, Steps, StepStatus
  <2>3. /\ CopyTrue' /\ GoneIsDone' /\ ClosedIsDone'
        /\ (row = NoRow <=> row' = NoRow)
        /\ row # NoRow => row'.wire = row.wire
    BY <1>1, <2>1, <2>2, StatusServes
  <2>. QED
    BY <1>1, <1>3, <1>4, <2>1, <2>2, <2>3
    DEF Serving, Begun, Failing, OneShotGoesOn, SeriesGoesOn, FlushOwner, Closing
<1>23. CASE ExFinalize
  <2>1. ex'.pc = "idle" /\ beat' = beat /\ ex.pc = "final"
    BY <1>23 DEF ExFinalize, ExIdle
  <2>2. CopyTrue' /\ GoneIsDone' /\ ClosedIsDone'
    <3>1. CASE FinalWire = "none"
      BY <1>1, <1>23, <2>1, <3>1 DEF ExFinalize, CopyTrue, GoneIsDone, ClosedIsDone
    <3>2. CASE FinalWire # "none"
      <4>1. row' = SetIntentStatus(row, FinalWire) /\ FinalWire = Final(ex, beat)
        BY <1>23, <3>2, Readings DEF ExFinalize, CloseIntent
      <4>2. Final(ex, beat) \in {"succeeded", "failed"} /\ ~Work(ex.plan, beat)
        BY <3>2, <4>1, CompleteIsNoWork DEF Final
      <4>. QED
        BY <2>1, <4>1, <4>2, IntentServes DEF IntentStatus, IntentTerminal
    <3>. QED
      BY <3>1, <3>2
  <2>. QED
    BY <1>1, <1>3, <1>4, <2>1, <2>2
    DEF Serving, Begun, Failing, OneShotGoesOn, SeriesGoesOn, FlushOwner, Closing
<1>. QED
  BY <1>5, <1>6, <1>7, <1>8, <1>9, <1>10, <1>11, <1>12, <1>13, <1>14, <1>15, <1>17, <1>18,
     <1>19, <1>20, <1>21, <1>22, <1>23 DEF ExStep

(* Brain's answers, failed calls, the pool's jobs, pruning and crashing.   *)
LEMMA RestServes ==
  ASSUME SInv,
         \/ \E c \in Callers : BrainAnswers(c) \/ CallFails(c)
         \/ \E m \in late : LateArrives(m)
         \/ \E i \in InFlight : PoolDelivers(i) \/ PoolFails(i) \/ PoolStale(i)
         \/ Prune \/ Crash \/ UNCHANGED vars
  PROVE  Serving'
<1>1. CASE Prune
  <2>1. row # NoRow /\ row' = NoRow /\ ~Work(RowStatus(row), beat)
    BY <1>1, Readings DEF Prune, Prunable
  <2>2. Still
    BY <2>1 DEF Still
  <2>. QED
    BY <1>1, <2>2, StillServes DEF Prune
<1>2. CASE Crash
  <2>1. ex'.pc = "idle" /\ fl'.by = "thread" /\ row' = row /\ beat' = beat
    BY <1>2 DEF Crash, ExIdle, FlushIdle
  <2>. QED
    BY <2>1
    DEF SInv, Serving, CopyTrue, GoneIsDone, ClosedIsDone, Begun, Failing, OneShotGoesOn,
        SeriesGoesOn, FlushOwner, Closing
<1>3. CASE ~(Prune \/ Crash)
  <2>1. row' = row /\ beat' = beat /\ ex' = ex /\ fl' = fl
    BY <1>3 DEF BrainAnswers, CallFails, LateArrives, PoolDelivers, PoolFails, PoolStale, vars
  <2>2. Still
    BY <2>1 DEF Still
  <2>. QED
    BY <2>1, <2>2, StillServes
<1>. QED
  BY <1>1, <1>2, <1>3

(* Everything starts with an idle executor and an open intent.             *)
LEMMA InitServes == Init => Serving
<1>. SUFFICES ASSUME Init PROVE Serving
  OBVIOUS
<1>1. /\ ex.pc = "idle" /\ fl.by = "thread"
      /\ row = SetIntentStatus(FromBrain("parsed", AllWaiting), "intent_dispatched")
  BY DEF Init, ExIdle, FlushIdle
<1>2. row # NoRow => row.wire = "intent_dispatched"
  BY <1>1 DEF SetIntentStatus, FromBrain
<1>. QED
  BY <1>1, <1>2
  DEF Serving, CopyTrue, GoneIsDone, ClosedIsDone, Begun, Failing, OneShotGoesOn,
      SeriesGoesOn, FlushOwner, Closing, IntentTerminal

(* The invariant gives what it is for.                                     *)
LEMMA ServingOutlives == SInv => RowOutlivesStep
<1>. SUFFICES ASSUME SInv, row = NoRow,
                     \/ ex.pc \in {"starting", "capability"}
                     \/ ex.pc \in {"advance", "find"} /\ \E n \in Steps : Eligible(n)
              PROVE  FALSE
  BY DEF RowOutlivesStep
<1>1. ex.n \in Steps
  BY DEF SInv, Inv, TypeOK, Executors
<1>2. PICK n \in Steps : Ready(ex.plan, n) /\ (Recurring => beat < MaxBeats)
  <2>1. CASE ex.pc \in {"starting", "capability"}
    BY <1>1, <2>1 DEF SInv, Serving, Begun
  <2>2. CASE ex.pc \in {"advance", "find"}
    <3>1. PICK n \in Steps : Ready(ex.plan, n)
      BY <2>2, Readings
    <3>2. Recurring => n = 1
      BY RecurringAssumption DEF Steps
    <3>3. Recurring => beat < MaxBeats
      BY <2>2, <3>1, <3>2 DEF SInv, Serving, SeriesGoesOn, Ready, SUCCEEDED, WAITING, RUNNING
    <3>. QED
      BY <3>1, <3>3
  <2>. QED
    BY <2>1, <2>2
<1>3. Work(ex.plan, beat)
  BY <1>2, ReadyIsWork
<1>. QED
  BY <1>3 DEF SInv, Serving, GoneIsDone

-----------------------------------------------------------------------------
(* What Brain knows of the end of the intent.  An intent ends once, so     *)
(* every terminal status, in the history, in a message and in Brain, is    *)
(* the row's; and an entry is marked only when Brain has an end.           *)

\* A status that is terminal is that of row r.
EndsAs(r, w) == w \in IntentTerminal => w = r.wire
EndMsg(r, m) == m.kind = "intent" => EndsAs(r, m.wire)

History == row # NoRow =>
    /\ row.hist # <<>> /\ row.hist[Len(row.hist)].status = row.wire
    /\ \A j \in 1..Len(row.hist) : EndsAs(row, row.hist[j].status)
    /\ row.synced => \A j \in 1..Len(row.hist) : row.hist[j].synced

EndMarked == row # NoRow =>
    \A j \in 1..Len(row.hist) : row.hist[j].synced /\ row.hist[j].status \in IntentTerminal
                                  => brain.intent = row.hist[j].status

EndsAlike == row # NoRow =>
    /\ \A m \in late : EndMsg(row, m)
    /\ \A i \in 1..Len(pool) : EndMsg(row, pool[i])
    /\ \A c \in Callers : EndMsg(row, req[c].msg)
    /\ \A i \in 1..Len(fl.jobs) : EndsAs(row, fl.jobs[i].status)
    /\ EndsAs(row, brain.intent)

\* Brain has answered an intent's end only if it has one.
EndHeard == \A c \in Callers :
    LET m == req[c].msg
    IN  Accounted(c) /\ m.kind = "intent" /\ m.wire \in IntentTerminal
          => brain.intent \in IntentTerminal

IntentCall == fl.pc = "intent" => req["flush"].msg.kind = "intent"

EndTold == History /\ EndMarked /\ EndsAlike /\ EndHeard /\ IntentCall

EInv == Inv /\ Serving /\ EndTold

\* What a step may do to the row's wire status, history and marks.
RowTold ==
    /\ row = NoRow => row' = NoRow
    /\ row # NoRow =>
         \/ /\ row' # NoRow
            /\ row'.wire = row.wire /\ row'.hist = row.hist /\ row'.synced = row.synced
         \/ row' = NoRow /\ row.synced /\ row.wire \in IntentTerminal
         \/ \E w \in IntentStatus : /\ row' = SetIntentStatus(row, w)
                                    /\ row.wire \in IntentTerminal => w = row.wire
         \/ \E w : /\ Marked(row', row, w)
                   /\ w \in IntentTerminal => brain.intent \in IntentTerminal

LEMMA Appended ==
  ASSUME NEW S, NEW s \in Seq(S), NEW e \in S
  PROVE  /\ Append(s, e) \in Seq(S) /\ Len(Append(s, e)) = Len(s) + 1 /\ Append(s, e) # <<>>
         /\ \A j \in 1..(Len(s) + 1) : Append(s, e)[j] = IF j = Len(s) + 1 THEN e ELSE s[j]
<1>1. /\ Append(s, e) \in Seq(S) /\ Len(Append(s, e)) = Len(s) + 1 /\ Len(s) \in Nat
      /\ \A j \in 1..(Len(s) + 1) : Append(s, e)[j] = IF j = Len(s) + 1 THEN e ELSE s[j]
  OBVIOUS
<1>. QED
  BY <1>1, EmptySeq

(* A history that is all marked has its last entry in Brain.               *)
LEMMA LastMarked ==
  ASSUME EInv, row # NoRow, row.wire \in IntentTerminal,
         \/ row.synced
         \/ \E w : /\ \A j \in 1..Len(row.hist) : row.hist[j].synced \/ row.hist[j].status = w
                   /\ w \in IntentTerminal => brain.intent \in IntentTerminal
  PROVE  brain.intent = row.wire
<1>. DEFINE k == Len(row.hist)
<1>1. /\ row.hist \in Seq(HistEntry) /\ row.hist # <<>> /\ row.hist[k].status = row.wire
      /\ row.synced => \A j \in 1..k : row.hist[j].synced
  BY RowFacts DEF EInv, EndTold, History, Row
<1>2. k \in 1..k
  BY <1>1, EmptySeq
<1>3. row.hist[k].synced => brain.intent = row.wire
  BY <1>1, <1>2 DEF EInv, EndTold, EndMarked
<1>4. brain.intent \in IntentTerminal => brain.intent = row.wire
  BY DEF EInv, EndTold, EndsAlike, EndsAs
<1>. QED
  BY <1>1, <1>2, <1>3, <1>4

(* So the row's history and marks stay true; an end is an end; and a row   *)
(* with an end is dropped only when Brain has it.                          *)
LEMMA RowTells ==
  ASSUME EInv, RowTold, brain' = brain
  PROVE  /\ History' /\ EndMarked'
         /\ row' # NoRow => row # NoRow
         /\ row' # NoRow => \A w : EndsAs(row, w) => EndsAs(row', w)
         /\ row # NoRow /\ row' = NoRow /\ row.wire \in IntentTerminal
              => brain.intent = row.wire
<1>1. CASE row = NoRow
  BY <1>1 DEF RowTold, History, EndMarked
<1>. SUFFICES ASSUME row # NoRow
              PROVE  /\ History' /\ EndMarked'
                     /\ row' # NoRow => \A w : EndsAs(row, w) => EndsAs(row', w)
                     /\ row' = NoRow /\ row.wire \in IntentTerminal => brain.intent = row.wire
  BY <1>1
<1>2. /\ row \in Row /\ row.hist \in Seq(HistEntry) /\ Len(row.hist) \in Nat
      /\ History /\ EndMarked
  BY RowFacts DEF EInv, EndTold, Row
<1>3. CASE /\ row' # NoRow
           /\ row'.wire = row.wire /\ row'.hist = row.hist /\ row'.synced = row.synced
  BY <1>2, <1>3 DEF History, EndMarked, EndsAs
<1>4. CASE row' = NoRow /\ row.synced /\ row.wire \in IntentTerminal
  BY <1>4, LastMarked DEF History, EndMarked
<1>5. ASSUME NEW w \in IntentStatus, row' = SetIntentStatus(row, w),
             row.wire \in IntentTerminal => w = row.wire
      PROVE  /\ History' /\ EndMarked' /\ row' # NoRow
             /\ \A x : EndsAs(row, x) => EndsAs(row', x)
  <2>1. CASE row.wire = w
    <3>1. row' = row
      BY <1>2, <1>5, <2>1, SetIntentEffect
    <3>. QED
      BY <1>2, <3>1 DEF History, EndMarked
  <2>2. CASE row.wire # w
    <3>. DEFINE e == [status |-> w, synced |-> FALSE]
                k == Len(row.hist)
    <3>1. /\ row' # NoRow /\ row'.wire = w /\ row'.synced = FALSE
          /\ row'.hist = Append(row.hist, e)
      BY <1>2, <1>5, <2>2, SetIntentEffect
    <3>2. /\ Len(row'.hist) = k + 1 /\ row'.hist # <<>>
          /\ \A j \in 1..(k + 1) : row'.hist[j] = IF j = k + 1 THEN e ELSE row.hist[j]
      <4>1. e \in HistEntry
        BY DEF HistEntry
      <4>. HIDE DEF e
      <4>. QED
        BY <1>2, <3>1, <4>1, Appended
    <3>3. e.status = w /\ e.synced = FALSE
      OBVIOUS
    <3>. HIDE DEF e
    <3>4. row.wire \notin IntentTerminal
      BY <1>5, <2>2
    <3>5. \A x : EndsAs(row, x) => EndsAs(row', x)
      BY <3>4 DEF EndsAs
    <3>6. \A j \in 1..k : row.hist[j].status \notin IntentTerminal
      BY <1>2, <3>4 DEF History, EndsAs
    <3>7. \A j \in 1..(k + 1) : \/ row'.hist[j].status \notin IntentTerminal
                                \/ row'.hist[j].status = w /\ row'.hist[j].synced = FALSE
      <4>1. \A j \in 1..(k + 1) : j = k + 1 \/ j \in 1..k
        BY <1>2
      <4>. QED
        BY <3>2, <3>3, <3>6, <4>1
    <3>8. row'.hist[k + 1].status = w
      BY <1>2, <3>2, <3>3
    <3>9. History'
      BY <3>1, <3>2, <3>7, <3>8 DEF History, EndsAs
    <3>10. EndMarked'
      <4>1. SUFFICES ASSUME NEW j \in 1..(k + 1), row'.hist[j].synced,
                            row'.hist[j].status \in IntentTerminal
                     PROVE  FALSE
        BY <3>1, <3>2 DEF EndMarked
      <4>2. row'.hist[j].synced = FALSE
        BY <3>7, <4>1
      <4>. QED
        BY <4>1, <4>2, Zenon
    <3>. QED
      BY <3>1, <3>5, <3>9, <3>10
  <2>. QED
    BY <2>1, <2>2
<1>6. ASSUME NEW w, Marked(row', row, w),
             w \in IntentTerminal => brain.intent \in IntentTerminal
      PROVE  /\ History' /\ EndMarked'
             /\ row' # NoRow => \A x : EndsAs(row, x) => EndsAs(row', x)
             /\ row' = NoRow => brain.intent = row.wire
  <2>1. CASE row' = NoRow
    BY <1>6, <2>1, LastMarked DEF Marked, History, EndMarked
  <2>2. CASE row' # NoRow
    <3>. DEFINE k == Len(row.hist)
    <3>1. /\ row'.wire = row.wire /\ Len(row'.hist) = k
          /\ \A j \in 1..k : /\ row'.hist[j].status = row.hist[j].status
                             /\ row.hist[j].synced => row'.hist[j].synced
                             /\ row'.hist[j].synced => row.hist[j].synced \/ row.hist[j].status = w
          /\ row'.synced => row.synced \/ \A j \in 1..k : row'.hist[j].synced
      BY <1>6, <2>2 DEF Marked
    <3>2. k \in 1..k
      BY <1>2, EmptySeq DEF History
    <3>3. row'.hist # <<>>
      BY <3>1, <3>2
    <3>4. History'
      BY <1>2, <2>2, <3>1, <3>2, <3>3 DEF History, EndsAs
    <3>5. EndMarked'
      <4>1. brain.intent \in IntentTerminal => brain.intent = row.wire
        BY DEF EInv, EndTold, EndsAlike, EndsAs
      <4>2. SUFFICES ASSUME NEW j \in 1..k, row'.hist[j].synced,
                            row.hist[j].status \in IntentTerminal
                     PROVE  brain.intent = row.hist[j].status
        BY <3>1 DEF EndMarked
      <4>3. row.hist[j].status = row.wire
        BY <1>2, <4>2 DEF History, EndsAs
      <4>4. CASE row.hist[j].synced
        BY <1>2, <4>2, <4>4 DEF EndMarked
      <4>5. CASE row.hist[j].status = w
        BY <1>6, <4>1, <4>2, <4>3, <4>5
      <4>. QED
        BY <3>1, <4>2, <4>4, <4>5
    <3>. QED
      BY <2>2, <3>1, <3>4, <3>5 DEF EndsAs
  <2>. QED
    BY <2>1, <2>2
<1>7. CASE \E w \in IntentStatus : /\ row' = SetIntentStatus(row, w)
                                   /\ row.wire \in IntentTerminal => w = row.wire
  BY <1>5, <1>7
<1>8. CASE \E w : /\ Marked(row', row, w)
                  /\ w \in IntentTerminal => brain.intent \in IntentTerminal
  BY <1>6, <1>8
<1>. QED
  BY <1>3, <1>4, <1>7, <1>8 DEF RowTold

(* The messages, and the statuses a flush has copied, may be old ones, or  *)
(* new ones that end as the row does.                                      *)
LEMMA MsgsTell ==
  ASSUME EInv, brain' = brain, row' # NoRow => row # NoRow,
         row' # NoRow => \A w : EndsAs(row, w) => EndsAs(row', w),
         row' # NoRow => \A m \in late' : m \in late \/ EndMsg(row', m),
         row' # NoRow => \A i \in 1..Len(pool') :
            (\E j \in 1..Len(pool) : pool'[i] = pool[j]) \/ EndMsg(row', pool'[i]),
         row' # NoRow => \A c \in Callers : req'[c].msg = req[c].msg \/ EndMsg(row', req'[c].msg),
         row' # NoRow => \A i \in 1..Len(fl'.jobs) :
            (\E j \in 1..Len(fl.jobs) : fl'.jobs[i] = fl.jobs[j])
              \/ EndsAs(row', fl'.jobs[i].status)
  PROVE  EndsAlike'
<1>. SUFFICES ASSUME row' # NoRow
              PROVE  /\ \A m \in late' : EndMsg(row', m)
                     /\ \A i \in 1..Len(pool') : EndMsg(row', pool'[i])
                     /\ \A c \in Callers : EndMsg(row', req'[c].msg)
                     /\ \A i \in 1..Len(fl'.jobs) : EndsAs(row', fl'.jobs[i].status)
                     /\ EndsAs(row', brain'.intent)
  BY DEF EndsAlike
<1>1. EndsAlike /\ row # NoRow
  BY DEF EInv, EndTold
<1>2. \A m : EndMsg(row, m) => EndMsg(row', m)
  BY DEF EndMsg
<1>3. \A m \in late' : EndMsg(row', m)
  BY <1>1, <1>2 DEF EndsAlike
<1>4. \A i \in 1..Len(pool') : EndMsg(row', pool'[i])
  BY <1>1, <1>2 DEF EndsAlike
<1>5. \A c \in Callers : EndMsg(row', req'[c].msg)
  BY <1>1, <1>2 DEF EndsAlike
<1>6. \A i \in 1..Len(fl'.jobs) : EndsAs(row', fl'.jobs[i].status)
  BY <1>1 DEF EndsAlike
<1>7. EndsAs(row', brain'.intent)
  BY <1>1 DEF EndsAlike
<1>. QED
  BY <1>3, <1>4, <1>5, <1>6, <1>7

(* A call whose message and answer are those of before is still heard.     *)
LEMMA HeardTells ==
  ASSUME EInv, brain.intent \in IntentTerminal => brain'.intent \in IntentTerminal,
         \A c \in Callers : \/ req'[c].msg = req[c].msg /\ (Accounted(c)' => Accounted(c))
                            \/ ~Accounted(c)'
  PROVE  EndHeard'
<1>. SUFFICES ASSUME NEW c \in Callers, Accounted(c)', req'[c].msg.kind = "intent",
                     req'[c].msg.wire \in IntentTerminal
              PROVE  brain'.intent \in IntentTerminal
  BY DEF EndHeard
<1>. QED
  BY DEF EInv, EndTold, EndHeard

(* Brain keeps the first end it is told, and that is the row's.            *)
LEMMA BrainEnds ==
  ASSUME EInv, NEW m \in Msgs, BrainTakes(m), row' = row, row # NoRow => EndMsg(row, m)
  PROVE  /\ brain.intent \in IntentTerminal => brain'.intent = brain.intent
         /\ row # NoRow => EndsAs(row, brain'.intent)
         /\ m.kind = "intent" /\ m.wire \in IntentTerminal => brain'.intent \in IntentTerminal
         /\ History' /\ EndMarked'
<1>1. /\ brain \in Brains /\ brain.intent \in IntentStatus
      /\ m.kind # "step" => m.kind = "intent" /\ m.wire \in IntentStatus
  BY DEF EInv, Inv, TypeOK, Brains, Msgs, StepMsgs, IntentMsgs
<1>2. /\ \A w \in IntentStatus : Rank(w) \in 0..3
      /\ \A w \in IntentStatus : Rank(w) = 3 <=> w \in IntentTerminal
  BY DEF Rank, IntentStatus, IntentTerminal
<1>3. \/ brain'.intent = brain.intent
           /\ (m.kind = "step" \/ Rank(m.wire) <= Rank(brain.intent))
      \/ /\ m.kind # "step" /\ brain'.intent = m.wire
         /\ ~(Rank(m.wire) <= Rank(brain.intent))
  <2>1. CASE m.kind = "step"
    BY <1>1, <2>1 DEF BrainTakes, Brains
  <2>2. CASE m.kind # "step"
    BY <1>1, <2>2 DEF BrainTakes, BrainRefuses, Brains
  <2>. QED
    BY <2>1, <2>2
<1>4. /\ brain.intent \in IntentTerminal => brain'.intent = brain.intent
      /\ m.kind = "intent" /\ m.wire \in IntentTerminal => brain'.intent \in IntentTerminal
  <2>1. CASE m.kind = "step"
    BY <1>3, <2>1
  <2>2. CASE m.kind # "step"
    <3>1. Rank(m.wire) \in 0..3 /\ Rank(brain.intent) \in 0..3
      BY <1>1, <1>2, <2>2
    <3>2. Rank(brain.intent) = 3 => Rank(m.wire) <= Rank(brain.intent)
      BY <3>1
    <3>3. Rank(m.wire) = 3 /\ Rank(m.wire) <= Rank(brain.intent) => Rank(brain.intent) = 3
      BY <3>1
    <3>. QED
      BY <1>1, <1>2, <1>3, <2>2, <3>2, <3>3
  <2>. QED
    BY <2>1, <2>2
<1>5. row # NoRow => EndsAs(row, brain'.intent)
  BY <1>1, <1>3 DEF EInv, EndTold, EndsAlike, EndMsg
<1>6. History' /\ EndMarked'
  BY <1>4 DEF EInv, EndTold, History, EndMarked
<1>. QED
  BY <1>4, <1>5, <1>6

(* Brain's answers, failed calls and the pool's jobs keep it.              *)
LEMMA NetworkTells ==
  ASSUME EInv,
         \/ \E c \in Callers : BrainAnswers(c) \/ CallFails(c)
         \/ \E m \in late : LateArrives(m)
         \/ \E i \in InFlight : PoolDelivers(i) \/ PoolFails(i) \/ PoolStale(i)
  PROVE  EndTold'
<1>1. /\ late \subseteq Msgs /\ pool \in Seq(Msgs) /\ req \in [Callers -> Calls]
      /\ \A c \in Callers : req[c].msg \in Msgs
      /\ History /\ EndMarked /\ EndsAlike /\ EndHeard /\ IntentCall
  BY DEF EInv, Inv, TypeOK, EndTold, Calls
<1>2. row' = row /\ fl' = fl
  BY DEF BrainAnswers, CallFails, LateArrives, PoolDelivers, PoolFails, PoolStale
<1>3. \A c \in Callers : req'[c].msg = req[c].msg
  BY <1>1 DEF BrainAnswers, CallFails, LateArrives, PoolDelivers, PoolFails, PoolStale, Calls
<1>4. IntentCall'
  BY <1>1, <1>2, <1>3 DEF IntentCall, Callers
<1>5. \A i \in InFlight : i \in 1..Len(pool) /\ pool[i] \in Msgs
  BY <1>1 DEF InFlight
<1>6. ASSUME NEW i \in InFlight, pool' = RemoveAt(pool, i)
      PROVE  \A j \in 1..Len(pool') : \E k \in 1..Len(pool) : pool'[j] = pool[k]
  <2>1. i \in 1..Len(pool)
    BY <1>5
  <2>2. /\ Len(pool) \in Nat /\ Len(pool') = Len(pool) - 1
        /\ \A j \in 1..(Len(pool) - 1) : pool'[j] = IF j < i THEN pool[j] ELSE pool[j + 1]
    BY <1>1, <1>6, <2>1, RemoveAtElements
  <2>. QED
    BY <2>1, <2>2
\* What is on its way is what it was.
<1>7. /\ row # NoRow => \A m \in late' : EndMsg(row, m)
      /\ row # NoRow => \A i \in 1..Len(pool') : EndMsg(row, pool'[i])
  <2>1. CASE \E c \in Callers : BrainAnswers(c) \/ CallFails(c)
    BY <1>1, <2>1 DEF BrainAnswers, CallFails, EndsAlike
  <2>2. CASE \E m \in late : LateArrives(m)
    BY <1>1, <2>2 DEF LateArrives, EndsAlike
  <2>3. CASE \E i \in InFlight : PoolDelivers(i) \/ PoolFails(i) \/ PoolStale(i)
    <3>1. PICK i \in InFlight : PoolDelivers(i) \/ PoolFails(i) \/ PoolStale(i)
      BY <2>3
    <3>2. pool' = RemoveAt(pool, i) /\ late' \subseteq late \cup {pool[i]}
      BY <3>1 DEF PoolDelivers, PoolFails, PoolStale
    <3>. QED
      BY <1>1, <1>5, <1>6, <3>2 DEF EndsAlike
  <2>. QED
    BY <2>1, <2>2, <2>3
<1>8. ASSUME NEW m \in Msgs, BrainTakes(m), row # NoRow => EndMsg(row, m)
      PROVE  /\ History' /\ EndMarked' /\ EndsAlike'
             /\ brain.intent \in IntentTerminal => brain'.intent \in IntentTerminal
             /\ m.kind = "intent" /\ m.wire \in IntentTerminal
                  => brain'.intent \in IntentTerminal
  <2>1. /\ History' /\ EndMarked' /\ (row # NoRow => EndsAs(row, brain'.intent))
        /\ brain.intent \in IntentTerminal => brain'.intent \in IntentTerminal
        /\ m.kind = "intent" /\ m.wire \in IntentTerminal => brain'.intent \in IntentTerminal
    BY <1>2, <1>8, BrainEnds
  <2>2. EndsAlike'
    BY <1>1, <1>2, <1>3, <1>7, <2>1 DEF EndsAlike
  <2>. QED
    BY <2>1, <2>2
<1>9. ASSUME brain' = brain PROVE History' /\ EndMarked' /\ EndsAlike'
  <2>1. EndsAlike'
    BY <1>1, <1>2, <1>3, <1>7, <1>9 DEF EndsAlike
  <2>. QED
    BY <1>1, <1>2, <1>9, <2>1 DEF History, EndMarked
<1>10. ASSUME NEW c \in Callers, BrainAnswers(c) PROVE EndTold'
  <2>1. /\ BrainTakes(req[c].msg) /\ (row # NoRow => EndMsg(row, req[c].msg))
        /\ \A d \in Callers : d # c => req'[d].ans = req[d].ans
    BY <1>1, <1>10 DEF BrainAnswers, Calls, EndsAlike
  <2>2. EndHeard'
    <3>1. SUFFICES ASSUME NEW d \in Callers, Accounted(d)', req[d].msg.kind = "intent",
                          req[d].msg.wire \in IntentTerminal
                   PROVE  brain'.intent \in IntentTerminal
      BY <1>3 DEF EndHeard
    <3>2. CASE d = c
      BY <1>1, <1>8, <2>1, <3>1, <3>2
    <3>3. CASE d # c
      <4>1. brain.intent \in IntentTerminal
        BY <1>1, <2>1, <3>1, <3>3 DEF EndHeard, Accounted
      <4>. QED
        BY <1>1, <1>8, <2>1, <4>1
    <3>. QED
      BY <3>2, <3>3
  <2>. QED
    BY <1>1, <1>4, <1>8, <2>1, <2>2 DEF EndTold
<1>11. ASSUME NEW c \in Callers, CallFails(c) PROVE EndTold'
  <2>1. brain' = brain /\ \A d \in Callers : Accounted(d)' => Accounted(d)
    BY <1>1, <1>11 DEF CallFails, Calls, Accounted
  <2>. QED
    BY <1>3, <1>4, <1>9, <2>1, HeardTells DEF EndTold
<1>12. ASSUME NEW m \in late, LateArrives(m) PROVE EndTold'
  <2>1. /\ m \in Msgs /\ BrainTakes(m) /\ (row # NoRow => EndMsg(row, m))
        /\ \A d \in Callers : Accounted(d)' => Accounted(d)
    BY <1>1, <1>12 DEF LateArrives, EndsAlike, Accounted
  <2>. QED
    BY <1>3, <1>4, <1>8, <2>1, HeardTells DEF EndTold
<1>13. ASSUME NEW i \in InFlight, PoolDelivers(i) PROVE EndTold'
  <2>1. /\ BrainTakes(pool[i]) /\ (row # NoRow => EndMsg(row, pool[i]))
        /\ \A d \in Callers : Accounted(d)' => Accounted(d)
    BY <1>1, <1>5, <1>13 DEF PoolDelivers, EndsAlike, Accounted
  <2>. QED
    BY <1>3, <1>4, <1>5, <1>8, <2>1, HeardTells DEF EndTold
<1>14. ASSUME NEW i \in InFlight, PoolFails(i) \/ PoolStale(i) PROVE EndTold'
  <2>1. brain' = brain /\ \A d \in Callers : Accounted(d)' => Accounted(d)
    BY <1>14 DEF PoolFails, PoolStale, Accounted
  <2>. QED
    BY <1>3, <1>4, <1>9, <2>1, HeardTells DEF EndTold
<1>. QED
  BY <1>10, <1>11, <1>12, <1>13, <1>14

(* So a step that leaves Brain alone keeps it, if what it sends and copies *)
(* ends as the row does.                                                   *)
LEMMA StepTells ==
  ASSUME EInv, RowTold, brain' = brain, IntentCall',
         late' \subseteq late,
         row' # NoRow => \A i \in 1..Len(pool') :
            (\E j \in 1..Len(pool) : pool'[i] = pool[j]) \/ EndMsg(row', pool'[i]),
         \A c \in Callers :
            \/ req'[c] = req[c]
            \/ ~Accounted(c)' /\ (row' # NoRow => EndMsg(row', req'[c].msg)),
         row' # NoRow => \A i \in 1..Len(fl'.jobs) :
            (\E j \in 1..Len(fl.jobs) : fl'.jobs[i] = fl.jobs[j])
              \/ EndsAs(row', fl'.jobs[i].status)
  PROVE  EndTold'
<1>1. /\ History' /\ EndMarked' /\ (row' # NoRow => row # NoRow)
      /\ row' # NoRow => \A w : EndsAs(row, w) => EndsAs(row', w)
  BY RowTells
<1>2. EndsAlike'
  BY <1>1, MsgsTell
<1>3. EndHeard'
  BY HeardTells DEF Accounted
<1>. QED
  BY <1>1, <1>2, <1>3 DEF EndTold

\* Messages of the thread and of the pool that end nothing.
LEMMA QuietMsgs ==
  /\ \A r, n, ev : EndMsg(r, StepMsg(n, ev)) /\ EndMsg(r, Sent(StepMsg(n, ev)).msg)
  /\ \A r : EndMsg(r, NoReq.msg)
  /\ \A m : Sent(m).ans = "sent" /\ Sent(m).msg = m
  /\ NoReq.ans = "none"
BY DEF EndMsg, EndsAs, StepMsg, NoReq, IntentMsg, Sent, IntentTerminal

(* The flush keeps it.                                                     *)
LEMMA FlushTells ==
  ASSUME EInv, FlushStep \/ \E by \in {"thread", "executor"} : FlushBegin(by)
  PROVE  RowTold /\ EndTold'
<1>. USE DEF FlushRest
<1>1. /\ fl \in Flushers /\ fl.jobs \in Seq(HistEntry) /\ req \in [Callers -> Calls]
      /\ Len(fl.jobs) \in Nat
      /\ \A c \in Callers : req[c].msg \in Msgs
      /\ History /\ EndsAlike /\ EndHeard /\ IntentCall
  BY DEF EInv, Inv, TypeOK, EndTold, Calls, Flushers
<1>2. brain' = brain /\ late' = late /\ pool' = pool
  BY DEF FlushStep, FlushPostStep, FlushStepAnswered, FlushQueuesEmpty, FlushSnapshot,
         FlushSkipIntent, FlushPostIntent, FlushIntentAnswered, FlushGivesUp, FlushEnd,
         FlushBegin
<1>3. row' = row => RowTold
  BY DEF RowTold
<1>4. "flush" \in Callers /\ "executor" \in Callers
  BY DEF Callers
<1>5. ASSUME fl.jobs # <<>>
      PROVE  \A i \in 1..Len(Tail(fl.jobs)) :
                \E j \in 1..Len(fl.jobs) : Tail(fl.jobs)[i] = fl.jobs[j]
  <2>1. \A i \in 1..Len(Tail(fl.jobs)) : i + 1 \in 1..Len(fl.jobs)
                                          /\ Tail(fl.jobs)[i] = fl.jobs[i + 1]
    BY <1>1, <1>5
  <2>. QED
    BY <2>1
<1>6. ASSUME RowTold, req' = [req EXCEPT !["flush"] = NoReq], fl'.pc # "intent",
             fl'.jobs = fl.jobs \/ fl'.jobs = <<>>
      PROVE  RowTold /\ EndTold'
  <2>1. /\ req'["flush"] = NoReq /\ req'["executor"] = req["executor"]
        /\ ~Accounted("flush")'
    BY <1>1, <1>4, <1>6, QuietMsgs DEF Accounted, Callers
  <2>2. IntentCall'
    BY <1>6 DEF IntentCall
  <2>3. \A c \in Callers :
            \/ req'[c] = req[c]
            \/ ~Accounted(c)' /\ (row' # NoRow => EndMsg(row', req'[c].msg))
    BY <2>1, QuietMsgs DEF Callers
  <2>. QED
    BY <1>2, <1>6, <2>2, <2>3, StepTells, EmptySeq
<1>7. ASSUME RowTold, req' = req, fl'.pc = "intent" => fl.pc = "intent",
             \/ fl'.jobs = fl.jobs \/ fl'.jobs = <<>>
             \/ fl.jobs # <<>> /\ fl'.jobs = Tail(fl.jobs)
             \/ row' # NoRow => row' = row /\ fl'.jobs = row.hist
      PROVE  RowTold /\ EndTold'
  <2>1. IntentCall'
    BY <1>1, <1>7 DEF IntentCall
  <2>2. row' # NoRow => \A i \in 1..Len(fl'.jobs) :
            (\E j \in 1..Len(fl.jobs) : fl'.jobs[i] = fl.jobs[j])
              \/ EndsAs(row', fl'.jobs[i].status)
    <3>1. CASE fl'.jobs = fl.jobs \/ fl'.jobs = <<>>
      BY <3>1, EmptySeq
    <3>2. CASE fl.jobs # <<>> /\ fl'.jobs = Tail(fl.jobs)
      BY <1>5, <3>2
    <3>3. CASE row' # NoRow => row' = row /\ fl'.jobs = row.hist
      BY <1>1, <3>3 DEF History
    <3>. QED
      BY <1>7, <3>1, <3>2, <3>3
  <2>. QED
    BY <1>2, <1>7, <2>1, <2>2, StepTells
<1>8. CASE \E by \in {"thread", "executor"} : FlushBegin(by)
  <2>1. row' = row /\ req' = req /\ fl'.pc = "scan" /\ fl'.jobs = fl.jobs
    BY <1>1, <1>8 DEF FlushBegin, Flushers
  <2>. QED
    BY <1>3, <1>7, <2>1
<1>9. CASE FlushPostStep
  <2>. DEFINE n == Min(Busy)
  <2>1. /\ req' = [req EXCEPT !["flush"] = Sent(StepMsg(n, row.steps[n].queue[1]))]
        /\ row' = row /\ fl'.pc = "step" /\ fl'.jobs = fl.jobs
    BY <1>1, <1>9 DEF FlushPostStep, Flushers
  <2>. HIDE DEF n
  <2>2. /\ req'["flush"] = Sent(StepMsg(n, row.steps[n].queue[1]))
        /\ req'["executor"] = req["executor"]
    BY <1>1, <1>4, <2>1
  <2>3. IntentCall'
    BY <2>1 DEF IntentCall
  <2>4. ~Accounted("flush")'
    BY <2>2, QuietMsgs DEF Accounted
  <2>5. \A c \in Callers :
            \/ req'[c] = req[c]
            \/ ~Accounted(c)' /\ (row' # NoRow => EndMsg(row', req'[c].msg))
    BY <2>2, <2>4, QuietMsgs DEF Callers
  <2>. QED
    BY <1>2, <1>3, <2>1, <2>3, <2>5, StepTells
<1>10. CASE FlushStepAnswered
  <2>1. req["flush"].msg.n \in Steps
    BY <1>10 DEF FlushStepAnswered, EInv, Inv, FlushCall, StepMsgs
  <2>2. row = NoRow => row' = NoRow
    BY <1>10 DEF FlushStepAnswered, MarkStepSynced, DiscardQueuedEvent
  <2>3. row # NoRow => TakenOff(row', row)
    BY <1>10, <2>1, RowFacts, TakesOff DEF FlushStepAnswered, EInv
  <2>4. RowTold
    BY <2>2, <2>3 DEF RowTold, TakenOff
  <2>. QED
    BY <1>1, <1>6, <1>10, <2>4 DEF FlushStepAnswered, Flushers
<1>11. CASE FlushQueuesEmpty \/ FlushSnapshot
  BY <1>1, <1>3, <1>7, <1>11 DEF FlushQueuesEmpty, FlushSnapshot, Flushers
<1>12. CASE FlushSkipIntent
  <2>1. row' = row \/ (row # NoRow /\ row' = MarkIntentSynced(row, "running", SeriesOpen))
    BY <1>12 DEF FlushSkipIntent
  <2>2. row' = row \/ (row # NoRow /\ Marked(row', row, "running"))
    BY <1>1, <2>1, RowFacts, MarkIntentEffect DEF History, EInv
  <2>3. RowTold
    BY <2>2 DEF RowTold, IntentTerminal
  <2>. QED
    BY <1>1, <1>7, <1>12, <2>3 DEF FlushSkipIntent, Flushers
<1>13. CASE FlushPostIntent
  <2>. DEFINE w == fl.jobs[1].status
  <2>1. /\ req' = [req EXCEPT !["flush"] = Sent(IntentMsg(w))] /\ row' = row /\ row # NoRow
        /\ fl.jobs # <<>> /\ fl'.jobs = Tail(fl.jobs)
    BY <1>1, <1>13 DEF FlushPostIntent, Flushers
  <2>2. EndsAs(row, w)
    BY <1>1, <2>1, EmptySeq DEF EndsAlike
  <2>. HIDE DEF w
  <2>3. req'["flush"] = Sent(IntentMsg(w)) /\ req'["executor"] = req["executor"]
    BY <1>1, <1>4, <2>1
  <2>4. /\ req'["flush"].ans = "sent" /\ req'["flush"].msg.kind = "intent"
        /\ req'["flush"].msg.wire = w
    BY <2>3 DEF Sent, IntentMsg
  <2>5. IntentCall' /\ ~Accounted("flush")'
    BY <2>4 DEF IntentCall, Accounted
  <2>6. \A c \in Callers :
            \/ req'[c] = req[c]
            \/ ~Accounted(c)' /\ (row' # NoRow => EndMsg(row', req'[c].msg))
    BY <2>1, <2>2, <2>3, <2>4, <2>5 DEF Callers, EndMsg
  <2>. QED
    BY <1>2, <1>3, <1>5, <2>1, <2>5, <2>6, StepTells
<1>14. CASE FlushIntentAnswered
  <2>. DEFINE m == req["flush"].msg
  <2>1. m.kind = "intent" /\ Accounted("flush")
    BY <1>1, <1>14 DEF FlushIntentAnswered, IntentCall
  <2>2. m.wire \in IntentTerminal => brain.intent \in IntentTerminal
    BY <1>1, <1>4, <2>1 DEF EndHeard
  <2>3. row' = MarkIntentSynced(row, m.wire, SeriesOpen)
    BY <1>14 DEF FlushIntentAnswered
  <2>. HIDE DEF m
  <2>4. row = NoRow => row' = NoRow
    BY <2>3 DEF MarkIntentSynced
  <2>5. row # NoRow => Marked(row', row, m.wire)
    BY <1>1, <2>3, RowFacts, MarkIntentEffect DEF History, EInv
  <2>6. RowTold
    BY <2>2, <2>4, <2>5 DEF RowTold
  <2>. QED
    BY <1>1, <1>6, <1>14, <2>6 DEF FlushIntentAnswered, Flushers
<1>15. CASE FlushGivesUp
  BY <1>3, <1>6, <1>15 DEF FlushGivesUp, FlushReturns, FlushIdle
<1>16. CASE FlushEnd
  BY <1>3, <1>7, <1>16 DEF FlushEnd, FlushReturns, FlushIdle
<1>. QED
  BY <1>8, <1>9, <1>10, <1>11, <1>12, <1>13, <1>14, <1>15, <1>16 DEF FlushStep

(* The executor keeps it.                                                  *)
LEMMA ExecutorTells ==
  ASSUME EInv, ExStep
  PROVE  RowTold /\ EndTold'
<1>. USE DEF ExRest
<1>1. /\ ex \in Executors /\ ex.plan \in [Steps -> StepStatus] /\ ex.n \in Steps
      /\ pool \in Seq(Msgs) /\ req \in [Callers -> Calls]
      /\ Closing /\ IntentCall
  BY DEF EInv, Inv, TypeOK, Executors, Serving, EndTold
<1>2. fl' = fl /\ late' = late /\ brain' = brain
  BY Zenon
  DEF ExStep, ExTake, ExAdvanced, ExSkipBeats, ExLoopEnds, ExIntentRunning, ExMissed,
      ExStart, ExUnresolved, ExCapabilityEnds, ExPost, ExPostAnswered, ExDiscard,
      ExPostFailed, ExFailIntent, ExAdvanceBeat, ExSeriesDone, ExRearm, ExFinalize
<1>3. row' = row => RowTold
  BY DEF RowTold
<1>4. ASSUME NEW n \in Steps, NEW st \in StepStatus, row' = SetStepStatus(row, n, st)
      PROVE  RowTold
  <2>1. row = NoRow => row' = NoRow
    BY <1>4 DEF SetStepStatus
  <2>. QED
    BY <1>4, <2>1, RowFacts, SetStepEffect DEF RowTold, EInv
\* A message appended to the pool ends nothing, or ends as the row does.
<1>5. ASSUME NEW m \in Msgs, pool' = Append(pool, m), row' # NoRow => EndMsg(row', m)
      PROVE  row' # NoRow => \A i \in 1..Len(pool') :
                (\E j \in 1..Len(pool) : pool'[i] = pool[j]) \/ EndMsg(row', pool'[i])
  <2>1. /\ Len(pool) \in Nat /\ Len(pool') = Len(pool) + 1
        /\ \A j \in 1..(Len(pool) + 1) : pool'[j] = IF j = Len(pool) + 1 THEN m ELSE pool[j]
    BY <1>1, <1>5, Appended
  <2>. QED
    BY <1>5, <2>1
<1>6. ASSUME RowTold, \/ pool' = pool
                      \/ \E m \in Msgs : pool' = Append(pool, m)
                                           /\ (row' # NoRow => EndMsg(row', m)),
             req' = req \/ req' = [req EXCEPT !["executor"] = NoReq]
               \/ \E n, ev : req' = [req EXCEPT !["executor"] = Sent(StepMsg(n, ev))]
      PROVE  RowTold /\ EndTold'
  <2>1. req'["flush"] = req["flush"]
    BY <1>1, <1>6 DEF Callers
  <2>2. IntentCall'
    BY <1>1, <1>2, <2>1 DEF IntentCall
  <2>3. \A c \in Callers :
            \/ req'[c] = req[c]
            \/ ~Accounted(c)' /\ (row' # NoRow => EndMsg(row', req'[c].msg))
    <3>1. req' = req \/ req'["executor"] = NoReq
            \/ \E n, ev : req'["executor"] = Sent(StepMsg(n, ev))
      BY <1>1, <1>6 DEF Callers
    <3>2. req' = req \/ ~Accounted("executor")'
      BY <3>1, QuietMsgs DEF Accounted
    <3>3. req' = req \/ EndMsg(row', req'["executor"].msg)
      BY <3>1, QuietMsgs
    <3>. QED
      BY <2>1, <3>2, <3>3 DEF Callers
  <2>4. row' # NoRow => \A i \in 1..Len(pool') :
            (\E j \in 1..Len(pool) : pool'[i] = pool[j]) \/ EndMsg(row', pool'[i])
    BY <1>5, <1>6
  <2>. QED
    BY <1>2, <1>6, <2>2, <2>3, <2>4, StepTells
<1>7. ASSUME NEW n \in Steps, NEW st \in Terminal, NEW next, Report(n, st, next), req' = req
      PROVE  RowTold /\ EndTold'
  <2>. DEFINE ev == EventIn(row', n, st)
  <2>1. /\ row' = SetStepStatus(row, n, st)
        /\ pool' = pool \/ pool' = Append(pool, StepMsg(n, ev))
    BY <1>7 DEF Report, Submit
  <2>2. StepMsg(n, ev) \in Msgs
    <3>1. row' \in Row \cup {NoRow}
      BY <2>1, SetStepStatusKeeps, InvRow DEF EInv, WellFormed, StepStatus, Terminal
    <3>. QED
      BY <3>1 DEF EventIn, StepMsg, Msgs, StepMsgs, StepStatus, Terminal, Row, StepRow
  <2>. HIDE DEF ev
  <2>3. RowTold
    BY <1>4, <2>1 DEF StepStatus, Terminal
  <2>. QED
    BY <1>6, <1>7, <2>1, <2>2, <2>3, QuietMsgs
<1>8. ASSUME NEW w \in IntentStatus, row' = SetIntentStatus(row, w),
             row # NoRow /\ row.wire \in IntentTerminal => w = row.wire
      PROVE  /\ RowTold
             /\ IntentMsg(w) \in Msgs /\ (row' # NoRow => EndMsg(row', IntentMsg(w)))
  <2>1. row = NoRow => row' = NoRow
    BY <1>8 DEF SetIntentStatus
  <2>2. row # NoRow => row'.wire = w
    BY <1>8, RowFacts, SetIntentEffect DEF EInv
  <2>3. IntentMsg(w).kind = "intent" /\ IntentMsg(w).wire = w /\ IntentMsg(w) \in Msgs
    BY DEF IntentMsg, Msgs, IntentMsgs
  <2>4. row' # NoRow => EndMsg(row', IntentMsg(w))
    BY <2>1, <2>2, <2>3 DEF EndMsg, EndsAs
  <2>5. RowTold
    BY <1>8, <2>1 DEF RowTold
  <2>. QED
    BY <2>3, <2>4, <2>5
<1>9. ASSUME NEW w \in IntentStatus, CloseIntent(w), req' = req,
             row # NoRow /\ row.wire \in IntentTerminal => w = row.wire
      PROVE  RowTold /\ EndTold'
  BY <1>6, <1>8, <1>9 DEF CloseIntent, Submit
<1>10. CASE ExTake \/ ExAdvanced \/ ExLoopEnds \/ ExAdvanceBeat
  BY <1>3, <1>6, <1>10 DEF ExTake, ExAdvanced, ExLoopEnds, ExAdvanceBeat
<1>11. CASE ExSkipBeats
  <2>1. 1 \in Steps /\ WAITING \in StepStatus /\ SUCCEEDED \in Terminal
    BY PlanAssumption DEF Steps, StepStatus, Terminal
  <2>2. CASE Report(1, SUCCEEDED, "find")
    BY <1>7, <1>11, <2>1, <2>2 DEF ExSkipBeats
  <2>3. CASE row' = row /\ pool' = pool
    BY <1>3, <1>6, <1>11, <2>3 DEF ExSkipBeats
  <2>4. CASE row' = SetStepStatus(row, 1, WAITING) /\ pool' = pool
    BY <1>4, <1>6, <1>11, <2>1, <2>4 DEF ExSkipBeats
  <2>. QED
    BY <1>11, <2>2, <2>3, <2>4 DEF ExSkipBeats, Rearm
<1>12. CASE ExIntentRunning
  <2>1. row # NoRow => row.wire \notin IntentTerminal
    BY <1>1, <1>12 DEF ExIntentRunning, Closing
  <2>2. row' = SetIntentStatus(row, "running") /\ pool' = pool /\ req' = req
    BY <1>12 DEF ExIntentRunning
  <2>. QED
    BY <1>6, <1>8, <2>1, <2>2 DEF IntentStatus
<1>13. ASSUME NEW n \in Steps, ExMissed(n) \/ ExUnresolved(n) PROVE RowTold /\ EndTold'
  BY <1>7, <1>13 DEF ExMissed, ExUnresolved, Terminal
<1>14. ASSUME NEW n \in Steps, ExStart(n) PROVE RowTold /\ EndTold'
  BY <1>4, <1>6, <1>14 DEF ExStart, StepStatus
<1>15. CASE ExCapabilityEnds
  <2>1. PICK st \in Terminal :
           Report(ex.n, st, IF Recurring THEN "beat" ELSE IF st = FAILED THEN "failing"
                                                          ELSE "advance")
    BY <1>15 DEF ExCapabilityEnds
  <2>. QED
    BY <1>1, <1>7, <1>15, <2>1 DEF ExCapabilityEnds
<1>16. CASE ExPost
  <2>1. \E n, ev : req' = [req EXCEPT !["executor"] = Sent(StepMsg(n, ev))]
    BY <1>16 DEF ExPost
  <2>. QED
    BY <1>3, <1>6, <1>16, <2>1 DEF ExPost
<1>17. CASE ExPostAnswered
  <2>1. row = NoRow => row' = NoRow
    BY <1>17 DEF ExPostAnswered, DiscardLeadingNonTerminal
  <2>2. row # NoRow => TakenOff(row', row)
    BY <1>1, <1>17, RowFacts, TakesOff DEF ExPostAnswered, EInv
  <2>3. RowTold
    BY <2>1, <2>2 DEF RowTold, TakenOff
  <2>. QED
    BY <1>6, <1>17, <2>3 DEF ExPostAnswered
<1>18. CASE ExDiscard
  <2>1. row = NoRow => row' = NoRow
    BY <1>18 DEF ExDiscard, DiscardMatchingStepEvent
  <2>2. row # NoRow => TakenOff(row', row)
    BY <1>1, <1>18, RowFacts, TakesOff DEF ExDiscard, EInv
  <2>3. RowTold
    BY <2>1, <2>2 DEF RowTold, TakenOff
  <2>. QED
    BY <1>6, <1>18, <2>3 DEF ExDiscard
<1>19. CASE ExPostFailed
  BY <1>3, <1>6, <1>19 DEF ExPostFailed
<1>20. CASE ExFailIntent
  <2>1. row # NoRow => row.wire \notin IntentTerminal
    BY <1>1, <1>20 DEF ExFailIntent, Closing
  <2>. QED
    BY <1>9, <1>20, <2>1 DEF ExFailIntent, IntentStatus
<1>21. CASE ExSeriesDone
  <2>1. row # NoRow => row.wire \notin IntentTerminal
    BY <1>1, <1>21 DEF ExSeriesDone, Closing
  <2>. QED
    BY <1>9, <1>21, <2>1 DEF ExSeriesDone, IntentStatus
<1>22. CASE ExRearm
  <2>1. 1 \in Steps /\ WAITING \in StepStatus
    BY PlanAssumption DEF Steps, StepStatus
  <2>. QED
    BY <1>4, <1>6, <1>22, <2>1 DEF ExRearm, Rearm
<1>23. CASE ExFinalize
  <2>1. CASE FinalWire = "none"
    BY <1>3, <1>6, <1>23, <2>1 DEF ExFinalize
  <2>2. CASE FinalWire # "none"
    <3>1. FinalWire = Final(ex, beat) /\ ex.pc # "idle" /\ CloseIntent(FinalWire) /\ req' = req
      BY <1>23, <2>2, Readings DEF ExFinalize
    <3>2. FinalWire \in IntentStatus
      BY <2>2 DEF FinalWire, IntentStatus
    <3>3. row # NoRow /\ row.wire \in IntentTerminal => FinalWire = row.wire
      BY <1>1, <2>2, <3>1 DEF Closing
    <3>. QED
      BY <1>9, <3>1, <3>2, <3>3
  <2>. QED
    BY <2>1, <2>2
<1>. QED
  BY <1>10, <1>11, <1>12, <1>13, <1>14, <1>15, <1>16, <1>17, <1>18, <1>19, <1>20, <1>21,
     <1>22, <1>23 DEF ExStep

(* The start, pruning and crashing.                                        *)
LEMMA InitTells == Init => EndTold
<1>. SUFFICES ASSUME Init PROVE EndTold
  OBVIOUS
<1>. DEFINE e == [status |-> "intent_dispatched", synced |-> FALSE]
<1>1. /\ row = SetIntentStatus(FromBrain("parsed", AllWaiting), "intent_dispatched")
      /\ pool = <<IntentMsg("intent_dispatched")>> /\ late = {}
      /\ fl.jobs = <<>> /\ fl.pc = "idle" /\ req = [c \in Callers |-> NoReq]
      /\ brain.intent = "parsed"
  BY DEF Init, FlushIdle
<1>2. row # NoRow => /\ row.wire = "intent_dispatched" /\ row.synced = FALSE
                     /\ row.hist = <<e>>
  <2>1. row # NoRow => /\ row.wire = "intent_dispatched" /\ row.synced = FALSE
                       /\ row.hist = Append(<<>>, e)
    BY <1>1 DEF SetIntentStatus, FromBrain
  <2>2. Append(<<>>, e) = <<e>>
    OBVIOUS
  <2>. QED
    BY <2>1, <2>2
<1>3. Len(<<e>>) = 1 /\ <<e>>[1].status = "intent_dispatched" /\ <<e>> # <<>>
  OBVIOUS
<1>. HIDE DEF e
<1>4. /\ Len(pool) = 1 /\ pool[1].wire = "intent_dispatched"
      /\ \A c \in Callers : req[c] = NoReq
      /\ NoReq.msg.wire = "parsed" /\ NoReq.ans = "none"
  BY <1>1 DEF IntentMsg, NoReq
<1>5. History
  BY <1>2, <1>3 DEF History, EndsAs, IntentTerminal
<1>6. EndMarked
  BY <1>2, <1>3 DEF EndMarked, IntentTerminal
<1>7. EndsAlike
  BY <1>1, <1>4 DEF EndsAlike, EndMsg, EndsAs, IntentTerminal
<1>8. EndHeard
  BY <1>4 DEF EndHeard, Accounted
<1>. QED
  BY <1>1, <1>5, <1>6, <1>7, <1>8 DEF EndTold, IntentCall

LEMMA HousekeepingTells ==
  ASSUME EInv, Prune \/ Crash \/ UNCHANGED vars
  PROVE  EndTold'
<1>1. CASE Prune
  BY <1>1 DEF Prune, EInv, EndTold, History, EndMarked, EndsAlike, EndHeard, IntentCall, Accounted
<1>2. CASE Crash
  <2>1. /\ fl'.pc = "idle" /\ fl'.jobs = <<>> /\ row' = row /\ brain' = brain /\ pool' = <<>>
        /\ \A c \in Callers : req'[c] = NoReq
    BY <1>2 DEF Crash, FlushIdle
  <2>2. /\ pool \in Seq(Msgs) /\ History /\ EndMarked /\ EndsAlike
    BY DEF EInv, Inv, TypeOK, EndTold
  <2>3. row # NoRow => \A m \in late' : EndMsg(row, m)
    <3>1. InFlight \subseteq 1..Len(pool)
      BY <2>2 DEF InFlight
    <3>. QED
      BY <1>2, <2>2, <3>1 DEF Crash, EndsAlike
  <2>4. EndsAlike'
    BY <2>1, <2>2, <2>3, QuietMsgs, EmptySeq DEF EndsAlike
  <2>5. EndHeard'
    BY <2>1, QuietMsgs DEF EndHeard, Accounted
  <2>6. History' /\ EndMarked' /\ IntentCall'
    BY <2>1, <2>2 DEF History, EndMarked, IntentCall
  <2>. QED
    BY <2>4, <2>5, <2>6 DEF EndTold
<1>3. CASE UNCHANGED vars
  BY <1>3 DEF vars, EInv, EndTold, History, EndMarked, EndsAlike, EndHeard, IntentCall, Accounted
<1>. QED
  BY <1>1, <1>2, <1>3

(* With the conditions on the row's life and on Brain's view of the end,   *)
(* the invariant holds of every behaviour, one-shot or recurring.          *)
THEOREM LifeInvariance == Spec => []EInv
<1>1. Init => EInv
  BY InitTyped, InitServes, InitTells DEF EInv
<1>2. EInv /\ [Next]_vars => EInv'
  <2>1. SUFFICES ASSUME EInv, [Next]_vars PROVE EInv'
    OBVIOUS
  <2>2. Inv /\ Serving /\ SInv
    BY <2>1 DEF EInv, SInv
  <2>3. Inv'
    BY <2>1, <2>2, NetworkTyped, FlushTyped, ExecutorTyped, HousekeepingTyped, StutterTyped
    DEF Next
  <2>4. Serving'
    <3>1. row # NoRow => row.hist # <<>>
      BY <2>1 DEF EInv, EndTold, History
    <3>. QED
      BY <2>1, <2>2, <3>1, FlushServes, ExecutorServes, RestServes DEF Next
  <2>5. EndTold'
    BY <2>1, NetworkTells, FlushTells, ExecutorTells, HousekeepingTells DEF Next
  <2>. QED
    BY <2>3, <2>4, <2>5 DEF EInv
<1>. QED
  BY <1>1, <1>2, PTL DEF Spec

(* The row outlives the step that runs from it: what makes the executor's  *)
(* copy of the plan safe is that nothing drops or prunes the row while a   *)
(* step taken from it has no result yet (find_next_eligible_local_step,    *)
(* prune_blocked_foreign, _drop_if_done_unlocked).                         *)
THEOREM RowsOutliveSteps == Spec => []RowOutlivesStep
<1>1. EInv => RowOutlivesStep
  BY ServingOutlives DEF EInv, SInv
<1>. QED
  BY <1>1, LifeInvariance, PTL

(* A row with a terminal intent status is dropped only when Brain has that *)
(* very status: no failed or late call, no copy a flush took before the    *)
(* intent ended and no crash makes mark_intent_synced or                   *)
(* prune_blocked_foreign let go of an end that Brain does not know.        *)
THEOREM EndsAreKnown == Spec => DropIsKnown
<1>1. ASSUME EInv, [Next]_vars, row # NoRow, row' = NoRow, row.wire \in IntentTerminal
      PROVE  brain.intent = row.wire
  <2>1. CASE /\ row' = row
    BY <1>1, <2>1
  <2>2. CASE Prune
    <3>1. RowTold /\ brain' = brain
      BY <1>1, <2>2 DEF Prune, Prunable, RowTold
    <3>. QED
      BY <1>1, <3>1, RowTells
  <2>3. CASE FlushStep \/ ExStep \/ \E by \in {"thread", "executor"} : FlushBegin(by)
    <3>1. RowTold
      BY <1>1, <2>3, FlushTells, ExecutorTells
    <3>2. \/ row.synced
          \/ \E w : /\ Marked(row', row, w)
                    /\ w \in IntentTerminal => brain.intent \in IntentTerminal
      <4>1. ASSUME NEW w \in IntentStatus, row' = SetIntentStatus(row, w) PROVE FALSE
        <5>1. row \in Row
          BY <1>1, RowFacts DEF EInv
        <5>2. SetIntentStatus(row, w) # NoRow
          BY <5>1, SetIntentEffect
        <5>. QED
          BY <1>1, <4>1, <5>2
      <4>2. ~\E w \in IntentStatus : /\ row' = SetIntentStatus(row, w)
                                     /\ row.wire \in IntentTerminal => w = row.wire
        BY <4>1
      <4>3. \/ row' # NoRow /\ row'.wire = row.wire /\ row'.hist = row.hist /\ row'.synced = row.synced
            \/ row' = NoRow /\ row.synced /\ row.wire \in IntentTerminal
            \/ \E w : /\ Marked(row', row, w)
                      /\ w \in IntentTerminal => brain.intent \in IntentTerminal
        BY <1>1, <3>1, <4>2, Zenon DEF RowTold
      <4>. QED
        BY <1>1, <4>3, Zenon
    <3>. QED
      BY <1>1, <3>2, LastMarked DEF Marked
  <2>. QED
    BY <1>1, <2>1, <2>2, <2>3
    DEF Next, vars, Crash, BrainAnswers, CallFails, LateArrives, PoolDelivers, PoolFails, PoolStale
<1>2. EInv /\ [Next]_vars =>
        [row # NoRow /\ row' = NoRow /\ row.wire \in IntentTerminal => brain.intent = row.wire]_vars
  BY <1>1
<1>. QED
  BY <1>2, LifeInvariance, PTL DEF Spec, DropIsKnown

=============================================================================
