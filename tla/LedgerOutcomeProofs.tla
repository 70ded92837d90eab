------------------------- MODULE LedgerOutcomeProofs -------------------------
(***************************************************************************)
(* What holds of one-shot plans, for every number of steps, every cap of   *)
(* at least two events, and any number of failed calls and crashes: the    *)
(* terminal status of a step is never lost; no event leaves its queue      *)
(* unheard; and reporting implements StatusDelivery.                       *)
(***************************************************************************)
EXTENDS LedgerOutcome, LedgerSyncProofs

OneShotPlan == ~Recurring /\ QueueCap >= 2

IInv == Inv /\ OutcomeInv

-----------------------------------------------------------------------------
(* Messages and rows.                                                      *)

(* A message of kind "step" is a step's event.                             *)
LEMMA StepMessage ==
  ASSUME NEW m \in Msgs, m.kind = "step"
  PROVE  /\ m \in StepMsgs /\ m.n \in Steps /\ m.status \in StepStatus /\ m.seq \in Nat
         /\ EventOf(m) \in Event /\ EventOf(m).status = m.status /\ EventOf(m).seq = m.seq
<1>1. m \in StepMsgs
  BY DEF Msgs, IntentMsgs
<1>. QED
  BY <1>1 DEF StepMsgs, EventOf, Event

(* What the type and the soundness of the row say of a step.               *)
LEMMA StepFacts ==
  ASSUME Inv, row # NoRow, NEW n \in Steps
  PROVE  /\ row \in Row /\ row.steps \in [Steps -> StepRow]
         /\ row.steps[n] \in StepRow /\ StepSound(row.steps[n])
         /\ row.steps[n].queue \in Seq(Event) /\ Len(row.steps[n].queue) \in Nat
         /\ row.steps[n].seq \in Nat /\ row.steps[n].status \in StepStatus
         /\ outcome[n] \in StepStatus
<1>1. row \in Row /\ RowSound(row) /\ outcome \in [Steps -> StepStatus]
  BY DEF Inv, TypeOK, QueueSound
<1>2. row.steps \in [Steps -> StepRow]
  BY <1>1 DEF Row
<1>. QED
  BY <1>1, <1>2 DEF RowSound, StepRow

(* The row only loses events: it keeps every status and counter, or it     *)
(* goes.                                                                   *)
RowLess ==
    /\ outcome' = outcome
    /\ row = NoRow => row' = NoRow
    /\ row' # NoRow =>
         \A n \in Steps :
            /\ row'.steps[n].status = row.steps[n].status
            /\ row'.steps[n].seq = row.steps[n].seq
            /\ \A i \in 1..Len(row'.steps[n].queue) : \E j \in 1..Len(row.steps[n].queue) :
                  row'.steps[n].queue[i] = row.steps[n].queue[j]

(* Events stay genuine when the row loses some or goes.                    *)
LEMMA GenuineLess ==
  ASSUME Inv, Told, RowLess, NEW n \in Steps, NEW ev, Genuine(row, outcome, n, ev)
  PROVE  Genuine(row', outcome', n, ev)
<1>1. CASE row = NoRow
  BY <1>1 DEF RowLess, Genuine
<1>2. CASE row # NoRow /\ row' = NoRow
  <2>1. ev.status = row.steps[n].status \/ ev.status = RUNNING
    BY <1>2 DEF Genuine
  <2>2. outcome[n] \in Terminal => row.steps[n].status = outcome[n]
    BY <1>2 DEF Told, Terminal, WAITING, SUCCEEDED, FAILED
  <2>. QED
    BY <1>2, <2>1, <2>2 DEF RowLess, Genuine
<1>3. CASE row # NoRow /\ row' # NoRow
  BY <1>3 DEF RowLess, Genuine
<1>. QED
  BY <1>1, <1>2, <1>3

(* So do messages.                                                         *)
LEMMA MsgLess ==
  ASSUME Inv, Told, RowLess, NEW m \in Msgs, GenuineMsg(row, outcome, m)
  PROVE  GenuineMsg(row', outcome', m)
BY StepMessage, GenuineLess DEF GenuineMsg

(* The parts that speak of the row and of Brain survive a loss of events.  *)
LEMMA LessKeeps ==
  ASSUME IInv, RowLess, brain' = brain
  PROVE  Told' /\ Numbered' /\ QueueGenuine' /\ BrainGenuine'
<1>. USE DEF IInv, OutcomeInv
<1>1. Told'
  BY DEF RowLess, Told
<1>2. Numbered'
  BY DEF RowLess, Numbered
<1>3. QueueGenuine'
  <2>1. SUFFICES ASSUME row' # NoRow, NEW n \in Steps, NEW i \in 1..Len(row'.steps[n].queue)
                 PROVE  Genuine(row', outcome', n, row'.steps[n].queue[i])
    BY DEF QueueGenuine
  <2>2. PICK j \in 1..Len(row.steps[n].queue) :
           row'.steps[n].queue[i] = row.steps[n].queue[j]
    BY <2>1 DEF RowLess
  <2>3. Genuine(row, outcome, n, row.steps[n].queue[j])
    BY <2>1 DEF RowLess, QueueGenuine
  <2>. QED
    BY <2>2, <2>3, GenuineLess
<1>4. BrainGenuine'
  BY GenuineLess DEF BrainGenuine
<1>. QED
  BY <1>1, <1>2, <1>3, <1>4

(* Nothing in the pool or on its way is less genuine for it.               *)
LEMMA MsgsLess ==
  ASSUME IInv, RowLess
  PROVE  /\ \A m \in late : GenuineMsg(row', outcome', m)
         /\ \A i \in 1..Len(pool) : GenuineMsg(row', outcome', pool[i])
         /\ \A c \in Callers : GenuineMsg(row', outcome', req[c].msg)
<1>1. late \subseteq Msgs /\ pool \in Seq(Msgs) /\ req \in [Callers -> Calls]
  BY DEF IInv, Inv, TypeOK
<1>2. /\ \A m \in late : m \in Msgs
      /\ \A i \in 1..Len(pool) : pool[i] \in Msgs
      /\ \A c \in Callers : req[c].msg \in Msgs
  BY <1>1 DEF Calls
<1>. QED
  BY <1>2, MsgLess DEF IInv, OutcomeInv, MsgsGenuine

-----------------------------------------------------------------------------
(* Brain.                                                                  *)

(* A genuine event that Brain takes leaves it with genuine events only;    *)
(* what it knew it still knows; and of a terminal event it knows the       *)
(* outcome.                                                                *)
LEMMA BrainLearns ==
  ASSUME IInv, NEW m \in Msgs, GenuineMsg(row, outcome, m), BrainTakes(m),
         row' = row, outcome' = outcome
  PROVE  /\ BrainGenuine' /\ OutcomeKept'
         /\ \A n \in Steps : Known(brain, outcome, n) => Known(brain', outcome', n)
         /\ m.kind = "step" /\ m.status \in Terminal /\ outcome[m.n] \in Terminal
              => Known(brain', outcome', m.n)
<1>. USE DEF IInv, OutcomeInv
<1>1. brain \in Brains
  BY DEF Inv, TypeOK
<1>2. CASE m.kind # "step"
  <2>1. brain'.step = brain.step /\ brain'.seq = brain.seq
    BY <1>1, <1>2 DEF BrainTakes, Brains
  <2>. QED
    BY <1>2, <2>1 DEF BrainGenuine, OutcomeKept, Known
<1>3. CASE m.kind = "step"
  <2>1. /\ m.n \in Steps /\ m.status \in StepStatus /\ m.seq \in Nat
        /\ EventOf(m) = [status |-> m.status, seq |-> m.seq]
    BY <1>3, StepMessage DEF EventOf
  <2>2. Genuine(row, outcome, m.n, [status |-> m.status, seq |-> m.seq])
    BY <1>3, <2>1 DEF GenuineMsg
  <2>3. \A n \in Steps : brain.step[n] \in StepStatus /\ brain.seq[n] \in Nat
    BY <1>1 DEF Brains
  <2>4. CASE BrainRefuses(m)
    <3>1. brain' = brain
      BY <2>4 DEF BrainTakes
    <3>2. m.status \in Terminal => m.seq <= brain.seq[m.n]
      BY <1>3, <2>4 DEF BrainRefuses, Terminal, RUNNING, SUCCEEDED, FAILED
    <3>3. m.status \in Terminal /\ outcome[m.n] \in Terminal => Known(brain, outcome, m.n)
      <4>1. SUFFICES ASSUME m.status \in Terminal, outcome[m.n] \in Terminal
                     PROVE  Known(brain, outcome, m.n)
        OBVIOUS
      <4>2. CASE row = NoRow
        BY <2>1, <4>1, <4>2 DEF OutcomeKept, Known
      <4>3. CASE row # NoRow
        <5>1. m.seq = row.steps[m.n].seq /\ m.seq >= 1
          BY <2>1, <2>2, <4>1, <4>3 DEF Genuine, Terminal, RUNNING, SUCCEEDED, FAILED
        <5>2. brain.seq[m.n] >= 1
          BY <2>1, <2>3, <3>2, <4>1, <5>1
        <5>3. Genuine(row, outcome, m.n,
                      [status |-> brain.step[m.n], seq |-> brain.seq[m.n]])
          BY <2>1, <2>3, <5>2 DEF BrainGenuine
        <5>4. brain.seq[m.n] = row.steps[m.n].seq
          BY <2>1, <2>3, <3>2, <4>1, <4>3, <5>1, <5>3, StepFacts DEF Genuine
        <5>5. brain.step[m.n] = row.steps[m.n].status
          BY <4>3, <5>3, <5>4 DEF Genuine
        <5>. QED
          BY <2>1, <4>1, <4>3, <5>5 DEF Told, Known, Terminal, WAITING, SUCCEEDED, FAILED
      <4>. QED
        BY <4>2, <4>3
    <3>. QED
      BY <3>1, <3>3 DEF BrainGenuine, OutcomeKept, Known
  <2>5. CASE ~BrainRefuses(m)
    <3>1. /\ brain'.step = [brain.step EXCEPT ![m.n] = m.status]
          /\ brain'.seq = [brain.seq EXCEPT ![m.n] = m.seq]
          /\ brain.step \in [Steps -> StepStatus] /\ brain.seq \in [Steps -> Nat]
      BY <1>1, <1>3, <2>1, <2>5 DEF BrainTakes, Brains
    <3>2. /\ m.seq > brain.seq[m.n]
          /\ m.status = RUNNING => brain.step[m.n] \notin Terminal
      BY <1>3, <2>1, <2>3, <2>5 DEF BrainRefuses
    <3>3. BrainGenuine'
      <4>1. SUFFICES ASSUME NEW n \in Steps
                     PROVE \/ brain'.seq[n] = 0 /\ brain'.step[n] = WAITING
                           \/ Genuine(row, outcome, n,
                                [status |-> brain'.step[n], seq |-> brain'.seq[n]])
        BY DEF BrainGenuine
      <4>2. CASE n = m.n
        BY <2>1, <2>2, <3>1, <4>2
      <4>3. CASE n # m.n
        BY <2>1, <3>1, <4>3 DEF BrainGenuine
      <4>. QED
        BY <4>2, <4>3
    <3>4. \A n \in Steps : Known(brain, outcome, n) => Known(brain', outcome', n)
      <4>1. SUFFICES ASSUME NEW n \in Steps, Known(brain, outcome, n)
                     PROVE  Known(brain', outcome', n)
        OBVIOUS
      <4>2. CASE n # m.n
        BY <2>1, <3>1, <4>1, <4>2 DEF Known
      <4>3. CASE n = m.n /\ row = NoRow
        BY <2>1, <2>2, <3>1, <3>2, <4>1, <4>3 DEF Known, Genuine
      <4>4. CASE n = m.n /\ row # NoRow
        <5>1. /\ brain.step[n] \in Terminal
              /\ brain.step[n] # WAITING /\ brain.step[n] # RUNNING
          BY <4>1 DEF Known, Terminal, WAITING, RUNNING, SUCCEEDED, FAILED
        <5>2. Genuine(row, outcome, n, [status |-> brain.step[n], seq |-> brain.seq[n]])
          BY <5>1 DEF BrainGenuine
        <5>3. brain.seq[n] = row.steps[n].seq
          BY <4>4, <5>1, <5>2 DEF Genuine
        <5>4. m.seq <= row.steps[n].seq
          BY <2>2, <4>4, StepFacts DEF Genuine
        <5>. QED
          BY <2>1, <2>3, <3>2, <4>4, <5>3, <5>4
      <4>. QED
        BY <4>2, <4>3, <4>4
    <3>5. m.status \in Terminal /\ outcome[m.n] \in Terminal => Known(brain', outcome', m.n)
      <4>1. SUFFICES ASSUME m.status \in Terminal, outcome[m.n] \in Terminal
                     PROVE  m.status = outcome[m.n]
        BY <2>1, <3>1 DEF Known
      <4>2. CASE row = NoRow
        BY <2>2, <4>1, <4>2 DEF Genuine, Terminal, RUNNING, SUCCEEDED, FAILED
      <4>3. CASE row # NoRow
        BY <2>1, <2>2, <4>1, <4>3
        DEF Genuine, Told, Terminal, RUNNING, WAITING, SUCCEEDED, FAILED
      <4>. QED
        BY <4>2, <4>3
    <3>6. OutcomeKept'
      <4>1. SUFFICES ASSUME NEW n \in Steps, outcome[n] \in Terminal
                     PROVE  \/ brain'.step[n] = outcome[n]
                            \/ row # NoRow /\ \E i \in DOMAIN row.steps[n].queue :
                                                 row.steps[n].queue[i].status = outcome[n]
        BY DEF OutcomeKept
      <4>. QED
        BY <3>4, <4>1 DEF OutcomeKept, Known
    <3>. QED
      BY <1>3, <3>3, <3>4, <3>5, <3>6
  <2>. QED
    BY <2>4, <2>5
<1>. QED
  BY <1>2, <1>3

(* Brain's answers, failed calls and the pool's jobs keep the invariant.   *)
LEMMA NetworkKeeps ==
  ASSUME IInv,
         \/ \E c \in Callers : BrainAnswers(c) \/ CallFails(c)
         \/ \E m \in late : LateArrives(m)
         \/ \E i \in InFlight : PoolDelivers(i) \/ PoolFails(i) \/ PoolStale(i)
  PROVE  OutcomeInv'
<1>. USE DEF IInv, OutcomeInv
<1>1. late \subseteq Msgs /\ pool \in Seq(Msgs) /\ req \in [Callers -> Calls]
  BY DEF Inv, TypeOK
<1>2. \A c \in Callers : req[c].msg \in Msgs
  BY <1>1 DEF Calls
<1>3. row' = row /\ outcome' = outcome /\ ex' = ex /\ fl' = fl
  BY DEF BrainAnswers, CallFails, LateArrives, PoolDelivers, PoolFails, PoolStale
<1>4. Told' /\ Numbered' /\ Copied' /\ QueueGenuine' /\ OneShot'
  BY <1>3 DEF Told, Numbered, Copied, QueueGenuine, OneShot
<1>5. ASSUME /\ BrainGenuine' /\ OutcomeKept'
             /\ \A n \in Steps : Known(brain, outcome, n) => Known(brain', outcome', n),
             \A c \in Callers : req'[c].msg = req[c].msg
      PROVE  FlushHead' /\ Reporting'
  <2>1. Reporting'
    BY <1>3, <1>5 DEF Reporting, Callers, Inv, TypeOK, Executors
  <2>2. FlushHead'
    <3>1. fl.pc = "step" => req["flush"].msg.n \in Steps
      BY DEF Inv, FlushCall, StepMsgs
    <3>. QED
      BY <1>3, <1>5, <3>1 DEF FlushHead, Callers
  <2>. QED
    BY <2>1, <2>2
<1>6. ASSUME \A n \in Steps : Known(brain, outcome, n) => Known(brain', outcome', n),
             req' = req
      PROVE  Answered'
  <2>1. SUFFICES ASSUME NEW c \in Callers, Accounted(c), req[c].msg.kind = "step",
                        req[c].msg.status \in Terminal, outcome[req[c].msg.n] \in Terminal
                 PROVE  Known(brain', outcome', req[c].msg.n)
    BY <1>3, <1>6 DEF Answered, Accounted
  <2>2. req[c].msg.n \in Steps
    BY <1>2, <2>1, StepMessage
  <2>. QED
    BY <1>6, <2>1, <2>2 DEF Answered
<1>7. ASSUME NEW m \in Msgs, GenuineMsg(row, outcome, m), BrainTakes(m)
      PROVE  /\ BrainGenuine' /\ OutcomeKept'
             /\ \A n \in Steps : Known(brain, outcome, n) => Known(brain', outcome', n)
             /\ m.kind = "step" /\ m.status \in Terminal /\ outcome[m.n] \in Terminal
                  => Known(brain', outcome', m.n)
  BY <1>3, <1>7, BrainLearns
<1>8. ASSUME brain' = brain
      PROVE  /\ BrainGenuine' /\ OutcomeKept'
             /\ \A n \in Steps : Known(brain, outcome, n) => Known(brain', outcome', n)
  BY <1>3, <1>8 DEF BrainGenuine, OutcomeKept
<1>9. ASSUME NEW c \in Callers, BrainAnswers(c) PROVE OutcomeInv'
  <2>1. /\ GenuineMsg(row, outcome, req[c].msg) /\ BrainTakes(req[c].msg)
        /\ late' = late /\ pool' = pool
    BY <1>9 DEF BrainAnswers, MsgsGenuine
  <2>2. \A d \in Callers : req'[d].msg = req[d].msg
    BY <1>1, <1>9 DEF BrainAnswers, Calls
  <2>3. \A d \in Callers : d # c => req'[d].ans = req[d].ans
    BY <1>1, <1>9 DEF BrainAnswers, Calls
  <2>4. /\ BrainGenuine' /\ OutcomeKept'
        /\ \A n \in Steps : Known(brain, outcome, n) => Known(brain', outcome', n)
    BY <1>2, <1>7, <2>1
  <2>5. MsgsGenuine'
    BY <1>3, <2>1, <2>2 DEF MsgsGenuine
  <2>6. Answered'
    <3>1. SUFFICES ASSUME NEW d \in Callers, Accounted(d)', req[d].msg.kind = "step",
                          req[d].msg.status \in Terminal, outcome[req[d].msg.n] \in Terminal
                   PROVE  Known(brain', outcome', req[d].msg.n)
      BY <1>3, <2>2 DEF Answered, Accounted
    <3>2. CASE d = c
      BY <1>2, <1>7, <2>1, <3>1, <3>2
    <3>3. CASE d # c
      <4>1. Known(brain, outcome, req[d].msg.n) /\ req[d].msg.n \in Steps
        BY <1>2, <2>3, <3>1, <3>3, StepMessage DEF Answered, Accounted
      <4>. QED
        BY <2>4, <4>1
    <3>. QED
      BY <3>2, <3>3
  <2>. QED
    BY <1>4, <1>5, <2>2, <2>4, <2>5, <2>6
<1>10. ASSUME NEW c \in Callers, CallFails(c) PROVE OutcomeInv'
  <2>1. /\ late' \subseteq late \cup {req[c].msg}
        /\ pool' = pool /\ brain' = brain
    BY <1>10 DEF CallFails
  <2>2. \A d \in Callers : req'[d].msg = req[d].msg
    BY <1>1, <1>10 DEF CallFails, Calls
  <2>3. \A d \in Callers : Accounted(d)' => Accounted(d)
    BY <1>1, <1>10 DEF CallFails, Calls, Accounted
  <2>4. MsgsGenuine'
    BY <1>3, <2>1, <2>2 DEF MsgsGenuine
  <2>5. Answered'
    BY <1>3, <2>1, <2>2, <2>3 DEF Answered
  <2>. QED
    BY <1>4, <1>5, <1>8, <2>1, <2>2, <2>4, <2>5
<1>11. ASSUME NEW m \in late, LateArrives(m) PROVE OutcomeInv'
  <2>1. /\ m \in Msgs /\ GenuineMsg(row, outcome, m) /\ BrainTakes(m)
        /\ late' \subseteq late /\ pool' = pool /\ req' = req
    BY <1>1, <1>11 DEF LateArrives, MsgsGenuine
  <2>2. /\ BrainGenuine' /\ OutcomeKept'
        /\ \A n \in Steps : Known(brain, outcome, n) => Known(brain', outcome', n)
    BY <1>7, <2>1
  <2>3. MsgsGenuine'
    BY <1>3, <2>1 DEF MsgsGenuine
  <2>. QED
    BY <1>4, <1>5, <1>6, <2>1, <2>2, <2>3
<1>12. ASSUME NEW i \in InFlight, pool' = RemoveAt(pool, i)
       PROVE  /\ pool[i] \in Msgs /\ GenuineMsg(row, outcome, pool[i])
              /\ \A j \in 1..Len(pool') : GenuineMsg(row, outcome, pool'[j])
  <2>1. i \in 1..Len(pool)
    BY <1>1 DEF InFlight
  <2>2. \A j \in 1..Len(pool') : \E k \in 1..Len(pool) : pool'[j] = pool[k]
    <3>1. /\ Len(pool) \in Nat /\ Len(pool') = Len(pool) - 1
          /\ \A j \in 1..(Len(pool) - 1) :
                pool'[j] = IF j < i THEN pool[j] ELSE pool[j + 1]
      BY <1>1, <1>12, <2>1, RemoveAtElements
    <3>. QED
      BY <3>1, <2>1
  <2>. QED
    BY <1>1, <2>1, <2>2 DEF MsgsGenuine
<1>13. ASSUME NEW i \in InFlight, PoolDelivers(i) PROVE OutcomeInv'
  <2>1. /\ pool[i] \in Msgs /\ GenuineMsg(row, outcome, pool[i]) /\ BrainTakes(pool[i])
        /\ \A j \in 1..Len(pool') : GenuineMsg(row, outcome, pool'[j])
        /\ late' = late /\ req' = req
    BY <1>12, <1>13 DEF PoolDelivers
  <2>2. /\ BrainGenuine' /\ OutcomeKept'
        /\ \A n \in Steps : Known(brain, outcome, n) => Known(brain', outcome', n)
    BY <1>7, <2>1
  <2>3. MsgsGenuine'
    BY <1>3, <2>1 DEF MsgsGenuine
  <2>. QED
    BY <1>4, <1>5, <1>6, <2>1, <2>2, <2>3
<1>14. ASSUME NEW i \in InFlight, PoolFails(i) \/ PoolStale(i) PROVE OutcomeInv'
  <2>1. /\ GenuineMsg(row, outcome, pool[i])
        /\ \A j \in 1..Len(pool') : GenuineMsg(row, outcome, pool'[j])
        /\ late' \subseteq late \cup {pool[i]} /\ req' = req /\ brain' = brain
    BY <1>12, <1>14 DEF PoolFails, PoolStale
  <2>2. MsgsGenuine'
    BY <1>3, <2>1 DEF MsgsGenuine
  <2>. QED
    BY <1>4, <1>5, <1>6, <1>8, <2>1, <2>2
<1>. QED
  BY <1>9, <1>10, <1>11, <1>13, <1>14

-----------------------------------------------------------------------------
(* What the operations do to the row.                                      *)

(* A row is dropped only with all its queues empty.                        *)
LEMMA DropEmpty ==
  ASSUME NEW r \in Row, RowSound(r), NEW open
  PROVE  \/ DropIfDone(r, open) = r
         \/ DropIfDone(r, open) = NoRow /\ \A n \in Steps : r.steps[n].queue = <<>>
<1>1. r # NoRow
  BY NoRowAssumption
<1>2. \A n \in Steps : r.steps[n].synced = (r.steps[n].queue = <<>>)
  BY <1>1 DEF RowSound, StepSound
<1>. QED
  BY <1>2 DEF DropIfDone, DropReady

(* Events leave one queue, and the row may go with the last of them: the   *)
(* outcomes are kept if Brain knows this step's, or no terminal event      *)
(* left.                                                                   *)
LEMMA TakeOff ==
  ASSUME IInv, row # NoRow, NEW n \in Steps, NEW t, Thinned(t, row.steps[n].queue),
         NEW open, LET x == [row EXCEPT !.steps[n] = WithQueue(@, t)]
                   IN  row' = x \/ row' = DropIfDone(x, open),
         outcome' = outcome, brain' = brain,
         \/ Known(brain, outcome, n)
         \/ \A j \in 1..Len(row.steps[n].queue) : row.steps[n].queue[j].status \in Terminal
              => \E i \in 1..Len(t) : t[i] = row.steps[n].queue[j]
  PROVE  /\ RowLess /\ OutcomeKept'
         /\ row' # NoRow => \A k \in Steps : k # n => row'.steps[k] = row.steps[k]
<1>. DEFINE s == row.steps[n]
            x == [row EXCEPT !.steps[n] = WithQueue(@, t)]
<1>1. /\ row \in Row /\ RowSound(row) /\ s \in StepRow /\ StepSound(s)
      /\ row.steps \in [Steps -> StepRow] /\ s.queue \in Seq(Event)
  BY StepFacts DEF IInv, Inv, QueueSound
<1>2. /\ WithQueue(s, t) \in StepRow /\ StepSound(WithQueue(s, t))
      /\ t \in Seq(Event)
  BY <1>1, ThinnedSound DEF Thinned
<1>3. /\ x \in Row /\ WellFormed(x)
      /\ x.steps = [row.steps EXCEPT ![n] = WithQueue(s, t)]
  <2>1. x = [row EXCEPT !.steps[n] = WithQueue(s, t)]
    BY <1>1 DEF Row
  <2>. QED
    BY <1>1, <1>2, <2>1, ReplaceStep
<1>4. row' = x \/ (row' = NoRow /\ \A k \in Steps : x.steps[k].queue = <<>>)
  BY <1>3, DropEmpty DEF WellFormed
<1>. HIDE DEF x
<1>5. /\ \A k \in Steps : k # n => x.steps[k] = row.steps[k]
      /\ x.steps[n].queue = t /\ x.steps[n].status = s.status /\ x.steps[n].seq = s.seq
  BY <1>1, <1>3 DEF WithQueue
<1>6. \A i \in 1..Len(t) : \E j \in 1..Len(s.queue) : t[i] = s.queue[j]
  BY DEF Thinned
<1>7. RowLess
  <2>1. \A k \in Steps :
            /\ x.steps[k].status = row.steps[k].status
            /\ x.steps[k].seq = row.steps[k].seq
            /\ \A i \in 1..Len(x.steps[k].queue) : \E j \in 1..Len(row.steps[k].queue) :
                  x.steps[k].queue[i] = row.steps[k].queue[j]
    BY <1>5, <1>6
  <2>. QED
    BY <1>4, <2>1 DEF RowLess
<1>8. \A k \in Steps : outcome[k] \in Terminal =>
         \/ brain.step[k] = outcome[k]
         \/ \E i \in 1..Len(x.steps[k].queue) : x.steps[k].queue[i].status = outcome[k]
  <2>1. SUFFICES ASSUME NEW k \in Steps, outcome[k] \in Terminal, brain.step[k] # outcome[k]
                 PROVE  \E i \in 1..Len(x.steps[k].queue) :
                           x.steps[k].queue[i].status = outcome[k]
    OBVIOUS
  <2>2. row.steps[k].queue \in Seq(Event)
    BY StepFacts DEF IInv
  <2>3. PICK j \in 1..Len(row.steps[k].queue) : row.steps[k].queue[j].status = outcome[k]
    BY <2>1, <2>2 DEF IInv, OutcomeInv, OutcomeKept
  <2>4. CASE k # n
    BY <1>5, <2>3, <2>4
  <2>5. CASE k = n
    <3>1. ~Known(brain, outcome, n)
      BY <2>1, <2>5 DEF Known
    <3>2. PICK i \in 1..Len(t) : t[i] = row.steps[n].queue[j]
      BY <2>1, <2>3, <2>5, <3>1
    <3>. QED
      BY <1>5, <2>3, <2>5, <3>2
  <2>. QED
    BY <2>4, <2>5
<1>9. OutcomeKept'
  <2>1. SUFFICES ASSUME NEW k \in Steps, outcome[k] \in Terminal, brain.step[k] # outcome[k]
                 PROVE  row' # NoRow /\ \E i \in DOMAIN row'.steps[k].queue :
                                           row'.steps[k].queue[i].status = outcome[k]
    BY DEF OutcomeKept
  <2>2. PICK i \in 1..Len(x.steps[k].queue) : x.steps[k].queue[i].status = outcome[k]
    BY <1>8, <2>1
  <2>3. x.steps[k].queue \in Seq(Event)
    BY <1>3 DEF Row, StepRow
  <2>4. row' = x
    <3>1. x.steps[k].queue # <<>>
      BY <2>2, <2>3, EmptySeq
    <3>. QED
      BY <1>4, <3>1
  <2>5. row' # NoRow
    BY <1>3, <2>4, NoRowAssumption
  <2>6. i \in DOMAIN x.steps[k].queue
    BY <2>3
  <2>. QED
    BY <2>2, <2>4, <2>5, <2>6
<1>. QED
  BY <1>4, <1>5, <1>7, <1>9

(* A change of the intent's status or of its marks leaves every step       *)
(* alone; it may drop the row, with all its queues empty.                  *)
WireOnly ==
    /\ outcome' = outcome /\ brain' = brain
    /\ row = NoRow => row' = NoRow
    /\ row # NoRow /\ row' # NoRow => row'.steps = row.steps
    /\ row # NoRow /\ row' = NoRow => \A n \in Steps : row.steps[n].queue = <<>>

(* Such a change takes events away at most, and no outcome with them.      *)
LEMMA WireKeeps ==
  ASSUME IInv, WireOnly
  PROVE  RowLess /\ OutcomeKept'
<1>1. RowLess
  BY DEF WireOnly, RowLess
<1>2. OutcomeKept'
  <2>1. SUFFICES ASSUME NEW k \in Steps, outcome[k] \in Terminal, brain.step[k] # outcome[k]
                 PROVE  row' # NoRow /\ \E i \in DOMAIN row'.steps[k].queue :
                                           row'.steps[k].queue[i].status = outcome[k]
    BY DEF OutcomeKept, WireOnly
  <2>2. row # NoRow /\ \E i \in DOMAIN row.steps[k].queue :
                          row.steps[k].queue[i].status = outcome[k]
    BY <2>1 DEF IInv, OutcomeInv, OutcomeKept
  <2>3. row.steps[k].queue # <<>>
    BY <2>2
  <2>. QED
    BY <2>2, <2>3 DEF WireOnly
<1>. QED
  BY <1>1, <1>2

(* set_intent_status is such a change.                                     *)
LEMMA SetIntentWire ==
  ASSUME IInv, NEW w \in IntentStatus, row' = SetIntentStatus(row, w),
         outcome' = outcome, brain' = brain
  PROVE  WireOnly
<1>1. row # NoRow => row \in Row
  BY DEF IInv, Inv, TypeOK
<1>2. row # NoRow => row' \in Row
  BY InvRow, SetIntentStatusKeeps DEF IInv
<1>3. row # NoRow => row'.steps = row.steps
  BY <1>1 DEF SetIntentStatus, Row
<1>. QED
  BY <1>2, <1>3, NoRowAssumption DEF WireOnly, SetIntentStatus

(* mark_intent_synced is another.                                          *)
LEMMA MarkIntentWire ==
  ASSUME IInv, NEW w, NEW open, row' = MarkIntentSynced(row, w, open),
         outcome' = outcome, brain' = brain
  PROVE  WireOnly
<1>1. CASE row = NoRow
  BY <1>1 DEF MarkIntentSynced, WireOnly
<1>2. CASE row # NoRow
  <2>1. row \in Row /\ RowSound(row)
    BY <1>2 DEF IInv, Inv, TypeOK, QueueSound
  <2>2. PICK q \in Row : q.steps = row.steps /\ row' = DropIfDone(q, open)
    BY <2>1, MarkIntentParts
  <2>3. RowSound(q) /\ q # NoRow
    BY <1>2, <2>1, <2>2, NoRowAssumption DEF RowSound
  <2>. QED
    BY <1>2, <2>2, <2>3, DropEmpty DEF WireOnly
<1>. QED
  BY <1>1, <1>2

(* A status change of an open step: nothing is queued when nothing         *)
(* changes, else one event more, and the cap drops none.                   *)
LEMMA OpenStep ==
  ASSUME OneShotPlan, IInv, row # NoRow, NEW n \in Steps,
         row.steps[n].status \in {WAITING, RUNNING},
         NEW st \in {RUNNING, SUCCEEDED, FAILED}
  PROVE  LET s == row.steps[n]
             u == [EnqueueStepEvent(s, st) EXCEPT !.status = st]
         IN  /\ st = s.status => u = s
             /\ st # s.status =>
                   /\ u.status = st /\ u.seq = s.seq + 1 /\ u.seq \in 1..2
                   /\ st = RUNNING => u.seq = 1
                   /\ u.queue = Append(s.queue, [status |-> st, seq |-> s.seq + 1])
             /\ \A ev : Genuine(row, outcome, n, ev) => ev.status = RUNNING
<1>. DEFINE s == row.steps[n]
            e == EnqueueStepEvent(s, st)
            u == [e EXCEPT !.status = st]
            q == Append(s.queue, [status |-> st, seq |-> s.seq + 1])
<1>1. /\ s \in StepRow /\ s.queue \in Seq(Event) /\ Len(s.queue) \in Nat
      /\ s.seq \in Nat /\ s.status \in StepStatus /\ StepSound(s)
  BY StepFacts DEF IInv
<1>2. /\ s.status = WAITING => s.seq = 0
      /\ s.status = RUNNING => s.seq = 1
  BY DEF IInv, OutcomeInv, Numbered
<1>3. Len(s.queue) <= 1
  <2>1. SUFFICES ASSUME Len(s.queue) >= 2 PROVE FALSE
    BY <1>1
  <2>2. /\ 1 \in 1..Len(s.queue) /\ 2 \in 1..Len(s.queue)
        /\ s.queue[1].seq \in 1..s.seq /\ s.queue[2].seq \in 1..s.seq
        /\ s.queue[1].seq < s.queue[2].seq
    BY <1>1, <2>1 DEF StepSound
  <2>. QED
    BY <1>1, <1>2, <2>2
<1>4. \A ev : Genuine(row, outcome, n, ev) => ev.status = RUNNING
  <2>1. SUFFICES ASSUME NEW ev, Genuine(row, outcome, n, ev) PROVE ev.status = RUNNING
    OBVIOUS
  <2>2. ev.seq \in 1..s.seq /\ ev.status = IF ev.seq = s.seq THEN s.status ELSE RUNNING
    BY <2>1 DEF Genuine
  <2>. QED
    BY <1>1, <1>2, <2>2
<1>5. CASE st = s.status
  <2>1. e = s
    BY <1>5 DEF EnqueueStepEvent
  <2>. HIDE DEF e
  <2>2. u = s
    BY <1>1, <1>5, <2>1 DEF StepRow
  <2>. QED
    BY <1>4, <1>5, <2>2 DEF e
<1>6. CASE st # s.status
  <2>1. s.queue # <<>> => s.queue[Len(s.queue)].status # st
    <3>1. SUFFICES ASSUME s.queue # <<>> PROVE s.queue[Len(s.queue)].status # st
      OBVIOUS
    <3>2. Len(s.queue) = 1
      <4>1. s.queue \in Seq(Event) /\ s.queue # <<>>
        BY <1>1, <3>1
      <4>2. Len(s.queue) \in Nat \ {0}
        BY <4>1, EmptySeq
      <4>3. \A x \in Nat \ {0} : x <= 1 => x = 1
        OBVIOUS
      <4>. QED
        BY <1>3, <4>2, <4>3, Zenon
    <3>3. 1 \in 1..Len(s.queue) /\ s.queue[1].seq \in 1..s.seq
      BY <1>1, <3>2 DEF StepSound
    <3>4. s.status = RUNNING
      BY <1>1, <1>2, <3>3
    <3>5. Genuine(row, outcome, n, s.queue[1])
      BY <3>3 DEF IInv, OutcomeInv, QueueGenuine
    <3>. QED
      BY <1>4, <1>6, <3>2, <3>4, <3>5
  <2>2. ~(st = s.status \/ (s.queue # <<>> /\ s.queue[Len(s.queue)].status = st))
    BY <1>6, <2>1
  <2>3. Len(q) <= 2 /\ QueueCap >= 2 /\ QueueCap \in Nat
    BY <1>1, <1>3, CapAssumption DEF OneShotPlan, Event
  <2>4. e = [status |-> s.status, seq |-> s.seq + 1, synced |-> FALSE,
             queue |-> IF Len(q) > QueueCap THEN Tail(q) ELSE q]
    BY <2>2 DEF EnqueueStepEvent
  <2>5. ~(Len(q) > QueueCap)
    <3>1. Len(q) \in Nat
      BY <1>1 DEF Event
    <3>. QED
      BY <2>3, <3>1
  <2>6. e = [status |-> s.status, seq |-> s.seq + 1, synced |-> FALSE, queue |-> q]
    BY <2>4, <2>5
  <2>. HIDE DEF e, q
  <2>7. u.status = st /\ u.seq = s.seq + 1 /\ u.queue = q
    BY <2>6
  <2>8. s.seq + 1 \in 1..2 /\ (st = RUNNING => s.seq + 1 = 1)
    BY <1>1, <1>2, <1>6
  <2>. QED
    BY <1>4, <1>6, <2>7, <2>8 DEF e, q
<1>. QED
  BY <1>5, <1>6

(* set_step_status on an open step: the outcome is what the row now says,  *)
(* every event stays genuine, and no queue changes its head.               *)
LEMMA StatusSet ==
  ASSUME OneShotPlan, IInv, row # NoRow, NEW n \in Steps,
         row.steps[n].status \in {WAITING, RUNNING},
         NEW st \in {RUNNING, SUCCEEDED, FAILED}, row' = SetStepStatus(row, n, st),
         outcome' = [outcome EXCEPT ![n] = IF st \in Terminal THEN st ELSE @],
         brain' = brain
  PROVE  /\ row' \in Row /\ row' # NoRow
         /\ row'.steps[n].status = st
         /\ \A k \in Steps : k # n => row'.steps[k] = row.steps[k]
         /\ Told' /\ Numbered' /\ QueueGenuine' /\ BrainGenuine' /\ OutcomeKept'
         /\ \A k \in Steps : \A ev : Genuine(row, outcome, k, ev)
                                       => Genuine(row', outcome', k, ev)
         /\ \A k \in Steps : outcome'[k] # outcome[k] => k = n
         /\ \A ev : Genuine(row, outcome, n, ev) => ev.status = RUNNING
         /\ outcome[n] \notin Terminal
         /\ \A k \in Steps : row.steps[k].queue # <<>> =>
               /\ row'.steps[k].queue # <<>>
               /\ row'.steps[k].queue[1] = row.steps[k].queue[1]
         /\ st \in Terminal => /\ outcome'[n] = st
                               /\ Genuine(row', outcome', n, EventIn(row', n, st))
                               /\ EventIn(row', n, st).status = st
<1>. DEFINE s == row.steps[n]
            u == [EnqueueStepEvent(s, st) EXCEPT !.status = st]
            ev1 == [status |-> st, seq |-> s.seq + 1]
<1>. USE DEF IInv, OutcomeInv
<1>1. /\ row \in Row /\ row.steps \in [Steps -> StepRow] /\ s \in StepRow
      /\ s.queue \in Seq(Event) /\ Len(s.queue) \in Nat
      /\ s.seq \in Nat /\ s.status \in StepStatus /\ StepSound(s)
      /\ outcome \in [Steps -> StepStatus]
  BY StepFacts DEF Inv, TypeOK
<1>2. st \in StepStatus /\ st # WAITING
  BY DEF StepStatus, WAITING, RUNNING, SUCCEEDED, FAILED
<1>3. u \in StepRow /\ StepSound(u)
  BY <1>1, <1>2, EnqueueSound
<1>4. /\ st = s.status => u = s
      /\ st # s.status => /\ u.status = st /\ u.seq = s.seq + 1 /\ u.seq \in 1..2
                          /\ st = RUNNING => u.seq = 1
                          /\ u.queue = Append(s.queue, ev1)
      /\ \A ev : Genuine(row, outcome, n, ev) => ev.status = RUNNING
  BY OpenStep
<1>5. row' \in Row /\ row' # NoRow /\ row'.steps = [row.steps EXCEPT ![n] = u]
  <2>1. row' = [row EXCEPT !.steps[n] = u]
    BY <1>1 DEF SetStepStatus, Row
  <2>. HIDE DEF u
  <2>. QED
    BY <1>1, <1>3, <2>1, NoRowAssumption DEF Row
<1>. HIDE DEF u
<1>6. row'.steps[n] = u /\ \A k \in Steps : k # n => row'.steps[k] = row.steps[k]
  BY <1>1, <1>5
<1>7. u.status = st
  BY <1>4
<1>8. /\ outcome[n] \notin Terminal
      /\ \A k \in Steps : k # n => outcome'[k] = outcome[k]
      /\ outcome'[n] = IF st \in Terminal THEN st ELSE outcome[n]
  BY <1>1 DEF Told, Terminal, WAITING, RUNNING, SUCCEEDED, FAILED
<1>9. \A k \in Steps : \A ev : Genuine(row, outcome, k, ev) => Genuine(row', outcome', k, ev)
  <2>1. SUFFICES ASSUME NEW k \in Steps, NEW ev, Genuine(row, outcome, k, ev)
                 PROVE  Genuine(row', outcome', k, ev)
    OBVIOUS
  <2>2. CASE k # n
    BY <1>5, <1>6, <2>1, <2>2 DEF Genuine
  <2>3. CASE k = n /\ st = s.status
    BY <1>4, <1>5, <1>6, <2>1, <2>3 DEF Genuine
  <2>4. CASE k = n /\ st # s.status
    <3>1. ev.seq \in 1..s.seq /\ ev.status = RUNNING
      BY <1>4, <2>1, <2>4 DEF Genuine
    <3>2. ev.seq \in 1..u.seq /\ ev.seq # u.seq
      BY <1>1, <1>4, <2>4, <3>1
    <3>. QED
      BY <1>5, <1>6, <2>4, <3>1, <3>2 DEF Genuine
  <2>. QED
    BY <2>2, <2>3, <2>4
<1>10. Told'
  BY <1>5, <1>6, <1>7, <1>8, <1>1 DEF Told, Terminal, WAITING, RUNNING, SUCCEEDED, FAILED
<1>11. Numbered'
  <2>1. SUFFICES ASSUME NEW k \in Steps
                 PROVE  LET v == row'.steps[k]
                        IN  /\ v.status = WAITING => v.seq = 0
                            /\ v.status = RUNNING => v.seq = 1
                            /\ v.status \in Terminal => v.seq \in 1..2
    BY DEF Numbered
  <2>2. CASE k # n
    BY <1>6, <2>2 DEF Numbered
  <2>3. CASE k = n
    BY <1>2, <1>4, <1>6, <1>7, <2>3 DEF Numbered
  <2>. QED
    BY <2>2, <2>3
<1>12. QueueGenuine'
  <2>1. SUFFICES ASSUME NEW k \in Steps, NEW i \in 1..Len(row'.steps[k].queue)
                 PROVE  Genuine(row', outcome', k, row'.steps[k].queue[i])
    BY DEF QueueGenuine
  <2>2. CASE k # n
    BY <1>6, <1>9, <2>1, <2>2 DEF QueueGenuine
  <2>3. CASE k = n /\ st = s.status
    BY <1>4, <1>6, <1>9, <2>1, <2>3 DEF QueueGenuine
  <2>4. CASE k = n /\ st # s.status
    <3>1. Len(u.queue) = Len(s.queue) + 1
      BY <1>1, <1>4, <2>4
    <3>2. CASE i <= Len(s.queue)
      <4>1. u.queue[i] = s.queue[i] /\ i \in 1..Len(s.queue)
        BY <1>1, <1>4, <1>6, <2>1, <2>4, <3>1, <3>2
      <4>. QED
        BY <1>6, <1>9, <2>4, <4>1 DEF QueueGenuine
    <3>3. CASE ~(i <= Len(s.queue))
      <4>1. i = Len(s.queue) + 1
        BY <1>1, <1>6, <2>4, <3>1, <3>3
      <4>2. u.queue[i] = ev1
        BY <1>1, <1>4, <2>4, <4>1
      <4>3. ev1.seq = u.seq /\ ev1.status = u.status /\ u.seq \in 1..u.seq
        BY <1>4, <2>4
      <4>. QED
        BY <1>5, <1>6, <2>4, <4>2, <4>3 DEF Genuine
    <3>. QED
      BY <3>2, <3>3
  <2>. QED
    BY <2>2, <2>3, <2>4
<1>13. BrainGenuine'
  BY <1>9 DEF BrainGenuine
<1>14. \A k \in Steps : row.steps[k].queue # <<>> =>
               /\ row'.steps[k].queue # <<>>
               /\ row'.steps[k].queue[1] = row.steps[k].queue[1]
  <2>1. SUFFICES ASSUME s.queue # <<>>, st # s.status
                 PROVE  u.queue # <<>> /\ u.queue[1] = s.queue[1]
    BY <1>4, <1>6
  <2>2. Len(s.queue) >= 1
    BY <1>1, <2>1, EmptySeq
  <2>. QED
    BY <1>1, <1>4, <2>1, <2>2
<1>15. OutcomeKept'
  <2>1. SUFFICES ASSUME NEW k \in Steps, outcome'[k] \in Terminal, brain.step[k] # outcome'[k]
                 PROVE  \E i \in DOMAIN row'.steps[k].queue :
                           row'.steps[k].queue[i].status = outcome'[k]
    BY <1>5 DEF OutcomeKept
  <2>2. CASE k # n
    BY <1>6, <1>8, <2>1, <2>2 DEF OutcomeKept
  <2>3. CASE k = n
    <3>1. st \in Terminal /\ outcome'[n] = st /\ st # s.status
      BY <1>8, <2>1, <2>3 DEF Terminal, WAITING, RUNNING, SUCCEEDED, FAILED
    <3>2. u.queue = Append(s.queue, ev1)
      BY <1>4, <3>1
    <3>3. Len(s.queue) + 1 \in DOMAIN u.queue /\ u.queue[Len(s.queue) + 1] = ev1
      BY <1>1, <3>2
    <3>. QED
      BY <1>6, <2>3, <3>1, <3>3
  <2>. QED
    BY <2>2, <2>3
<1>16. st \in Terminal => /\ outcome'[n] = st
                          /\ Genuine(row', outcome', n, EventIn(row', n, st))
                          /\ EventIn(row', n, st).status = st
  <2>1. SUFFICES ASSUME st \in Terminal
                 PROVE  Genuine(row', outcome', n, EventIn(row', n, st))
    BY <1>8 DEF EventIn
  <2>2. st # s.status
    BY <2>1 DEF Terminal, WAITING, RUNNING, SUCCEEDED, FAILED
  <2>3. EventIn(row', n, st) = [status |-> st, seq |-> u.seq]
    BY <1>5, <1>6 DEF EventIn
  <2>. QED
    BY <1>4, <1>5, <1>6, <1>7, <2>2, <2>3 DEF Genuine
<1>. QED
  BY <1>4, <1>5, <1>6, <1>7, <1>8, <1>9, <1>10, <1>11, <1>12, <1>13, <1>14, <1>15, <1>16

-----------------------------------------------------------------------------
(* The flush.                                                              *)

(* What the executor knows survives a loss of events.                      *)
LEMMA ExecutorLess ==
  ASSUME IInv, RowLess, brain' = brain, ex' = ex, req'["executor"] = req["executor"]
  PROVE  Copied' /\ Reporting'
<1>. USE DEF IInv, OutcomeInv
<1>1. Copied'
  BY DEF Copied, RowLess
<1>2. ex.n \in Steps
  BY DEF Inv, TypeOK, Executors
<1>3. Reporting'
  BY <1>2, GenuineLess DEF Reporting, RowLess
<1>. QED
  BY <1>1, <1>3

(* A step of the flush keeps the invariant if it keeps the outcomes and    *)
(* the event it has posted.                                                *)
LEMMA FlushFrame ==
  ASSUME IInv, RowLess, brain' = brain, ex' = ex, pool' = pool, late' = late,
         req'["executor"] = req["executor"],
         \/ req'["flush"] = req["flush"]
         \/ /\ req'["flush"].ans \in {"none", "sent"}
            /\ GenuineMsg(row', outcome', req'["flush"].msg),
         fl'.by = "thread", OutcomeKept', FlushHead'
  PROVE  OutcomeInv'
<1>. USE DEF IInv, OutcomeInv
<1>1. Told' /\ Numbered' /\ QueueGenuine' /\ BrainGenuine'
  BY LessKeeps
<1>2. Copied' /\ Reporting'
  BY ExecutorLess
<1>3. MsgsGenuine'
  BY MsgsLess DEF MsgsGenuine, Callers
<1>4. Answered'
  BY DEF Answered, Accounted, Callers, RowLess
<1>5. OneShot'
  BY DEF OneShot
<1>. QED
  BY <1>1, <1>2, <1>3, <1>4, <1>5

(* The flush keeps the invariant. When Brain has answered, either the      *)
(* event at the head is the one that was posted, or Brain knows the        *)
(* outcome.                                                                *)
LEMMA FlushKeeps ==
  ASSUME IInv, FlushStep \/ \E by \in {"thread", "executor"} : FlushBegin(by)
  PROVE  OutcomeInv'
<1>. USE DEF IInv, OutcomeInv, FlushRest
<1>1. /\ brain' = brain /\ outcome' = outcome /\ pool' = pool /\ late' = late
  BY DEF FlushStep, FlushPostStep, FlushStepAnswered, FlushQueuesEmpty, FlushSnapshot,
         FlushSkipIntent, FlushPostIntent, FlushIntentAnswered, FlushGivesUp, FlushEnd,
         FlushBegin
<1>2. /\ req \in [Callers -> Calls] /\ fl \in Flushers
      /\ ex.pc # "flush" /\ fl.by = "thread"
  BY DEF Inv, TypeOK, OneShot
<1>3. ASSUME row' = row PROVE RowLess /\ OutcomeKept'
  BY <1>1, <1>3 DEF RowLess, OutcomeKept
<1>4. NoReq.ans = "none" /\ GenuineMsg(row', outcome', NoReq.msg)
  BY DEF NoReq, GenuineMsg, IntentMsg
<1>5. CASE \E by \in {"thread", "executor"} : FlushBegin(by)
  <2>1. /\ fl' = [fl EXCEPT !.pc = "scan", !.by = "thread"] /\ ex' = ex
        /\ row' = row /\ req' = req
    BY <1>2, <1>5 DEF FlushBegin
  <2>2. fl'.by = "thread" /\ FlushHead'
    BY <1>2, <2>1 DEF Flushers, FlushHead
  <2>. QED
    BY <1>1, <1>3, <2>1, <2>2, FlushFrame
<1>6. CASE FlushPostStep
  <2>1. row # NoRow /\ Busy \subseteq Nat /\ Busy # {}
    BY <1>6 DEF FlushPostStep, Busy, Steps
  <2>2. Min(Busy) \in Busy
    BY <2>1, MinNat
  <2>3. PICK n \in Steps : n = Min(Busy) /\ row.steps[n].queue # <<>>
    BY <2>1, <2>2 DEF Busy
  <2>. DEFINE m == StepMsg(n, row.steps[n].queue[1])
  <2>4. /\ req' = [req EXCEPT !["flush"] = Sent(m)]
        /\ fl' = [fl EXCEPT !.pc = "step"] /\ row' = row /\ ex' = ex
    BY <1>6, <2>3 DEF FlushPostStep
  <2>5. row.steps[n].queue \in Seq(Event) /\ Len(row.steps[n].queue) \in Nat \ {0}
    BY <2>1, <2>3, StepFacts, EmptySeq
  <2>6. row.steps[n].queue[1] \in Event
    BY <2>5
  <2>7. m.kind = "step" /\ m.n = n /\ EventOf(m) = row.steps[n].queue[1]
    BY <2>6 DEF StepMsg, EventOf, Event
  <2>8. Genuine(row, outcome, n, row.steps[n].queue[1])
    BY <2>1, <2>5 DEF QueueGenuine
  <2>9. /\ req'["executor"] = req["executor"]
        /\ req'["flush"].ans = "sent" /\ req'["flush"].msg = m
    BY <1>2, <2>4 DEF Callers, Sent
  <2>10. GenuineMsg(row', outcome', m)
    BY <1>1, <2>4, <2>7, <2>8 DEF GenuineMsg
  <2>11. FlushHead'
    BY <2>3, <2>4, <2>7, <2>9 DEF FlushHead
  <2>12. fl'.by = "thread"
    BY <1>2, <2>4 DEF Flushers
  <2>. QED
    BY <1>1, <1>3, <2>4, <2>9, <2>10, <2>11, <2>12, FlushFrame
<1>7. CASE FlushStepAnswered
  <2>. DEFINE m == req["flush"].msg
              n == m.n
              q == row.steps[n].queue
  <2>1. /\ m \in StepMsgs /\ m.kind = "step" /\ n \in Steps
        /\ Accounted("flush") /\ fl.pc = "step"
    BY <1>7 DEF FlushStepAnswered, Inv, FlushCall, StepMsgs
  <2>2. /\ row' = IF req["flush"].ans = "ok"
                  THEN MarkStepSynced(row, n, EventOf(m), SeriesOpen)
                  ELSE DiscardQueuedEvent(row, n)
        /\ req' = [req EXCEPT !["flush"] = NoReq]
        /\ fl' = [fl EXCEPT !.pc = "scan"] /\ ex' = ex
    BY <1>7 DEF FlushStepAnswered
  <2>3. /\ req'["executor"] = req["executor"] /\ req'["flush"] = NoReq
        /\ fl'.by = "thread" /\ fl'.pc = "scan"
    BY <1>2, <2>2 DEF Callers, Flushers
  <2>4. FlushHead'
    BY <2>3 DEF FlushHead
  <2>5. CASE row = NoRow
    <3>1. row' = row
      BY <2>2, <2>5 DEF MarkStepSynced, DiscardQueuedEvent
    <3>. QED
      BY <1>1, <1>3, <1>4, <2>2, <2>3, <2>4, <3>1, FlushFrame
  <2>6. CASE row # NoRow
    <3>1. /\ row \in Row /\ row.steps[n] \in StepRow /\ StepSound(row.steps[n])
          /\ q \in Seq(Event)
      BY <2>1, <2>6, StepFacts
    <3>2. PICK t : /\ Thinned(t, q)
                   /\ t = q \/ (q # <<>> /\ t = Tail(q)
                                 /\ (q[1] = EventOf(m) \/ req["flush"].ans = "obsolete"))
                   /\ LET x == [row EXCEPT !.steps[n] = WithQueue(@, t)]
                      IN  row' = x \/ row' = DropIfDone(x, SeriesOpen)
      <4>1. req["flush"].ans = "ok" \/ req["flush"].ans = "obsolete"
        BY <2>1 DEF Accounted
      <4>2. CASE q # <<>> /\ (q[1] = EventOf(m) \/ req["flush"].ans = "obsolete")
        <5>1. Thinned(Tail(q), q)
          BY <3>1, <4>2, TailThinned
        <5>2. LET x == [row EXCEPT !.steps[n] = WithQueue(@, Tail(q))]
              IN  row' = x \/ row' = DropIfDone(x, SeriesOpen)
          BY <2>2, <2>6, <3>1, <4>1, <4>2
          DEF MarkStepSynced, DiscardQueuedEvent, PopHead, Row
        <5>. QED
          BY <4>2, <5>1, <5>2
      <4>3. CASE ~(q # <<>> /\ (q[1] = EventOf(m) \/ req["flush"].ans = "obsolete"))
        <5>1. Thinned(q, q)
          BY <3>1, SelfThinned
        <5>2. [row EXCEPT !.steps[n] = WithQueue(@, q)] = row
          BY <3>1, SameQueue DEF Row
        <5>3. q = <<>> => [row EXCEPT !.steps[n] = [@ EXCEPT !.synced = TRUE]] = row
          <6>1. SUFFICES ASSUME q = <<>>
                         PROVE  [row EXCEPT !.steps[n] = [row.steps[n] EXCEPT !.synced = TRUE]]
                                  = row
            OBVIOUS
          <6>2. [row.steps[n] EXCEPT !.synced = TRUE] = row.steps[n]
            BY <3>1, <6>1, EmptyQueueSynced
          <6>3. [row EXCEPT !.steps[n] = row.steps[n]] = row
            BY <3>1 DEF Row
          <6>. QED
            BY <6>2, <6>3
        <5>4. row' = row \/ row' = DropIfDone(row, SeriesOpen)
          BY <2>2, <2>6, <3>1, <4>1, <4>3, <5>3
          DEF MarkStepSynced, DiscardQueuedEvent, Row
        <5>. QED
          BY <5>1, <5>2, <5>4
      <4>. QED
        BY <4>2, <4>3
    <3>3. \/ Known(brain, outcome, n)
          \/ \A j \in 1..Len(q) : q[j].status \in Terminal => \E i \in 1..Len(t) : t[i] = q[j]
      <4>1. CASE t = q
        BY <4>1
      <4>2. CASE t # q
        <5>1. q # <<>> /\ t = Tail(q)
              /\ (q[1] = EventOf(m) \/ req["flush"].ans = "obsolete")
          BY <3>2, <4>2
        <5>2. Len(q) \in Nat \ {0} /\ q[1] \in Event
          BY <3>1, <5>1, EmptySeq
        <5>3. CASE q[1].status \in Terminal
          <6>1. q[1] = EventOf(m) \/ Known(brain, outcome, n)
            BY <2>1, <2>6, <5>1 DEF FlushHead, Accounted
          <6>2. Genuine(row, outcome, n, q[1])
            BY <2>1, <2>6, <5>2 DEF QueueGenuine
          <6>3. row.steps[n].status = q[1].status
            BY <2>6, <5>3, <6>2 DEF Genuine, Terminal, RUNNING, SUCCEEDED, FAILED
          <6>4. outcome[n] \in Terminal
            BY <2>1, <2>6, <5>3, <6>3 DEF Told
          <6>5. CASE q[1] = EventOf(m)
            <7>1. m.status \in Terminal
              BY <5>3, <6>5 DEF EventOf
            <7>2. Known(brain, outcome, n)
              BY <2>1, <6>4, <7>1 DEF Answered, Callers
            <7>. QED
              BY <7>2
          <6>. QED
            BY <6>1, <6>5
        <5>4. CASE q[1].status \notin Terminal
          <6>1. /\ Len(t) = Len(q) - 1
                /\ \A i \in 1..Len(t) : t[i] = q[i + 1]
            BY <3>1, <5>1, HeadTailProperties
          <6>2. ASSUME NEW j \in 1..Len(q), q[j].status \in Terminal
                PROVE  \E i \in 1..Len(t) : t[i] = q[j]
            <7>1. j # 1
              BY <5>4, <6>2
            <7>2. j - 1 \in 1..Len(t) /\ (j - 1) + 1 = j
              BY <5>2, <6>1, <7>1
            <7>. QED
              BY <6>1, <7>2
          <6>. QED
            BY <6>2
        <5>. QED
          BY <5>3, <5>4
      <4>. QED
        BY <4>1, <4>2
    <3>4. RowLess /\ OutcomeKept'
      <4>1. LET x == [row EXCEPT !.steps[n] = WithQueue(@, t)]
            IN  row' = x \/ row' = DropIfDone(x, SeriesOpen)
        BY <3>2
      <4>2. Thinned(t, row.steps[n].queue)
        BY <3>2
      <4>3. \/ Known(brain, outcome, n)
            \/ \A j \in 1..Len(row.steps[n].queue) :
                  row.steps[n].queue[j].status \in Terminal
                    => \E i \in 1..Len(t) : t[i] = row.steps[n].queue[j]
        BY <3>3
      <4>. HIDE DEF n, IInv
      <4>. QED
        BY <1>1, <2>1, <2>6, <4>1, <4>2, <4>3, TakeOff
    <3>. QED
      BY <1>1, <1>4, <2>2, <2>3, <2>4, <3>4, FlushFrame
  <2>. QED
    BY <2>5, <2>6
<1>8. CASE FlushQueuesEmpty \/ FlushSnapshot
  <2>1. /\ row' = row /\ req' = req /\ ex' = ex
        /\ fl'.pc \in {"snapshot", "intents"} /\ fl'.by = "thread"
    BY <1>2, <1>8 DEF FlushQueuesEmpty, FlushSnapshot, Flushers
  <2>2. FlushHead'
    BY <2>1 DEF FlushHead
  <2>. QED
    BY <1>1, <1>3, <2>1, <2>2, FlushFrame
<1>9. CASE FlushSkipIntent
  <2>1. /\ req' = req /\ ex' = ex /\ fl'.pc = "intents" /\ fl'.by = "thread"
    BY <1>2, <1>9 DEF FlushSkipIntent, Flushers
  <2>2. FlushHead'
    BY <2>1 DEF FlushHead
  <2>3. RowLess /\ OutcomeKept'
    <3>1. CASE row' = row
      BY <1>3, <3>1
    <3>2. CASE row' = MarkIntentSynced(row, "running", SeriesOpen)
      BY <1>1, <3>2, MarkIntentWire, WireKeeps
    <3>. QED
      BY <1>9, <3>1, <3>2 DEF FlushSkipIntent
  <2>. QED
    BY <1>1, <2>1, <2>2, <2>3, FlushFrame
<1>10. CASE FlushPostIntent
  <2>1. /\ row' = row /\ ex' = ex /\ fl'.pc = "intent" /\ fl'.by = "thread"
        /\ req'["executor"] = req["executor"]
        /\ req'["flush"] = Sent(IntentMsg(fl.jobs[1].status))
    BY <1>2, <1>10 DEF FlushPostIntent, Flushers, Callers
  <2>2. req'["flush"].ans = "sent" /\ GenuineMsg(row', outcome', req'["flush"].msg)
    BY <2>1 DEF Sent, GenuineMsg, IntentMsg
  <2>3. FlushHead'
    BY <2>1 DEF FlushHead
  <2>. QED
    BY <1>1, <1>3, <2>1, <2>2, <2>3, FlushFrame
<1>11. CASE FlushIntentAnswered
  <2>1. /\ ex' = ex /\ fl'.pc = "intents" /\ fl'.by = "thread"
        /\ req'["executor"] = req["executor"] /\ req'["flush"] = NoReq
        /\ row' = MarkIntentSynced(row, req["flush"].msg.wire, SeriesOpen)
    BY <1>2, <1>11 DEF FlushIntentAnswered, Flushers, Callers
  <2>2. FlushHead'
    BY <2>1 DEF FlushHead
  <2>3. RowLess /\ OutcomeKept'
    BY <1>1, <2>1, MarkIntentWire, WireKeeps
  <2>. QED
    BY <1>1, <1>4, <2>1, <2>2, <2>3, FlushFrame
<1>12. CASE FlushGivesUp \/ FlushEnd
  <2>1. /\ row' = row /\ ex' = ex /\ fl' = FlushIdle
        /\ req'["executor"] = req["executor"]
        /\ req'["flush"] = req["flush"] \/ req'["flush"] = NoReq
    BY <1>2, <1>12 DEF FlushGivesUp, FlushEnd, FlushReturns, Callers
  <2>2. fl'.by = "thread" /\ FlushHead'
    BY <2>1 DEF FlushHead, FlushIdle
  <2>. QED
    BY <1>1, <1>3, <1>4, <2>1, <2>2, FlushFrame
<1>. QED
  BY <1>5, <1>6, <1>7, <1>8, <1>9, <1>10, <1>11, <1>12 DEF FlushStep

-----------------------------------------------------------------------------
(* The executor.                                                           *)

(* A new job leaves the pool with genuine jobs only.                       *)
LEMMA PoolGrows ==
  ASSUME NEW q \in Seq(Msgs), NEW m \in Msgs, NEW r, NEW out,
         \A i \in 1..Len(q) : GenuineMsg(r, out, q[i]), GenuineMsg(r, out, m)
  PROVE  \A i \in 1..Len(Append(q, m)) : GenuineMsg(r, out, Append(q, m)[i])
<1>1. /\ Len(q) \in Nat /\ Len(Append(q, m)) = Len(q) + 1
      /\ \A i \in 1..(Len(q) + 1) : Append(q, m)[i] = IF i = Len(q) + 1 THEN m ELSE q[i]
  OBVIOUS
<1>. QED
  BY <1>1

(* A step of the executor that sets no step's status keeps the invariant   *)
(* if it takes events only off queues whose outcome Brain knows.           *)
LEMMA ExecutorFrame ==
  ASSUME IInv, RowLess, brain' = brain, fl' = fl, late' = late,
         req'["flush"] = req["flush"],
         \/ req'["executor"] = req["executor"]
         \/ /\ req'["executor"].ans \in {"none", "sent"}
            /\ GenuineMsg(row', outcome', req'["executor"].msg),
         pool' = pool \/ \E w \in IntentStatus : Submit(IntentMsg(w)),
         row' # NoRow => \A k \in Steps : \/ row'.steps[k].queue = row.steps[k].queue
                                          \/ Known(brain, outcome, k),
         OutcomeKept', Copied', Reporting', ex'.pc \notin {"beat", "gate", "flush", "flushing"},
         ex'.next \in {"idle", "advance", "failing"}
  PROVE  OutcomeInv'
<1>. USE DEF IInv, OutcomeInv
<1>1. Told' /\ Numbered' /\ QueueGenuine' /\ BrainGenuine'
  BY LessKeeps
<1>2. MsgsGenuine'
  <2>1. /\ \A m \in late : GenuineMsg(row', outcome', m)
        /\ \A i \in 1..Len(pool) : GenuineMsg(row', outcome', pool[i])
        /\ \A c \in Callers : GenuineMsg(row', outcome', req[c].msg)
    BY MsgsLess
  <2>2. \A i \in 1..Len(pool') : GenuineMsg(row', outcome', pool'[i])
    <3>1. CASE pool' = pool
      BY <2>1, <3>1
    <3>2. CASE \E w \in IntentStatus : Submit(IntentMsg(w))
      <4>1. PICK w \in IntentStatus : pool' = Append(pool, IntentMsg(w))
        BY <3>2 DEF Submit
      <4>2. IntentMsg(w) \in Msgs /\ GenuineMsg(row', outcome', IntentMsg(w))
        BY Messages DEF IntentMsg, GenuineMsg
      <4>3. pool \in Seq(Msgs)
        BY DEF Inv, TypeOK
      <4>. QED
        BY <2>1, <4>1, <4>2, <4>3, PoolGrows
    <3>. QED
      BY <3>1, <3>2
  <2>. QED
    BY <2>1, <2>2 DEF MsgsGenuine, Callers
<1>3. Answered'
  BY DEF Answered, Accounted, Callers, RowLess
<1>4. FlushHead'
  <2>1. fl.pc = "step" => req["flush"].msg.n \in Steps
    BY DEF Inv, FlushCall, StepMsgs
  <2>. QED
    BY <2>1 DEF FlushHead, RowLess
<1>5. OneShot'
  BY DEF OneShot
<1>. QED
  BY <1>1, <1>2, <1>3, <1>4, <1>5

(* A status set by the executor, in the row and in its copy of the plan.   *)
LEMMA StatusFrame ==
  ASSUME OneShotPlan, IInv, row # NoRow, NEW n \in Steps, ex.pc # "idle",
         ex.plan[n] \in {WAITING, RUNNING},
         NEW st \in {RUNNING, SUCCEEDED, FAILED}, row' = SetStepStatus(row, n, st),
         outcome' = [outcome EXCEPT ![n] = IF st \in Terminal THEN st ELSE @],
         brain' = brain, fl' = fl, late' = late, req' = req,
         ex'.plan = [ex.plan EXCEPT ![n] = st]
  PROVE  /\ row' # NoRow
         /\ Told' /\ Numbered' /\ Copied' /\ QueueGenuine' /\ BrainGenuine'
         /\ Answered' /\ FlushHead' /\ OutcomeKept'
         /\ \A m \in late : GenuineMsg(row', outcome', m)
         /\ \A i \in 1..Len(pool) : GenuineMsg(row', outcome', pool[i])
         /\ \A c \in Callers : GenuineMsg(row', outcome', req[c].msg)
         /\ st \in Terminal => /\ Genuine(row', outcome', n, EventIn(row', n, st))
                               /\ EventIn(row', n, st).status = st
<1>. USE DEF IInv, OutcomeInv
<1>1. row.steps[n].status \in {WAITING, RUNNING}
  BY DEF Copied
<1>2. /\ row' \in Row /\ row' # NoRow
      /\ row'.steps[n].status = st
      /\ \A k \in Steps : k # n => row'.steps[k] = row.steps[k]
      /\ Told' /\ Numbered' /\ QueueGenuine' /\ BrainGenuine' /\ OutcomeKept'
      /\ \A k \in Steps : \A ev : Genuine(row, outcome, k, ev)
                                    => Genuine(row', outcome', k, ev)
      /\ \A k \in Steps : outcome'[k] # outcome[k] => k = n
      /\ \A ev : Genuine(row, outcome, n, ev) => ev.status = RUNNING
      /\ outcome[n] \notin Terminal
      /\ \A k \in Steps : row.steps[k].queue # <<>> =>
            /\ row'.steps[k].queue # <<>>
            /\ row'.steps[k].queue[1] = row.steps[k].queue[1]
      /\ st \in Terminal => /\ outcome'[n] = st
                            /\ Genuine(row', outcome', n, EventIn(row', n, st))
                            /\ EventIn(row', n, st).status = st
  <2>. HIDE DEF IInv
  <2>. QED
    BY <1>1, StatusSet
<1>3. /\ late \subseteq Msgs /\ pool \in Seq(Msgs) /\ req \in [Callers -> Calls]
      /\ outcome \in [Steps -> StepStatus] /\ ex.plan \in [Steps -> StepStatus]
  BY DEF Inv, TypeOK, Executors
<1>4. /\ \A m \in late : m \in Msgs
      /\ \A i \in 1..Len(pool) : pool[i] \in Msgs
      /\ \A c \in Callers : req[c].msg \in Msgs
  BY <1>3 DEF Calls
<1>5. \A m \in Msgs : GenuineMsg(row, outcome, m) => GenuineMsg(row', outcome', m)
  BY <1>2, StepMessage DEF GenuineMsg
<1>6. /\ \A m \in late : GenuineMsg(row', outcome', m)
      /\ \A i \in 1..Len(pool) : GenuineMsg(row', outcome', pool[i])
      /\ \A c \in Callers : GenuineMsg(row', outcome', req[c].msg)
  BY <1>4, <1>5 DEF MsgsGenuine
<1>7. \A k \in Steps : Known(brain, outcome, k) => Known(brain', outcome', k)
  BY <1>2 DEF Known
<1>8. Answered'
  <2>1. SUFFICES ASSUME NEW c \in Callers, Accounted(c), req[c].msg.kind = "step",
                        req[c].msg.status \in Terminal, outcome'[req[c].msg.n] \in Terminal
                 PROVE  Known(brain', outcome', req[c].msg.n)
    BY DEF Answered, Accounted
  <2>2. /\ req[c].msg.n \in Steps
        /\ EventOf(req[c].msg).status = req[c].msg.status
    BY <1>4, <2>1, StepMessage
  <2>3. Genuine(row, outcome, req[c].msg.n, EventOf(req[c].msg))
    BY <2>1 DEF MsgsGenuine, GenuineMsg
  <2>4. req[c].msg.n # n
    BY <1>2, <2>1, <2>2, <2>3 DEF Terminal, RUNNING, SUCCEEDED, FAILED
  <2>5. Known(brain, outcome, req[c].msg.n)
    BY <1>2, <2>1, <2>2, <2>4 DEF Answered
  <2>. QED
    BY <1>7, <2>2, <2>5
<1>9. FlushHead'
  <2>1. fl.pc = "step" => req["flush"].msg.n \in Steps
    BY DEF Inv, FlushCall, StepMsgs
  <2>. QED
    BY <1>2, <1>7, <2>1 DEF FlushHead
<1>10. Copied'
  <2>1. SUFFICES ASSUME NEW k \in Steps
                 PROVE  /\ ex'.plan[k] = row'.steps[k].status
                        /\ outcome'[k] \in Terminal => ex'.plan[k] = outcome'[k]
    BY DEF Copied
  <2>2. CASE k = n
    <3>1. ex'.plan[k] = st
      BY <1>3, <2>2
    <3>2. outcome'[k] = IF st \in Terminal THEN st ELSE outcome[k]
      BY <1>3, <2>2
    <3>. QED
      BY <1>2, <2>2, <3>1, <3>2
  <2>3. CASE k # n
    BY <1>2, <1>3, <2>3 DEF Copied
  <2>. QED
    BY <2>2, <2>3
<1>. QED
  BY <1>2, <1>6, <1>8, <1>9, <1>10

(* A reported result.                                                      *)
LEMMA ReportKeeps ==
  ASSUME OneShotPlan, IInv, NEW n \in Steps, NEW st \in Terminal,
         NEW next \in {"advance", "failing"}, Report(n, st, next),
         ex.pc # "idle", ex.plan[n] \in {WAITING, RUNNING},
         ExRest, req' = req
  PROVE  OutcomeInv'
<1>. DEFINE ev == EventIn(row', n, st)
<1>. USE DEF IInv, OutcomeInv, ExRest
<1>1. /\ row' = SetStepStatus(row, n, st)
      /\ outcome' = IF row = NoRow THEN outcome ELSE [outcome EXCEPT ![n] = st]
      /\ ex' = [ex EXCEPT !.pc = IF st = FAILED THEN next ELSE "report",
                          !.next = next, !.n = n, !.ev = ev, !.plan[n] = st]
      /\ IF st = FAILED THEN Submit(StepMsg(n, ev)) ELSE pool' = pool
      /\ brain' = brain /\ fl' = fl /\ late' = late
  BY DEF Report, OneShotPlan
<1>2. /\ ex \in Executors /\ ex.plan \in [Steps -> StepStatus] /\ pool \in Seq(Msgs)
      /\ outcome \in [Steps -> StepStatus] /\ fl.by = "thread"
  BY DEF Inv, TypeOK, Executors, OneShot
<1>3. ex' \in Executors
  <2>1. next \in ExPC
    BY DEF ExPC
  <2>. QED
    BY <2>1, ReportTyped
<1>. HIDE DEF ev
<1>4. /\ ex'.pc = IF st = FAILED THEN next ELSE "report"
      /\ ex'.next = next /\ ex'.n = n /\ ex'.ev = ev
      /\ ex'.plan = [ex.plan EXCEPT ![n] = st] /\ ex'.plan[n] = st
  BY <1>1, <1>2 DEF Executors
<1>5. /\ Told' /\ Numbered' /\ Copied' /\ QueueGenuine' /\ BrainGenuine'
      /\ Answered' /\ FlushHead' /\ OutcomeKept'
      /\ \A m \in late : GenuineMsg(row', outcome', m)
      /\ \A i \in 1..Len(pool) : GenuineMsg(row', outcome', pool[i])
      /\ \A c \in Callers : GenuineMsg(row', outcome', req[c].msg)
      /\ Genuine(row', outcome', n, ev) /\ ev.status = st
  <2>1. CASE row # NoRow
    <3>1. st \in {RUNNING, SUCCEEDED, FAILED}
      BY DEF Terminal
    <3>2. outcome' = [outcome EXCEPT ![n] = IF st \in Terminal THEN st ELSE @]
      BY <1>1, <2>1
    <3>. HIDE DEF IInv
    <3>. QED
      BY <1>1, <1>4, <2>1, <3>1, <3>2, StatusFrame DEF ev
  <2>2. CASE row = NoRow
    <3>1. row' = NoRow /\ outcome' = outcome /\ RowLess
      BY <1>1, <2>2 DEF SetStepStatus, RowLess
    <3>2. outcome[n] \notin Terminal
      BY DEF Copied, Terminal, WAITING, RUNNING, SUCCEEDED, FAILED
    <3>3. ev.status = st /\ Genuine(row', outcome', n, ev)
      BY <3>1, <3>2 DEF ev, EventIn, Genuine
    <3>4. Told' /\ Numbered' /\ QueueGenuine' /\ BrainGenuine'
      BY <1>1, <3>1, LessKeeps
    <3>5. /\ \A m \in late : GenuineMsg(row', outcome', m)
          /\ \A i \in 1..Len(pool) : GenuineMsg(row', outcome', pool[i])
          /\ \A c \in Callers : GenuineMsg(row', outcome', req[c].msg)
      BY <3>1, MsgsLess
    <3>6. Copied'
      BY <1>2, <1>4, <3>1, <3>2 DEF Copied
    <3>7. Answered' /\ FlushHead' /\ OutcomeKept'
      BY <1>1, <2>2, <3>1 DEF Answered, Accounted, FlushHead, OutcomeKept
    <3>. QED
      BY <3>3, <3>4, <3>5, <3>6, <3>7
  <2>. QED
    BY <2>1, <2>2
<1>6. MsgsGenuine'
  <2>1. \A i \in 1..Len(pool') : GenuineMsg(row', outcome', pool'[i])
    <3>1. CASE st # FAILED
      BY <1>1, <1>5, <3>1
    <3>2. CASE st = FAILED
      <4>1. ev \in Event
        BY <1>3, <1>4 DEF Executors
      <4>2. StepMsg(n, ev) \in Msgs
        BY <4>1, Messages
      <4>3. GenuineMsg(row', outcome', StepMsg(n, ev))
        <5>1. StepMsg(n, ev).n = n /\ EventOf(StepMsg(n, ev)) = ev
          BY <4>1 DEF StepMsg, EventOf, Event
        <5>. QED
          BY <1>5, <5>1 DEF GenuineMsg
      <4>4. pool' = Append(pool, StepMsg(n, ev))
        BY <1>1, <3>2 DEF Submit
      <4>. QED
        BY <1>2, <1>5, <4>2, <4>3, <4>4, PoolGrows
    <3>. QED
      BY <3>1, <3>2
  <2>. QED
    BY <1>1, <1>5, <2>1 DEF MsgsGenuine
<1>7. Reporting'
  BY <1>4, <1>5 DEF Reporting
<1>8. OneShot'
  BY <1>1, <1>2, <1>4 DEF OneShot
<1>. QED
  BY <1>5, <1>6, <1>7, <1>8

(* The executor keeps the invariant.                                       *)
LEMMA ExecutorKeeps ==
  ASSUME OneShotPlan, IInv, ExStep
  PROVE  OutcomeInv'
<1>. USE DEF IInv, OutcomeInv, ExRest
<1>1. /\ ex \in Executors /\ ex.n \in Steps /\ ex.plan \in [Steps -> StepStatus]
      /\ req \in [Callers -> Calls] /\ ~Recurring
      /\ ex.pc \notin {"beat", "gate", "flush", "flushing"}
      /\ ex.next \in {"idle", "advance", "failing"}
  BY DEF Inv, TypeOK, Executors, OneShot, OneShotPlan
<1>2. ASSUME row' = row, outcome' = outcome, brain' = brain
      PROVE  /\ RowLess /\ OutcomeKept'
             /\ row' # NoRow => \A k \in Steps : row'.steps[k].queue = row.steps[k].queue
  BY <1>2 DEF RowLess, OutcomeKept
<1>3. ASSUME WireOnly
      PROVE  /\ RowLess /\ OutcomeKept'
             /\ row' # NoRow => \A k \in Steps : row'.steps[k].queue = row.steps[k].queue
  BY <1>3, WireKeeps DEF WireOnly
<1>4. NoReq.ans = "none" /\ GenuineMsg(row', outcome', NoReq.msg)
  BY DEF NoReq, GenuineMsg, IntentMsg
<1>5. CASE ExTake
  <2>1. /\ row' = row /\ outcome' = outcome /\ brain' = brain /\ fl' = fl /\ late' = late
        /\ req' = req /\ pool' = pool /\ row # NoRow
        /\ ex'.pc = "advance" /\ ex'.next = "idle" /\ ex'.plan = RowStatus(row)
    BY <1>5 DEF ExTake, ExIdle
  <2>2. Copied'
    BY <2>1 DEF Copied, RowStatus, Told, Terminal, WAITING, SUCCEEDED, FAILED
  <2>3. Reporting'
    BY <2>1 DEF Reporting
  <2>. QED
    BY <1>2, <2>1, <2>2, <2>3, ExecutorFrame
<1>6. CASE ExAdvanced \/ ExLoopEnds
  <2>1. /\ row' = row /\ outcome' = outcome /\ brain' = brain /\ fl' = fl /\ late' = late
        /\ req' = req /\ pool' = pool /\ ex.pc # "idle"
        /\ ex'.pc \in {"find", "final"} /\ ex'.next = ex.next /\ ex'.plan = ex.plan
    BY <1>1, <1>6 DEF ExAdvanced, ExLoopEnds, Executors
  <2>2. Copied' /\ Reporting'
    BY <2>1 DEF Copied, Reporting
  <2>. QED
    BY <1>1, <1>2, <2>1, <2>2, ExecutorFrame
<1>7. CASE ExIntentRunning
  <2>1. /\ outcome' = outcome /\ brain' = brain /\ fl' = fl /\ late' = late
        /\ req' = req /\ pool' = pool /\ ex.pc = "starting"
        /\ ex'.pc = "capability" /\ ex'.next = ex.next /\ ex'.plan = ex.plan /\ ex'.n = ex.n
        /\ row' = SetIntentStatus(row, "running")
    BY <1>1, <1>7 DEF ExIntentRunning, Executors
  <2>2. WireOnly
    BY <2>1, SetIntentWire DEF IntentStatus
  <2>3. Copied' /\ Reporting'
    BY <2>1, <2>2 DEF Copied, Reporting, WireOnly
  <2>. QED
    BY <1>1, <1>3, <2>1, <2>2, <2>3, ExecutorFrame
<1>8. ASSUME NEW n \in Steps, ExMissed(n) PROVE OutcomeInv'
  <2>1. /\ FAILED \in Terminal /\ Report(n, FAILED, "advance") /\ req' = req
        /\ ex.pc # "idle" /\ ex.plan[n] \in {WAITING, RUNNING} /\ ExRest
    BY <1>8 DEF ExMissed, Terminal
  <2>. QED
    BY <2>1, ReportKeeps
<1>9. ASSUME NEW n \in Steps, ExUnresolved(n) PROVE OutcomeInv'
  <2>1. /\ FAILED \in Terminal /\ Report(n, FAILED, "failing") /\ req' = req
        /\ ex.pc # "idle" /\ ex.plan[n] \in {WAITING, RUNNING} /\ ExRest
    BY <1>9 DEF ExUnresolved, Eligible, Terminal
  <2>. QED
    BY <2>1, ReportKeeps
<1>10. CASE ExCapabilityEnds
  <2>1. /\ ex.pc = "capability" /\ ex.plan[ex.n] = RUNNING /\ req' = req /\ ExRest
    BY <1>10 DEF ExCapabilityEnds, Reporting
  <2>2. PICK st \in Terminal : Report(ex.n, st, IF st = FAILED THEN "failing" ELSE "advance")
    BY <1>1, <1>10 DEF ExCapabilityEnds
  <2>. QED
    BY <1>1, <2>1, <2>2, ReportKeeps
<1>11. ASSUME NEW n \in Steps, ExStart(n) PROVE OutcomeInv'
  <2>1. /\ row' = SetStepStatus(row, n, RUNNING) /\ outcome' = outcome /\ brain' = brain
        /\ fl' = fl /\ late' = late /\ req' = req /\ pool' = pool
        /\ ex.pc # "idle" /\ ex.plan[n] \in {WAITING, RUNNING}
        /\ ex'.pc = "starting" /\ ex'.next = ex.next /\ ex'.n = n
        /\ ex'.plan = [ex.plan EXCEPT ![n] = RUNNING] /\ ex'.plan[n] = RUNNING
    BY <1>1, <1>11 DEF ExStart, Eligible, Executors
  <2>2. Reporting'
    BY <2>1 DEF Reporting
  <2>3. CASE row # NoRow
    <3>1. /\ RUNNING \notin Terminal
          /\ outcome' = [outcome EXCEPT ![n] = IF RUNNING \in Terminal THEN RUNNING ELSE @]
      <4>1. outcome \in [Steps -> StepStatus]
        BY DEF Inv, TypeOK
      <4>. QED
        BY <2>1, <4>1 DEF Terminal, RUNNING, SUCCEEDED, FAILED
    <3>2. /\ Told' /\ Numbered' /\ Copied' /\ QueueGenuine' /\ BrainGenuine'
          /\ Answered' /\ FlushHead' /\ OutcomeKept'
          /\ \A m \in late : GenuineMsg(row', outcome', m)
          /\ \A i \in 1..Len(pool) : GenuineMsg(row', outcome', pool[i])
          /\ \A c \in Callers : GenuineMsg(row', outcome', req[c].msg)
      <4>. HIDE DEF IInv
      <4>. QED
        BY <2>1, <2>3, <3>1, StatusFrame
    <3>3. MsgsGenuine' /\ OneShot'
      BY <1>1, <2>1, <3>2 DEF MsgsGenuine, OneShot
    <3>. QED
      BY <2>2, <3>2, <3>3
  <2>4. CASE row = NoRow
    <3>1. row' = row
      BY <2>1, <2>4 DEF SetStepStatus
    <3>2. Copied'
      <4>1. outcome[n] \notin Terminal
        BY <2>1 DEF Copied, Terminal, WAITING, RUNNING, SUCCEEDED, FAILED
      <4>. QED
        BY <1>1, <2>1, <2>4, <3>1, <4>1 DEF Copied
    <3>. QED
      BY <1>1, <1>2, <2>1, <2>2, <3>1, <3>2, ExecutorFrame
  <2>. QED
    BY <2>3, <2>4
<1>12. CASE ExPost
  <2>. DEFINE q == IF row = NoRow THEN <<>> ELSE row.steps[ex.n].queue
              i == FirstWith(q, ex.ev.status)
              e == IF i = 0 THEN ex.ev ELSE q[i]
  <2>1. /\ row' = row /\ outcome' = outcome /\ brain' = brain /\ fl' = fl /\ late' = late
        /\ pool' = pool /\ ex.pc = "report"
        /\ ex'.pc = "posted" /\ ex'.next = ex.next /\ ex'.plan = ex.plan
        /\ ex'.n = ex.n /\ ex'.ev = ex.ev
        /\ req'["flush"] = req["flush"] /\ req'["executor"] = Sent(StepMsg(ex.n, e))
    BY <1>1, <1>12 DEF ExPost, Executors, Callers
  <2>2. /\ ex.ev \in Event /\ ex.ev.status \in Terminal /\ ex.plan[ex.n] = ex.ev.status
        /\ Genuine(row, outcome, ex.n, ex.ev)
    BY <1>1, <2>1 DEF Reporting, Executors
  <2>3. q \in Seq(Event)
    BY <1>1, StepFacts
  <2>4. e \in Event /\ e.status = ex.ev.status /\ Genuine(row, outcome, ex.n, e)
    <3>1. CASE i = 0
      BY <2>2, <3>1
    <3>2. CASE i # 0
      <4>. HIDE DEF q
      <4>1. i \in 0..Len(q) /\ q[i].status = ex.ev.status
        BY <2>3, <3>2, FirstWithIndex
      <4>. HIDE DEF i
      <4>2. i \in 1..Len(q) /\ q[i] \in Event
        BY <2>3, <3>2, <4>1
      <4>3. row # NoRow
        BY <4>2, EmptySeq DEF q
      <4>4. Genuine(row, outcome, ex.n, q[i])
        BY <1>1, <4>2, <4>3 DEF QueueGenuine, q
      <4>. QED
        BY <3>2, <4>1, <4>2, <4>4
    <3>. QED
      BY <3>1, <3>2
  <2>. HIDE DEF e, q, i
  <2>. DEFINE m == StepMsg(ex.n, e)
  <2>5. /\ m.kind = "step" /\ m.n = ex.n /\ m.status = ex.ev.status /\ EventOf(m) = e
        /\ req'["executor"].ans = "sent" /\ req'["executor"].msg = m
    BY <2>1, <2>4 DEF StepMsg, EventOf, Event, Sent
  <2>6. GenuineMsg(row', outcome', m)
    BY <2>1, <2>4, <2>5 DEF GenuineMsg
  <2>7. Copied' /\ Reporting'
    BY <2>1, <2>2, <2>5 DEF Copied, Reporting
  <2>. QED
    BY <1>1, <1>2, <2>1, <2>5, <2>6, <2>7, ExecutorFrame
<1>13. ASSUME ex.pc \in {"posted", "discard"}, row # NoRow,
              ex.pc = "posted" => Accounted("executor")
       PROVE  Known(brain, outcome, ex.n)
  <2>1. ex.plan[ex.n] \in Terminal /\ ex.plan[ex.n] = row.steps[ex.n].status
    BY <1>1, <1>13 DEF Reporting, Copied
  <2>2. outcome[ex.n] \in Terminal
    BY <1>1, <1>13, <2>1 DEF Told
  <2>. QED
    BY <1>13, <2>2 DEF Reporting, Answered, Callers
<1>14. CASE ExPostAnswered
  <2>1. /\ row' = DiscardLeadingNonTerminal(row, ex.n)
        /\ outcome' = outcome /\ brain' = brain /\ fl' = fl /\ late' = late
        /\ pool' = pool /\ ex.pc = "posted" /\ Accounted("executor")
        /\ ex'.pc = "discard" /\ ex'.next = ex.next /\ ex'.plan = ex.plan
        /\ ex'.n = ex.n /\ ex'.ev = ex.ev
        /\ req'["flush"] = req["flush"] /\ req'["executor"] = NoReq
    BY <1>1, <1>14 DEF ExPostAnswered, Executors, Callers
  <2>2. /\ RowLess /\ OutcomeKept'
        /\ row' # NoRow => \A k \in Steps : \/ row'.steps[k].queue = row.steps[k].queue
                                            \/ Known(brain, outcome, k)
    <3>1. CASE row' = row
      BY <1>2, <2>1, <3>1
    <3>2. CASE row' # row
      <4>. DEFINE t == WithoutLeading(row.steps[ex.n].queue)
      <4>1. row # NoRow /\ row' = [row EXCEPT !.steps[ex.n] = WithQueue(@, t)]
        BY <2>1, <3>2 DEF DiscardLeadingNonTerminal
      <4>2. Known(brain, outcome, ex.n)
        BY <1>13, <2>1, <4>1
      <4>3. Thinned(t, row.steps[ex.n].queue)
        BY <1>1, <4>1, StepFacts, WithoutLeadingThinned
      <4>. HIDE DEF t, IInv
      <4>4. /\ RowLess /\ OutcomeKept'
            /\ row' # NoRow => \A k \in Steps : k # ex.n => row'.steps[k] = row.steps[k]
        BY <1>1, <2>1, <4>1, <4>2, <4>3, TakeOff
      <4>. QED
        BY <4>2, <4>4
    <3>. QED
      BY <3>1, <3>2
  <2>3. Copied'
    BY <2>1, <2>2 DEF Copied, RowLess
  <2>4. Reporting'
    <3>1. Genuine(row', outcome', ex.n, ex.ev)
      BY <1>1, <2>1, <2>2, GenuineLess DEF Reporting
    <3>2. outcome[ex.n] \in Terminal => Known(brain, outcome, ex.n)
      BY <2>1 DEF Reporting, Answered, Callers
    <3>. QED
      BY <2>1, <3>1, <3>2 DEF Reporting
  <2>. QED
    BY <1>1, <1>4, <2>1, <2>2, <2>3, <2>4, ExecutorFrame
<1>15. CASE ExDiscard
  <2>1. /\ row' = DiscardMatchingStepEvent(row, ex.n, ex.ev.status, SeriesOpen)
        /\ outcome' = outcome /\ brain' = brain /\ fl' = fl /\ late' = late
        /\ pool' = pool /\ ex.pc = "discard" /\ req' = req
        /\ ex'.pc = ex.next /\ ex'.next = ex.next /\ ex'.plan = ex.plan
    BY <1>1, <1>15 DEF ExDiscard, Executors
  <2>2. /\ RowLess /\ OutcomeKept'
        /\ row' # NoRow => \A k \in Steps : \/ row'.steps[k].queue = row.steps[k].queue
                                            \/ Known(brain, outcome, k)
    <3>1. CASE row' = row
      BY <1>2, <2>1, <3>1
    <3>2. CASE row' # row
      <4>. DEFINE q == row.steps[ex.n].queue
                  i == FirstWith(q, ex.ev.status)
                  t == RemoveAt(q, i)
      <4>1. /\ row # NoRow /\ i # 0
            /\ row' = DropIfDone([row EXCEPT !.steps[ex.n] = WithQueue(@, RemoveAt(@.queue, i))],
                                 SeriesOpen)
        BY <2>1, <3>2 DEF DiscardMatchingStepEvent
      <4>2. Known(brain, outcome, ex.n)
        BY <1>13, <2>1, <4>1
      <4>3. row \in Row /\ q \in Seq(Event) /\ Len(q) \in Nat
        BY <1>1, <4>1, StepFacts
      <4>4. row' = DropIfDone([row EXCEPT !.steps[ex.n] = WithQueue(@, t)], SeriesOpen)
        BY <4>1, <4>3
      <4>5. i \in 1..Len(q)
        <5>. HIDE DEF q
        <5>1. i \in 0..Len(q)
          BY <4>3, FirstWithIndex
        <5>. HIDE DEF i
        <5>. QED
          BY <4>1, <4>3, <5>1
      <4>6. Thinned(t, q)
        <5>. HIDE DEF i, q
        <5>. QED
          BY <4>3, <4>5, RemoveAtThinned
      <4>. HIDE DEF t, IInv, i
      <4>7. /\ RowLess /\ OutcomeKept'
            /\ row' # NoRow => \A k \in Steps : k # ex.n => row'.steps[k] = row.steps[k]
        <5>1. LET x == [row EXCEPT !.steps[ex.n] = WithQueue(@, t)]
              IN  row' = x \/ row' = DropIfDone(x, SeriesOpen)
          BY <4>4
        <5>2. Thinned(t, row.steps[ex.n].queue)
          BY <4>6
        <5>3. row # NoRow /\ ex.n \in Steps /\ outcome' = outcome /\ brain' = brain
          BY <1>1, <2>1, <4>1
        <5>. HIDE DEF q
        <5>. QED
          BY <4>2, <5>1, <5>2, <5>3, TakeOff
      <4>. QED
        BY <4>2, <4>7
    <3>. QED
      BY <3>1, <3>2
  <2>3. Copied' /\ Reporting'
    BY <1>1, <2>1, <2>2 DEF Copied, RowLess, Reporting
  <2>. QED
    BY <1>1, <2>1, <2>2, <2>3, ExecutorFrame
<1>16. CASE ExPostFailed
  <2>1. /\ row' = row /\ outcome' = outcome /\ brain' = brain /\ fl' = fl /\ late' = late
        /\ pool' = pool /\ ex.pc = "posted"
        /\ ex'.pc = ex.next /\ ex'.next = ex.next /\ ex'.plan = ex.plan
        /\ req'["flush"] = req["flush"] /\ req'["executor"] = NoReq
    BY <1>1, <1>16 DEF ExPostFailed, Executors, Callers
  <2>2. Copied' /\ Reporting'
    BY <1>1, <2>1 DEF Copied, Reporting
  <2>. QED
    BY <1>1, <1>2, <1>4, <2>1, <2>2, ExecutorFrame
<1>17. CASE ExFailIntent
  <2>1. /\ row' = SetIntentStatus(row, "failed") /\ Submit(IntentMsg("failed"))
        /\ outcome' = outcome /\ brain' = brain /\ fl' = fl /\ late' = late
        /\ req' = req /\ ex.pc = "failing"
        /\ ex'.pc = "final" /\ ex'.next = ex.next /\ ex'.plan = ex.plan
    BY <1>1, <1>17 DEF ExFailIntent, CloseIntent, Executors
  <2>2. WireOnly
    BY <2>1, SetIntentWire DEF IntentStatus
  <2>3. Copied' /\ Reporting'
    BY <2>1, <2>2 DEF Copied, Reporting, WireOnly
  <2>4. \E w \in IntentStatus : Submit(IntentMsg(w))
    BY <2>1 DEF IntentStatus
  <2>. QED
    BY <1>1, <1>3, <2>1, <2>2, <2>3, <2>4, ExecutorFrame
<1>18. CASE ExFinalize
  <2>1. /\ outcome' = outcome /\ brain' = brain /\ fl' = fl /\ late' = late
        /\ req' = req /\ ex'.pc = "idle" /\ ex'.next = "idle"
    BY <1>18 DEF ExFinalize, ExIdle
  <2>2. Copied' /\ Reporting'
    BY <2>1 DEF Copied, Reporting
  <2>3. CASE FinalWire = "none"
    <3>1. row' = row /\ pool' = pool
      BY <1>18, <2>3 DEF ExFinalize
    <3>. QED
      BY <1>2, <2>1, <2>2, <3>1, ExecutorFrame
  <2>4. CASE FinalWire # "none"
    <3>1. FinalWire \in IntentStatus
      BY <2>4 DEF FinalWire, IntentStatus
    <3>2. row' = SetIntentStatus(row, FinalWire) /\ Submit(IntentMsg(FinalWire))
      BY <1>18, <2>4 DEF ExFinalize, CloseIntent
    <3>3. WireOnly
      BY <2>1, <3>1, <3>2, SetIntentWire
    <3>. QED
      BY <1>3, <2>1, <2>2, <3>1, <3>2, <3>3, ExecutorFrame
  <2>. QED
    BY <2>3, <2>4
<1>19. ~(ExSkipBeats \/ ExAdvanceBeat \/ ExSeriesDone \/ ExRearm)
  BY <1>1 DEF ExSkipBeats, ExAdvanceBeat, ExSeriesDone, ExRearm
<1>. QED
  BY <1>5, <1>6, <1>7, <1>8, <1>9, <1>10, <1>11, <1>12, <1>14, <1>15, <1>16, <1>17,
     <1>18, <1>19 DEF ExStep

-----------------------------------------------------------------------------
(* The rest, and the theorem.                                              *)

(* Pruning drops a row with empty queues; a crash loses threads, jobs and  *)
(* requests, but not the row.                                              *)
LEMMA HousekeepingKeeps ==
  ASSUME IInv, Prune \/ Crash
  PROVE  OutcomeInv'
<1>. USE DEF IInv, OutcomeInv
<1>1. CASE Prune
  <2>1. /\ outcome' = outcome /\ brain' = brain /\ fl' = fl /\ late' = late
        /\ req' = req /\ pool' = pool /\ ex' = ex /\ row # NoRow /\ row' = NoRow
        /\ \A n \in Steps : row.steps[n].queue = <<>>
    BY <1>1 DEF Prune, Prunable, Busy
  <2>2. RowLess /\ OutcomeKept'
    BY <2>1, WireKeeps DEF WireOnly
  <2>3. FlushHead' /\ fl'.by = "thread"
    BY <2>1 DEF FlushHead, OneShot
  <2>. QED
    BY <2>1, <2>2, <2>3, FlushFrame
<1>2. CASE Crash
  <2>1. /\ row' = row /\ outcome' = outcome /\ brain' = brain /\ pool' = <<>>
        /\ ex' = ExIdle /\ fl' = FlushIdle /\ req' = [c \in Callers |-> NoReq]
    BY <1>2 DEF Crash
  <2>2. PICK M \in SUBSET ({req[c].msg : c \in {d \in Callers : req[d].ans = "sent"}}
                             \cup {pool[i] : i \in InFlight}) : late' = late \cup M
    BY <1>2 DEF Crash
  <2>3. \A m \in late' : GenuineMsg(row, outcome, m)
    <3>1. \A i \in InFlight : i \in 1..Len(pool)
      BY DEF InFlight, Inv, TypeOK
    <3>. QED
      BY <2>2, <3>1 DEF MsgsGenuine
  <2>4. RowLess /\ OutcomeKept'
    BY <2>1 DEF RowLess, OutcomeKept
  <2>5. Told' /\ Numbered' /\ QueueGenuine' /\ BrainGenuine'
    BY <2>1, <2>4, LessKeeps
  <2>6. MsgsGenuine'
    <3>1. GenuineMsg(row, outcome, NoReq.msg)
      BY DEF NoReq, GenuineMsg, IntentMsg
    <3>2. Len(pool') = 0
      BY <2>1, EmptySeq
    <3>. QED
      BY <2>1, <2>3, <3>1, <3>2 DEF MsgsGenuine
  <2>7. Copied' /\ Answered' /\ FlushHead' /\ Reporting' /\ OneShot'
    BY <2>1 DEF Copied, Answered, Accounted, FlushHead, Reporting, OneShot,
                ExIdle, FlushIdle, NoReq
  <2>. QED
    BY <2>4, <2>5, <2>6, <2>7
<1>. QED
  BY <1>1, <1>2

(* It holds at the start: no event exists yet.                             *)
LEMMA InitOutcome ==
  ASSUME OneShotPlan, Init
  PROVE  OutcomeInv
<1>. DEFINE r == FromBrain("parsed", AllWaiting)
<1>1. Inv
  BY InitTyped
<1>2. row # NoRow => \A n \in Steps : /\ row.steps[n].status = WAITING
                                       /\ row.steps[n].seq = 0
                                       /\ row.steps[n].queue = <<>>
  <2>1. r.steps = [n \in Steps |-> [status |-> AllWaiting[n], queue |-> <<>>,
                                     seq |-> 0, synced |-> TRUE]]
    BY DEF FromBrain
  <2>2. SetIntentStatus(r, "intent_dispatched") # NoRow =>
          SetIntentStatus(r, "intent_dispatched").steps = r.steps
    BY DEF SetIntentStatus, FromBrain
  <2>. QED
    BY <2>1, <2>2 DEF Init, AllWaiting
<1>3. /\ \A n \in Steps : outcome[n] = WAITING /\ outcome[n] \notin Terminal
      /\ \A n \in Steps : brain.seq[n] = 0 /\ brain.step[n] = WAITING
      /\ late = {} /\ pool = <<IntentMsg("intent_dispatched")>>
      /\ \A c \in Callers : req[c] = NoReq
      /\ ex = ExIdle /\ fl = FlushIdle
  BY DEF Init, AllWaiting, Terminal, WAITING, SUCCEEDED, FAILED
<1>4. Told /\ Numbered /\ BrainGenuine /\ OutcomeKept
  BY <1>2, <1>3 DEF Told, Numbered, BrainGenuine, OutcomeKept, Terminal,
                    WAITING, RUNNING, SUCCEEDED, FAILED
<1>5. QueueGenuine
  BY <1>2, EmptySeq DEF QueueGenuine
<1>6. MsgsGenuine
  <2>1. GenuineMsg(row, outcome, NoReq.msg)
        /\ GenuineMsg(row, outcome, IntentMsg("intent_dispatched"))
    BY DEF NoReq, GenuineMsg, IntentMsg
  <2>2. \A i \in 1..Len(pool) : pool[i] = IntentMsg("intent_dispatched")
    BY <1>3
  <2>. QED
    BY <1>3, <2>1, <2>2 DEF MsgsGenuine
<1>7. Copied /\ Answered /\ FlushHead /\ Reporting /\ OneShot
  BY <1>3 DEF Copied, Answered, Accounted, FlushHead, Reporting, OneShot,
              ExIdle, FlushIdle, NoReq
<1>. QED
  BY <1>4, <1>5, <1>6, <1>7 DEF OutcomeInv

(* The strengthened invariant of one-shot plans.                           *)
THEOREM OutcomeInvariance ==
  ASSUME OneShotPlan
  PROVE  Spec => []IInv
<1>1. Init => IInv
  BY InitTyped, InitOutcome DEF IInv
<1>2. IInv /\ [Next]_vars => IInv'
  <2>1. SUFFICES ASSUME IInv, [Next]_vars PROVE IInv'
    OBVIOUS
  <2>2. Inv'
    BY <2>1, NetworkTyped, FlushTyped, ExecutorTyped, HousekeepingTyped, StutterTyped
    DEF IInv, Next
  <2>3. CASE UNCHANGED vars
    BY <2>1, <2>2, <2>3
    DEF vars, IInv, OutcomeInv, Told, Numbered, Copied, QueueGenuine, MsgsGenuine,
        BrainGenuine, Answered, Accounted, FlushHead, Reporting, OneShot, OutcomeKept
  <2>4. CASE Next
    BY <2>1, <2>2, <2>4, NetworkKeeps, FlushKeeps, ExecutorKeeps, HousekeepingKeeps
    DEF IInv, Next
  <2>. QED
    BY <2>1, <2>3, <2>4
<1>. QED
  BY <1>1, <1>2, PTL DEF Spec

(* The terminal status of a one-shot step is never lost between the        *)
(* executor and Brain: at every moment Brain has it or it is still queued  *)
(* on disk. The cap must leave room for a step's two events; the code's is *)
(* 1024.                                                                   *)
THEOREM OutcomeNeverLost ==
  ASSUME OneShotPlan
  PROVE  Spec => []OutcomeKept
<1>1. IInv => OutcomeKept
  BY DEF IInv, OutcomeInv
<1>. QED
  BY <1>1, OutcomeInvariance, PTL

(* So do all the parts of the argument, OutcomeKept among them.            *)
THEOREM OutcomeArgument ==
  ASSUME OneShotPlan
  PROVE  Spec => []OutcomeInv
<1>1. IInv => OutcomeInv
  BY DEF IInv
<1>. QED
  BY <1>1, OutcomeInvariance, PTL


-----------------------------------------------------------------------------
(* No event leaves its queue unheard.  What a flush or the executor takes  *)
(* off a queue is what Brain has answered, or a RUNNING before it.         *)

\* An answered call is heard.
HeardCalls == \A c \in Callers :
    LET m == req[c].msg
    IN  Accounted(c) /\ m.kind = "step" => <<m.n, m.seq>> \in heard

\* While a flush waits for an answer, the head is what it posted, or all that
\* is queued for the step is heard.
HeardHead == fl.pc = "step" /\ row # NoRow =>
    LET m == req["flush"].msg
        s == row.steps[m.n]
    IN  \/ s.queue # <<>> /\ s.queue[1] = EventOf(m)
        \/ s.status \in Terminal /\ \A i \in 1..Len(s.queue) : <<m.n, s.queue[i].seq>> \in heard

\* Before the executor takes its own event away, that one alone is left, and heard.
HeardOwn == ex.pc = "discard" /\ row # NoRow =>
    LET s == row.steps[ex.n]
    IN  /\ s.status \in Terminal /\ <<ex.n, s.seq>> \in heard
        /\ \A i \in 1..Len(s.queue) : s.queue[i].seq = s.seq

HInv == IInv /\ HeardCalls /\ HeardHead /\ HeardOwn

\* What NoSilentLoss says of a step.
LossHeard == row # NoRow =>
    \A n \in Steps : \A i \in DOMAIN row.steps[n].queue :
       LET e == row.steps[n].queue[i]
       IN  Leaves(n, e) => \/ <<n, e.seq>> \in heard
                           \/ e.status = RUNNING /\ \E k \in heard : k[1] = n /\ k[2] > e.seq

(* A queued event of a terminal step is its outcome, the newest event, or  *)
(* an earlier RUNNING.                                                     *)
LEMMA QueuedEvents ==
  ASSUME IInv, row # NoRow, NEW n \in Steps, row.steps[n].status \in Terminal,
         NEW i \in 1..Len(row.steps[n].queue)
  PROVE  LET s == row.steps[n]
             e == row.steps[n].queue[i]
         IN  /\ e.seq \in Nat /\ e.seq <= s.seq
             /\ e.status \in Terminal <=> e.seq = s.seq
             /\ e.status \notin Terminal => e.status = RUNNING /\ e.seq < s.seq
<1>1. Genuine(row, outcome, n, row.steps[n].queue[i])
  BY DEF IInv, OutcomeInv, QueueGenuine
<1>2. row.steps[n].seq \in Nat
  BY StepFacts DEF IInv
<1>. QED
  BY <1>1, <1>2 DEF Genuine, Terminal, RUNNING, SUCCEEDED, FAILED

(* What is kept when nothing that is queued changes.                       *)
LEMMA HeardFrame ==
  ASSUME HInv, heard' = heard, row' = row \/ WireOnly,
         \A c \in Callers : req'[c] = req[c] \/ ~Accounted(c)',
         fl'.pc = "step" => fl.pc = "step" /\ req'["flush"] = req["flush"],
         ex'.pc = "discard" => ex.pc = "discard" /\ ex'.n = ex.n
  PROVE  LossHeard /\ HeardCalls' /\ HeardHead' /\ HeardOwn'
<1>1. /\ row = NoRow => row' = NoRow
      /\ row # NoRow /\ row' # NoRow => row'.steps = row.steps
      /\ row # NoRow /\ row' = NoRow => \A n \in Steps : row.steps[n].queue = <<>>
  BY DEF WireOnly
<1>2. LossHeard
  <2>1. SUFFICES ASSUME row # NoRow, NEW n \in Steps, NEW i \in DOMAIN row.steps[n].queue
                 PROVE  ~Leaves(n, row.steps[n].queue[i])
    BY DEF LossHeard
  <2>2. row' # NoRow
    <3>1. DOMAIN <<>> = {}
      OBVIOUS
    <3>. QED
      BY <1>1, <2>1, <3>1
  <2>. QED
    BY <1>1, <2>1, <2>2 DEF Leaves
<1>3. HeardCalls'
  BY DEF HInv, HeardCalls, Accounted
<1>4. HeardHead'
  BY <1>1 DEF HInv, HeardHead
<1>5. HeardOwn'
  BY <1>1 DEF HInv, HeardOwn
<1>. QED
  BY <1>2, <1>3, <1>4, <1>5

(* Brain's answers, failed calls and the pool's jobs.                      *)
LEMMA NetworkHeard ==
  ASSUME HInv,
         \/ \E c \in Callers : BrainAnswers(c) \/ CallFails(c)
         \/ \E m \in late : LateArrives(m)
         \/ \E i \in InFlight : PoolDelivers(i) \/ PoolFails(i) \/ PoolStale(i)
  PROVE  LossHeard /\ HeardCalls' /\ HeardHead' /\ HeardOwn'
<1>1. req \in [Callers -> Calls]
  BY DEF HInv, IInv, Inv, TypeOK
<1>2. row' = row /\ fl' = fl /\ ex' = ex
  BY DEF BrainAnswers, CallFails, LateArrives, PoolDelivers, PoolFails, PoolStale
<1>3. /\ heard \subseteq heard' /\ \A c \in Callers : req'[c].msg = req[c].msg
  <2>1. heard \subseteq heard'
    BY DEF BrainAnswers, CallFails, LateArrives, PoolDelivers, PoolFails, PoolStale, BrainTakes
  <2>2. \A c \in Callers : req'[c].msg = req[c].msg
    BY <1>1 DEF BrainAnswers, CallFails, LateArrives, PoolDelivers, PoolFails, PoolStale, Calls
  <2>. QED
    BY <2>1, <2>2
<1>4. LossHeard
  BY <1>2 DEF LossHeard, Leaves
<1>5. HeardHead'
  BY <1>2, <1>3 DEF HInv, HeardHead, Callers
<1>6. HeardOwn'
  BY <1>2, <1>3 DEF HInv, HeardOwn
<1>7. HeardCalls'
  <2>1. SUFFICES ASSUME NEW c \in Callers, Accounted(c)', req[c].msg.kind = "step"
                 PROVE  <<req[c].msg.n, req[c].msg.seq>> \in heard'
    BY <1>3 DEF HeardCalls
  <2>2. Accounted(c) \/ BrainAnswers(c)
    BY <1>1, <2>1
    DEF BrainAnswers, CallFails, LateArrives, PoolDelivers, PoolFails, PoolStale, Accounted, Calls
  <2>3. CASE Accounted(c)
    BY <1>3, <2>1, <2>3 DEF HInv, HeardCalls
  <2>4. CASE BrainAnswers(c)
    BY <2>1, <2>4 DEF BrainAnswers, BrainTakes
  <2>. QED
    BY <2>2, <2>3, <2>4
<1>. QED
  BY <1>4, <1>5, <1>6, <1>7

(* The queue of one step, replaced; the row may go when all are empty.     *)
LEMMA QueueReplaced ==
  ASSUME IInv, row # NoRow, NEW n \in Steps, NEW t, Thinned(t, row.steps[n].queue),
         NEW open, LET x == [row EXCEPT !.steps[n] = WithQueue(@, t)]
                   IN  row' = x \/ row' = DropIfDone(x, open)
  PROVE  /\ row' # NoRow => /\ \A k \in Steps : k # n => row'.steps[k] = row.steps[k]
                            /\ row'.steps[n].queue = t /\ row'.steps[n].seq = row.steps[n].seq
                            /\ row'.steps[n].status = row.steps[n].status
         /\ row' = NoRow => /\ \A k \in Steps : k # n => row.steps[k].queue = <<>>
                            /\ t = <<>>
<1>. DEFINE s == row.steps[n]
            x == [row EXCEPT !.steps[n] = WithQueue(@, t)]
<1>1. /\ row \in Row /\ RowSound(row) /\ s \in StepRow /\ StepSound(s)
      /\ row.steps \in [Steps -> StepRow]
  BY StepFacts DEF IInv, Inv, QueueSound
<1>2. WithQueue(s, t) \in StepRow /\ StepSound(WithQueue(s, t))
  BY <1>1, ThinnedSound
<1>3. /\ x \in Row /\ WellFormed(x)
      /\ x.steps = [row.steps EXCEPT ![n] = WithQueue(s, t)]
  <2>1. x = [row EXCEPT !.steps[n] = WithQueue(s, t)]
    BY <1>1 DEF Row
  <2>. QED
    BY <1>1, <1>2, <2>1, ReplaceStep
<1>4. row' = x \/ (row' = NoRow /\ \A k \in Steps : x.steps[k].queue = <<>>)
  BY <1>3, DropEmpty DEF WellFormed
<1>. HIDE DEF x
<1>5. /\ \A k \in Steps : k # n => x.steps[k] = row.steps[k]
      /\ x.steps[n].queue = t /\ x.steps[n].status = s.status /\ x.steps[n].seq = s.seq
      /\ x # NoRow
  BY <1>1, <1>3, NoRowAssumption DEF WithQueue
<1>. QED
  BY <1>4, <1>5

\* Events of step n alone leave, for queue t.
Emptied(n, t) ==
    /\ row # NoRow /\ Thinned(t, row.steps[n].queue)
    /\ row' # NoRow => /\ \A k \in Steps : k # n => row'.steps[k] = row.steps[k]
                       /\ row'.steps[n].queue = t /\ row'.steps[n].seq = row.steps[n].seq
                       /\ row'.steps[n].status = row.steps[n].status
    /\ row' = NoRow => /\ \A k \in Steps : k # n => row.steps[k].queue = <<>>
                       /\ t = <<>>

(* Then only what t leaves out has left.                                   *)
LEMMA EmptiedLeaves ==
  ASSUME IInv, NEW n \in Steps, NEW t, Emptied(n, t),
         \A j \in 1..Len(row.steps[n].queue) :
            LET e == row.steps[n].queue[j]
            IN  \/ \E i \in 1..Len(t) : t[i] = e
                \/ <<n, e.seq>> \in heard
                \/ e.status = RUNNING /\ \E k \in heard : k[1] = n /\ k[2] > e.seq
  PROVE  LossHeard
<1>. SUFFICES ASSUME NEW k \in Steps, NEW j \in DOMAIN row.steps[k].queue,
                     Leaves(k, row.steps[k].queue[j])
              PROVE  LET e == row.steps[k].queue[j]
                     IN  \/ <<k, e.seq>> \in heard
                         \/ e.status = RUNNING /\ \E h \in heard : h[1] = k /\ h[2] > e.seq
  BY DEF LossHeard
<1>1. row # NoRow /\ row.steps[k].queue \in Seq(Event) /\ j \in 1..Len(row.steps[k].queue)
  BY StepFacts DEF IInv, Emptied
<1>2. CASE k # n
  <2>1. row.steps[k].queue # <<>>
    BY <1>1, EmptySeq
  <2>2. row' # NoRow /\ row'.steps[k] = row.steps[k]
    BY <1>2, <2>1 DEF Emptied
  <2>. QED
    BY <2>2 DEF Leaves
<1>3. CASE k = n
  <2>1. ASSUME NEW i \in 1..Len(t), t[i] = row.steps[n].queue[j] PROVE FALSE
    <3>1. t \in Seq(Event) /\ t # <<>>
      BY <2>1, EmptySeq DEF Emptied, Thinned
    <3>2. row' # NoRow /\ row'.steps[n].queue = t /\ i \in DOMAIN t
      BY <3>1 DEF Emptied
    <3>. QED
      BY <1>3, <2>1, <3>2 DEF Leaves
  <2>. QED
    BY <1>1, <1>3, <2>1
<1>. QED
  BY <1>2, <1>3

(* The flush.                                                              *)
LEMMA FlushHeard ==
  ASSUME HInv, FlushStep \/ \E by \in {"thread", "executor"} : FlushBegin(by)
  PROVE  LossHeard /\ HeardCalls' /\ HeardHead' /\ HeardOwn'
<1>. USE DEF FlushRest
<1>1. /\ heard' = heard /\ brain' = brain /\ outcome' = outcome
  BY DEF FlushStep, FlushPostStep, FlushStepAnswered, FlushQueuesEmpty, FlushSnapshot,
         FlushSkipIntent, FlushPostIntent, FlushIntentAnswered, FlushGivesUp, FlushEnd,
         FlushBegin
<1>2. /\ req \in [Callers -> Calls] /\ fl \in Flushers /\ IInv
      /\ ex.pc # "flush" /\ fl.by = "thread"
      /\ "flush" \in Callers /\ "executor" \in Callers
  BY DEF HInv, IInv, OutcomeInv, Inv, TypeOK, OneShot, Callers
<1>3. ASSUME row' = row \/ \E w : row' = MarkIntentSynced(row, w, SeriesOpen), ex' = ex,
             fl'.pc # "step", \/ req' = req
                              \/ \E r : req' = [req EXCEPT !["flush"] = r]
                                          /\ r.ans \in {"none", "sent"}
      PROVE  LossHeard /\ HeardCalls' /\ HeardHead' /\ HeardOwn'
  <2>1. row' = row \/ WireOnly
    BY <1>1, <1>2, <1>3, MarkIntentWire
  <2>2. \A c \in Callers : req'[c] = req[c] \/ ~Accounted(c)'
    BY <1>2, <1>3 DEF Accounted
  <2>. QED
    BY <1>1, <1>3, <2>1, <2>2, HeardFrame
<1>4. NoReq.ans = "none" /\ \A m : Sent(m).ans = "sent"
  BY DEF NoReq, Sent
<1>5. CASE \E by \in {"thread", "executor"} : FlushBegin(by)
  <2>1. row' = row /\ req' = req /\ fl'.pc = "scan" /\ ex' = ex
    BY <1>2, <1>5 DEF FlushBegin, Flushers
  <2>. QED
    BY <1>3, <2>1
<1>6. CASE FlushPostStep
  <2>1. row # NoRow /\ Busy \subseteq Nat /\ Busy # {}
    BY <1>6 DEF FlushPostStep, Busy, Steps
  <2>2. Min(Busy) \in Busy
    BY <2>1, MinNat
  <2>3. PICK n \in Steps : n = Min(Busy) /\ row.steps[n].queue # <<>>
    BY <2>1, <2>2 DEF Busy
  <2>. DEFINE m == StepMsg(n, row.steps[n].queue[1])
  <2>4. /\ req' = [req EXCEPT !["flush"] = Sent(m)] /\ row' = row /\ ex' = ex
    BY <1>6, <2>3 DEF FlushPostStep
  <2>5. row.steps[n].queue[1] \in Event
    BY <1>2, <2>1, <2>3, StepFacts, EmptySeq DEF IInv
  <2>6. m.kind = "step" /\ m.n = n /\ EventOf(m) = row.steps[n].queue[1]
    BY <2>5 DEF StepMsg, EventOf, Event
  <2>7. /\ req'["executor"] = req["executor"]
        /\ req'["flush"].ans = "sent" /\ req'["flush"].msg = m
    BY <1>2, <2>4 DEF Callers, Sent
  <2>. HIDE DEF m
  <2>8. HeardHead'
    BY <2>3, <2>4, <2>6, <2>7 DEF HeardHead
  <2>9. HeardCalls'
    BY <1>1, <2>7 DEF HInv, HeardCalls, Accounted, Callers
  <2>10. HeardOwn' /\ LossHeard
    BY <1>1, <2>4 DEF HInv, HeardOwn, LossHeard, Leaves
  <2>. QED
    BY <2>8, <2>9, <2>10
<1>7. CASE FlushStepAnswered
  <2>. DEFINE m == req["flush"].msg
              n == m.n
              q == row.steps[n].queue
  <2>1. /\ m \in StepMsgs /\ m.kind = "step" /\ n \in Steps
        /\ Accounted("flush") /\ fl.pc = "step" /\ <<n, m.seq>> \in heard
    BY <1>2, <1>7 DEF FlushStepAnswered, HInv, IInv, Inv, FlushCall, StepMsgs, HeardCalls
  <2>2. /\ row' = IF req["flush"].ans = "ok"
                  THEN MarkStepSynced(row, n, EventOf(m), SeriesOpen)
                  ELSE DiscardQueuedEvent(row, n)
        /\ req' = [req EXCEPT !["flush"] = NoReq]
        /\ fl'.pc = "scan" /\ ex' = ex
    BY <1>2, <1>7 DEF FlushStepAnswered, Flushers
  <2>3. CASE row = NoRow
    <3>1. row' = row
      BY <2>2, <2>3 DEF MarkStepSynced, DiscardQueuedEvent
    <3>. QED
      BY <1>3, <1>4, <2>2, <3>1
  <2>4. CASE row # NoRow
    <3>1. /\ row \in Row /\ row.steps[n] \in StepRow /\ StepSound(row.steps[n])
          /\ q \in Seq(Event)
      BY <1>2, <2>1, <2>4, StepFacts DEF IInv
    <3>2. req["flush"].ans = "ok" \/ req["flush"].ans = "obsolete"
      BY <2>1 DEF Accounted
    <3>3. CASE q # <<>> /\ (q[1] = EventOf(m) \/ req["flush"].ans = "obsolete")
      <4>. DEFINE t == Tail(q)
      <4>1. Thinned(t, q)
        BY <3>1, <3>3, TailThinned
      <4>2. LET x == [row EXCEPT !.steps[n] = WithQueue(@, t)]
            IN  row' = x \/ row' = DropIfDone(x, SeriesOpen)
        BY <2>2, <2>4, <3>1, <3>2, <3>3
        DEF MarkStepSynced, DiscardQueuedEvent, PopHead, Row
      <4>3. Emptied(n, t)
        <5>1. IInv /\ n \in Steps
          BY <1>2, <2>1
        <5>. HIDE DEF n, m, t
        <5>. QED
          BY <5>1, <2>4, <4>1, <4>2, QueueReplaced DEF Emptied
      <4>4. /\ Len(q) \in Nat \ {0} /\ Len(t) = Len(q) - 1
            /\ \A i \in 1..Len(t) : t[i] = q[i + 1]
        BY <3>1, <3>3, HeadTailProperties, EmptySeq
      <4>5. <<n, q[1].seq>> \in heard
        <5>1. CASE q[1] = EventOf(m)
          BY <2>1, <5>1 DEF EventOf
        <5>2. CASE q[1] # EventOf(m)
          <6>1. \A i \in 1..Len(q) : <<n, q[i].seq>> \in heard
            BY <2>1, <2>4, <5>2 DEF HInv, HeardHead
          <6>2. 1 \in 1..Len(q)
            BY <4>4
          <6>. QED
            BY <6>1, <6>2
        <5>. QED
          BY <5>1, <5>2
      <4>6. \A j \in 1..Len(q) : j = 1 \/ \E i \in 1..Len(t) : t[i] = q[j]
        <5>1. \A j \in 1..Len(q) : j = 1 \/ (j - 1 \in 1..Len(t) /\ (j - 1) + 1 = j)
          BY <4>4
        <5>. QED
          BY <4>4, <5>1
      <4>7. LossHeard
        <5>. HIDE DEF n, t
        <5>. QED
          BY <1>2, <2>1, <4>3, <4>5, <4>6, EmptiedLeaves
      <4>8. HeardHead'
        BY <2>2 DEF HeardHead
      <4>9. HeardCalls'
        BY <1>1, <1>2, <1>4, <2>2 DEF HInv, HeardCalls, Accounted, Callers
      <4>10. HeardOwn'
        <5>1. SUFFICES ASSUME ex.pc = "discard", row' # NoRow
                       PROVE  LET s == row'.steps[ex.n]
                              IN  /\ s.status \in Terminal /\ <<ex.n, s.seq>> \in heard
                                  /\ \A i \in 1..Len(s.queue) : s.queue[i].seq = s.seq
          BY <1>1, <2>2 DEF HeardOwn
        <5>2. /\ ex.n \in Steps
              /\ \A k \in Steps : k # n => row'.steps[k] = row.steps[k]
              /\ row'.steps[n].queue = t /\ row'.steps[n].seq = row.steps[n].seq
              /\ row'.steps[n].status = row.steps[n].status
          BY <1>2, <4>3, <5>1 DEF Emptied, IInv, Inv, TypeOK, Executors
        <5>3. LET s == row.steps[ex.n]
              IN  /\ s.status \in Terminal /\ <<ex.n, s.seq>> \in heard
                  /\ \A i \in 1..Len(s.queue) : s.queue[i].seq = s.seq
          BY <2>4, <5>1 DEF HInv, HeardOwn
        <5>4. \A i \in 1..Len(t) : i + 1 \in 1..Len(q) /\ t[i] = q[i + 1]
          BY <4>4
        <5>5. CASE ex.n # n
          BY <5>2, <5>3, <5>5
        <5>6. CASE ex.n = n
          <6>1. \A i \in 1..Len(t) : t[i].seq = row.steps[n].seq
            BY <5>3, <5>4, <5>6
          <6>. HIDE DEF t, n
          <6>. QED
            BY <5>2, <5>3, <5>6, <6>1
        <5>. QED
          BY <5>5, <5>6
      <4>. QED
        BY <4>7, <4>8, <4>9, <4>10
    <3>4. CASE ~(q # <<>> /\ (q[1] = EventOf(m) \/ req["flush"].ans = "obsolete"))
      <4>1. q = <<>> => [row EXCEPT !.steps[n] = [@ EXCEPT !.synced = TRUE]] = row
        <5>1. SUFFICES ASSUME q = <<>>
                       PROVE  [row EXCEPT !.steps[n] = [row.steps[n] EXCEPT !.synced = TRUE]]
                                = row
          OBVIOUS
        <5>2. [row.steps[n] EXCEPT !.synced = TRUE] = row.steps[n]
          BY <3>1, <5>1, EmptyQueueSynced
        <5>3. [row EXCEPT !.steps[n] = row.steps[n]] = row
          BY <3>1 DEF Row
        <5>. QED
          BY <5>2, <5>3
      <4>2. row' = row \/ row' = DropIfDone(row, SeriesOpen)
        BY <2>2, <2>4, <3>1, <3>2, <3>4, <4>1
        DEF MarkStepSynced, DiscardQueuedEvent, Row
      <4>3. row' = row \/ WireOnly
        BY <1>1, <1>2, <2>4, <3>1, <4>2, DropEmpty DEF WireOnly, IInv, Inv, QueueSound
      <4>4. \A c \in Callers : req'[c] = req[c] \/ ~Accounted(c)'
        BY <1>2, <1>4, <2>2 DEF Accounted
      <4>. QED
        BY <1>1, <2>2, <4>3, <4>4, HeardFrame
    <3>. QED
      BY <3>3, <3>4
  <2>. QED
    BY <2>3, <2>4
<1>8. CASE FlushQueuesEmpty \/ FlushSnapshot
  <2>1. /\ row' = row /\ req' = req /\ ex' = ex /\ fl'.pc \in {"snapshot", "intents"}
    BY <1>2, <1>8 DEF FlushQueuesEmpty, FlushSnapshot, Flushers
  <2>. QED
    BY <1>3, <2>1
<1>9. CASE FlushSkipIntent
  <2>1. /\ req' = req /\ ex' = ex /\ fl'.pc = "intents"
        /\ row' = row \/ row' = MarkIntentSynced(row, "running", SeriesOpen)
    BY <1>2, <1>9 DEF FlushSkipIntent, Flushers
  <2>. QED
    BY <1>3, <2>1
<1>10. CASE FlushPostIntent
  <2>1. /\ row' = row /\ ex' = ex /\ fl'.pc = "intent"
        /\ req' = [req EXCEPT !["flush"] = Sent(IntentMsg(fl.jobs[1].status))]
    BY <1>2, <1>10 DEF FlushPostIntent, Flushers
  <2>. QED
    BY <1>3, <1>4, <2>1
<1>11. CASE FlushIntentAnswered
  <2>1. /\ ex' = ex /\ fl'.pc = "intents" /\ req' = [req EXCEPT !["flush"] = NoReq]
        /\ row' = MarkIntentSynced(row, req["flush"].msg.wire, SeriesOpen)
    BY <1>2, <1>11 DEF FlushIntentAnswered, Flushers
  <2>. QED
    BY <1>3, <1>4, <2>1
<1>12. CASE FlushGivesUp \/ FlushEnd
  <2>1. /\ row' = row /\ ex' = ex /\ fl'.pc = "idle"
        /\ req' = req \/ req' = [req EXCEPT !["flush"] = NoReq]
    BY <1>2, <1>12 DEF FlushGivesUp, FlushEnd, FlushReturns, FlushIdle
  <2>. QED
    BY <1>3, <1>4, <2>1
<1>. QED
  BY <1>5, <1>6, <1>7, <1>8, <1>9, <1>10, <1>11, <1>12 DEF FlushStep


(* A status set in the row appends to one queue at most, and takes nothing *)
(* off it: there is room for the two events of a one-shot step.            *)
LEMMA StatusHeard ==
  ASSUME OneShotPlan, HInv, ex.pc # "idle", NEW n \in Steps, ex.plan[n] \in {WAITING, RUNNING},
         NEW st \in {RUNNING, SUCCEEDED, FAILED}, row' = SetStepStatus(row, n, st),
         fl' = fl, req' = req, heard' = heard, ex'.pc # "discard"
  PROVE  LossHeard /\ HeardCalls' /\ HeardHead' /\ HeardOwn'
<1>1. HeardCalls' /\ HeardOwn'
  BY DEF HInv, HeardCalls, HeardOwn, Accounted
<1>2. CASE row = NoRow
  BY <1>1, <1>2 DEF SetStepStatus, LossHeard, HeardHead
<1>3. CASE row # NoRow
  <2>. DEFINE s == row.steps[n]
              u == [EnqueueStepEvent(s, st) EXCEPT !.status = st]
  <2>1. /\ IInv /\ row \in Row /\ row.steps \in [Steps -> StepRow] /\ s.queue \in Seq(Event)
        /\ s.seq \in Nat /\ s.status \in {WAITING, RUNNING}
    BY <1>3, StepFacts DEF HInv, IInv, OutcomeInv, Copied
  <2>2. /\ st = s.status => u = s
        /\ st # s.status => u.queue = Append(s.queue, [status |-> st, seq |-> s.seq + 1])
    BY <1>3, <2>1, OpenStep
  <2>3. /\ Len(s.queue) \in Nat /\ Len(u.queue) \in Nat /\ Len(u.queue) >= Len(s.queue)
        /\ \A i \in 1..Len(s.queue) : u.queue[i] = s.queue[i]
        /\ u.queue \in Seq(Event)
    <3>1. CASE st = s.status
      <4>1. u = s
        BY <2>2, <3>1
      <4>. HIDE DEF u
      <4>. QED
        BY <2>1, <4>1
    <3>2. CASE st # s.status
      <4>. DEFINE e == [status |-> st, seq |-> s.seq + 1]
      <4>1. e \in Event
        BY <2>1 DEF Event, StepStatus
      <4>2. u.queue = Append(s.queue, e)
        BY <2>2, <3>2
      <4>. HIDE DEF e, u
      <4>. QED
        BY <2>1, <4>1, <4>2, Appended
    <3>. QED
      BY <3>1, <3>2
  <2>4. row' = [row EXCEPT !.steps[n] = u]
    BY <1>3 DEF SetStepStatus
  <2>. HIDE DEF u
  <2>5. row'.steps = [row.steps EXCEPT ![n] = u]
    BY <2>1, <2>4 DEF Row
  <2>6. row' # NoRow
    BY <1>3, <2>1, SetStepEffect DEF IInv, Inv, QueueSound, StepStatus
  <2>7. /\ row'.steps[n].queue = u.queue
        /\ \A k \in Steps : k # n => row'.steps[k] = row.steps[k]
    BY <2>1, <2>5
  <2>8. LossHeard
    <3>1. SUFFICES ASSUME NEW k \in Steps, NEW i \in DOMAIN row.steps[k].queue
                   PROVE  ~Leaves(k, row.steps[k].queue[i])
      BY DEF LossHeard
    <3>2. CASE k # n
      BY <2>6, <2>7, <3>1, <3>2 DEF Leaves
    <3>3. CASE k = n
      <4>1. i \in 1..Len(s.queue) /\ i \in DOMAIN u.queue /\ u.queue[i] = s.queue[i]
        BY <2>1, <2>3, <3>1, <3>3
      <4>. QED
        BY <2>6, <2>7, <3>3, <4>1 DEF Leaves
    <3>. QED
      BY <3>2, <3>3
  <2>9. HeardHead'
    <3>. DEFINE m == req["flush"].msg
    <3>1. SUFFICES ASSUME fl.pc = "step"
                   PROVE  LET r == row'.steps[m.n]
                          IN  \/ r.queue # <<>> /\ r.queue[1] = EventOf(m)
                              \/ r.status \in Terminal
                                   /\ \A i \in 1..Len(r.queue) : <<m.n, r.queue[i].seq>> \in heard
      BY DEF HeardHead
    <3>2. m.n \in Steps
      BY <2>1, <3>1 DEF IInv, Inv, FlushCall, StepMsgs
    <3>3. LET r == row.steps[m.n]
          IN  \/ r.queue # <<>> /\ r.queue[1] = EventOf(m)
              \/ r.status \in Terminal
                   /\ \A i \in 1..Len(r.queue) : <<m.n, r.queue[i].seq>> \in heard
      BY <1>3, <3>1 DEF HInv, HeardHead
    <3>4. CASE m.n # n
      BY <2>7, <3>2, <3>3, <3>4
    <3>5. CASE m.n = n
      <4>1. s.queue # <<>> /\ s.queue[1] = EventOf(m)
        BY <2>1, <3>3, <3>5 DEF Terminal, WAITING, RUNNING, SUCCEEDED, FAILED
      <4>2. 1 \in 1..Len(s.queue)
        BY <2>1, <4>1, EmptySeq
      <4>3. u.queue # <<>> /\ u.queue[1] = EventOf(m)
        BY <2>3, <4>1, <4>2, EmptySeq
      <4>. QED
        BY <2>7, <3>5, <4>3
    <3>. QED
      BY <3>4, <3>5
  <2>. QED
    BY <1>1, <2>8, <2>9
<1>. QED
  BY <1>2, <1>3

(* What DiscardLeadingNonTerminal leaves begins with a terminal event, and *)
(* has every terminal event.                                               *)
LEMMA LeadingGone ==
  ASSUME NEW q \in Seq(Event)
  PROVE  LET t == WithoutLeading(q)
         IN  /\ t # <<>> => t[1].status \in Terminal
             /\ \A j \in 1..Len(q) : q[j].status \in Terminal
                                       => \E i \in 1..Len(t) : t[i] = q[j]
<1>. DEFINE I == {i \in 1..Len(q) : q[i].status \in Terminal}
            t == WithoutLeading(q)
<1>1. t = LET i == IF I # {} THEN Min(I) ELSE 0
          IN  IF i = 0 THEN <<>> ELSE SubSeq(q, i, Len(q))
  BY DEF WithoutLeading, SelectInSeq
<1>2. CASE I = {}
  <2>1. t = <<>>
    BY <1>1, <1>2
  <2>. QED
    BY <1>2, <2>1
<1>3. CASE I # {}
  <2>. DEFINE m == Min(I)
  <2>1. I \subseteq Nat
    OBVIOUS
  <2>2. m \in I /\ \A k \in I : m <= k
    <3>. HIDE DEF I
    <3>. QED
      BY <1>3, <2>1, MinNat
  <2>3. m \in 1..Len(q) /\ q[m].status \in Terminal /\ Len(q) \in Nat
    BY <2>2
  <2>4. m # 0
    BY <2>3
  <2>5. t = SubSeq(q, m, Len(q))
    BY <1>1, <1>3, <2>4
  <2>6. \A j \in 1..Len(q) : q[j].status \in Terminal => m <= j
    BY <2>2
  <2>. HIDE DEF m, t
  <2>7. /\ Len(t) = Len(q) - m + 1
        /\ \A i \in 1..(Len(q) - m + 1) : t[i] = q[m + i - 1]
    BY <2>3, <2>5
  <2>8. t[1] = q[m]
    BY <2>3, <2>7
  <2>9. \A j \in 1..Len(q) : m <= j => /\ (j - m + 1) \in 1..Len(t)
                                       /\ t[j - m + 1] = q[j]
    BY <2>3, <2>7
  <2>. QED
    BY <2>3, <2>6, <2>8, <2>9 DEF t
<1>. QED
  BY <1>2, <1>3


(* The executor.                                                           *)
LEMMA ExecutorHeard ==
  ASSUME OneShotPlan, HInv, ExStep
  PROVE  LossHeard /\ HeardCalls' /\ HeardHead' /\ HeardOwn'
<1>. USE DEF ExRest
<1>1. /\ ex \in Executors /\ ex.n \in Steps /\ req \in [Callers -> Calls] /\ ~Recurring
      /\ IInv /\ Inv /\ Reporting /\ Copied
      /\ ex.pc \notin {"beat", "gate", "flush", "flushing"}
      /\ ex.next \in {"idle", "advance", "failing"}
      /\ "flush" \in Callers /\ "executor" \in Callers
  BY DEF HInv, IInv, OutcomeInv, Inv, TypeOK, Executors, OneShot, OneShotPlan, Callers
<1>2. heard' = heard /\ brain' = brain /\ fl' = fl
  BY Zenon
  DEF ExStep, ExTake, ExAdvanced, ExSkipBeats, ExLoopEnds, ExIntentRunning, ExMissed,
      ExStart, ExUnresolved, ExCapabilityEnds, ExPost, ExPostAnswered, ExDiscard,
      ExPostFailed, ExFailIntent, ExAdvanceBeat, ExSeriesDone, ExRearm, ExFinalize
<1>3. ASSUME row' = row \/ \E w \in IntentStatus : row' = SetIntentStatus(row, w),
             outcome' = outcome, ex'.pc # "discard",
             req' = req \/ \E r : req' = [req EXCEPT !["executor"] = r]
                                    /\ r.ans \in {"none", "sent"}
      PROVE  LossHeard /\ HeardCalls' /\ HeardHead' /\ HeardOwn'
  <2>1. row' = row \/ WireOnly
    BY <1>1, <1>2, <1>3, SetIntentWire
  <2>2. \A c \in Callers : req'[c] = req[c] \/ ~Accounted(c)'
    BY <1>1, <1>3 DEF Accounted
  <2>3. req'["flush"] = req["flush"]
    BY <1>1, <1>3
  <2>. QED
    BY <1>2, <1>3, <2>1, <2>2, <2>3, HeardFrame
<1>4. NoReq.ans = "none" /\ \A m : Sent(m).ans = "sent"
  BY DEF NoReq, Sent
<1>5. ASSUME NEW n \in Steps, NEW st \in Terminal, NEW next \in {"advance", "failing"},
             Report(n, st, next), req' = req, ex.pc # "idle", ex.plan[n] \in {WAITING, RUNNING}
      PROVE  LossHeard /\ HeardCalls' /\ HeardHead' /\ HeardOwn'
  <2>1. row' = SetStepStatus(row, n, st) /\ ex'.pc # "discard" /\ st \in {SUCCEEDED, FAILED}
    BY <1>1, <1>5 DEF Report, Executors, Terminal
  <2>. QED
    BY <1>2, <1>5, <2>1, StatusHeard
<1>6. CASE ExTake \/ ExAdvanced \/ ExLoopEnds \/ ExPostFailed \/ ExPost
  <2>1. ex'.pc # "discard" /\ row' = row /\ outcome' = outcome
    BY <1>1, <1>6 DEF ExTake, ExAdvanced, ExLoopEnds, ExPostFailed, ExPost, Executors, ExIdle
  <2>2. req' = req \/ \E r : req' = [req EXCEPT !["executor"] = r] /\ r.ans \in {"none", "sent"}
    BY <1>4, <1>6 DEF ExTake, ExAdvanced, ExLoopEnds, ExPostFailed, ExPost
  <2>. QED
    BY <1>3, <2>1, <2>2
<1>7. CASE ExIntentRunning \/ ExFailIntent
  <2>1. /\ row' = SetIntentStatus(row, "running") \/ row' = SetIntentStatus(row, "failed")
        /\ outcome' = outcome /\ ex'.pc # "discard" /\ req' = req
    BY <1>1, <1>7 DEF ExIntentRunning, ExFailIntent, CloseIntent, Executors
  <2>. QED
    BY <1>3, <2>1 DEF IntentStatus
<1>8. CASE ExFinalize
  <2>1. outcome' = outcome /\ ex'.pc # "discard" /\ req' = req
    BY <1>8 DEF ExFinalize, ExIdle
  <2>2. FinalWire # "none" => FinalWire \in IntentStatus
    BY DEF FinalWire, IntentStatus
  <2>3. row' = row \/ \E w \in IntentStatus : row' = SetIntentStatus(row, w)
    BY <1>8, <2>2 DEF ExFinalize, CloseIntent
  <2>. QED
    BY <1>3, <2>1, <2>3
<1>9. ASSUME NEW n \in Steps, ExMissed(n) \/ ExUnresolved(n)
      PROVE  LossHeard /\ HeardCalls' /\ HeardHead' /\ HeardOwn'
  <2>1. /\ FAILED \in Terminal /\ req' = req
        /\ Report(n, FAILED, "advance") \/ Report(n, FAILED, "failing")
        /\ ex.pc # "idle" /\ ex.plan[n] \in {WAITING, RUNNING}
    BY <1>9 DEF ExMissed, ExUnresolved, Eligible, Terminal
  <2>. QED
    BY <1>5, <2>1
<1>10. CASE ExCapabilityEnds
  <2>1. ex.pc = "capability" /\ ex.plan[ex.n] \in {WAITING, RUNNING} /\ req' = req
    BY <1>1, <1>10 DEF ExCapabilityEnds, Reporting
  <2>2. PICK st \in Terminal : Report(ex.n, st, IF st = FAILED THEN "failing" ELSE "advance")
    BY <1>1, <1>10 DEF ExCapabilityEnds
  <2>. QED
    BY <1>1, <1>5, <2>1, <2>2
<1>11. ASSUME NEW n \in Steps, ExStart(n)
       PROVE  LossHeard /\ HeardCalls' /\ HeardHead' /\ HeardOwn'
  <2>1. /\ row' = SetStepStatus(row, n, RUNNING) /\ req' = req
        /\ ex.pc # "idle" /\ ex.plan[n] \in {WAITING, RUNNING} /\ ex'.pc # "discard"
    BY <1>1, <1>11 DEF ExStart, Eligible, Executors
  <2>. QED
    BY <1>2, <2>1, StatusHeard
\* What the executor has reported is the step's status, and a message about it carries
\* the newest number.
<1>12. ASSUME row # NoRow, ex.pc \in {"posted", "discard"}
       PROVE  row.steps[ex.n].status \in Terminal
  BY <1>1, <1>12 DEF Reporting, Copied
<1>13. CASE ExPostAnswered
  <2>. DEFINE s == row.steps[ex.n]
              t == WithoutLeading(s.queue)
  <2>1. /\ row' = DiscardLeadingNonTerminal(row, ex.n)
        /\ ex.pc = "posted" /\ Accounted("executor") /\ ex'.n = ex.n
        /\ req'["flush"] = req["flush"] /\ req'["executor"] = NoReq
    BY <1>1, <1>13 DEF ExPostAnswered, Executors
  <2>2. HeardCalls'
    BY <1>2, <1>4, <2>1 DEF HInv, HeardCalls, Accounted, Callers
  <2>3. CASE row = NoRow
    BY <2>1, <2>2, <2>3
    DEF DiscardLeadingNonTerminal, LossHeard, HeardHead, HeardOwn
  <2>4. CASE row # NoRow
    <3>1. /\ row \in Row /\ s.queue \in Seq(Event) /\ Len(s.queue) \in Nat
          /\ s \in StepRow /\ StepSound(s) /\ s.seq \in Nat
      BY <1>1, <2>4, StepFacts DEF IInv
    <3>2. s.status \in Terminal
      BY <1>12, <2>1, <2>4
    <3>3. <<ex.n, s.seq>> \in heard
      <4>. DEFINE m == req["executor"].msg
      <4>1. /\ m \in Msgs /\ m.kind = "step" /\ m.n = ex.n /\ m.status \in Terminal
            /\ GenuineMsg(row, outcome, m)
        BY <1>1, <2>1 DEF Reporting, IInv, OutcomeInv, MsgsGenuine, Calls
      <4>2. m.seq = s.seq
        BY <2>4, <4>1, StepMessage DEF GenuineMsg, Genuine, EventOf, Terminal, RUNNING, SUCCEEDED, FAILED
      <4>3. <<m.n, m.seq>> \in heard
        BY <1>1, <2>1, <4>1 DEF HInv, HeardCalls
      <4>. QED
        BY <4>1, <4>2, <4>3
    <3>4. \A j \in 1..Len(s.queue) :
             /\ s.queue[j].seq \in Nat /\ s.queue[j].seq <= s.seq
             /\ s.queue[j].status \in Terminal <=> s.queue[j].seq = s.seq
             /\ s.queue[j].status \notin Terminal =>
                  s.queue[j].status = RUNNING /\ s.queue[j].seq < s.seq
      BY <1>1, <2>4, <3>2, QueuedEvents
    <3>5. Thinned(t, s.queue)
      BY <3>1, WithoutLeadingThinned
    <3>6. /\ t # <<>> => t[1].status \in Terminal
          /\ \A j \in 1..Len(s.queue) : s.queue[j].status \in Terminal
                                          => \E i \in 1..Len(t) : t[i] = s.queue[j]
      BY <3>1, LeadingGone
    <3>7. t \in Seq(Event) /\ Len(t) \in Nat
          /\ \A i \in 1..Len(t) : \E j \in 1..Len(s.queue) : t[i] = s.queue[j]
      BY <3>5 DEF Thinned
    <3>8. row' = row \/ row' = [row EXCEPT !.steps[ex.n] = WithQueue(@, t)]
      BY <2>1, <2>4 DEF DiscardLeadingNonTerminal
    <3>9. row' = row => t = s.queue
      <4>1. SUFFICES ASSUME row' = row, t # s.queue PROVE FALSE
        OBVIOUS
      <4>2. row = [row EXCEPT !.steps[ex.n] = WithQueue(@, t)]
        BY <2>1, <2>4, <4>1 DEF DiscardLeadingNonTerminal
      <4>. HIDE DEF t
      <4>3. row.steps[ex.n].queue = t
        BY <1>1, <3>1, <4>2 DEF Row, WithQueue
      <4>. QED
        BY <4>1, <4>3
    <3>10. \A i, j \in 1..Len(t) : i < j => t[i].seq < t[j].seq
      <4>1. StepSound(WithQueue(s, t)) /\ WithQueue(s, t).queue = t
        BY <3>1, <3>5, ThinnedSound DEF WithQueue
      <4>. QED
        BY <4>1 DEF StepSound
    <3>. HIDE DEF t
    <3>11. \A i \in 1..Len(t) : t[i].seq = s.seq
      <4>1. SUFFICES ASSUME NEW i \in 1..Len(t) PROVE t[i].seq = s.seq
        OBVIOUS
      <4>2. 1 \in 1..Len(t) /\ t # <<>>
        BY <3>7, <4>1, EmptySeq
      <4>3. t[1].seq = s.seq
        BY <3>4, <3>6, <3>7, <4>2
      <4>4. i # 1 => t[1].seq < t[i].seq
        BY <3>7, <3>10, <4>1, <4>2
      <4>5. t[i].seq \in Nat /\ t[i].seq <= s.seq
        BY <3>4, <3>7, <4>1
      <4>. QED
        BY <3>1, <4>3, <4>4, <4>5
    <3>12. Emptied(ex.n, t)
      <4>1. CASE row' = row
        BY <1>1, <2>4, <3>5, <3>9, <4>1 DEF Emptied
      <4>2. CASE row' = [row EXCEPT !.steps[ex.n] = WithQueue(@, t)]
        BY <1>1, <2>4, <3>5, <4>2, QueueReplaced DEF Emptied
      <4>. QED
        BY <3>8, <4>1, <4>2
    <3>13. LossHeard
      <4>1. \A j \in 1..Len(s.queue) : s.queue[j].status \notin Terminal =>
              s.queue[j].status = RUNNING
                /\ \E k \in heard : k[1] = ex.n /\ k[2] > s.queue[j].seq
        <5>1. <<ex.n, s.seq>>[1] = ex.n /\ <<ex.n, s.seq>>[2] = s.seq
          OBVIOUS
        <5>. QED
          BY <3>1, <3>3, <3>4, <5>1
      <4>. QED
        BY <1>1, <3>6, <3>12, <4>1, EmptiedLeaves
    <3>14. HeardOwn'
      BY <1>1, <1>2, <2>1, <3>2, <3>3, <3>11, <3>12 DEF HeardOwn, Emptied
    <3>15. HeardHead'
      <4>. DEFINE m == req["flush"].msg
      <4>1. SUFFICES ASSUME fl.pc = "step", row' # NoRow
                     PROVE  LET r == row'.steps[m.n]
                            IN  \/ r.queue # <<>> /\ r.queue[1] = EventOf(m)
                                \/ r.status \in Terminal
                                     /\ \A i \in 1..Len(r.queue) : <<m.n, r.queue[i].seq>> \in heard
        BY <1>2, <2>1 DEF HeardHead
      <4>2. m.n \in Steps
        BY <1>1, <4>1 DEF Inv, FlushCall, StepMsgs
      <4>3. CASE m.n # ex.n
        BY <2>4, <3>12, <4>1, <4>2, <4>3 DEF HInv, HeardHead, Emptied
      <4>4. CASE m.n = ex.n
        BY <3>2, <3>3, <3>11, <3>12, <4>1, <4>4 DEF Emptied
      <4>. QED
        BY <4>3, <4>4
    <3>. QED
      BY <2>2, <3>13, <3>14, <3>15
  <2>. QED
    BY <2>3, <2>4
<1>14. CASE ExDiscard
  <2>. DEFINE s == row.steps[ex.n]
              q == s.queue
              i == FirstWith(q, ex.ev.status)
              t == RemoveAt(q, i)
  <2>1. /\ row' = DiscardMatchingStepEvent(row, ex.n, ex.ev.status, SeriesOpen)
        /\ ex.pc = "discard" /\ req' = req /\ outcome' = outcome
        /\ ex'.pc # "discard"
    BY <1>1, <1>14 DEF ExDiscard, Executors
  <2>2. CASE row' = row
    BY <1>3, <2>1, <2>2
  <2>3. CASE row' # row
    <3>1. /\ row # NoRow /\ i # 0
          /\ row' = DropIfDone([row EXCEPT !.steps[ex.n] = WithQueue(@, RemoveAt(@.queue, i))],
                               SeriesOpen)
      BY <2>1, <2>3 DEF DiscardMatchingStepEvent
    <3>2. row \in Row /\ q \in Seq(Event) /\ Len(q) \in Nat
      BY <1>1, <3>1, StepFacts
    <3>3. row' = DropIfDone([row EXCEPT !.steps[ex.n] = WithQueue(@, t)], SeriesOpen)
      BY <3>1, <3>2
    <3>4. i \in 1..Len(q)
      <4>. HIDE DEF q
      <4>1. i \in 0..Len(q)
        BY <3>2, FirstWithIndex
      <4>. HIDE DEF i
      <4>. QED
        BY <3>1, <3>2, <4>1
    <3>5. Thinned(t, q)
      <4>. HIDE DEF i, q
      <4>. QED
        BY <3>2, <3>4, RemoveAtThinned
    <3>. HIDE DEF t, i
    <3>6. Emptied(ex.n, t)
      <4>1. LET x == [row EXCEPT !.steps[ex.n] = WithQueue(@, t)]
            IN  row' = x \/ row' = DropIfDone(x, SeriesOpen)
        BY <3>3
      <4>. QED
        BY <1>1, <3>1, <3>5, <4>1, QueueReplaced DEF Emptied
    <3>7. /\ s.status \in Terminal /\ <<ex.n, s.seq>> \in heard
          /\ \A j \in 1..Len(q) : q[j].seq = s.seq
      BY <2>1, <3>1 DEF HInv, HeardOwn
    <3>8. LossHeard
      BY <1>1, <3>6, <3>7, EmptiedLeaves
    <3>9. HeardCalls' /\ HeardOwn'
      BY <1>2, <2>1 DEF HInv, HeardCalls, Accounted, HeardOwn
    <3>10. HeardHead'
      <4>. DEFINE m == req["flush"].msg
      <4>1. SUFFICES ASSUME fl.pc = "step", row' # NoRow
                     PROVE  LET r == row'.steps[m.n]
                            IN  \/ r.queue # <<>> /\ r.queue[1] = EventOf(m)
                                \/ r.status \in Terminal
                                     /\ \A j \in 1..Len(r.queue) : <<m.n, r.queue[j].seq>> \in heard
        BY <1>2, <2>1 DEF HeardHead
      <4>2. m.n \in Steps
        BY <1>1, <4>1 DEF Inv, FlushCall, StepMsgs
      <4>3. CASE m.n # ex.n
        BY <3>1, <3>6, <4>1, <4>2, <4>3 DEF HInv, HeardHead, Emptied
      <4>4. CASE m.n = ex.n
        <5>1. \A j \in 1..Len(t) : t[j].seq = s.seq
          BY <3>5, <3>7 DEF Thinned
        <5>. QED
          BY <3>6, <3>7, <4>1, <4>4, <5>1 DEF Emptied
      <4>. QED
        BY <4>3, <4>4
    <3>. QED
      BY <3>8, <3>9, <3>10
  <2>. QED
    BY <2>2, <2>3
<1>15. ~(ExSkipBeats \/ ExAdvanceBeat \/ ExSeriesDone \/ ExRearm)
  BY <1>1 DEF ExSkipBeats, ExAdvanceBeat, ExSeriesDone, ExRearm
<1>. QED
  BY <1>6, <1>7, <1>8, <1>9, <1>10, <1>11, <1>13, <1>14, <1>15 DEF ExStep

(* Pruning, crashing, the start.                                           *)
LEMMA RestHeard ==
  ASSUME HInv, Prune \/ Crash \/ UNCHANGED vars
  PROVE  LossHeard /\ HeardCalls' /\ HeardHead' /\ HeardOwn'
<1>1. CASE Prune
  <2>1. WireOnly /\ heard' = heard /\ req' = req /\ fl' = fl /\ ex' = ex
    BY <1>1 DEF Prune, Prunable, Busy, WireOnly
  <2>. QED
    BY <2>1, HeardFrame
<1>2. CASE Crash
  <2>1. /\ row' = row /\ heard' = heard /\ fl'.pc = "idle" /\ ex'.pc = "idle"
        /\ \A c \in Callers : req'[c].ans = "none"
    BY <1>2 DEF Crash, ExIdle, FlushIdle, NoReq
  <2>. QED
    BY <2>1, HeardFrame DEF Accounted
<1>3. CASE UNCHANGED vars
  BY <1>3, HeardFrame DEF vars
<1>. QED
  BY <1>1, <1>2, <1>3

(* No event leaves its queue before Brain has answered it, unless it is a  *)
(* RUNNING overtaken by a later event Brain has answered: whatever the     *)
(* order of flush, executor and pool, the failures and the crashes,        *)
(* mark_step_synced, _discard_queued_event and discard_matching_step_event *)
(* take away nothing else.                                                 *)
THEOREM NothingLostSilently ==
  ASSUME OneShotPlan
  PROVE  Spec => NoSilentLoss
<1>1. Init => HeardCalls /\ HeardHead /\ HeardOwn
  BY DEF Init, ExIdle, FlushIdle, NoReq, HeardCalls, HeardHead, HeardOwn, Accounted
<1>2. ASSUME HInv, [Next]_vars PROVE LossHeard /\ HeardCalls' /\ HeardHead' /\ HeardOwn'
  BY <1>2, NetworkHeard, FlushHeard, ExecutorHeard, RestHeard DEF Next
<1>3. Spec => []IInv
  BY OutcomeInvariance
<1>4. IInv /\ HeardCalls /\ HeardHead /\ HeardOwn /\ [Next]_vars
        => LossHeard /\ HeardCalls' /\ HeardHead' /\ HeardOwn'
  BY <1>2 DEF HInv
<1>5. LossHeard => [row # NoRow =>
         \A n \in Steps : \A i \in DOMAIN row.steps[n].queue :
           LET e == row.steps[n].queue[i]
           IN  Leaves(n, e) =>
                 \/ <<n, e.seq>> \in heard
                 \/ e.status = RUNNING /\ \E k \in heard : k[1] = n /\ k[2] > e.seq]_vars
  BY DEF LossHeard
<1>. QED
  BY <1>1, <1>3, <1>4, <1>5, PTL DEF Spec, NoSilentLoss


-----------------------------------------------------------------------------
(* Reporting implements StatusDelivery.  What is still to be excluded is   *)
(* that Brain is told a success of a step the edge has given up: once the  *)
(* row is gone, the only news of a step without an outcome is a RUNNING    *)
(* from before, or the FAILED of _advance_skipped_beats.                   *)

\* News of a step that has no outcome.
Harmless(m) == m.kind = "step" /\ outcome[m.n] \notin Terminal => m.status \in {RUNNING, FAILED}

GivenUp == row = NoRow =>
    /\ \A m \in late : Harmless(m)
    /\ \A i \in 1..Len(pool) : Harmless(pool[i])
    /\ \A c \in Callers : Harmless(req[c].msg)
    /\ \A n \in Steps : outcome[n] \notin Terminal => brain.step[n] \in {WAITING, RUNNING, FAILED}

Decided == \A n \in Steps : outcome[n] \in Terminal \cup {WAITING}

\* What the executor posts itself is a success the row has recorded.
PostsOutcome == ex.pc \in {"report", "posted", "discard"} =>
    ex.ev.status = SUCCEEDED /\ outcome[ex.n] = SUCCEEDED

GInv == IInv /\ RowOutlivesStep /\ GivenUp /\ Decided /\ PostsOutcome

\* A step of StatusDelivery, or none.
Delivers == Delivery!Next \/ UNCHANGED Delivery!vars

\* What the next state owes.
Goes == Delivers /\ GivenUp' /\ Decided' /\ PostsOutcome'

(* While the row is there, a genuine message of a step without an outcome  *)
(* is a RUNNING, and Brain knows no more.                                  *)
LEMMA OpenMessage ==
  ASSUME IInv, row # NoRow, NEW m \in Msgs, GenuineMsg(row, outcome, m)
  PROVE  Harmless(m)
<1>. SUFFICES ASSUME m.kind = "step", outcome[m.n] \notin Terminal
              PROVE  m.status = RUNNING
  BY DEF Harmless
<1>1. /\ m.n \in Steps /\ m.status \in StepStatus /\ m.seq \in Nat
      /\ EventOf(m).status = m.status /\ EventOf(m).seq = m.seq
  BY StepMessage
<1>2. /\ m.seq \in 1..row.steps[m.n].seq
      /\ m.status = IF m.seq = row.steps[m.n].seq THEN row.steps[m.n].status ELSE RUNNING
  BY <1>1 DEF GenuineMsg, Genuine
<1>3. /\ row.steps[m.n].seq \in Nat /\ row.steps[m.n].status \in StepStatus
      /\ row.steps[m.n].status \notin Terminal
      /\ row.steps[m.n].status = WAITING => row.steps[m.n].seq = 0
  BY <1>1, StepFacts DEF IInv, OutcomeInv, Told, Numbered, Terminal, WAITING, SUCCEEDED, FAILED
<1>. QED
  BY <1>2, <1>3 DEF StepStatus, Terminal

LEMMA OpenBrain ==
  ASSUME IInv, row # NoRow, NEW n \in Steps, outcome[n] \notin Terminal
  PROVE  brain.step[n] \in {WAITING, RUNNING}
<1>1. row.steps[n].status \in {WAITING, RUNNING}
  BY StepFacts DEF IInv, OutcomeInv, Told, StepStatus, Terminal, WAITING, SUCCEEDED, FAILED
<1>2. \/ brain.step[n] = WAITING
      \/ Genuine(row, outcome, n, [status |-> brain.step[n], seq |-> brain.seq[n]])
  BY DEF IInv, OutcomeInv, BrainGenuine
<1>. QED
  BY <1>1, <1>2 DEF Genuine

(* So it is with all that is on its way, row or no row.                    *)
LEMMA AllHarmless ==
  ASSUME GInv
  PROVE  /\ \A m \in late : Harmless(m)
         /\ \A i \in 1..Len(pool) : Harmless(pool[i])
         /\ \A c \in Callers : Harmless(req[c].msg)
         /\ \A n \in Steps : outcome[n] \notin Terminal
                               => brain.step[n] \in {WAITING, RUNNING, FAILED}
<1>1. CASE row = NoRow
  BY <1>1 DEF GInv, GivenUp
<1>2. CASE row # NoRow
  <2>1. late \subseteq Msgs /\ pool \in Seq(Msgs) /\ req \in [Callers -> Calls]
    BY DEF GInv, IInv, Inv, TypeOK
  <2>2. /\ \A m \in late : m \in Msgs /\ GenuineMsg(row, outcome, m)
        /\ \A i \in 1..Len(pool) : pool[i] \in Msgs /\ GenuineMsg(row, outcome, pool[i])
        /\ \A c \in Callers : req[c].msg \in Msgs /\ GenuineMsg(row, outcome, req[c].msg)
    BY <2>1 DEF GInv, IInv, OutcomeInv, MsgsGenuine, Calls
  <2>. QED
    BY <1>2, <2>2, OpenMessage, OpenBrain DEF GInv
<1>. QED
  BY <1>1, <1>2

(* A step that decides nothing and tells Brain nothing changes nothing in  *)
(* StatusDelivery, if what it sends is harmless.                           *)
LEMMA Unmoved ==
  ASSUME GInv, outcome' = outcome, brain' = brain,
         row' = NoRow =>
           /\ \A m \in late' : Harmless(m)
           /\ \A i \in 1..Len(pool') : Harmless(pool'[i])
           /\ \A c \in Callers : Harmless(req'[c].msg),
         ex'.pc \in {"report", "posted", "discard"} =>
           ex'.ev.status = SUCCEEDED /\ outcome[ex'.n] = SUCCEEDED
  PROVE  Goes
<1>1. UNCHANGED Delivery!vars
  BY DEF Delivery!vars, KnownOutcome
<1>2. GivenUp'
  BY AllHarmless DEF GivenUp, Harmless
<1>3. Decided' /\ PostsOutcome'
  BY DEF GInv, Decided, PostsOutcome
<1>. QED
  BY <1>1, <1>2, <1>3 DEF Goes, Delivers

(* What Brain takes is what was decided, or the failure of a step given    *)
(* up; and it takes nothing back.                                          *)
LEMMA BrainMaps ==
  ASSUME GInv, NEW m \in Msgs, GenuineMsg(row, outcome, m), Harmless(m), BrainTakes(m),
         row' = row, outcome' = outcome, ex' = ex,
         row = NoRow =>
           /\ \A x \in late' : Harmless(x)
           /\ \A i \in 1..Len(pool') : Harmless(pool'[i])
           /\ \A c \in Callers : Harmless(req'[c].msg)
  PROVE  Goes
<1>. USE DEF GInv
<1>1. /\ brain \in Brains /\ brain.step \in [Steps -> StepStatus]
      /\ brain.seq \in [Steps -> Nat] /\ outcome \in [Steps -> StepStatus]
  BY DEF IInv, Inv, TypeOK, Brains
<1>2. Decided' /\ PostsOutcome'
  BY DEF Decided, PostsOutcome
<1>3. CASE m.kind # "step" \/ BrainRefuses(m)
  <2>1. brain'.step = brain.step
    BY <1>1, <1>3 DEF BrainTakes, Brains
  <2>2. UNCHANGED Delivery!vars
    BY <2>1 DEF Delivery!vars, KnownOutcome
  <2>3. GivenUp'
    BY <2>1 DEF GivenUp, Harmless
  <2>. QED
    BY <1>2, <2>2, <2>3 DEF Goes, Delivers
<1>4. CASE m.kind = "step" /\ ~BrainRefuses(m)
  <2>. DEFINE n == m.n
  <2>1. /\ n \in Steps /\ m.status \in StepStatus /\ m.seq \in Nat
        /\ Genuine(row, outcome, n, [status |-> m.status, seq |-> m.seq])
    BY <1>4, StepMessage DEF GenuineMsg, EventOf
  <2>2. /\ brain'.step = [brain.step EXCEPT ![n] = m.status]
        /\ m.seq > brain.seq[n]
        /\ m.status = RUNNING => brain.step[n] \notin Terminal
    BY <1>1, <1>4, <2>1 DEF BrainTakes, BrainRefuses, Brains
  <2>3. GivenUp'
    BY <1>1, <1>4, <2>1, <2>2 DEF GivenUp, Harmless
  <2>4. \/ brain.seq[n] = 0 /\ brain.step[n] = WAITING
        \/ Genuine(row, outcome, n, [status |-> brain.step[n], seq |-> brain.seq[n]])
    BY <2>1 DEF IInv, OutcomeInv, BrainGenuine
  <2>5. WAITING \notin Terminal /\ RUNNING \notin Terminal /\ FAILED \in Terminal
    BY DEF WAITING, RUNNING, SUCCEEDED, FAILED, Terminal
  <2>6. m.status # WAITING
    <3>1. CASE row = NoRow
      BY <1>4, <2>1, <2>5, <3>1 DEF Genuine, Harmless, WAITING, RUNNING, FAILED
    <3>2. CASE row # NoRow
      <4>1. row.steps[n].seq \in Nat /\ (row.steps[n].status = WAITING => row.steps[n].seq = 0)
        BY <2>1, <3>2, StepFacts DEF IInv, OutcomeInv, Numbered
      <4>. QED
        BY <2>1, <3>2, <4>1 DEF Genuine, WAITING, RUNNING
    <3>. QED
      BY <3>1, <3>2
  <2>7. CASE m.status = RUNNING
    <3>1. KnownOutcome' = KnownOutcome
      BY <1>1, <2>1, <2>2, <2>5, <2>7 DEF KnownOutcome
    <3>2. UNCHANGED Delivery!vars
      BY <3>1 DEF Delivery!vars
    <3>. QED
      BY <1>2, <2>3, <3>2 DEF Goes, Delivers
  <2>8. CASE m.status \in Terminal /\ outcome[n] \in Terminal
    <3>1. m.status = outcome[n]
      <4>1. CASE row = NoRow
        BY <2>1, <2>5, <2>8, <4>1 DEF Genuine
      <4>2. CASE row # NoRow
        BY <2>1, <2>5, <2>8, <4>2 DEF Genuine, IInv, OutcomeInv, Told
      <4>. QED
        BY <4>1, <4>2
    <3>2. brain.step[n] \in Terminal => brain.step[n] = outcome[n]
      <4>1. CASE row = NoRow
        BY <2>4, <2>5, <2>8, <4>1 DEF Genuine
      <4>2. CASE row # NoRow
        BY <2>1, <2>4, <2>5, <2>8, <4>2 DEF Genuine, IInv, OutcomeInv, Told
      <4>. QED
        BY <4>1, <4>2
    <3>3. KnownOutcome' = [KnownOutcome EXCEPT ![n] = outcome[n]]
      BY <1>1, <2>1, <2>2, <2>8, <3>1 DEF KnownOutcome
    <3>4. CASE brain.step[n] \in Terminal
      <4>1. KnownOutcome' = KnownOutcome
        BY <1>1, <2>1, <3>2, <3>3, <3>4 DEF KnownOutcome
      <4>2. UNCHANGED Delivery!vars
        BY <4>1 DEF Delivery!vars
      <4>. QED
        BY <1>2, <2>3, <4>2 DEF Goes, Delivers
    <3>5. CASE brain.step[n] \notin Terminal
      <4>1. KnownOutcome[n] = WAITING /\ outcome[n] # WAITING
        BY <2>1, <2>5, <2>8, <3>5 DEF KnownOutcome
      <4>2. Delivery!Learn(n)
        BY <3>3, <4>1 DEF Delivery!Learn
      <4>. QED
        BY <1>2, <2>1, <2>3, <4>2 DEF Goes, Delivers, Delivery!Next
    <3>. QED
      BY <3>4, <3>5
  <2>9. CASE m.status \in Terminal /\ outcome[n] \notin Terminal
    <3>1. m.status = FAILED /\ outcome[n] = WAITING
      BY <1>4, <2>1, <2>5, <2>9 DEF Harmless, Decided
    <3>2. brain.step[n] \in {WAITING, RUNNING, FAILED}
      BY <2>1, <2>9, AllHarmless
    <3>3. KnownOutcome' = [KnownOutcome EXCEPT ![n] = FAILED]
      BY <1>1, <2>1, <2>2, <2>5, <3>1 DEF KnownOutcome
    <3>4. CASE brain.step[n] = FAILED
      <4>1. KnownOutcome' = KnownOutcome
        BY <1>1, <2>1, <2>5, <3>3, <3>4 DEF KnownOutcome
      <4>2. UNCHANGED Delivery!vars
        BY <4>1 DEF Delivery!vars
      <4>. QED
        BY <1>2, <2>3, <4>2 DEF Goes, Delivers
    <3>5. CASE brain.step[n] # FAILED
      <4>1. KnownOutcome[n] = WAITING
        BY <2>1, <2>5, <3>2, <3>5 DEF KnownOutcome
      <4>2. Delivery!GiveUp(n)
        BY <3>1, <3>3, <4>1 DEF Delivery!GiveUp
      <4>. QED
        BY <1>2, <2>1, <2>3, <4>2 DEF Goes, Delivers, Delivery!Next
    <3>. QED
      BY <3>4, <3>5
  <2>. QED
    BY <2>1, <2>6, <2>7, <2>8, <2>9 DEF StepStatus, Terminal
<1>. QED
  BY <1>3, <1>4


(* What is left of a list when one element has gone was in it.             *)
LEMMA LeftOver ==
  ASSUME NEW T, NEW q \in Seq(T), NEW i \in 1..Len(q), NEW j \in 1..Len(RemoveAt(q, i))
  PROVE  \E k \in 1..Len(q) : RemoveAt(q, i)[j] = q[k]
<1>1. /\ Len(RemoveAt(q, i)) = Len(q) - 1
      /\ \A x \in 1..(Len(q) - 1) : RemoveAt(q, i)[x] = IF x < i THEN q[x] ELSE q[x + 1]
  BY RemoveAtElements
<1>2. Len(q) \in Nat
  OBVIOUS
<1>. QED
  BY <1>1, <1>2

(* Brain's answers, failed calls and the pool's jobs.                      *)
LEMMA NetworkMaps ==
  ASSUME GInv,
         \/ \E c \in Callers : BrainAnswers(c) \/ CallFails(c)
         \/ \E m \in late : LateArrives(m)
         \/ \E i \in InFlight : PoolDelivers(i) \/ PoolFails(i) \/ PoolStale(i)
  PROVE  Goes
<1>1. /\ late \subseteq Msgs /\ pool \in Seq(Msgs) /\ req \in [Callers -> Calls]
      /\ \A c \in Callers : req[c].msg \in Msgs
  BY DEF GInv, IInv, Inv, TypeOK, Calls
<1>2. row' = row /\ outcome' = outcome /\ ex' = ex
  BY DEF BrainAnswers, CallFails, LateArrives, PoolDelivers, PoolFails, PoolStale
<1>3. MsgsGenuine
  BY DEF GInv, IInv, OutcomeInv
<1>4. ASSUME NEW i \in InFlight, pool' = RemoveAt(pool, i)
      PROVE  /\ pool[i] \in Msgs /\ GenuineMsg(row, outcome, pool[i]) /\ Harmless(pool[i])
             /\ \A j \in 1..Len(pool') : Harmless(pool'[j])
  <2>1. i \in 1..Len(pool)
    BY <1>1 DEF InFlight
  <2>2. \A j \in 1..Len(pool') : \E k \in 1..Len(pool) : pool'[j] = pool[k]
    <3>1. pool \in Seq(Msgs)
      BY <1>1
    <3>. QED
      BY <1>4, <2>1, <3>1, LeftOver
  <2>3. pool[i] \in Msgs /\ GenuineMsg(row, outcome, pool[i])
    BY <1>1, <1>3, <2>1 DEF MsgsGenuine
  <2>4. \A k \in 1..Len(pool) : Harmless(pool[k])
    BY AllHarmless
  <2>. QED
    BY <2>1, <2>2, <2>3, <2>4
<1>5. ASSUME NEW c \in Callers, BrainAnswers(c) PROVE Goes
  <2>1. /\ BrainTakes(req[c].msg) /\ late' = late /\ pool' = pool
        /\ \A d \in Callers : req'[d].msg = req[d].msg
    BY <1>1, <1>5 DEF BrainAnswers, Calls
  <2>. QED
    BY <1>1, <1>2, <1>3, <2>1, AllHarmless, BrainMaps DEF MsgsGenuine
<1>6. ASSUME NEW c \in Callers, CallFails(c) PROVE Goes
  <2>1. /\ late' \subseteq late \cup {req[c].msg} /\ pool' = pool /\ brain' = brain
        /\ \A d \in Callers : req'[d].msg = req[d].msg
    BY <1>1, <1>6 DEF CallFails, Calls
  <2>. QED
    BY <1>2, <2>1, AllHarmless, Unmoved DEF GInv, PostsOutcome
<1>7. ASSUME NEW m \in late, LateArrives(m) PROVE Goes
  <2>1. BrainTakes(m) /\ late' \subseteq late /\ pool' = pool /\ req' = req
    BY <1>7 DEF LateArrives
  <2>. QED
    BY <1>1, <1>2, <1>3, <2>1, AllHarmless, BrainMaps DEF MsgsGenuine
<1>8. ASSUME NEW i \in InFlight, PoolDelivers(i) PROVE Goes
  <2>1. BrainTakes(pool[i]) /\ late' = late /\ req' = req /\ pool' = RemoveAt(pool, i)
    BY <1>8 DEF PoolDelivers
  <2>. QED
    BY <1>2, <1>4, <2>1, AllHarmless, BrainMaps
<1>9. ASSUME NEW i \in InFlight, PoolFails(i) \/ PoolStale(i) PROVE Goes
  <2>1. /\ late' \subseteq late \cup {pool[i]} /\ req' = req /\ pool' = RemoveAt(pool, i)
        /\ brain' = brain
    BY <1>9 DEF PoolFails, PoolStale
  <2>. QED
    BY <1>2, <1>4, <2>1, AllHarmless, Unmoved DEF GInv, PostsOutcome
<1>. QED
  BY <1>5, <1>6, <1>7, <1>8, <1>9

(* The flush: it sends an event only from a row that is there.             *)
LEMMA FlushMaps ==
  ASSUME GInv, FlushStep \/ \E by \in {"thread", "executor"} : FlushBegin(by)
  PROVE  Goes
<1>. USE DEF FlushRest
<1>1. /\ brain' = brain /\ outcome' = outcome /\ pool' = pool /\ late' = late
  BY DEF FlushStep, FlushPostStep, FlushStepAnswered, FlushQueuesEmpty, FlushSnapshot,
         FlushSkipIntent, FlushPostIntent, FlushIntentAnswered, FlushGivesUp, FlushEnd,
         FlushBegin
<1>2. /\ req \in [Callers -> Calls] /\ ex.pc # "flush" /\ fl.by = "thread"
  BY DEF GInv, IInv, OutcomeInv, Inv, TypeOK, OneShot
<1>3. ex' = ex
  BY <1>2 DEF FlushStep, FlushPostStep, FlushStepAnswered, FlushQueuesEmpty, FlushSnapshot,
         FlushSkipIntent, FlushPostIntent, FlushIntentAnswered, FlushGivesUp, FlushEnd,
         FlushBegin, FlushReturns
<1>4. Harmless(NoReq.msg) /\ \A w : Harmless(Sent(IntentMsg(w)).msg)
  BY DEF NoReq, Sent, IntentMsg, Harmless
<1>5. row' = NoRow => \A c \in Callers : Harmless(req'[c].msg)
  <2>1. CASE FlushPostStep
    BY <2>1 DEF FlushPostStep, Busy
  <2>2. CASE FlushStepAnswered \/ FlushIntentAnswered \/ FlushGivesUp \/ FlushPostIntent
    <3>1. PICK r : req' = [req EXCEPT !["flush"] = r] /\ Harmless(r.msg)
      BY <1>4, <2>2 DEF FlushStepAnswered, FlushIntentAnswered, FlushGivesUp, FlushPostIntent
    <3>. QED
      BY <1>2, <3>1, AllHarmless
  <2>3. CASE \/ FlushQueuesEmpty \/ FlushSnapshot \/ FlushSkipIntent \/ FlushEnd
             \/ \E by \in {"thread", "executor"} : FlushBegin(by)
    <3>1. req' = req
      BY <2>3 DEF FlushQueuesEmpty, FlushSnapshot, FlushSkipIntent, FlushEnd, FlushBegin
    <3>. QED
      BY <3>1, AllHarmless
  <2>. QED
    BY <2>1, <2>2, <2>3 DEF FlushStep
<1>. QED
  BY <1>1, <1>3, <1>5, AllHarmless, Unmoved DEF GInv, PostsOutcome

(* One more harmless job in the pool.                                      *)
LEMMA PoolHarmless ==
  ASSUME NEW q \in Seq(Msgs), NEW m, \A i \in 1..Len(q) : Harmless(q[i]), Harmless(m)
  PROVE  \A i \in 1..Len(Append(q, m)) : Harmless(Append(q, m)[i])
<1>1. /\ Len(q) \in Nat /\ Len(Append(q, m)) = Len(q) + 1
      /\ \A i \in 1..(Len(q) + 1) : Append(q, m)[i] = IF i = Len(q) + 1 THEN m ELSE q[i]
  OBVIOUS
<1>. QED
  BY <1>1

(* Recording a terminal status decides the step, which Brain does not know *)
(* yet; without a row it is a failure nobody records.                      *)
LEMMA ReportMaps ==
  ASSUME OneShotPlan, GInv, NEW n \in Steps, NEW st \in Terminal, NEW next,
         next \in {"advance", "failing"}, Report(n, st, next), ExRest, req' = req,
         ex.pc # "idle", ex.plan[n] \in {WAITING, RUNNING}, row = NoRow => st = FAILED
  PROVE  Goes
<1>. DEFINE ev == EventIn(row', n, st)
<1>1. /\ row' = SetStepStatus(row, n, st)
      /\ outcome' = IF row = NoRow THEN outcome ELSE [outcome EXCEPT ![n] = st]
      /\ ex' = [ex EXCEPT !.pc = IF st = FAILED THEN next ELSE "report",
                          !.next = next, !.n = n, !.ev = ev, !.plan[n] = st]
      /\ IF st = FAILED THEN Submit(StepMsg(n, ev)) ELSE pool' = pool
      /\ brain' = brain /\ late' = late
  BY DEF Report, OneShotPlan, ExRest
<1>2. ex \in Executors /\ pool \in Seq(Msgs) /\ outcome \in [Steps -> StepStatus]
  BY DEF GInv, IInv, Inv, TypeOK
<1>3. ev.status = st
  BY DEF EventIn
<1>. HIDE DEF ev
<1>4. ex'.pc = (IF st = FAILED THEN next ELSE "report") /\ ex'.n = n /\ ex'.ev = ev
  BY <1>1, <1>2 DEF Executors
<1>5. st \in {SUCCEEDED, FAILED} /\ SUCCEEDED # FAILED
  BY DEF Terminal, SUCCEEDED, FAILED
<1>6. CASE row = NoRow
  <2>1. st = FAILED /\ outcome' = outcome /\ Submit(StepMsg(n, ev))
    BY <1>1, <1>6
  <2>2. Harmless(StepMsg(n, ev))
    BY <1>3, <2>1 DEF StepMsg, Harmless
  <2>3. \A i \in 1..Len(pool') : Harmless(pool'[i])
    BY <1>2, <2>1, <2>2, AllHarmless, PoolHarmless DEF Submit
  <2>4. ex'.pc \notin {"report", "posted", "discard"}
    BY <1>4, <2>1
  <2>. QED
    BY <1>1, <2>1, <2>3, <2>4, AllHarmless, Unmoved
<1>7. CASE row # NoRow
  <2>1. row' # NoRow
    <3>1. Inv
      BY DEF GInv, IInv
    <3>2. row \in Row /\ RowSound(row) /\ st \in StepStatus
      BY <1>7, <3>1, StepFacts DEF Inv, QueueSound, Terminal, StepStatus
    <3>. QED
      BY <1>1, <3>2, SetStepEffect
  <2>2. GivenUp'
    BY <2>1 DEF GivenUp
  <2>3. outcome' = [outcome EXCEPT ![n] = st]
    BY <1>1, <1>7
  <2>4. Decided' /\ PostsOutcome'
    BY <1>2, <1>3, <1>4, <1>5, <2>3 DEF GInv, Decided, PostsOutcome
  <2>5. outcome[n] = WAITING
    BY <1>7 DEF GInv, IInv, OutcomeInv, Copied, Told, Terminal, WAITING, RUNNING, SUCCEEDED, FAILED
  <2>6. KnownOutcome[n] = WAITING
    BY <1>7, <2>5, OpenBrain
    DEF KnownOutcome, GInv, Terminal, WAITING, RUNNING, SUCCEEDED, FAILED
  <2>7. KnownOutcome' = KnownOutcome
    BY <1>1 DEF KnownOutcome
  <2>8. Delivery!Decide(n)
    BY <2>3, <2>5, <2>6, <2>7 DEF Delivery!Decide
  <2>. QED
    BY <2>2, <2>4, <2>8 DEF Goes, Delivers, Delivery!Next
<1>. QED
  BY <1>6, <1>7

(* The executor.                                                           *)
LEMMA ExecutorMaps ==
  ASSUME OneShotPlan, GInv, ExStep
  PROVE  Goes
<1>. USE DEF ExRest
<1>1. /\ ex \in Executors /\ ex.n \in Steps /\ req \in [Callers -> Calls] /\ ~Recurring
      /\ pool \in Seq(Msgs) /\ Reporting /\ PostsOutcome
      /\ ex.pc \notin {"beat", "gate", "flush", "flushing"}
      /\ ex.next \in {"idle", "advance", "failing"}
  BY DEF GInv, IInv, OutcomeInv, Inv, TypeOK, Executors, OneShot, OneShotPlan
<1>2. brain' = brain /\ late' = late
  BY Zenon
  DEF ExStep, ExTake, ExAdvanced, ExSkipBeats, ExLoopEnds, ExIntentRunning, ExMissed,
      ExStart, ExUnresolved, ExCapabilityEnds, ExPost, ExPostAnswered, ExDiscard,
      ExPostFailed, ExFailIntent, ExAdvanceBeat, ExSeriesDone, ExRearm, ExFinalize
<1>3. Harmless(NoReq.msg) /\ \A w : Harmless(IntentMsg(w))
  BY DEF NoReq, IntentMsg, Harmless
<1>4. ASSUME outcome' = outcome,
             pool' = pool \/ \E w : Submit(IntentMsg(w)),
             req' = req \/ \E r : req' = [req EXCEPT !["executor"] = r] /\ Harmless(r.msg),
             \/ ex'.pc \notin {"report", "posted", "discard"}
             \/ /\ ex.pc \in {"report", "posted", "discard"}
                /\ ex'.ev = ex.ev /\ ex'.n = ex.n
      PROVE  Goes
  <2>1. \A i \in 1..Len(pool') : Harmless(pool'[i])
    <3>1. \A i \in 1..Len(pool) : Harmless(pool[i])
      BY AllHarmless
    <3>2. CASE pool' = pool
      BY <3>1, <3>2
    <3>3. CASE \E w : Submit(IntentMsg(w))
      BY <1>1, <1>3, <3>1, <3>3, PoolHarmless DEF Submit
    <3>. QED
      BY <1>4, <3>2, <3>3
  <2>2. \A c \in Callers : Harmless(req'[c].msg)
    BY <1>1, <1>4, AllHarmless
  <2>. QED
    BY <1>1, <1>2, <1>4, <2>1, <2>2, AllHarmless, Unmoved DEF PostsOutcome
<1>5. CASE ExTake \/ ExAdvanced \/ ExLoopEnds \/ (\E n \in Steps : ExStart(n))
  <2>1. /\ outcome' = outcome /\ pool' = pool /\ req' = req
        /\ ex'.pc \notin {"report", "posted", "discard"}
    BY <1>1, <1>5 DEF ExTake, ExAdvanced, ExLoopEnds, ExStart, Executors, ExIdle
  <2>. QED
    BY <1>4, <2>1
<1>6. CASE ExIntentRunning \/ ExFailIntent \/ ExFinalize
  <2>1. /\ outcome' = outcome /\ req' = req /\ ex'.pc \notin {"report", "posted", "discard"}
    <3>1. CASE ExIntentRunning
      BY <1>1, <3>1 DEF ExIntentRunning, Executors
    <3>2. CASE ExFailIntent
      BY <1>1, <3>2 DEF ExFailIntent, Executors
    <3>3. CASE ExFinalize
      BY <3>3 DEF ExFinalize, ExIdle
    <3>. QED
      BY <1>6, <3>1, <3>2, <3>3
  <2>2. pool' = pool \/ \E w : Submit(IntentMsg(w))
    BY <1>6 DEF ExIntentRunning, ExFailIntent, ExFinalize, CloseIntent
  <2>. QED
    BY <1>4, <2>1, <2>2
<1>7. ASSUME NEW n \in Steps, ExMissed(n) \/ ExUnresolved(n) PROVE Goes
  <2>1. /\ FAILED \in Terminal /\ req' = req
        /\ Report(n, FAILED, "advance") \/ Report(n, FAILED, "failing")
        /\ ex.pc # "idle" /\ ex.plan[n] \in {WAITING, RUNNING} /\ ExRest
    BY <1>7 DEF ExMissed, ExUnresolved, Eligible, Terminal
  <2>. QED
    BY <2>1, ReportMaps
<1>8. CASE ExCapabilityEnds
  <2>1. /\ ex.pc = "capability" /\ ex.plan[ex.n] \in {WAITING, RUNNING} /\ req' = req /\ ExRest
    BY <1>1, <1>8 DEF ExCapabilityEnds, Reporting
  <2>2. PICK st \in Terminal : Report(ex.n, st, IF st = FAILED THEN "failing" ELSE "advance")
    BY <1>1, <1>8 DEF ExCapabilityEnds
  <2>3. row # NoRow
    BY <2>1 DEF GInv, RowOutlivesStep
  <2>. QED
    BY <1>1, <2>1, <2>2, <2>3, ReportMaps
<1>9. CASE ExPost
  <2>. DEFINE q == IF row = NoRow THEN <<>> ELSE row.steps[ex.n].queue
              i == FirstWith(q, ex.ev.status)
              e == IF i = 0 THEN ex.ev ELSE q[i]
  <2>1. /\ ex.pc = "report" /\ outcome' = outcome /\ pool' = pool
        /\ req' = [req EXCEPT !["executor"] = Sent(StepMsg(ex.n, e))]
        /\ ex'.ev = ex.ev /\ ex'.n = ex.n
    BY <1>1, <1>9 DEF ExPost, Executors
  <2>2. outcome[ex.n] \in Terminal
    BY <1>1, <2>1 DEF PostsOutcome, Terminal
  <2>3. Harmless(Sent(StepMsg(ex.n, e)).msg)
    BY <2>2 DEF Harmless, StepMsg, Sent
  <2>. HIDE DEF e
  <2>. QED
    BY <1>4, <2>1, <2>3
<1>10. CASE ExPostAnswered \/ ExPostFailed \/ ExDiscard
  <2>1. /\ outcome' = outcome /\ pool' = pool
        /\ req' = req \/ req' = [req EXCEPT !["executor"] = NoReq]
        /\ ex.pc \in {"posted", "discard"} /\ ex'.ev = ex.ev /\ ex'.n = ex.n
    BY <1>1, <1>10 DEF ExPostAnswered, ExPostFailed, ExDiscard, Executors
  <2>. QED
    BY <1>3, <1>4, <2>1
<1>11. ~(ExSkipBeats \/ ExAdvanceBeat \/ ExSeriesDone \/ ExRearm)
  BY <1>1 DEF ExSkipBeats, ExAdvanceBeat, ExSeriesDone, ExRearm
<1>. QED
  BY <1>5, <1>6, <1>7, <1>8, <1>9, <1>10, <1>11 DEF ExStep

(* Pruning, crashing and standing still.                                   *)
LEMMA RestMaps ==
  ASSUME GInv, Prune \/ Crash \/ UNCHANGED vars
  PROVE  Goes
<1>1. CASE Prune \/ UNCHANGED vars
  BY <1>1, AllHarmless, Unmoved DEF Prune, vars, GInv, PostsOutcome
<1>2. CASE Crash
  <2>1. /\ outcome' = outcome /\ brain' = brain /\ pool' = <<>> /\ ex'.pc = "idle"
        /\ \A c \in Callers : req'[c] = NoReq
    BY <1>2 DEF Crash, ExIdle
  <2>2. \A m \in late' : Harmless(m)
    <3>1. PICK M \in SUBSET ({req[c].msg : c \in {d \in Callers : req[d].ans = "sent"}}
                               \cup {pool[i] : i \in InFlight}) : late' = late \cup M
      BY <1>2 DEF Crash
    <3>2. \A i \in InFlight : i \in 1..Len(pool)
      BY DEF InFlight, GInv, IInv, Inv, TypeOK
    <3>. QED
      BY <3>1, <3>2, AllHarmless
  <2>3. Len(pool') = 0 /\ Harmless(NoReq.msg)
    BY <2>1, EmptySeq DEF NoReq, IntentMsg, Harmless
  <2>. QED
    BY <2>1, <2>2, <2>3, Unmoved
<1>. QED
  BY <1>1, <1>2

(* One-shot reporting implements StatusDelivery: a step is decided once,   *)
(* Brain learns what was decided, or the failure of a step whose row is    *)
(* gone, and keeps what it has learnt; for every plan, every cap of at     *)
(* least two events and any number of failed calls and crashes.            *)
THEOREM DeliveryImplemented ==
  ASSUME OneShotPlan
  PROVE  Spec => ImplementsDelivery
<1>1. Init => GivenUp /\ Decided /\ PostsOutcome /\ Delivery!Init
  <2>1. SUFFICES ASSUME Init PROVE GivenUp /\ Decided /\ PostsOutcome /\ Delivery!Init
    OBVIOUS
  <2>2. /\ outcome = [n \in Steps |-> WAITING] /\ ex.pc = "idle"
        /\ KnownOutcome = [n \in Steps |-> WAITING]
    BY <2>1 DEF Init, AllWaiting, KnownOutcome, ExIdle, Terminal, WAITING, SUCCEEDED, FAILED
  <2>3. /\ late = {} /\ \A i \in 1..Len(pool) : pool[i] = IntentMsg("intent_dispatched")
        /\ \A c \in Callers : req[c] = NoReq
        /\ \A n \in Steps : brain.step[n] = WAITING
    BY <2>1 DEF Init, AllWaiting
  <2>4. GivenUp
    BY <2>3 DEF GivenUp, Harmless, NoReq, IntentMsg
  <2>. QED
    BY <2>2, <2>4 DEF Decided, PostsOutcome, Delivery!Init
<1>2. GInv /\ [Next]_vars => Delivers /\ GivenUp' /\ Decided' /\ PostsOutcome'
  BY NetworkMaps, FlushMaps, ExecutorMaps, RestMaps DEF Next, Goes
<1>3. Spec => []IInv
  BY OutcomeInvariance
<1>4. Spec => []RowOutlivesStep
  BY RowsOutliveSteps
<1>5. Delivers => [Delivery!Next]_(Delivery!vars)
  BY DEF Delivers
<1>. QED
  BY <1>1, <1>2, <1>3, <1>4, <1>5, PTL DEF Spec, GInv, ImplementsDelivery, Delivery!Spec

=============================================================================
