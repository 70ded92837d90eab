---------------------------- MODULE LedgerOutcome ----------------------------
(***************************************************************************)
(* Why the terminal status of a one-shot step is never lost: an inductive  *)
(* invariant of LedgerSync that implies OutcomeKept when nothing recurs.   *)
(* TLC checks it on a small instance, LedgerOutcomeProofs proves it for    *)
(* every plan and every number of failures.                                *)
(*                                                                         *)
(* The argument. A one-shot step queues at most two events, RUNNING and    *)
(* then its outcome, so the cap drops nothing and a terminal event is the  *)
(* newest there is. Every copy of an event, in a queue, on its way or in   *)
(* Brain, is one the row once queued (the Genuine parts). So Brain refuses *)
(* a terminal event only when it has it (Answered); and when a flush finds *)
(* another event at the head than the one it posted, the executor has      *)
(* taken that one away, which it does only once Brain has the outcome      *)
(* (FlushHead).                                                            *)
(***************************************************************************)
EXTENDS LedgerSync

\* An event that a row once queued for step n: the newest is the step's status,
\* an older one is RUNNING.  Of a row that is gone only the outcome is known.
Genuine(r, out, n, ev) ==
    IF r = NoRow THEN out[n] \in Terminal => ev.status \in {RUNNING, out[n]}
    ELSE LET s == r.steps[n]
         IN  /\ ev.seq \in 1..s.seq
             /\ ev.status = IF ev.seq = s.seq THEN s.status ELSE RUNNING

GenuineMsg(r, out, m) == m.kind = "step" => Genuine(r, out, m.n, EventOf(m))

\* Brain b has the step's terminal status.
Known(b, out, n) == out[n] \in Terminal /\ b.step[n] = out[n]

Told == row # NoRow =>
    \A n \in Steps : outcome[n] = IF row.steps[n].status \in Terminal
                                  THEN row.steps[n].status ELSE WAITING

Numbered == row # NoRow =>
    \A n \in Steps : LET s == row.steps[n]
                     IN  /\ s.status = WAITING => s.seq = 0
                         /\ s.status = RUNNING => s.seq = 1
                         /\ s.status \in Terminal => s.seq \in 1..2

Copied == ex.pc # "idle" =>
    \A n \in Steps : /\ row # NoRow => ex.plan[n] = row.steps[n].status
                     /\ outcome[n] \in Terminal => ex.plan[n] = outcome[n]

QueueGenuine == row # NoRow =>
    \A n \in Steps : \A i \in 1..Len(row.steps[n].queue) :
        Genuine(row, outcome, n, row.steps[n].queue[i])

MsgsGenuine ==
    /\ \A m \in late : GenuineMsg(row, outcome, m)
    /\ \A i \in 1..Len(pool) : GenuineMsg(row, outcome, pool[i])
    /\ \A c \in Callers : GenuineMsg(row, outcome, req[c].msg)

BrainGenuine ==
    \A n \in Steps : \/ brain.seq[n] = 0 /\ brain.step[n] = WAITING
                     \/ Genuine(row, outcome, n,
                                [status |-> brain.step[n], seq |-> brain.seq[n]])

Answered == \A c \in Callers :
    LET m == req[c].msg
    IN  Accounted(c) /\ m.kind = "step" /\ m.status \in Terminal
          /\ outcome[m.n] \in Terminal => Known(brain, outcome, m.n)

FlushHead == fl.pc = "step" =>
    LET m == req["flush"].msg
    IN  /\ m.kind = "step"
        /\ row # NoRow =>
             \/ row.steps[m.n].queue # <<>> /\ row.steps[m.n].queue[1] = EventOf(m)
             \/ Known(brain, outcome, m.n)

Reporting ==
    /\ ex.pc \in {"starting", "capability"} => ex.plan[ex.n] = RUNNING
    /\ ex.pc \in {"report", "posted", "discard"} =>
          /\ ex.ev.status \in Terminal /\ ex.plan[ex.n] = ex.ev.status
          /\ Genuine(row, outcome, ex.n, ex.ev)
    /\ ex.pc = "posted" =>
          LET m == req["executor"].msg
          IN  m.kind = "step" /\ m.n = ex.n /\ m.status = ex.ev.status
    /\ ex.pc = "discard" /\ outcome[ex.n] \in Terminal => Known(brain, outcome, ex.n)

OneShot == /\ ex.pc \notin {"beat", "gate", "flush", "flushing"}
           /\ ex.next \in {"idle", "advance", "failing"}
           /\ fl.by = "thread"

\* The whole argument: the parts above, and what they are for.
OutcomeInv == /\ Told /\ Numbered /\ Copied /\ QueueGenuine /\ MsgsGenuine /\ BrainGenuine
              /\ Answered /\ FlushHead /\ Reporting /\ OneShot /\ OutcomeKept

=============================================================================
