----------------------------- MODULE LedgerSync -----------------------------
(***************************************************************************)
(* How one intent's local progress reaches Brain.                          *)
(*                                                                         *)
(* Four kinds of thread touch the intent's ledger row:                     *)
(*   - the executor thread, which runs the plan and writes every status    *)
(*     change to the row (executor.handle_intent);                         *)
(*   - flushing threads, one at a time inside `_flush_lock`, which replay  *)
(*     the queues to Brain (LocalLedger.flush_to_brain);                   *)
(*   - two pool workers, which post some statuses a second time, at once   *)
(*     and without retry (brain_client._REPORT_POOL);                      *)
(*   - the control loop, which prunes rows that need nothing more.         *)
(* An HTTP call is three steps: the caller sends, Brain answers, the caller*)
(* acts on the answer.  A call may fail before or after Brain applied it,  *)
(* and a request given up by its caller may still arrive.  The process may *)
(* crash between any two steps; the row is on disk and survives.           *)
(*                                                                         *)
(* One action is one block under `_lock`, or one HTTP step.                *)
(***************************************************************************)
EXTENDS LedgerRecord, FiniteSets

CONSTANTS
    Recurring,   \* the plan is one interval/cron step, not a list of one-shot steps
    MaxBeats,    \* the beats after which timing_gate calls the series terminal
    MaxFaults,   \* HTTP failures in a behaviour
    MaxCrashes   \* crashes in a behaviour

ASSUME RecurringAssumption == Recurring \in BOOLEAN /\ (Recurring => N = 1)
ASSUME BoundsAssumption ==
    MaxBeats \in Nat \ {0} /\ MaxFaults \in Nat /\ MaxCrashes \in Nat

VARIABLES
    row,      \* the intent's row in LocalLedger._intents, or NoRow
    beat,     \* timing_beats: beats of the recurring step already behind
    ex,       \* the executor thread
    fl,       \* the thread inside _flush_lock
    req,      \* the HTTP call each of these two threads is in
    pool,     \* jobs submitted to _REPORT_POOL and not finished
    late,     \* requests given up by their caller and still on their way
    brain,    \* Brain's own view of the intent
    outcome,  \* history: the terminal status a one-shot step was given in the row
    heard,    \* history: the <<step, seq>> of every event Brain has answered
    faults, crashes

vars == <<row, beat, ex, fl, req, pool, late, brain, outcome, heard, faults, crashes>>

-----------------------------------------------------------------------------
(* Messages and threads.                                                   *)

Callers == {"flush", "executor"}

StepMsgs   == [kind : {"step"}, n : Steps, status : StepStatus, seq : Nat]
IntentMsgs == [kind : {"intent"}, wire : IntentStatus]
Msgs       == StepMsgs \cup IntentMsgs

StepMsg(n, ev)  == [kind |-> "step", n |-> n, status |-> ev.status, seq |-> ev.seq]
IntentMsg(wire) == [kind |-> "intent", wire |-> wire]
EventOf(m)      == [status |-> m.status, seq |-> m.seq]

Sent(m) == [ans |-> "sent", msg |-> m]
NoReq   == [ans |-> "none", msg |-> IntentMsg("parsed")]

\* Mutant: every error counts as an answer.
AccountedAnyError(c) == req[c].ans \in {"ok", "obsolete", "error"}

\* _is_obsolete_replay: Brain's refusals that count as an answer.
Accounted(c) == req[c].ans \in {"ok", "obsolete"}

SeriesOpen == Recurring /\ beat < MaxBeats

-----------------------------------------------------------------------------
(* Brain (external). It keeps the newest event of a step; it refuses as    *)
(* obsolete an event that is not newer than that one, RUNNING for a step   *)
(* or an intent that is terminal, and an intent status that is no advance. *)

Rank(w) == CASE w = "parsed" -> 0 [] w = "intent_dispatched" -> 1 [] w = "running" -> 2
             [] OTHER -> 3

BrainRefuses(m) ==
    IF m.kind = "step"
    THEN \/ m.seq <= brain.seq[m.n]
         \/ /\ m.status = RUNNING
            /\ \/ brain.step[m.n] \in Terminal
               \/ brain.intent \in IntentTerminal
    ELSE Rank(m.wire) <= Rank(brain.intent)

BrainTakes(m) ==
    /\ brain' = IF BrainRefuses(m) THEN brain
                ELSE IF m.kind = "step"
                THEN [brain EXCEPT !.step[m.n] = m.status, !.seq[m.n] = m.seq]
                ELSE [brain EXCEPT !.intent = m.wire]
    /\ heard' = IF m.kind = "step" THEN heard \cup {<<m.n, m.seq>>} ELSE heard

\* An HTTP call: Brain answers it, or the caller gets an error.  After an error
\* the request may be lost, or still on its way, or already applied.
BrainAnswers(c) ==
    /\ req[c].ans = "sent"
    /\ BrainTakes(req[c].msg)
    /\ req' = [req EXCEPT ![c].ans = IF BrainRefuses(req[c].msg) THEN "obsolete" ELSE "ok"]
    /\ UNCHANGED <<row, beat, ex, fl, pool, late, outcome, faults, crashes>>

CallFails(c) ==
    /\ faults < MaxFaults
    /\ req[c].ans \in {"sent", "ok", "obsolete"}
    /\ faults' = faults + 1
    /\ req' = [req EXCEPT ![c].ans = "error"]
    /\ \/ late' = late
       \/ req[c].ans = "sent" /\ late' = late \cup {req[c].msg}
    /\ UNCHANGED <<row, beat, ex, fl, pool, brain, outcome, heard, crashes>>

LateArrives(m) ==
    /\ late' = late \ {m}
    /\ BrainTakes(m)
    /\ UNCHANGED <<row, beat, ex, fl, req, pool, outcome, faults, crashes>>

-----------------------------------------------------------------------------
(* The report pool. Two workers take jobs in order; what Brain answers,    *)
(* and whether it answers, changes nothing here.                           *)

InFlight == 1..(IF Len(pool) < 2 THEN Len(pool) ELSE 2)

PoolDelivers(i) ==
    /\ BrainTakes(pool[i])
    /\ pool' = RemoveAt(pool, i)
    /\ UNCHANGED <<row, beat, ex, fl, req, late, outcome, faults, crashes>>

PoolFails(i) ==
    /\ faults < MaxFaults
    /\ faults' = faults + 1
    /\ pool' = RemoveAt(pool, i)
    /\ \/ late' = late
       \/ late' = late \cup {pool[i]}
    /\ UNCHANGED <<row, beat, ex, fl, req, brain, outcome, heard, crashes>>

\* A step job gives up unsent when a newer one for the same step is submitted
\* before its worker compares epochs.
PoolStale(i) ==
    /\ pool[i].kind = "step"
    /\ \E j \in (i + 1)..Len(pool) : pool[j].kind = "step" /\ pool[j].n = pool[i].n
    /\ pool' = RemoveAt(pool, i)
    /\ UNCHANGED <<row, beat, ex, fl, req, late, brain, outcome, heard, faults, crashes>>

-----------------------------------------------------------------------------
(* flush_to_brain.  It runs in the control loop at every tick, in a thread *)
(* of its own after a step turned RUNNING, and in the executor after a     *)
(* re-arm; `by` is the thread inside the lock.                             *)

FlushIdle == [pc |-> "idle", by |-> "thread", jobs |-> <<>>]

FlushRest == UNCHANGED <<beat, pool, late, brain, outcome, heard, faults, crashes>>

\* The lock is released; an executor that was flushing goes on.
FlushReturns ==
    /\ fl' = FlushIdle
    /\ ex' = IF fl.by = "executor" THEN [ex EXCEPT !.pc = ex.next] ELSE ex

FlushBegin(by) ==
    /\ fl.pc = "idle"
    /\ by = "executor" => ex.pc = "flush"
    /\ fl' = [fl EXCEPT !.pc = "scan", !.by = by]
    /\ ex' = IF by = "executor" THEN [ex EXCEPT !.pc = "flushing"] ELSE ex
    /\ FlushRest /\ UNCHANGED <<row, req>>

Busy == IF row = NoRow THEN {} ELSE {n \in Steps : row.steps[n].queue # <<>>}

\* _next_queued_event finds the first step with a queue, and its head is posted.
FlushPostStep ==
    /\ fl.pc = "scan" /\ Busy # {}
    /\ LET n == Min(Busy)
       IN  req' = [req EXCEPT !["flush"] = Sent(StepMsg(n, row.steps[n].queue[1]))]
    /\ fl' = [fl EXCEPT !.pc = "step"]
    /\ FlushRest /\ UNCHANGED <<row, ex>>

FlushStepAnswered ==
    /\ fl.pc = "step" /\ Accounted("flush")
    /\ LET m == req["flush"].msg
       IN  row' = IF req["flush"].ans = "ok"
                  THEN MarkStepSynced(row, m.n, EventOf(m), SeriesOpen)
                  ELSE DiscardQueuedEvent(row, m.n)
    /\ req' = [req EXCEPT !["flush"] = NoReq]
    /\ fl' = [fl EXCEPT !.pc = "scan"]
    /\ FlushRest /\ UNCHANGED ex

FlushQueuesEmpty ==
    /\ fl.pc = "scan" /\ Busy = {}
    /\ fl' = [fl EXCEPT !.pc = "snapshot"]
    /\ FlushRest /\ UNCHANGED <<row, req, ex>>

\* The history of intent statuses is copied under a second, later lock.
FlushSnapshot ==
    /\ fl.pc = "snapshot"
    /\ fl' = [fl EXCEPT !.pc = "intents", !.jobs = IF row = NoRow THEN <<>> ELSE row.hist]
    /\ FlushRest /\ UNCHANGED <<row, req, ex>>

\* "running" is no news once a step is terminal.
Stale(wire) == wire = "running" /\ HasTerminalStep(row)

\* Mutant: a stale entry is skipped and never marked.
FlushSkipIntentUnmarked ==
    /\ fl.pc = "intents" /\ fl.jobs # <<>>
    /\ fl.jobs[1].synced \/ row = NoRow \/ (row # NoRow /\ Stale(fl.jobs[1].status))
    /\ fl' = [fl EXCEPT !.jobs = Tail(@)]
    /\ FlushRest /\ UNCHANGED <<row, req, ex>>

\* Entries that need no call: told before, of a row that is gone, or stale.
FlushSkipIntent ==
    /\ fl.pc = "intents" /\ fl.jobs # <<>>
    /\ \/ /\ fl.jobs[1].synced \/ row = NoRow
          /\ row' = row
       \/ /\ ~fl.jobs[1].synced /\ row # NoRow /\ Stale(fl.jobs[1].status)
          /\ row' = MarkIntentSynced(row, "running", SeriesOpen)
    /\ fl' = [fl EXCEPT !.jobs = Tail(@)]
    /\ FlushRest /\ UNCHANGED <<req, ex>>

FlushPostIntent ==
    /\ fl.pc = "intents" /\ fl.jobs # <<>>
    /\ ~fl.jobs[1].synced /\ row # NoRow /\ ~Stale(fl.jobs[1].status)
    /\ req' = [req EXCEPT !["flush"] = Sent(IntentMsg(fl.jobs[1].status))]
    /\ fl' = [fl EXCEPT !.pc = "intent", !.jobs = Tail(@)]
    /\ FlushRest /\ UNCHANGED <<row, ex>>

FlushIntentAnswered ==
    /\ fl.pc = "intent" /\ Accounted("flush")
    /\ row' = MarkIntentSynced(row, req["flush"].msg.wire, SeriesOpen)
    /\ req' = [req EXCEPT !["flush"] = NoReq]
    /\ fl' = [fl EXCEPT !.pc = "intents"]
    /\ FlushRest /\ UNCHANGED ex

\* Mutant: the event whose post failed is dropped.
FlushGivesUpDropping ==
    /\ fl.pc \in {"step", "intent"} /\ req["flush"].ans = "error"
    /\ row' = IF fl.pc = "step" THEN DiscardQueuedEvent(row, req["flush"].msg.n) ELSE row
    /\ req' = [req EXCEPT !["flush"] = NoReq]
    /\ FlushReturns
    /\ FlushRest

\* Any other error ends the pass; what is queued stays queued.
FlushGivesUp ==
    /\ fl.pc \in {"step", "intent"} /\ req["flush"].ans = "error"
    /\ req' = [req EXCEPT !["flush"] = NoReq]
    /\ FlushReturns
    /\ FlushRest /\ UNCHANGED row

FlushEnd ==
    /\ fl.pc = "intents" /\ fl.jobs = <<>>
    /\ FlushReturns
    /\ FlushRest /\ UNCHANGED <<row, req>>

FlushStep ==
    \/ FlushPostStep \/ FlushStepAnswered \/ FlushQueuesEmpty \/ FlushSnapshot
    \/ FlushSkipIntent \/ FlushPostIntent \/ FlushIntentAnswered
    \/ FlushGivesUp \/ FlushEnd

-----------------------------------------------------------------------------
(* The executor runs handle_intent on a copy of the plan.                  *)

ExIdle == [pc |-> "idle", next |-> "idle", n |-> 1, ev |-> [status |-> WAITING, seq |-> 0],
           plan |-> [n \in Steps |-> WAITING], wire |-> "parsed", failed |-> FALSE]

ExRest == UNCHANGED <<fl, late, brain, heard, faults, crashes>>

Prepared(status, n) == \A m \in 1..(n - 1) : status[m] = SUCCEEDED

\* _record_has_remaining_work on the row's statuses, plan_has_remaining_work on
\* the executor's copy: the same thing when every step runs here.
RemainingWork(status) ==
    \E n \in Steps : /\ Prepared(status, n)
                      /\ IF Recurring THEN SeriesOpen
                         ELSE status[n] \in {WAITING, RUNNING}

AllSucceeded(status) ==
    IF Recurring THEN ~SeriesOpen ELSE \A n \in Steps : status[n] = SUCCEEDED

RowStatus(r) == [n \in Steps |-> r.steps[n].status]

\* handle_intent starts: overlay_intent copies the row.
ExTake ==
    /\ ex.pc = "idle"
    /\ row # NoRow /\ RemainingWork(RowStatus(row))
    /\ ex' = [ExIdle EXCEPT !.pc = "advance", !.plan = RowStatus(row), !.wire = row.wire]
    /\ ExRest /\ UNCHANGED <<row, beat, req, pool, outcome>>

\* Mutant: without a row the number is a sentinel.
EventInSentinel(r, n, st) == [status |-> st, seq |-> IF r = NoRow THEN -1 ELSE r.steps[n].seq]

\* The event that a status change has just queued.  Without a row nothing is
\* queued; that happens only to a step that has had no event yet (ExMissed after
\* a prune), so the post it is about to get is the step's first.
EventIn(r, n, st) == [status |-> st, seq |-> IF r = NoRow THEN 1 ELSE r.steps[n].seq]

Submit(m) == pool' = Append(pool, m)

\* _try_post_step_status with a terminal status: the row first; then FAILED goes
\* to the pool and SUCCEEDED is posted by this thread, outside the flush lock.
Report(n, st, next) ==
    /\ row' = SetStepStatus(row, n, st)
    /\ outcome' = IF Recurring \/ row = NoRow THEN outcome ELSE [outcome EXCEPT ![n] = st]
    /\ LET ev == EventIn(row', n, st)
       IN  /\ ex' = [ex EXCEPT !.pc = IF st = FAILED THEN next ELSE "report",
                               !.next = next, !.n = n, !.ev = ev, !.plan[n] = st]
          /\ IF st = FAILED THEN Submit(StepMsg(n, ev)) ELSE pool' = pool

\* _rearm_recurring_waiting: back to WAITING, then a flush in this thread.
Rearm(next) ==
    /\ row' = SetStepStatus(row, 1, WAITING)
    /\ ex' = [ex EXCEPT !.pc = "flush", !.next = next, !.plan[1] = WAITING]

\* _try_post_intent_status with a terminal status: the row, then the pool.
CloseIntent(wire) ==
    /\ row' = SetIntentStatus(row, wire)
    /\ Submit(IntentMsg(wire))

\* _advance_skipped_beats, one-shot: a waiting step whose deadline has passed
\* fails, whatever its predecessors do.
ExMissed(n) ==
    /\ ex.pc = "advance" /\ ~Recurring /\ ex.plan[n] = WAITING
    /\ Report(n, FAILED, "advance")
    /\ ExRest /\ UNCHANGED <<beat, req>>

\* Nothing more is late.  A RUNNING left over from before a crash is waiting
\* again in the executor's copy, which treats the two alike; the beats of such a
\* step are not looked at.
ExAdvanced ==
    /\ ex.pc = "advance" /\ (Recurring => ex.plan[1] = RUNNING)
    /\ ex' = [ex EXCEPT !.pc = "find"]
    /\ ExRest /\ UNCHANGED <<row, beat, req, pool, outcome>>

\* _advance_skipped_beats, recurring: late beats are skipped; an exhausted series
\* is reported SUCCEEDED, a step left terminal by its last beat is re-armed.
ExSkipBeats ==
    /\ ex.pc = "advance" /\ Recurring /\ ex.plan[1] # RUNNING
    /\ beat' \in beat..MaxBeats
    /\ IF beat' = MaxBeats THEN Report(1, SUCCEEDED, "find")
       ELSE /\ IF ex.plan[1] \in Terminal THEN Rearm("find")
              ELSE row' = row /\ ex' = [ex EXCEPT !.pc = "find"]
            /\ UNCHANGED <<pool, outcome>>
    /\ ExRest /\ UNCHANGED req

\* Mutant: a step that has failed is open for another run.
EligibleAfterFailure(n) ==
    /\ ex.plan[n] \in {WAITING, RUNNING, FAILED}
    /\ Prepared(ex.plan, n)

\* find_next_eligible_local_step: open, all predecessors succeeded, and due.
Eligible(n) ==
    /\ ex.plan[n] \in {WAITING, RUNNING}
    /\ Prepared(ex.plan, n)

ExStart(n) ==
    /\ ex.pc = "find" /\ Eligible(n)
    /\ row' = SetStepStatus(row, n, RUNNING)
    /\ ex' = [ex EXCEPT !.pc = "starting", !.n = n, !.plan[n] = RUNNING]
    /\ ExRest /\ UNCHANGED <<beat, req, pool, outcome>>

\* A $variable nobody will publish any more.  A recurring step takes none here.
ExUnresolved(n) ==
    /\ ex.pc = "find" /\ Eligible(n) /\ ~Recurring
    /\ Report(n, FAILED, "failing")
    /\ ExRest /\ UNCHANGED <<beat, req>>

\* No step is eligible now: none is open, or a timing gate is not due yet.
ExLoopEnds ==
    /\ ex.pc = "find"
    /\ ex' = [ex EXCEPT !.pc = "final"]
    /\ ExRest /\ UNCHANGED <<row, beat, req, pool, outcome>>

ExIntentRunning ==
    /\ ex.pc = "starting"
    /\ row' = SetIntentStatus(row, "running")
    /\ ex' = [ex EXCEPT !.pc = "capability"]
    /\ ExRest /\ UNCHANGED <<beat, req, pool, outcome>>

\* The capability returns, raises or runs into its timeout.
ExCapabilityEnds ==
    /\ ex.pc = "capability"
    /\ \E st \in Terminal :
          Report(ex.n, st, IF Recurring THEN "beat" ELSE IF st = FAILED THEN "failing"
                                                     ELSE "advance")
    /\ ExRest /\ UNCHANGED <<beat, req>>

\* post_terminal_step_now: the first queued event with this status, or the event
\* itself when a flush has already taken it off the queue.
ExPost ==
    /\ ex.pc = "report"
    /\ LET q == IF row = NoRow THEN <<>> ELSE row.steps[ex.n].queue
           i == FirstWith(q, ex.ev.status)
       IN  req' = [req EXCEPT !["executor"] =
                      Sent(StepMsg(ex.n, IF i = 0 THEN ex.ev ELSE q[i]))]
    /\ ex' = [ex EXCEPT !.pc = "posted"]
    /\ ExRest /\ UNCHANGED <<row, beat, pool, outcome>>

ExPostAnswered ==
    /\ ex.pc = "posted" /\ Accounted("executor")
    /\ row' = DiscardLeadingNonTerminal(row, ex.n)
    /\ req' = [req EXCEPT !["executor"] = NoReq]
    /\ ex' = [ex EXCEPT !.pc = "discard"]
    /\ ExRest /\ UNCHANGED <<beat, pool, outcome>>

ExDiscard ==
    /\ ex.pc = "discard"
    /\ row' = DiscardMatchingStepEvent(row, ex.n, ex.ev.status, SeriesOpen)
    /\ ex' = [ex EXCEPT !.pc = ex.next]
    /\ ExRest /\ UNCHANGED <<beat, req, pool, outcome>>

ExPostFailed ==
    /\ ex.pc = "posted" /\ req["executor"].ans = "error"
    /\ req' = [req EXCEPT !["executor"] = NoReq]
    /\ ex' = [ex EXCEPT !.pc = ex.next]
    /\ ExRest /\ UNCHANGED <<row, beat, pool, outcome>>

ExFailIntent ==
    /\ ex.pc = "failing"
    /\ CloseIntent("failed")
    /\ ex' = [ex EXCEPT !.pc = "final", !.failed = TRUE]
    /\ ExRest /\ UNCHANGED <<beat, req, outcome>>

\* Mutant: the trigger search runs past the end of the series.
ExAdvanceBeatPastEnd ==
    /\ ex.pc = "beat"
    /\ beat' \in (beat + 1)..(MaxBeats + 1)
    /\ ex' = [ex EXCEPT !.pc = "gate"]
    /\ ExRest /\ UNCHANGED <<row, req, pool, outcome>>

\* A beat is over: advance_beat, and past the triggers it has overrun.
ExAdvanceBeat ==
    /\ ex.pc = "beat"
    /\ beat' \in (beat + 1)..MaxBeats
    /\ ex' = [ex EXCEPT !.pc = "gate"]
    /\ ExRest /\ UNCHANGED <<row, req, pool, outcome>>

ExSeriesDone ==
    /\ ex.pc = "gate" /\ ~SeriesOpen
    /\ CloseIntent("succeeded")
    /\ ex' = [ex EXCEPT !.pc = "final"]
    /\ ExRest /\ UNCHANGED <<beat, req, outcome>>

ExRearm ==
    /\ ex.pc = "gate" /\ SeriesOpen
    /\ Rearm("final")
    /\ ExRest /\ UNCHANGED <<beat, req, pool, outcome>>

\* finalize_intent_from_plan, with the intent status copied at the start.
FinalWire ==
    IF ex.wire \in IntentTerminal THEN "none"
    ELSE IF AllSucceeded(ex.plan) THEN "succeeded"
    ELSE IF ex.failed \/ RemainingWork(ex.plan) THEN "none"
    ELSE IF \E n \in Steps : ex.plan[n] = FAILED THEN "failed"
    ELSE "none"

ExFinalize ==
    /\ ex.pc = "final"
    /\ IF FinalWire = "none" THEN UNCHANGED <<row, pool>> ELSE CloseIntent(FinalWire)
    /\ ex' = ExIdle
    /\ ExRest /\ UNCHANGED <<beat, req, outcome>>

ExStep ==
    \/ ExTake \/ ExAdvanced \/ ExSkipBeats \/ ExLoopEnds \/ ExIntentRunning
    \/ \E n \in Steps : ExMissed(n) \/ ExStart(n) \/ ExUnresolved(n)
    \/ ExCapabilityEnds \/ ExPost \/ ExPostAnswered \/ ExDiscard \/ ExPostFailed
    \/ ExFailIntent \/ ExAdvanceBeat \/ ExSeriesDone \/ ExRearm \/ ExFinalize

-----------------------------------------------------------------------------
(* The control loop's prune_blocked_foreign, and crashes.                  *)

\* Mutant: a row with steps left to run is pruned too.
PrunableAnyWork == row # NoRow /\ row.synced /\ Busy = {}

\* Mutant: only the row's own mark is asked, not the queues of its steps.
PrunableQueued == row # NoRow /\ ~RemainingWork(RowStatus(row)) /\ row.synced

Prunable ==
    /\ row # NoRow /\ ~RemainingWork(RowStatus(row))
    /\ row.synced /\ Busy = {}

Prune ==
    /\ Prunable
    /\ row' = NoRow
    /\ UNCHANGED <<beat, ex, fl, req, pool, late, brain, outcome, heard, faults, crashes>>

\* The process dies and starts again: threads and jobs are gone, the row and the
\* beat in it are read back, a request already sent may still arrive.
Crash ==
    /\ crashes < MaxCrashes
    /\ crashes' = crashes + 1
    /\ \E M \in SUBSET ({req[c].msg : c \in {d \in Callers : req[d].ans = "sent"}}
                         \cup {pool[i] : i \in InFlight}) : late' = late \cup M
    /\ ex' = ExIdle /\ fl' = FlushIdle
    /\ req' = [c \in Callers |-> NoReq]
    /\ pool' = <<>>
    /\ UNCHANGED <<row, beat, brain, outcome, heard, faults>>

-----------------------------------------------------------------------------
(* The behaviours start with an intent just accepted from Brain, which the *)
(* scheduler has moved to "intent_dispatched".                             *)

AllWaiting == [n \in Steps |-> WAITING]

Init ==
    /\ row = SetIntentStatus(FromBrain("parsed", AllWaiting), "intent_dispatched")
    /\ pool = <<IntentMsg("intent_dispatched")>>
    /\ beat = 0
    /\ ex = ExIdle /\ fl = FlushIdle
    /\ req = [c \in Callers |-> NoReq]
    /\ late = {}
    /\ brain = [step |-> AllWaiting, seq |-> [n \in Steps |-> 0], intent |-> "parsed"]
    /\ outcome = AllWaiting
    /\ heard = {}
    /\ faults = 0 /\ crashes = 0

Next ==
    \/ ExStep
    \/ FlushStep
    \/ \E by \in {"thread", "executor"} : FlushBegin(by)
    \/ \E c \in Callers : BrainAnswers(c) \/ CallFails(c)
    \/ \E m \in late : LateArrives(m)
    \/ \E i \in InFlight : PoolDelivers(i) \/ PoolFails(i) \/ PoolStale(i)
    \/ Prune
    \/ Crash

Spec == Init /\ [][Next]_vars

\* Threads run, Brain answers what reaches it, the control loop keeps ticking.
\* An executor waiting for the flush lock gets it between two ticks.
Fairness ==
    /\ WF_vars(ExStep) /\ WF_vars(FlushStep) /\ WF_vars(Prune)
    /\ WF_vars(FlushBegin("thread")) /\ SF_vars(FlushBegin("executor"))
    /\ \A c \in Callers : WF_vars(BrainAnswers(c))

FairSpec == Spec /\ Fairness

-----------------------------------------------------------------------------
(* Properties.                                                             *)

ExPC == {"idle", "advance", "find", "starting", "capability", "report", "posted",
         "discard", "failing", "beat", "gate", "flush", "flushing", "final"}
FlPC == {"idle", "scan", "step", "snapshot", "intents", "intent"}

Executors == [pc : ExPC, next : ExPC, n : Steps, ev : Event,
              plan : [Steps -> StepStatus], wire : IntentStatus, failed : BOOLEAN]
Flushers  == [pc : FlPC, by : {"thread", "executor"}, jobs : Seq(HistEntry)]
Calls     == [ans : {"none", "sent", "ok", "obsolete", "error"}, msg : Msgs]
Brains    == [step : [Steps -> StepStatus], seq : [Steps -> Nat], intent : IntentStatus]

\* Every variable keeps the shape the code gives it.
TypeOK ==
    /\ row \in Row \cup {NoRow}
    /\ beat \in 0..MaxBeats
    /\ ex \in Executors
    /\ fl \in Flushers
    /\ req \in [Callers -> Calls]
    /\ pool \in Seq(Msgs)
    /\ late \subseteq Msgs
    /\ brain \in Brains
    /\ outcome \in [Steps -> StepStatus]
    /\ heard \subseteq Steps \X Nat
    /\ faults \in 0..MaxFaults /\ crashes \in 0..MaxCrashes

\* Whatever the threads do to it, a step's queue stays in order, numbered within
\* the step's counter, under the cap, and empty exactly when the step is marked
\* synced (LedgerRecord!RowSound).
QueueSound == RowSound(row)

\* The terminal status of a one-shot step is never lost between the executor and
\* Brain: Brain has it, or it is still in the step's queue on disk.  Crashes,
\* failed calls, obsolete replies and the race of the direct post with a flush
\* included.
OutcomeKept ==
    \A n \in Steps : outcome[n] \in Terminal =>
        \/ brain.step[n] = outcome[n]
        \/ row # NoRow /\ \E i \in DOMAIN row.steps[n].queue :
                             row.steps[n].queue[i].status = outcome[n]

\* The row outlives the step that runs from it: it is neither dropped nor pruned
\* between the moment a step is taken and the moment its result is recorded.
RowOutlivesStep ==
    \/ ex.pc \in {"starting", "capability"}
    \/ ex.pc \in {"advance", "find"} /\ \E n \in Steps : Eligible(n)
    => row # NoRow

Leaves(n, e) ==
    ~(row' # NoRow /\ \E j \in DOMAIN row'.steps[n].queue : row'.steps[n].queue[j] = e)

\* An event leaves its queue only when Brain has answered it, or when it is a
\* RUNNING overtaken by a later event Brain has answered.
NoSilentLoss ==
    [][row # NoRow =>
         \A n \in Steps : \A i \in DOMAIN row.steps[n].queue :
           LET e == row.steps[n].queue[i]
           IN  Leaves(n, e) =>
                 \/ <<n, e.seq>> \in heard
                 \/ e.status = RUNNING /\ \E k \in heard : k[1] = n /\ k[2] > e.seq]_vars

\* A row that holds its intent's end is dropped or pruned only when Brain has that
\* status.  Of a row that goes with its intent open, see PruneIsKnown.
DropIsKnown ==
    [][row # NoRow /\ row' = NoRow /\ row.wire \in IntentTerminal
         => brain.intent = row.wire]_vars

\* prune_blocked_foreign also takes the row of a plan that ran to its end here, in
\* the moment between its last step and the intent's end, or after a crash there.
\* The end then has no row to be replayed from; but Brain knows how every step ended,
\* which is what the intent is closed from when it is offered again
\* (reconcile_peeked_terminal).
PruneIsKnown ==
    [][row # NoRow /\ row' = NoRow /\ row.wire \notin IntentTerminal
         => \A n \in Steps : row.steps[n].status \in Terminal
                                => brain.step[n] = row.steps[n].status]_vars

\* The refinement: what the executor recorded is what is decided, and a terminal
\* status of Brain's is what is known.
KnownOutcome == [n \in Steps |-> IF brain.step[n] \in Terminal THEN brain.step[n] ELSE WAITING]

Delivery == INSTANCE StatusDelivery WITH
    Outcomes <- Terminal, Failure <- FAILED, Open <- WAITING, decided <- outcome, known <- KnownOutcome

\* One-shot reporting implements StatusDelivery: a step is decided once, Brain learns
\* what was decided, or the failure of a step given up after its row went, and never
\* takes it back, whatever is lost, late, repeated, crashed or dropped on the way.
ImplementsDelivery == Delivery!Spec

\* Brain learns every terminal step status in the end, if calls do not fail for ever.
OutcomeReaches ==
    \A n \in Steps : \A st \in Terminal :
        outcome[n] = st ~> brain.step[n] = st

\* A row whose intent is terminal leaves the ledger in the end.
RowLeaves == (row # NoRow /\ row.wire \in IntentTerminal) ~> row = NoRow

=============================================================================
