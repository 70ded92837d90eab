---------------------------- MODULE LedgerRecord ----------------------------
(***************************************************************************)
(* One row of the edge's LocalLedger (mac_edge/local_ledger.py) as a       *)
(* value, and every operation the class performs on it under `_lock`, as   *)
(* operators from a row to a row. A row belongs to one intent. Its steps   *)
(* are numbered 1..N; each keeps the queue of status changes that Brain    *)
(* has not acknowledged yet (`sync_queue`), and the row keeps the list of  *)
(* intent statuses with a synced mark each (`status_history`).             *)
(*                                                                         *)
(* Timestamps, messages, outputs and texts are left out: no operation here *)
(* branches on them. The JSON file is left out too, because every          *)
(* operation rewrites it atomically (temporary file and rename) before it  *)
(* releases the lock: what is on disk is always the row as the last        *)
(* operation left it.                                                      *)
(***************************************************************************)
EXTENDS Integers, Sequences, SequencesExt

CONSTANTS
    N,          \* the plan has steps 1..N
    QueueCap,   \* _SYNC_QUEUE_CAP, 1024 in the code
    NoRow       \* stands for "the ledger has no row for the intent"

ASSUME PlanAssumption == N \in Nat \ {0}
ASSUME CapAssumption  == QueueCap \in Nat \ {0}

Steps == 1..N

-----------------------------------------------------------------------------
(* Wire values.                                                            *)

WAITING   == 0
RUNNING   == 1
SUCCEEDED == 2
FAILED    == 3

StepStatus == {WAITING, RUNNING, SUCCEEDED, FAILED}
Terminal   == {SUCCEEDED, FAILED}

IntentStatus   == {"parsed", "intent_dispatched", "running", "succeeded", "failed"}
IntentTerminal == {"succeeded", "failed"}

-----------------------------------------------------------------------------
(* Types.                                                                  *)

Event == [status : StepStatus, seq : Nat]

StepRow == [status : StepStatus, queue : Seq(Event), seq : Nat, synced : BOOLEAN]

HistEntry == [status : IntentStatus, synced : BOOLEAN]

Row == [wire : IntentStatus, hist : Seq(HistEntry), synced : BOOLEAN,
        steps : [Steps -> StepRow]]

ASSUME NoRowAssumption == NoRow \notin Row

-----------------------------------------------------------------------------
(* Soundness of a row.                                                     *)

\* Events in the order they happened, none numbered beyond the step's counter,
\* never over the cap; the step counts as synced exactly when nothing is queued,
\* which is what dropping and pruning rely on.
StepSound(s) ==
    /\ Len(s.queue) <= QueueCap
    /\ \A i \in 1..Len(s.queue) : s.queue[i].seq \in 1..s.seq
    /\ \A i, j \in 1..Len(s.queue) : i < j => s.queue[i].seq < s.queue[j].seq
    /\ s.synced = (s.queue = <<>>)

RowSound(r) == r # NoRow => \A n \in Steps : StepSound(r.steps[n])

-----------------------------------------------------------------------------
(* A step's queue.                                                         *)

\* Every removal from a queue sets the step's synced mark anew.
WithQueue(s, q) ==
    [status |-> s.status, seq |-> s.seq, queue |-> q, synced |-> (q = <<>>)]

PopHead(s) == WithQueue(s, Tail(s.queue))

\* Mutant: the cap is tested one too late.
EnqueueStepEventLateCap(s, st) ==
    IF st = s.status \/ (s.queue # <<>> /\ s.queue[Len(s.queue)].status = st)
    THEN s
    ELSE LET q == Append(s.queue, [status |-> st, seq |-> s.seq + 1])
         IN  [status |-> s.status, seq |-> s.seq + 1, synced |-> FALSE,
              queue |-> IF Len(q) > QueueCap + 1 THEN Tail(q) ELSE q]

\* _enqueue_step_event, with `prev` the status the step had before.
EnqueueStepEvent(s, st) ==
    IF st = s.status \/ (s.queue # <<>> /\ s.queue[Len(s.queue)].status = st)
    THEN s
    ELSE LET q == Append(s.queue, [status |-> st, seq |-> s.seq + 1])
         IN  [status |-> s.status, seq |-> s.seq + 1, synced |-> FALSE,
              queue |-> IF Len(q) > QueueCap THEN Tail(q) ELSE q]

\* Mutant: the head, whatever its status.
FirstWithAny(q, st) == IF q = <<>> THEN 0 ELSE 1

\* The first queued event with the given status: its index, 0 when none has it.
FirstWith(q, st) == SelectInSeq(q, LAMBDA e : e.status = st)

\* The queue without its leading WAITING and RUNNING events.
WithoutLeading(q) ==
    LET i == SelectInSeq(q, LAMBDA e : e.status \in Terminal)
    IN  IF i = 0 THEN <<>> ELSE SubSeq(q, i, Len(q))

-----------------------------------------------------------------------------
(* The row.                                                                *)

\* _normalize_record(from_brain = True): the row Brain's peek turns into.
FromBrain(wire, status) ==
    [wire |-> wire, hist |-> <<>>, synced |-> TRUE,
     steps |-> [n \in Steps |->
                  [status |-> status[n], queue |-> <<>>, seq |-> 0, synced |-> TRUE]]]

HasTerminalStep(r) == \E n \in Steps : r.steps[n].status \in Terminal

\* Mutants: the row goes while step events are queued; while an intent status is.
DropReadyAnySteps(r, seriesOpen) ==
    r.synced /\ r.wire \in IntentTerminal /\ ~seriesOpen

DropReadyAnyIntent(r, seriesOpen) ==
    (\A n \in Steps : r.steps[n].synced) /\ r.wire \in IntentTerminal /\ ~seriesOpen

\* The condition under which _drop_if_done_unlocked deletes the row.
\* seriesOpen: a recurring step still has a beat to come.
DropReady(r, seriesOpen) ==
    /\ r.synced
    /\ \A n \in Steps : r.steps[n].synced
    /\ r.wire \in IntentTerminal
    /\ ~seriesOpen

DropIfDone(r, seriesOpen) == IF DropReady(r, seriesOpen) THEN NoRow ELSE r

SetStepStatus(r, n, st) ==
    IF r = NoRow THEN NoRow
    ELSE [r EXCEPT !.steps[n] = [EnqueueStepEvent(@, st) EXCEPT !.status = st]]

\* Mutant: the row's synced mark is not taken back.
SetIntentStatusStillSynced(r, wire) ==
    IF r = NoRow THEN NoRow
    ELSE IF r.wire = wire THEN r
    ELSE [r EXCEPT !.wire = wire, !.hist = Append(@, [status |-> wire, synced |-> FALSE])]

SetIntentStatus(r, wire) ==
    IF r = NoRow THEN NoRow
    ELSE IF r.wire = wire THEN r
    ELSE [r EXCEPT !.wire   = wire,
                   !.hist   = Append(@, [status |-> wire, synced |-> FALSE]),
                   !.synced = FALSE]

\* mark_step_synced: the head leaves the queue only if it is the event that was
\* posted.
MarkStepSynced(r, n, ev, seriesOpen) ==
    IF r = NoRow THEN NoRow
    ELSE LET s == r.steps[n]
             t == IF s.queue = <<>>        THEN [s EXCEPT !.synced = TRUE]
                  ELSE IF s.queue[1] = ev  THEN PopHead(s)
                  ELSE s
         IN  DropIfDone([r EXCEPT !.steps[n] = t], seriesOpen)

\* _discard_queued_event: the head leaves the queue, whatever it is by now.
DiscardQueuedEvent(r, n) ==
    IF r = NoRow THEN NoRow
    ELSE LET s == r.steps[n]
         IN  [r EXCEPT !.steps[n] =
                 IF s.queue = <<>> THEN [s EXCEPT !.synced = TRUE] ELSE PopHead(s)]

DiscardLeadingNonTerminal(r, n) ==
    IF r = NoRow THEN NoRow
    ELSE LET q == WithoutLeading(r.steps[n].queue)
         IN  IF q = r.steps[n].queue THEN r
             ELSE [r EXCEPT !.steps[n] = WithQueue(@, q)]

\* Mutant: the step's synced mark is left alone.
DiscardMatchingUnmarked(r, n, st, seriesOpen) ==
    IF r = NoRow THEN NoRow
    ELSE LET i == FirstWith(r.steps[n].queue, st)
         IN  IF i = 0 THEN r
             ELSE DropIfDone([r EXCEPT !.steps[n].queue = RemoveAt(@, i)], seriesOpen)

DiscardMatchingStepEvent(r, n, st, seriesOpen) ==
    IF r = NoRow THEN NoRow
    ELSE LET i == FirstWith(r.steps[n].queue, st)
         IN  IF i = 0 THEN r
             ELSE DropIfDone([r EXCEPT !.steps[n] = WithQueue(@, RemoveAt(@.queue, i))],
                             seriesOpen)

\* mark_intent_synced: the first unsynced entry with that status becomes synced,
\* and the row with the last of them.
MarkIntentSynced(r, wire, seriesOpen) ==
    IF r = NoRow THEN NoRow
    ELSE LET i == SelectInSeq(r.hist, LAMBDA e : e.status = wire /\ ~e.synced)
             h == IF i = 0 THEN r.hist ELSE [r.hist EXCEPT ![i].synced = TRUE]
             s == IF h = <<>> THEN r.synced \/ wire = r.wire
                  ELSE r.synced \/ \A j \in DOMAIN h : h[j].synced
         IN  DropIfDone([r EXCEPT !.hist = h, !.synced = s], seriesOpen)

=============================================================================
