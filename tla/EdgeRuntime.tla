---------------------------- MODULE EdgeRuntime ----------------------------
(***************************************************************************)
(* The agent's run time: the control loop that peeks at Brain's open       *)
(* intents, the ledger of accepted ones, the scheduler both threads share, *)
(* the worker that runs steps, and the pool that runs capabilities         *)
(* (agent.py, scheduler.py, local_ledger.py, executor.py).                 *)
(*                                                                         *)
(* An intent is one local step, perhaps behind a step of another edge.     *)
(* Brain restarts and gives an id to a new job: a job is an id and a       *)
(* generation, which stands for base time, text and capabilities. How a    *)
(* status gets to Brain is LedgerSync's: here a row is reported at any     *)
(* moment until it is.                                                     *)
(***************************************************************************)
EXTENDS Naturals, FiniteSets, Sequences

CONSTANTS
    Ids,          \* intent ids
    MaxGen,       \* bound: jobs that Brain gives one id
    MaxFaults,    \* bound: restarts of Brain, crashes of the agent, guards that run out
    PoolSize      \* workers of the capability pool (_CAP_EXEC_POOL)

ASSUME RuntimeAssumption ==
    /\ MaxGen \in Nat \ {0} /\ PoolSize \in Nat \ {0}
    /\ MaxFaults \in Nat

VARIABLES
    brain,        \* Brain's job of each id
    row,          \* the ledger's row of each id
    guard,        \* _ghost_guard: the generation dropped last, 0 for none
    dispatched,   \* the scheduler's _dispatched
    lock,         \* who holds the scheduler's _lock
    ctl,          \* the control thread
    pending,      \* _pending_intents
    work,         \* the worker
    pool,         \* the pool's tasks: waiting, then running
    runs,         \* history: how often each job's capability was started
    ready,        \* history: jobs whose predecessor has succeeded
    overtaken,    \* history: intents dropped while the control thread held a peek
    outlived,     \* history: jobs such a peek took in again, past the guard's time
    restarts, crashes

vars == <<brain, row, guard, dispatched, lock, ctl, pending, work, pool, runs, ready,
          overtaken, outlived, restarts, crashes>>

Waiting == 0
Running == 1
Succeeded == 2
Failed == 3
Ended == {Succeeded, Failed}
Closed == {"succeeded", "failed"}

Gens == 1..MaxGen
Shapes == {"empty", "local", "after"}
NoRow == [gen |-> 0]

-----------------------------------------------------------------------------
(* Brain (external).                                                       *)

NewJob(g, shape) ==
    [gen |-> g, shape |-> shape, pre |-> IF shape = "after" THEN Waiting ELSE Succeeded,
     step |-> Waiting, wire |-> "intent_parsed"]

Open(id) == brain[id].wire \notin Closed

\* Brain keeps a terminal status; it does not know which job a post was about.
Told(id, wire) ==
    IF Open(id) /\ wire \in Closed THEN [brain EXCEPT ![id].wire = wire] ELSE brain

PreEnds(id) ==
    /\ Open(id) /\ brain[id].pre = Waiting
    /\ \E st \in Ended :
          /\ brain' = [brain EXCEPT ![id].pre = st]
          /\ ready' = IF st = Succeeded THEN ready \cup {<<id, brain[id].gen>>} ELSE ready
    /\ UNCHANGED <<row, guard, dispatched, lock, ctl, pending, work, pool, runs,
                   overtaken, outlived, restarts, crashes>>

Faults == restarts + crashes + Cardinality(outlived)

\* Brain restarts and numbers its intents anew.
Recycle(id) ==
    /\ Faults < MaxFaults /\ brain[id].gen < MaxGen
    /\ restarts' = restarts + 1
    /\ \E shape \in Shapes \ {"empty"} :
          /\ brain' = [brain EXCEPT ![id] = NewJob(brain[id].gen + 1, shape)]
          /\ ready' = IF shape = "after" THEN ready
                      ELSE ready \cup {<<id, brain[id].gen + 1>>}
    /\ UNCHANGED <<row, guard, dispatched, lock, ctl, pending, work, pool, runs, overtaken,
                   outlived, crashes>>

-----------------------------------------------------------------------------
(* The ledger.                                                             *)

RowOf(job) ==
    [gen |-> job.gen, pre |-> job.pre, step |-> job.step, wire |-> job.wire,
     told |-> TRUE, synced |-> TRUE]

\* A copy that is only read: the marks of what has been reported do not matter.
Snap(r) == IF r = NoRow THEN NoRow ELSE [r EXCEPT !.told = TRUE, !.synced = TRUE]

\* _record_has_remaining_work: a step of this edge that can run now.
LocalWork(r) == r # NoRow /\ r.pre = Succeeded /\ r.step \in {Waiting, Running}

\* plan_has_remaining_work: a step of any edge that can still succeed.
RemainingWork(r) ==
    r.pre \in {Waiting, Running} \/ (r.pre = Succeeded /\ r.step \in {Waiting, Running})

AllSucceeded(r) == r.pre = Succeeded /\ r.step = Succeeded

SomeFailed(r) == r.pre = Failed \/ r.step = Failed

Done(r) == r # NoRow /\ r.synced /\ r.told /\ r.wire \in Closed

\* Mutant: a dropped intent is not remembered.
SettleForgetful(id, r) ==
    /\ row' = [row EXCEPT ![id] = IF Done(r) THEN NoRow ELSE r]
    /\ UNCHANGED <<guard, overtaken>>

\* _drop_if_done_unlocked, after a row has been marked.
Settle(id, r) ==
    /\ row' = [row EXCEPT ![id] = IF Done(r) THEN NoRow ELSE r]
    /\ guard' = IF Done(r) THEN [guard EXCEPT ![id] = r.gen] ELSE guard
    /\ overtaken' = IF Done(r) /\ ctl.pc = "ingest" THEN overtaken \cup {id} ELSE overtaken

SetStep(id, st) ==
    IF row[id] = NoRow \/ row[id].step = st THEN row
    ELSE [row EXCEPT ![id].step = st, ![id].told = FALSE]

SetWire(rows, id, wire) ==
    IF rows[id] = NoRow \/ rows[id].wire = wire THEN rows
    ELSE [rows EXCEPT ![id].wire = wire, ![id].synced = FALSE]

\* _try_post_intent_status: the row, and a post of its own; without a row only that.
Say(id, wire) ==
    /\ row' = SetWire(row, id, wire)
    /\ brain' = IF row[id] = NoRow THEN Told(id, wire) ELSE brain

\* What LedgerSync delivers: a step's status and the intent's, marked when Brain
\* has it.
ReportStep(id) ==
    /\ row[id] # NoRow /\ ~row[id].told
    /\ brain' = [brain EXCEPT ![id].step = row[id].step]
    /\ Settle(id, [row[id] EXCEPT !.told = TRUE])
    /\ UNCHANGED <<dispatched, lock, ctl, pending, work, pool, runs, ready, outlived, restarts,
                   crashes>>

ReportIntent(id) ==
    /\ row[id] # NoRow /\ ~row[id].synced
    /\ brain' = Told(id, row[id].wire)
    /\ Settle(id, [row[id] EXCEPT !.synced = TRUE])
    /\ UNCHANGED <<dispatched, lock, ctl, pending, work, pool, runs, ready, outlived, restarts,
                   crashes>>

\* A post of the reporting pool tells Brain and leaves the row alone.
PoolTells(id) ==
    /\ row[id] # NoRow /\ ~row[id].synced /\ row[id].wire \in Closed /\ Open(id)
    /\ brain' = Told(id, row[id].wire)
    /\ UNCHANGED <<row, guard, dispatched, lock, ctl, pending, work, pool, runs, ready,
                   overtaken, outlived, restarts, crashes>>

-----------------------------------------------------------------------------
(* The scheduler.  It decides on a copy, and writes what it decided.       *)

NoJob == [gen |-> 0]

\* overlay_intent: the row when there is one, else the caller's snapshot.
Overlay(id, copy) == IF row[id] # NoRow THEN Snap(row[id]) ELSE copy

\* finalize_intent_from_plan.
FinalWire(r, wire) ==
    IF wire \in Closed THEN "none"
    ELSE IF AllSucceeded(r) THEN "succeeded"
    ELSE IF ~RemainingWork(r) /\ SomeFailed(r) THEN "failed"
    ELSE "none"

\* Mutant: a failed plan gets the status that steps have, not one of an intent.
FromStepsWaiting(r, wire) ==
    IF SomeFailed(r) /\ ~RemainingWork(r) THEN "waiting"
    ELSE IF (r.step = Running \/ r.pre = Running) /\ wire # "running" THEN "running"
    ELSE FinalWire(r, wire)

\* _reconcile_from_steps.
FromSteps(r, wire) ==
    IF SomeFailed(r) /\ ~RemainingWork(r) THEN "failed"
    ELSE IF (r.step = Running \/ r.pre = Running) /\ wire # "running" THEN "running"
    ELSE FinalWire(r, wire)

\* _handle_unlocked: a closed intent whose plan has work left is resumed, one not
\* dispatched yet is dispatched, any other follows its steps.
Verdict(id, r) ==
    IF r.wire \in Closed
    THEN IF RemainingWork(r)
         THEN IF FromSteps(r, "running") = "none" THEN "running" ELSE FromSteps(r, "running")
         ELSE "none"
    ELSE IF r.wire \in {"intent_dispatched", "running"} \/ id \in dispatched
    THEN FromSteps(r, r.wire)
    ELSE "intent_dispatched"

\* reconcile_peeked_terminal: only intents whose steps are over.
PeekVerdict(r) ==
    IF r.wire \notin Closed /\ (AllSucceeded(r) \/ ~RemainingWork(r))
       /\ (r.pre \in Ended \/ r.step \in Ended)
    THEN FromSteps(r, r.wire) ELSE "none"

-----------------------------------------------------------------------------
(* The control thread: _control_tick and _dispatch_ledger.                 *)

CtlIdle == [pc |-> "peek", id |-> CHOOSE i \in Ids : TRUE, say |-> "none",
            copy |-> [i \in Ids |-> NoRow]]

CtlKeeps == UNCHANGED <<work, pool, runs, ready, restarts, crashes>>
CtlRest  == CtlKeeps /\ UNCHANGED <<overtaken, outlived>>

\* pull_intents(consume = False): the open intents, as they are now.
CtlPeek ==
    /\ ctl.pc = "peek"
    /\ ctl' = [ctl EXCEPT !.pc = "ingest",
                          !.copy = [i \in Ids |-> IF Open(i) THEN brain[i] ELSE NoJob]]
    /\ CtlRest /\ UNCHANGED <<brain, row, guard, dispatched, lock, pending>>

\* _is_stale_brain_ghost: the job was dropped here, within the time the guard is heeded.
Ghost(id, job, old) == guard[id] = job.gen /\ ~old

\* Mutant: a recycled row keeps what was known of the other edge's step.
TakenInKeepingPre(id, job, old) ==
    IF row[id] = NoRow
    THEN IF Ghost(id, job, old) THEN NoRow ELSE RowOf(job)
    ELSE IF row[id].gen # job.gen THEN [RowOf(job) EXCEPT !.pre = row[id].pre]
    ELSE [row[id] EXCEPT !.pre = job.pre]

\* ingest_peek for one intent: a ghost is ignored unless its guard is old, a recycled
\* id replaces the row, a known intent follows the other edge's progress.
TakenIn(id, job, old) ==
    IF row[id] = NoRow
    THEN IF Ghost(id, job, old) THEN NoRow ELSE RowOf(job)
    ELSE IF row[id].gen # job.gen THEN RowOf(job)
    ELSE [row[id] EXCEPT !.pre = job.pre]

\* An intent with an empty plan is failed and never taken in.  `Old` are the guards
\* from more than 120 s ago, by a clock that may jump: any of them, since nothing
\* bounds what the control thread does between the peek and the ledger (details and
\* posts of other intents, each with its own timeouts).
CtlIngest ==
    /\ ctl.pc = "ingest"
    /\ \E Old \in SUBSET Ids :
       /\ Old # {} => Faults < MaxFaults
       /\ LET Seen == {i \in Ids : ctl.copy[i] # NoJob}
              Empty == {i \in Seen : ctl.copy[i].shape = "empty"}
          IN  /\ row' = [i \in Ids |-> IF i \in Seen \ Empty
                                       THEN TakenIn(i, ctl.copy[i], i \in Old) ELSE row[i]]
              /\ outlived' = outlived \cup
                    {<<i, guard[i]>> : i \in {j \in Old \cap overtaken : ctl.copy[j].gen = guard[j]}}
              /\ brain' = [i \in Ids |-> IF i \in Empty THEN Told(i, "failed")[i] ELSE brain[i]]
              /\ ctl' = [ctl EXCEPT !.pc = "prune",
                            !.copy = [i \in Ids |-> IF i \in Seen \ Empty
                                                    THEN RowOf(ctl.copy[i]) ELSE NoRow]]
    /\ overtaken' = {}
    /\ CtlKeeps /\ UNCHANGED <<guard, dispatched, lock, pending>>

\* prune_blocked_foreign: rows with nothing to run here and nothing to tell go,
\* without a mark in the ghost guard.
Prunable(r) == r # NoRow /\ ~LocalWork(r) /\ r.synced /\ r.told

CtlPrune ==
    /\ ctl.pc = "prune"
    /\ row' = [i \in Ids |-> IF Prunable(row[i]) THEN NoRow ELSE row[i]]
    /\ ctl' = [ctl EXCEPT !.pc = "reconcile"]
    /\ CtlRest /\ UNCHANGED <<brain, guard, dispatched, lock, pending>>

\* reconcile_peeked_terminal does not take the scheduler's lock.
CtlReconcile(id) ==
    /\ ctl.pc = "reconcile" /\ ctl.copy[id] # NoRow
    /\ LET wire == PeekVerdict(Overlay(id, ctl.copy[id]))
       IN  ctl' = [ctl EXCEPT !.pc = IF wire = "none" THEN "reconcile" ELSE "say",
                              !.id = id, !.copy[id] = NoRow, !.say = wire]
    /\ CtlRest /\ UNCHANGED <<brain, row, guard, dispatched, lock, pending>>

CtlSay ==
    /\ ctl.pc = "say"
    /\ Say(ctl.id, ctl.say)
    /\ ctl' = [ctl EXCEPT !.pc = "reconcile", !.say = "none"]
    /\ CtlRest /\ UNCHANGED <<guard, dispatched, lock, pending>>

\* snapshot_open.
CtlSnapshot ==
    /\ ctl.pc = "reconcile" /\ \A i \in Ids : ctl.copy[i] = NoRow
    /\ ctl' = [ctl EXCEPT !.pc = "dispatch",
                  !.copy = [i \in Ids |-> IF LocalWork(row[i]) THEN Snap(row[i]) ELSE NoRow]]
    /\ CtlRest /\ UNCHANGED <<brain, row, guard, dispatched, lock, pending>>

CtlHandle(id) ==
    /\ ctl.pc = "dispatch" /\ ctl.copy[id] # NoRow /\ lock = "none"
    /\ lock' = "control"
    /\ ctl' = [ctl EXCEPT !.pc = "write", !.id = id, !.copy[id] = NoRow,
                          !.say = Verdict(id, Overlay(id, ctl.copy[id]))]
    /\ CtlRest /\ UNCHANGED <<brain, row, guard, dispatched, pending>>

\* The end of handle, and _enqueue_intent.
CtlWrite ==
    /\ ctl.pc = "write"
    /\ IF ctl.say = "none" THEN UNCHANGED <<row, brain>> ELSE Say(ctl.id, ctl.say)
    /\ dispatched' = dispatched \cup {ctl.id}
    /\ lock' = "none"
    /\ pending' = IF row[ctl.id] # NoRow THEN pending \cup {ctl.id} ELSE pending
    /\ ctl' = [ctl EXCEPT !.pc = "dispatch", !.say = "none"]
    /\ CtlRest /\ UNCHANGED guard

CtlSleep ==
    /\ ctl.pc = "dispatch" /\ \A i \in Ids : ctl.copy[i] = NoRow
    /\ ctl' = CtlIdle
    /\ CtlRest /\ UNCHANGED <<brain, row, guard, dispatched, lock, pending>>

Control ==
    \/ CtlPeek \/ CtlIngest \/ CtlPrune \/ CtlSay \/ CtlSnapshot \/ CtlWrite \/ CtlSleep
    \/ \E i \in Ids : CtlReconcile(i) \/ CtlHandle(i)

-----------------------------------------------------------------------------
(* The worker: _executor_loop, and handle_intent on a plan of one local    *)
(* step.                                                                   *)

WorkIdle == [pc |-> "wait", id |-> CHOOSE i \in Ids : TRUE, say |-> "none",
             batch |-> [i \in Ids |-> NoRow], plan |-> NoRow]

WorkRest == UNCHANGED <<ctl, ready, overtaken, outlived, restarts, crashes>>

\* _take_pending: fresh copies; what has no row any more is forgotten.
WorkTake ==
    /\ work.pc = "wait" /\ pending # {}
    /\ LET batch == [i \in Ids |-> IF i \in pending THEN Snap(row[i]) ELSE NoRow]
       IN  work' = [work EXCEPT !.batch = batch,
                       !.pc = IF \A i \in Ids : batch[i] = NoRow THEN "wait" ELSE "batch"]
    /\ pending' = {}
    /\ WorkRest /\ UNCHANGED <<brain, row, guard, dispatched, lock, pool, runs>>

WorkHandle(id) ==
    /\ work.pc = "batch" /\ work.batch[id] # NoRow /\ lock = "none"
    /\ lock' = "worker"
    /\ work' = [work EXCEPT !.pc = "write", !.id = id,
                            !.say = Verdict(id, Overlay(id, work.batch[id]))]
    /\ WorkRest /\ UNCHANGED <<brain, row, guard, dispatched, pending, pool, runs>>

WorkWrite ==
    /\ work.pc = "write"
    /\ IF work.say = "none" THEN UNCHANGED <<row, brain>> ELSE Say(work.id, work.say)
    /\ dispatched' = dispatched \cup {work.id}
    /\ lock' = "none"
    /\ work' = [work EXCEPT !.pc = "plan", !.say = "none"]
    /\ WorkRest /\ UNCHANGED <<guard, pending, pool, runs>>

\* handle_intent takes its plan: the row, or the batch's copy when there is none.
WorkPlan ==
    /\ work.pc = "plan"
    /\ work' = [work EXCEPT !.pc = "find", !.plan = Overlay(work.id, work.batch[work.id]),
                            !.batch[work.id] = NoRow]
    /\ WorkRest /\ UNCHANGED <<brain, row, guard, dispatched, lock, pending, pool, runs>>

Task(st) == [id |-> work.id, gen |-> work.plan.gen, st |-> st, mine |-> TRUE]

\* The step is eligible; a RUNNING left by a crash is run again.
WorkStart ==
    /\ work.pc = "find" /\ LocalWork(work.plan)
    /\ row' = SetWire(SetStep(work.id, Running), work.id, "running")
    /\ pool' = Append(pool, Task("queued"))
    /\ work' = [work EXCEPT !.pc = "capability", !.plan.step = Running]
    /\ WorkRest /\ UNCHANGED <<brain, guard, dispatched, lock, pending, runs>>

Orphaned(p) == [i \in DOMAIN p |-> [p[i] EXCEPT !.mine = FALSE]]

\* The step's result goes to whatever row has the id now.
Record(st) ==
    /\ row' = SetStep(work.id, st)
    /\ work' = [work EXCEPT !.pc = "final", !.plan.step = st]

\* Mutant: nothing limits the wait for a capability.
WorkTimeoutNever == FALSE /\ UNCHANGED vars

\* The wall clock runs out: the step has failed, its task stays in the pool.
WorkTimeout ==
    /\ work.pc = "capability"
    /\ pool' = Orphaned(pool)
    /\ Record(Failed)
    /\ WorkRest /\ UNCHANGED <<brain, guard, dispatched, lock, pending, runs>>

\* No step to run, or the step is over: the intent is closed if it can be.
WorkFinal ==
    /\ work.pc = "final" \/ (work.pc = "find" /\ ~LocalWork(work.plan))
    /\ LET wire == FinalWire(work.plan, work.plan.wire)
       IN  IF wire = "none" THEN UNCHANGED <<row, brain>> ELSE Say(work.id, wire)
    /\ work' = [work EXCEPT !.plan = NoRow,
                   !.pc = IF \A i \in Ids : work.batch[i] = NoRow THEN "wait" ELSE "batch"]
    /\ WorkRest /\ UNCHANGED <<guard, dispatched, lock, pending, pool, runs>>

Work ==
    \/ WorkTake \/ WorkWrite \/ WorkPlan \/ WorkStart
    \/ WorkFinal \/ WorkTimeout
    \/ \E i \in Ids : WorkHandle(i)

-----------------------------------------------------------------------------
(* The capability pool.                                                    *)

InPool == {i \in DOMAIN pool : pool[i].st = "running"}

\* A worker takes the oldest waiting task.
PoolStart ==
    /\ Cardinality(InPool) < PoolSize
    /\ \E i \in DOMAIN pool :
          /\ pool[i].st = "queued" /\ \A j \in 1..(i - 1) : pool[j].st # "queued"
          /\ pool' = [pool EXCEPT ![i].st = "running"]
          /\ runs' = [runs EXCEPT ![pool[i].id][pool[i].gen] = @ + 1]
    /\ UNCHANGED <<brain, row, guard, dispatched, lock, ctl, pending, work, ready,
                   overtaken, outlived, restarts, crashes>>

Without(p, i) == SubSeq(p, 1, i - 1) \o SubSeq(p, i + 1, Len(p))

\* Mutant: the worker takes whatever result comes first.
AwaitedAny(task) == work.pc = "capability"

\* The result of a task the worker has given up is dropped.
Awaited(task) == task.mine

\* A capability returns or raises.
PoolEnd ==
    \E i \in InPool :
       /\ pool' = Without(pool, i)
       /\ IF Awaited(pool[i]) THEN \E st \in Ended : Record(st) ELSE UNCHANGED <<row, work>>
       /\ UNCHANGED <<brain, guard, dispatched, lock, ctl, pending, runs, ready,
                      overtaken, outlived, restarts, crashes>>

\* The process dies and starts again: the rows were written with every change, all
\* else was memory.
Crash ==
    /\ Faults < MaxFaults
    /\ crashes' = crashes + 1
    /\ guard' = [i \in Ids |-> 0]
    /\ dispatched' = {} /\ lock' = "none" /\ ctl' = CtlIdle
    /\ pending' = {} /\ work' = WorkIdle /\ pool' = <<>>
    /\ overtaken' = {}
    /\ UNCHANGED <<brain, row, runs, ready, outlived, restarts>>

-----------------------------------------------------------------------------

Init ==
    /\ \E shape \in [Ids -> Shapes] :
          /\ brain = [i \in Ids |-> NewJob(1, shape[i])]
          /\ ready = {<<i, 1>> : i \in {j \in Ids : shape[j] # "after"}}
    /\ row = [i \in Ids |-> NoRow]
    /\ guard = [i \in Ids |-> 0]
    /\ dispatched = {} /\ lock = "none" /\ ctl = CtlIdle
    /\ pending = {} /\ work = WorkIdle /\ pool = <<>>
    /\ runs = [i \in Ids |-> [g \in Gens |-> 0]]
    /\ overtaken = {} /\ outlived = {}
    /\ restarts = 0 /\ crashes = 0

Next ==
    \/ Control \/ Work \/ PoolStart \/ PoolEnd \/ Crash
    \/ \E i \in Ids : PreEnds(i) \/ Recycle(i) \/ ReportStep(i) \/ ReportIntent(i) \/ PoolTells(i)

Spec == Init /\ [][Next]_vars

\* Threads run, the wall clock limits a capability, other edges end their steps and
\* reports get through.  A capability itself may hang for ever.
Fairness ==
    /\ SF_vars(Control) /\ SF_vars(Work)
    /\ \A i \in Ids : WF_vars(PreEnds(i)) /\ SF_vars(ReportStep(i) \/ ReportIntent(i))

FairSpec == Spec /\ Fairness

-----------------------------------------------------------------------------
(* Properties.                                                             *)

Copies == {NoRow} \cup [gen : Gens, pre : 0..3, step : 0..3, told : BOOLEAN, synced : BOOLEAN,
                        wire : Closed \cup {"intent_parsed", "intent_dispatched", "running"}]

\* Every variable keeps the shape the code gives it.
TypeOK ==
    /\ \A i \in Ids : /\ brain[i].gen \in Gens
                      /\ row[i] \in Copies
                      /\ work.batch[i] \in Copies
    /\ guard \in [Ids -> 0..MaxGen]
    /\ dispatched \subseteq Ids /\ pending \subseteq Ids
    /\ lock \in {"none", "control", "worker"}
    /\ runs \in [Ids -> [Gens -> Nat]]
    /\ overtaken \subseteq Ids /\ outlived \subseteq Ids \X (0..MaxGen)
    /\ \A i \in DOMAIN pool : pool[i].id \in Ids /\ pool[i].gen \in Gens

\* A job's capability is started once, and once more after each crash at most:
\* neither a peek that is older than the drop of its row, nor a pruned row, nor a
\* second entry in the worker's queue makes it run again.  Excepted is a job whose
\* row was dropped while the control thread held a peek of it and which that peek,
\* held for longer than the guard is heeded, took in once more.
RunsOnce == \A i \in Ids : \A g \in Gens :
    <<i, g>> \notin outlived => runs[i][g] <= 1 + crashes

\* A capability runs only when the step before it, on another edge, has succeeded
\* for this very job.
PredecessorDone == \A i \in DOMAIN pool : <<pool[i].id, pool[i].gen>> \in ready

\* A result is the result of a task of the job it was submitted for: what comes
\* back from a task given up earlier is not taken for another's.
OneWaited == Cardinality({i \in DOMAIN pool : pool[i].mine}) =
             IF work.pc = "capability" THEN 1 ELSE 0

\* Every intent Brain has open is closed in the end, whatever hangs in the pool and
\* whichever job has the id by then.
JobEnds == \A i \in Ids : Open(i) ~> ~Open(i)

=============================================================================
