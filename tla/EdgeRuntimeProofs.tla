-------------------------- MODULE EdgeRuntimeProofs --------------------------
(***************************************************************************)
(* What holds of the agent's run time for any number of intents, jobs,     *)
(* restarts, crashes and workers of the pool: types, that a capability     *)
(* runs only behind its predecessor, that a result is its own task's, and  *)
(* that a job's capability is started once and once more after a crash.    *)
(***************************************************************************)
EXTENDS EdgeRuntime, SequenceTheorems, FiniteSetTheorems, TLAPS

Wires == Closed \cup {"intent_parsed", "intent_dispatched", "running"}

Rows == [gen : Gens, pre : 0..3, step : 0..3, told : BOOLEAN, synced : BOOLEAN, wire : Wires]

MaybeRow == Rows \cup {NoRow}

Jobs == [gen : Gens, shape : Shapes, pre : 0..3, step : 0..3, wire : Wires]

Tasks == [id : Ids, gen : Gens, st : {"queued", "running"}, mine : BOOLEAN]

-----------------------------------------------------------------------------
(* Types.                                                                  *)

CtlPCs  == {"peek", "ingest", "prune", "reconcile", "say", "dispatch", "write"}
WorkPCs == {"wait", "batch", "write", "plan", "find", "capability", "final"}

\* What the control thread holds: in a peek, jobs as Brain has them; after that, rows.
CtlTypes ==
    /\ ctl = [pc |-> ctl.pc, id |-> ctl.id, say |-> ctl.say, copy |-> ctl.copy]
    /\ ctl.pc \in CtlPCs /\ ctl.say \in Wires \cup {"none"}
    /\ ctl.pc = "ingest" => ctl.copy \in [Ids -> Jobs \cup {NoJob}]
    /\ ctl.pc # "ingest" => ctl.copy \in [Ids -> MaybeRow]
    /\ ctl.pc \in {"say", "write"} => ctl.id \in Ids
    /\ ctl.pc = "say" => ctl.say # "none"

\* What the worker holds; from handling an intent to its end there is one, with a plan.
WorkTypes ==
    /\ work = [pc |-> work.pc, id |-> work.id, say |-> work.say, batch |-> work.batch,
               plan |-> work.plan]
    /\ work.pc \in WorkPCs /\ work.say \in Wires \cup {"none"}
    /\ work.batch \in [Ids -> MaybeRow] /\ work.plan \in MaybeRow
    /\ work.pc \in {"write", "plan"} => work.id \in Ids /\ work.batch[work.id] # NoRow
    /\ work.pc \in {"find", "capability", "final"} =>
          work.id \in Ids /\ work.plan # NoRow /\ work.batch[work.id] = NoRow

RestTypes ==
    /\ brain \in [Ids -> Jobs]
    /\ row \in [Ids -> MaybeRow]
    /\ guard \in [Ids -> 0..MaxGen]
    /\ dispatched \subseteq Ids /\ pending \subseteq Ids
    /\ lock \in {"none", "control", "worker"}
    /\ pool \in Seq(Tasks)
    /\ runs \in [Ids -> [Gens -> Nat]]
    /\ crashes \in Nat /\ restarts \in Nat
    /\ overtaken \subseteq Ids /\ outlived \subseteq Ids \X (0..MaxGen)

Types == CtlTypes /\ WorkTypes /\ RestTypes

-----------------------------------------------------------------------------
(* The worker and the pool.                                                *)

\* OneWaited, without counting: there is a task waited for just while the worker waits,
\* and no second one.
Waits ==
    /\ (\E k \in DOMAIN pool : pool[k].mine) <=> work.pc = "capability"
    /\ \A j, k \in DOMAIN pool : pool[j].mine /\ pool[k].mine => j = k

\* Whatever says that a job's predecessor has succeeded says it of that very job.
Behind(i, r) == r.gen # 0 /\ r.pre = Succeeded => <<i, r.gen>> \in ready

ReadyOnly ==
    /\ \A i \in Ids : /\ Behind(i, brain[i]) /\ Behind(i, row[i]) /\ Behind(i, work.batch[i])
                      /\ ctl.pc = "ingest" => Behind(i, ctl.copy[i])
    /\ work.pc = "find" => Behind(work.id, work.plan)
    /\ \A k \in DOMAIN pool : <<pool[k].id, pool[k].gen>> \in ready

-----------------------------------------------------------------------------
(* One run of a job between two crashes.                                   *)

Open2Run(r) == r.step \in {Waiting, Running}

Peeked(i) == ctl.pc = "ingest" /\ ctl.copy[i] # NoJob

QueuedFor(i, g) ==
    \E k \in DOMAIN pool : pool[k].id = i /\ pool[k].gen = g /\ pool[k].st = "queued"

\* The job was taken in once more by a peek that was held past the guard's time.
Lived(i, g) == <<i, g>> \in outlived

\* The job may be started: it has not been since the last crash.
Fresh(i, g) == Lived(i, g) \/ (runs[i][g] <= crashes /\ ~QueuedFor(i, g))

HasRun(i, g) == runs[i][g] > 0 \/ QueuedFor(i, g)

\* No job that is taken in from now on is older.
Below(i, g) ==
    /\ g <= brain[i].gen
    /\ row[i] # NoRow => g <= row[i].gen
    /\ Peeked(i) => g <= ctl.copy[i].gen

\* The next peek of the job would make a new row.
NewRow(i, g) == IF row[i] = NoRow THEN guard[i] # g ELSE row[i].gen # g

AgesAt(i) ==
    /\ Peeked(i) => ctl.copy[i].gen <= brain[i].gen
    /\ Below(i, guard[i])
    /\ row[i] # NoRow => Below(i, row[i].gen)
    /\ \A g \in Gens : HasRun(i, g) =>
          /\ Below(i, g)
          /\ work.batch[i] # NoRow => g <= work.batch[i].gen
          /\ work.pc \in {"find", "capability"} /\ work.id = i => g <= work.plan.gen
    /\ work.batch[i] # NoRow => Below(i, work.batch[i].gen)
    /\ work.pc \in {"find", "capability"} /\ work.id = i => Below(i, work.plan.gen)

\* A job whose predecessor is known to have succeeded stays so.
Settled(i, g) ==
    /\ brain[i].gen = g => brain[i].pre = Succeeded
    /\ Peeked(i) /\ ctl.copy[i].gen = g => ctl.copy[i].pre = Succeeded

\* A job the worker holds keeps its row, or the row was dropped and is remembered.
Holds(i, g) ==
    \/ Lived(i, g)
    \/ /\ Settled(i, g)
       /\ brain[i].gen = g => ~NewRow(i, g)
       /\ Peeked(i) /\ ctl.copy[i].gen = g => ~NewRow(i, g)
       /\ row[i] # NoRow /\ row[i].gen = g => LocalWork(row[i])

InHandAt(i) ==
    /\ row[i] # NoRow /\ row[i].pre = Succeeded => Settled(i, row[i].gen)
    /\ Peeked(i) /\ ctl.copy[i].pre = Succeeded => Settled(i, ctl.copy[i].gen)
    /\ LocalWork(work.batch[i]) => Holds(i, work.batch[i].gen) /\ Fresh(i, work.batch[i].gen)
    /\ work.pc = "find" /\ work.id = i /\ LocalWork(work.plan) =>
          Holds(i, work.plan.gen) /\ Fresh(i, work.plan.gen)
    /\ work.pc = "capability" /\ work.id = i => Holds(i, work.plan.gen)

\* The worker runs the row's job.
AtWork(i) == work.pc = "capability" /\ work.id = i /\ work.plan.gen = row[i].gen

OnceAt(i) ==
    /\ \A g \in Gens : Lived(i, g) \/ /\ runs[i][g] <= crashes + 1
                                      /\ QueuedFor(i, g) => runs[i][g] <= crashes
    /\ row[i] # NoRow /\ Open2Run(row[i]) /\ ~AtWork(i) => Fresh(i, row[i].gen)
    /\ row[i] # NoRow /\ ~Open2Run(row[i]) /\ row[i].told /\ brain[i].gen = row[i].gen =>
          Fresh(i, row[i].gen) \/ ~Open2Run(brain[i])
    /\ NewRow(i, brain[i].gen) => Fresh(i, brain[i].gen) \/ ~Open2Run(brain[i])
    /\ Peeked(i) /\ NewRow(i, ctl.copy[i].gen) =>
          \/ Fresh(i, ctl.copy[i].gen)
          \/ /\ ~Open2Run(ctl.copy[i])
             /\ brain[i].gen = ctl.copy[i].gen => ~Open2Run(brain[i])

OneQueued == \A j, k \in DOMAIN pool :
    (pool[j].st = "queued" /\ pool[k].st = "queued"
     /\ pool[j].id = pool[k].id /\ pool[j].gen = pool[k].gen
     /\ ~Lived(pool[j].id, pool[j].gen))
       => j = k

\* All of it, of one id.
JobInv(i) == AgesAt(i) /\ InHandAt(i) /\ OnceAt(i)

\* A job that the ledger has done with is closed at Brain, so that only a peek from
\* before shows it as open.
ClosedAt(i) ==
    /\ (row[i] # NoRow /\ row[i].synced /\ row[i].wire \in Closed /\ row[i].gen = brain[i].gen)
          => brain[i].wire \in Closed
    /\ guard[i] = brain[i].gen => brain[i].wire \in Closed
    /\ Peeked(i) => ctl.copy[i].wire \notin Closed
    /\ Peeked(i) /\ ctl.copy[i].gen = guard[i] => i \in overtaken

-----------------------------------------------------------------------------
(* The operators of the model.                                             *)

\* A row or a job is never the mark of one that is missing.
LEMMA Present ==
  /\ \A r \in Rows : r # NoRow /\ r.gen \in Gens /\ r.gen # 0
  /\ \A j \in Jobs : j # NoJob /\ j.gen \in Gens /\ j.gen # 0
  /\ NoRow = NoJob /\ NoRow.gen = 0
<1>1. \A g \in Gens : g # 0
  BY RuntimeAssumption DEF Gens
<1>2. NoRow.gen = 0 /\ NoRow = NoJob
  BY DEF NoRow, NoJob
<1> QED BY <1>1, <1>2 DEF Rows, Jobs

\* The statuses a decision may give.
LEMMA VerdictType ==
  ASSUME NEW r, NEW wire \in Wires, NEW id
  PROVE  /\ FinalWire(r, wire) \in Wires \cup {"none"}
         /\ FromSteps(r, wire) \in Wires \cup {"none"}
         /\ Verdict(id, r) \in Wires \cup {"none"}
         /\ PeekVerdict(r) \in Wires \cup {"none"}
<1>1. \A w : FinalWire(r, w) \in Wires \cup {"none"}
  BY DEF FinalWire, Wires, Closed
<1>2. \A w : FromSteps(r, w) \in Wires \cup {"none"}
  BY <1>1 DEF FromSteps, Wires, Closed
<1>3. Verdict(id, r) \in Wires \cup {"none"}
  BY <1>2 DEF Verdict, Wires
<1>4. PeekVerdict(r) \in Wires \cup {"none"}
  BY <1>2 DEF PeekVerdict
<1> QED BY <1>1, <1>2, <1>3, <1>4

\* Two rows that differ in nothing but what of the intent is reported.
Like(r, s) ==
    /\ r = NoRow <=> s = NoRow
    /\ r # NoRow => /\ s.gen = r.gen /\ s.pre = r.pre /\ s.step = r.step /\ (s.told => r.told)
                    /\ s.synced /\ s.wire \in Closed => r.synced /\ r.wire \in Closed

LEMMA SnapIs ==
  ASSUME NEW r \in MaybeRow
  PROVE  /\ Snap(r) \in MaybeRow
         /\ Snap(r) = NoRow <=> r = NoRow
         /\ r # NoRow => Snap(r).gen = r.gen /\ Snap(r).pre = r.pre /\ Snap(r).step = r.step
<1>1. CASE r = NoRow
  BY <1>1 DEF Snap, MaybeRow
<1>2. CASE r # NoRow
  <2>1. r \in Rows /\ Snap(r) = [gen |-> r.gen, pre |-> r.pre, step |-> r.step, told |-> TRUE,
                                 synced |-> TRUE, wire |-> r.wire]
    BY <1>2 DEF Snap, MaybeRow, Rows
  <2>2. Snap(r) \in Rows
    BY <2>1 DEF Rows
  <2> QED BY <1>2, <2>1, <2>2, Present DEF MaybeRow
<1> QED BY <1>1, <1>2

LEMMA RowOfIs ==
  ASSUME NEW job \in Jobs
  PROVE  /\ RowOf(job) \in Rows /\ RowOf(job) # NoRow
         /\ RowOf(job).gen = job.gen /\ RowOf(job).pre = job.pre /\ RowOf(job).step = job.step
         /\ RowOf(job).wire = job.wire
<1>1. RowOf(job) \in Rows
  BY DEF RowOf, Rows, Jobs
<1> QED BY <1>1, Present DEF RowOf

LEMMA OverlayIs ==
  ASSUME row \in [Ids -> MaybeRow], NEW id \in Ids, NEW copy \in MaybeRow, copy # NoRow
  PROVE  /\ Overlay(id, copy) \in Rows /\ Overlay(id, copy) # NoRow
         /\ Overlay(id, copy) = IF row[id] # NoRow THEN Snap(row[id]) ELSE copy
<1>1. row[id] \in MaybeRow
  OBVIOUS
<1> QED BY <1>1, SnapIs DEF Overlay, MaybeRow

\* A row with some of its fields changed.
LEMMA RowWired ==
  ASSUME NEW r \in Rows, NEW wire \in Wires
  PROVE  LET q == [r EXCEPT !.wire = wire, !.synced = FALSE]
         IN  /\ q \in Rows /\ q.gen = r.gen /\ q.pre = r.pre /\ q.step = r.step
             /\ q.told => r.told
             /\ ~q.synced
BY DEF Rows

LEMMA RowStepped ==
  ASSUME NEW r \in Rows, NEW st \in 0..3
  PROVE  LET q == [r EXCEPT !.step = st, !.told = FALSE]
         IN  /\ q \in Rows /\ q.gen = r.gen /\ q.pre = r.pre /\ q.step = st /\ ~q.told
             /\ q.synced = r.synced /\ q.wire = r.wire
BY DEF Rows

LEMMA RowBehind ==
  ASSUME NEW r \in Rows, NEW pre \in 0..3
  PROVE  LET q == [r EXCEPT !.pre = pre]
         IN  /\ q \in Rows /\ q.gen = r.gen /\ q.pre = pre /\ q.step = r.step
             /\ q.told => r.told
             /\ q.synced = r.synced /\ q.wire = r.wire
BY DEF Rows

LEMMA RowMarked ==
  ASSUME NEW r \in Rows
  PROVE  /\ LET q == [r EXCEPT !.told = TRUE]
            IN  /\ q \in Rows /\ q.gen = r.gen /\ q.pre = r.pre /\ q.step = r.step
                /\ q.synced = r.synced /\ q.wire = r.wire
         /\ LET q == [r EXCEPT !.synced = TRUE]
            IN  /\ q \in Rows /\ q.gen = r.gen /\ q.pre = r.pre /\ q.step = r.step
                /\ q.told => r.told
                /\ q.wire = r.wire
BY DEF Rows

\* A step's new status: the row of the id, if there is one.
LEMMA SetStepIs ==
  ASSUME row \in [Ids -> MaybeRow], NEW id \in Ids, NEW st \in 0..3
  PROVE  /\ SetStep(id, st) \in [Ids -> MaybeRow]
         /\ \A i \in Ids : i # id => SetStep(id, st)[i] = row[i]
         /\ row[id] = NoRow => SetStep(id, st)[id] = NoRow
         /\ row[id] # NoRow =>
               /\ SetStep(id, st)[id] # NoRow
               /\ SetStep(id, st)[id].gen = row[id].gen
               /\ SetStep(id, st)[id].pre = row[id].pre
               /\ SetStep(id, st)[id].step = st
               /\ SetStep(id, st)[id].synced = row[id].synced
               /\ SetStep(id, st)[id].wire = row[id].wire
               /\ row[id].step = st \/ ~SetStep(id, st)[id].told
               /\ row[id].step = st => SetStep(id, st)[id] = row[id]
<1>1. CASE row[id] = NoRow \/ row[id].step = st
  BY <1>1 DEF SetStep
<1>2. CASE ~(row[id] = NoRow \/ row[id].step = st)
  <2>1. row[id] \in Rows
    BY <1>2 DEF MaybeRow
  <2> DEFINE s == [row[id] EXCEPT !.step = st, !.told = FALSE]
  <2>2. SetStep(id, st) = [row EXCEPT ![id] = s]
    BY <1>2 DEF SetStep
  <2>3. /\ s \in Rows /\ s.gen = row[id].gen /\ s.pre = row[id].pre /\ s.step = st /\ ~s.told
        /\ s.synced = row[id].synced /\ s.wire = row[id].wire
    BY <2>1, RowStepped
  <2> HIDE DEF s
  <2>4. s # NoRow /\ s \in MaybeRow
    BY <2>3, Present DEF MaybeRow
  <2> QED BY <1>2, <2>2, <2>3, <2>4
<1> QED BY <1>1, <1>2

\* An intent's new status changes nothing else of the rows.
LEMMA SetWireIs ==
  ASSUME NEW rows \in [Ids -> MaybeRow], NEW id \in Ids, NEW wire \in Wires
  PROVE  /\ SetWire(rows, id, wire) \in [Ids -> MaybeRow]
         /\ \A i \in Ids : Like(rows[i], SetWire(rows, id, wire)[i])
<1>1. CASE rows[id] = NoRow \/ rows[id].wire = wire
  BY <1>1 DEF SetWire, Like
<1>2. CASE ~(rows[id] = NoRow \/ rows[id].wire = wire)
  <2>1. rows[id] \in Rows
    BY <1>2 DEF MaybeRow
  <2> DEFINE s == [rows[id] EXCEPT !.wire = wire, !.synced = FALSE]
  <2>2. SetWire(rows, id, wire) = [rows EXCEPT ![id] = s]
    BY <1>2 DEF SetWire
  <2>3. /\ s \in Rows /\ s.gen = rows[id].gen /\ s.pre = rows[id].pre
        /\ s.step = rows[id].step /\ (s.told => rows[id].told) /\ ~s.synced
    BY <2>1, RowWired
  <2> HIDE DEF s
  <2>4. s # NoRow /\ s \in MaybeRow
    BY <2>3, Present DEF MaybeRow
  <2> QED BY <1>2, <2>2, <2>3, <2>4 DEF Like
<1> QED BY <1>1, <1>2

\* Brain's jobs but for the status of the intent, and that is kept when it is the last.
BrainLike(b) == \A i \in Ids :
    /\ brain[i].gen = b[i].gen /\ brain[i].pre = b[i].pre /\ brain[i].step = b[i].step
    /\ brain[i].wire \in Closed => b[i].wire \in Closed

LEMMA ToldIs ==
  ASSUME brain \in [Ids -> Jobs], NEW id \in Ids, NEW wire \in Wires
  PROVE  /\ Told(id, wire) \in [Ids -> Jobs] /\ BrainLike(Told(id, wire))
         /\ wire \in Closed => Told(id, wire)[id].wire \in Closed
<1>1. CASE ~(Open(id) /\ wire \in Closed)
  BY <1>1 DEF Told, BrainLike, Open
<1>2. CASE Open(id) /\ wire \in Closed
  <2> DEFINE b == [gen |-> brain[id].gen, shape |-> brain[id].shape, pre |-> brain[id].pre,
                   step |-> brain[id].step, wire |-> wire]
  <2>1. Told(id, wire) = [brain EXCEPT ![id] = b]
    <3>1. brain[id] \in Jobs
      OBVIOUS
    <3>2. [brain[id] EXCEPT !.wire = wire] = b
      BY <3>1 DEF Jobs
    <3>3. Told(id, wire) = [brain EXCEPT ![id] = [brain[id] EXCEPT !.wire = wire]]
      BY <1>2 DEF Told
    <3> QED BY <3>2, <3>3
  <2>2. /\ b \in Jobs /\ b.gen = brain[id].gen /\ b.pre = brain[id].pre
        /\ b.step = brain[id].step /\ b.wire \in Closed
    BY <1>2 DEF Jobs
  <2> HIDE DEF b
  <2> QED BY <2>1, <2>2 DEF BrainLike
<1> QED BY <1>1, <1>2

\* A status of the intent said: rows and jobs stay what they are otherwise.
LEMMA SayIs ==
  ASSUME brain \in [Ids -> Jobs], row \in [Ids -> MaybeRow], NEW id \in Ids, NEW wire \in Wires,
         Say(id, wire)
  PROVE  /\ row' \in [Ids -> MaybeRow] /\ \A i \in Ids : Like(row[i], row'[i])
         /\ brain' \in [Ids -> Jobs] /\ BrainLike(brain')
<1>1. row' = SetWire(row, id, wire) /\ brain' \in {Told(id, wire), brain}
  BY DEF Say
<1>2. BrainLike(brain)
  BY DEF BrainLike
<1> QED BY <1>1, <1>2, SetWireIs, ToldIs

\* A row marked, and dropped when there is nothing left to report.
LEMMA SettleIs ==
  ASSUME row \in [Ids -> MaybeRow], guard \in [Ids -> 0..MaxGen], overtaken \subseteq Ids,
         NEW id \in Ids, NEW r \in Rows, Settle(id, r)
  PROVE  /\ row' \in [Ids -> MaybeRow] /\ guard' \in [Ids -> 0..MaxGen]
         /\ overtaken' \subseteq Ids /\ overtaken \subseteq overtaken'
         /\ \A i \in Ids : i # id => row'[i] = row[i] /\ guard'[i] = guard[i]
         /\ \/ /\ row'[id] = NoRow /\ guard'[id] = r.gen /\ r.synced /\ r.wire \in Closed
               /\ ctl.pc = "ingest" => id \in overtaken'
            \/ row'[id] = r /\ guard'[id] = guard[id]
<1>1. r.gen \in 0..MaxGen /\ r \in MaybeRow /\ NoRow \in MaybeRow
  BY RuntimeAssumption DEF Rows, Gens, MaybeRow
<1>2. CASE Done(r)
  BY <1>1, <1>2 DEF Settle, Done
<1>3. CASE ~Done(r)
  BY <1>1, <1>3 DEF Settle
<1> QED BY <1>2, <1>3

-----------------------------------------------------------------------------
(* The pool's tasks.                                                       *)

LEMMA PoolIs ==
  ASSUME pool \in Seq(Tasks)
  PROVE  /\ DOMAIN pool = 1..Len(pool) /\ Len(pool) \in Nat
         /\ \A k \in DOMAIN pool : pool[k] \in Tasks
OBVIOUS

\* A task is put at the end.
LEMMA TaskAdded ==
  ASSUME pool \in Seq(Tasks), NEW t \in Tasks, pool' = Append(pool, t)
  PROVE  /\ pool' \in Seq(Tasks)
         /\ DOMAIN pool' = DOMAIN pool \cup {Len(pool) + 1} /\ Len(pool) + 1 \notin DOMAIN pool
         /\ \A k \in DOMAIN pool : pool'[k] = pool[k]
         /\ pool'[Len(pool) + 1] = t
OBVIOUS

\* One task is changed.
LEMMA TaskChanged ==
  ASSUME pool \in Seq(Tasks), NEW k \in DOMAIN pool, NEW t \in Tasks, pool' = [pool EXCEPT ![k] = t]
  PROVE  /\ pool' \in Seq(Tasks) /\ DOMAIN pool' = DOMAIN pool /\ pool'[k] = t
         /\ \A j \in DOMAIN pool : j # k => pool'[j] = pool[j]
<1>1. k \in 1..Len(pool)
  OBVIOUS
<1>2. pool' \in Seq(Tasks)
  BY <1>1, ExceptSeq
<1> QED BY <1>1, <1>2

\* Nobody waits for the tasks any more.
LEMMA TasksOrphaned ==
  ASSUME pool \in Seq(Tasks), pool' = Orphaned(pool)
  PROVE  /\ pool' \in Seq(Tasks) /\ DOMAIN pool' = DOMAIN pool
         /\ \A k \in DOMAIN pool : /\ pool'[k].id = pool[k].id /\ pool'[k].gen = pool[k].gen
                                   /\ pool'[k].st = pool[k].st /\ ~pool'[k].mine
<1>1. /\ DOMAIN pool = 1..Len(pool) /\ Len(pool) \in Nat
      /\ \A k \in DOMAIN pool : pool[k] \in Tasks
  BY PoolIs
<1>2. pool' = [k \in 1..Len(pool) |-> [pool[k] EXCEPT !.mine = FALSE]]
  BY <1>1 DEF Orphaned
<1>3. \A k \in 1..Len(pool) :
         /\ pool'[k] = [id |-> pool[k].id, gen |-> pool[k].gen, st |-> pool[k].st, mine |-> FALSE]
         /\ pool'[k] \in Tasks
  <2> SUFFICES ASSUME NEW k \in 1..Len(pool)
               PROVE  /\ pool'[k] = [id |-> pool[k].id, gen |-> pool[k].gen, st |-> pool[k].st,
                                      mine |-> FALSE]
                      /\ pool'[k] \in Tasks
    OBVIOUS
  <2>1. pool[k] \in Tasks /\ pool'[k] = [pool[k] EXCEPT !.mine = FALSE]
    BY <1>1, <1>2
  <2> QED BY <2>1 DEF Tasks
<1>4. pool' \in [1..Len(pool) -> Tasks]
  BY <1>2, <1>3
<1>5. pool' \in Seq(Tasks)
  BY <1>1, <1>4, SeqDef
<1>6. DOMAIN pool' = DOMAIN pool
  BY <1>1, <1>2
<1>7. \A k \in DOMAIN pool : /\ pool'[k].id = pool[k].id /\ pool'[k].gen = pool[k].gen
                            /\ pool'[k].st = pool[k].st /\ ~pool'[k].mine
  <2> SUFFICES ASSUME NEW k \in 1..Len(pool)
               PROVE  /\ pool'[k].id = pool[k].id /\ pool'[k].gen = pool[k].gen
                      /\ pool'[k].st = pool[k].st /\ ~pool'[k].mine
    BY <1>1
  <2>1. pool'[k] = [id |-> pool[k].id, gen |-> pool[k].gen, st |-> pool[k].st, mine |-> FALSE]
    BY <1>3
  <2> QED BY <2>1
<1> QED BY <1>5, <1>6, <1>7

\* One task leaves, and those behind it move up.
LEMMA TaskGone ==
  ASSUME pool \in Seq(Tasks), NEW i \in DOMAIN pool, pool' = Without(pool, i)
  PROVE  /\ pool' \in Seq(Tasks) /\ DOMAIN pool' = 1..(Len(pool) - 1)
         /\ \A k \in DOMAIN pool' : pool'[k] = IF k < i THEN pool[k] ELSE pool[k + 1]
<1>1. /\ i \in 1..Len(pool) /\ Len(pool) \in Nat
      /\ \A k \in 1..Len(pool) : pool[k] \in Tasks
  BY PoolIs
<1> DEFINE a == SubSeq(pool, 1, i - 1)
           b == SubSeq(pool, i + 1, Len(pool))
<1>2. /\ a \in Seq(Tasks) /\ Len(a) = i - 1
      /\ \A k \in 1..(i - 1) : a[k] = pool[k]
  <2>1. \A k \in 1..(i - 1) : pool[k] \in Tasks
    BY <1>1
  <2>2. /\ a \in Seq(Tasks) /\ Len(a) = IF 1 <= i - 1 THEN (i - 1) - 1 + 1 ELSE 0
        /\ \A k \in 1..((i - 1) - 1 + 1) : a[k] = pool[1 + k - 1]
    BY <1>1, <2>1, SubSeqProperties
  <2> QED BY <1>1, <2>2
<1>3. /\ b \in Seq(Tasks) /\ Len(b) = Len(pool) - i
      /\ \A k \in 1..(Len(pool) - i) : b[k] = pool[k + i]
  <2>1. \A k \in (i + 1)..Len(pool) : pool[k] \in Tasks
    BY <1>1
  <2>2. /\ b \in Seq(Tasks)
        /\ Len(b) = IF i + 1 <= Len(pool) THEN Len(pool) - (i + 1) + 1 ELSE 0
        /\ \A k \in 1..(Len(pool) - (i + 1) + 1) : b[k] = pool[(i + 1) + k - 1]
    BY <1>1, <2>1, SubSeqProperties
  <2> QED BY <1>1, <2>2
<1> HIDE DEF a, b
<1>4. pool' = a \o b
  BY DEF Without, a, b
<1>5. /\ pool' \in Seq(Tasks) /\ Len(pool') = (i - 1) + (Len(pool) - i)
      /\ \A k \in 1..((i - 1) + (Len(pool) - i)) :
            pool'[k] = IF k <= i - 1 THEN a[k] ELSE b[k - (i - 1)]
  <2>1. /\ a \o b \in Seq(Tasks) /\ Len(a \o b) = Len(a) + Len(b)
        /\ \A k \in 1..(Len(a) + Len(b)) : (a \o b)[k] = IF k <= Len(a) THEN a[k] ELSE b[k - Len(a)]
    BY <1>2, <1>3, ConcatProperties
  <2> QED BY <1>2, <1>3, <1>4, <2>1
<1>6. (i - 1) + (Len(pool) - i) = Len(pool) - 1
  BY <1>1
<1>7. DOMAIN pool' = 1..(Len(pool) - 1)
  BY <1>5, <1>6
<1>8. \A k \in 1..(Len(pool) - 1) : pool'[k] = IF k < i THEN pool[k] ELSE pool[k + 1]
  <2> SUFFICES ASSUME NEW k \in 1..(Len(pool) - 1)
               PROVE  pool'[k] = IF k < i THEN pool[k] ELSE pool[k + 1]
    OBVIOUS
  <2>1. CASE k < i
    <3>1. k \in 1..(i - 1) /\ k <= i - 1
      BY <1>1, <2>1
    <3> QED BY <1>2, <1>5, <1>6, <2>1, <3>1
  <2>2. CASE ~(k < i)
    <3>1. k - (i - 1) \in 1..(Len(pool) - i) /\ (k - (i - 1)) + i = k + 1 /\ ~(k <= i - 1)
      BY <1>1, <2>2
    <3> QED BY <1>3, <1>5, <1>6, <2>2, <3>1
  <2> QED BY <2>1, <2>2
<1> QED BY <1>5, <1>7, <1>8

-----------------------------------------------------------------------------
(* What each action does, with its types.                                  *)

\* Nothing happens to what may run: statuses of intents are said, or a thread goes on.
Calm ==
    /\ \A i \in Ids : /\ Like(row[i], row'[i])
                      /\ Peeked(i)' => Peeked(i) /\ ctl'.copy[i] = ctl.copy[i]
    /\ BrainLike(brain')
    /\ UNCHANGED <<guard, pool, runs, crashes, ready, overtaken, outlived>>
    /\ work'.batch = work.batch
    /\ \/ work'.pc = work.pc /\ work'.id = work.id /\ work'.plan = work.plan
       \/ work.pc # "capability" /\ work'.pc \notin {"find", "capability"}

LEMMA AlikeItself == BrainLike(brain) /\ \A i \in Ids : Like(row[i], row[i])
BY DEF BrainLike, Like

LEMMA RunTypesInit == Init => Types
<1> SUFFICES ASSUME Init PROVE Types
  OBVIOUS
<1>0. {"none", "intent_parsed"} \subseteq Wires \cup {"none"} /\ NoRow \in MaybeRow
  BY DEF Wires, MaybeRow
<1>1. CtlTypes
  BY <1>0 DEF Init, CtlIdle, CtlTypes, CtlPCs, MaybeRow
<1>2. WorkTypes
  BY <1>0 DEF Init, WorkIdle, WorkTypes, WorkPCs
<1>3. brain \in [Ids -> Jobs]
  <2>1. PICK shape \in [Ids -> Shapes] : brain = [i \in Ids |-> NewJob(1, shape[i])]
    BY DEF Init
  <2>2. \A s \in Shapes : NewJob(1, s) \in Jobs
    BY RuntimeAssumption DEF NewJob, Jobs, Gens, Wires, Waiting, Succeeded
  <2> QED BY <2>1, <2>2
<1>4. /\ row \in [Ids -> MaybeRow] /\ guard \in [Ids -> 0..MaxGen]
      /\ dispatched \subseteq Ids /\ pending \subseteq Ids /\ lock = "none"
      /\ pool \in Seq(Tasks) /\ runs \in [Ids -> [Gens -> Nat]] /\ crashes = 0 /\ restarts = 0
      /\ overtaken = {} /\ outlived = {}
  BY <1>0, RuntimeAssumption DEF Init
<1> QED BY <1>1, <1>2, <1>3, <1>4 DEF Types, RestTypes

LEMMA CtlPeekDoes ==
  ASSUME Types, CtlPeek
  PROVE  /\ Types' /\ ctl.pc = "peek" /\ ctl'.pc = "ingest"
         /\ \A i \in Ids : ctl'.copy[i] = IF Open(i) THEN brain[i] ELSE NoJob
         /\ UNCHANGED <<brain, row, guard, work, pool, runs, ready, crashes, overtaken,
                        outlived>>
<1> DEFINE c == [i \in Ids |-> IF Open(i) THEN brain[i] ELSE NoJob]
<1>1. /\ UNCHANGED <<brain, row, guard, dispatched, lock, pending, work, pool, runs, ready,
                     restarts, crashes, overtaken, outlived>>
      /\ ctl.pc = "peek"
  BY DEF CtlPeek, CtlRest, CtlKeeps
<1>2. c \in [Ids -> Jobs \cup {NoJob}]
  BY DEF Types, RestTypes
<1>3. ctl' = [pc |-> "ingest", id |-> ctl.id, say |-> ctl.say, copy |-> c]
  BY DEF CtlPeek, Types, CtlTypes
<1>4. ctl'.copy = c
  BY <1>3
<1> HIDE DEF c
<1>5. CtlTypes'
  BY <1>1, <1>2, <1>3 DEF Types, CtlTypes, CtlPCs
<1>6. WorkTypes' /\ RestTypes'
  BY <1>1 DEF Types, WorkTypes, RestTypes
<1> QED BY <1>1, <1>3, <1>4, <1>5, <1>6 DEF Types, c

\* A peek makes a new row of a job, for one that is not guarded or whose guard is old.
Remade(i, g, old) == NewRow(i, g) \/ (row[i] = NoRow /\ old)

LEMMA TakenInIs ==
  ASSUME row \in [Ids -> MaybeRow], NEW i \in Ids, NEW job \in Jobs, NEW old \in BOOLEAN
  PROVE  /\ TakenIn(i, job, old) \in MaybeRow
         /\ ~Remade(i, job.gen, old) =>
               /\ row[i] = NoRow => TakenIn(i, job, old) = NoRow
               /\ row[i] # NoRow =>
                     /\ row[i].gen = job.gen /\ TakenIn(i, job, old) # NoRow
                     /\ TakenIn(i, job, old).gen = row[i].gen
                     /\ TakenIn(i, job, old).pre = job.pre
                     /\ TakenIn(i, job, old).step = row[i].step
                     /\ TakenIn(i, job, old).told => row[i].told
                     /\ TakenIn(i, job, old).synced = row[i].synced
                     /\ TakenIn(i, job, old).wire = row[i].wire
         /\ Remade(i, job.gen, old) =>
               /\ TakenIn(i, job, old) # NoRow /\ TakenIn(i, job, old).gen = job.gen
               /\ TakenIn(i, job, old).pre = job.pre /\ TakenIn(i, job, old).step = job.step
               /\ TakenIn(i, job, old).wire = job.wire
<1>1. CASE Remade(i, job.gen, old)
  <2>1. TakenIn(i, job, old) = RowOf(job)
    BY <1>1 DEF Remade, NewRow, TakenIn, Ghost
  <2> QED BY <1>1, <2>1, RowOfIs DEF MaybeRow
<1>2. CASE ~Remade(i, job.gen, old) /\ row[i] = NoRow
  BY <1>2 DEF Remade, NewRow, TakenIn, Ghost, MaybeRow
<1>3. CASE ~Remade(i, job.gen, old) /\ row[i] # NoRow
  <2>1. row[i] \in Rows /\ job.pre \in 0..3 /\ row[i].gen = job.gen
    BY <1>3 DEF MaybeRow, Jobs, Remade, NewRow
  <2> DEFINE q == [row[i] EXCEPT !.pre = job.pre]
  <2>2. TakenIn(i, job, old) = q
    BY <1>3, <2>1 DEF TakenIn
  <2>3. /\ q \in Rows /\ q.gen = row[i].gen /\ q.pre = job.pre /\ q.step = row[i].step
        /\ q.told => row[i].told
        /\ q.synced = row[i].synced /\ q.wire = row[i].wire
    BY <2>1, RowBehind
  <2> HIDE DEF q
  <2> QED BY <1>3, <2>1, <2>2, <2>3, Present DEF MaybeRow
<1> QED BY <1>1, <1>2, <1>3

LEMMA CtlIngestDoes ==
  ASSUME Types, CtlIngest
  PROVE  /\ Types' /\ ctl.pc = "ingest" /\ ctl'.pc = "prune"
         /\ BrainLike(brain') /\ UNCHANGED <<guard, work, pool, runs, ready, crashes>>
         /\ overtaken' = {} /\ outlived \subseteq outlived'
         /\ \A i \in Ids :
               \/ row'[i] = row[i]
               \/ /\ Peeked(i)
                  /\ \E old \in BOOLEAN :
                        /\ row'[i] = TakenIn(i, ctl.copy[i], old)
                        /\ old /\ i \in overtaken /\ ctl.copy[i].gen = guard[i] =>
                              <<i, ctl.copy[i].gen>> \in outlived'
<1> DEFINE Seen == {i \in Ids : ctl.copy[i] # NoJob}
           Empty == {i \in Seen : ctl.copy[i].shape = "empty"}
           b == [i \in Ids |-> IF i \in Empty THEN Told(i, "failed")[i] ELSE brain[i]]
           c == [i \in Ids |-> IF i \in Seen \ Empty THEN RowOf(ctl.copy[i]) ELSE NoRow]
           again(Old) == {<<i, guard[i]>> :
                              i \in {j \in Old \cap overtaken : ctl.copy[j].gen = guard[j]}}
           r(Old) == [i \in Ids |-> IF i \in Seen \ Empty THEN TakenIn(i, ctl.copy[i], i \in Old)
                                                          ELSE row[i]]
<1>1. /\ UNCHANGED <<guard, dispatched, lock, pending, work, pool, runs, ready, restarts,
                     crashes>>
      /\ ctl.pc = "ingest" /\ brain' = b /\ overtaken' = {}
      /\ ctl' = [ctl EXCEPT !.pc = "prune", !.copy = c]
  BY DEF CtlIngest, CtlKeeps
<1>o. PICK Old \in SUBSET Ids : row' = r(Old) /\ outlived' = outlived \cup again(Old)
  BY DEF CtlIngest
<1>2. \A i \in Seen : ctl.copy[i] \in Jobs
  BY <1>1 DEF Types, CtlTypes
<1>3. ctl' = [pc |-> "prune", id |-> ctl.id, say |-> ctl.say, copy |-> c]
  BY <1>1 DEF Types, CtlTypes
<1>4. c \in [Ids -> MaybeRow]
  BY <1>2, RowOfIs DEF MaybeRow
<1>5. row' \in [Ids -> MaybeRow]
  <2>1. ASSUME NEW i \in Seen PROVE TakenIn(i, ctl.copy[i], i \in Old) \in MaybeRow
    <3>1. ctl.copy[i] \in Jobs /\ (i \in Old) \in BOOLEAN /\ row \in [Ids -> MaybeRow] /\ i \in Ids
      BY <1>2 DEF Types, RestTypes
    <3> QED BY <3>1, TakenInIs
  <2> QED BY <1>o, <2>1 DEF Types, RestTypes
<1>6. b \in [Ids -> Jobs] /\ BrainLike(b)
  <2>1. \A i \in Ids : /\ Told(i, "failed")[i] \in Jobs
                       /\ brain[i].gen = Told(i, "failed")[i].gen
                       /\ brain[i].pre = Told(i, "failed")[i].pre
                       /\ brain[i].step = Told(i, "failed")[i].step
                       /\ brain[i].wire \in Closed => Told(i, "failed")[i].wire \in Closed
    <3>1. "failed" \in Wires
      BY DEF Wires, Closed
    <3> QED BY <3>1, ToldIs DEF BrainLike, Types, RestTypes
  <2> QED BY <2>1 DEF BrainLike, Types, RestTypes
<1>7. ASSUME NEW i \in Ids
      PROVE  \/ row'[i] = row[i]
             \/ /\ Peeked(i)
                /\ \E old \in BOOLEAN :
                      /\ row'[i] = TakenIn(i, ctl.copy[i], old)
                      /\ old /\ i \in overtaken /\ ctl.copy[i].gen = guard[i] =>
                            <<i, ctl.copy[i].gen>> \in outlived'
  <2>1. CASE i \notin Seen \ Empty
    BY <1>o, <2>1
  <2>2. CASE i \in Seen \ Empty
    <3>1. Peeked(i) /\ row'[i] = TakenIn(i, ctl.copy[i], i \in Old)
      BY <1>1, <1>o, <2>2 DEF Peeked
    <3>2. i \in Old /\ i \in overtaken /\ ctl.copy[i].gen = guard[i] =>
             <<i, guard[i]>> \in outlived'
      BY <1>o
    <3>3. (i \in Old) \in BOOLEAN
      OBVIOUS
    <3> DEFINE old == i \in Old
    <3>4. /\ old \in BOOLEAN /\ row'[i] = TakenIn(i, ctl.copy[i], old)
          /\ old /\ i \in overtaken /\ ctl.copy[i].gen = guard[i] =>
                <<i, ctl.copy[i].gen>> \in outlived'
      BY <3>1, <3>2, <3>3
    <3> HIDE DEF old
    <3> QED BY <3>1, <3>4
  <2> QED BY <2>1, <2>2
<1>8. outlived' \subseteq Ids \X (0..MaxGen)
  BY <1>o DEF Types, RestTypes
<1>9. outlived \subseteq outlived'
  BY <1>o
<1> HIDE DEF r, b, c, again
<1>10. CtlTypes'
  BY <1>3, <1>4 DEF Types, CtlTypes, CtlPCs
<1>11. WorkTypes' /\ RestTypes'
  BY <1>1, <1>5, <1>6, <1>8 DEF Types, WorkTypes, RestTypes
<1>12. BrainLike(brain') /\ ctl'.pc = "prune"
  BY <1>1, <1>3, <1>6
<1>13. Types'
  BY <1>10, <1>11 DEF Types
<1> QED BY <1>1, <1>7, <1>9, <1>12, <1>13

LEMMA CtlPruneDoes ==
  ASSUME Types, CtlPrune
  PROVE  /\ Types' /\ ctl.pc = "prune" /\ ctl'.pc = "reconcile"
         /\ UNCHANGED <<brain, guard, work, pool, runs, ready, crashes, overtaken, outlived>>
         /\ \A i \in Ids : \/ row'[i] = row[i]
                           \/ Prunable(row[i]) /\ row'[i] = NoRow
<1> DEFINE r == [i \in Ids |-> IF Prunable(row[i]) THEN NoRow ELSE row[i]]
<1>1. /\ UNCHANGED <<brain, guard, dispatched, lock, pending, work, pool, runs, ready,
                     restarts, crashes, overtaken, outlived>>
      /\ ctl.pc = "prune" /\ row' = r
  BY DEF CtlPrune, CtlRest, CtlKeeps
<1>2. ctl' = [pc |-> "reconcile", id |-> ctl.id, say |-> ctl.say, copy |-> ctl.copy]
  BY DEF CtlPrune, Types, CtlTypes
<1>3. r \in [Ids -> MaybeRow]
  BY DEF Types, RestTypes, MaybeRow
<1>4. \A i \in Ids : row'[i] = row[i] \/ (Prunable(row[i]) /\ row'[i] = NoRow)
  BY <1>1
<1> HIDE DEF r
<1>5. CtlTypes'
  BY <1>1, <1>2 DEF Types, CtlTypes, CtlPCs
<1>6. WorkTypes' /\ RestTypes'
  BY <1>1, <1>3 DEF Types, WorkTypes, RestTypes
<1> QED BY <1>1, <1>2, <1>4, <1>5, <1>6 DEF Types

LEMMA CtlReconcileCalm ==
  ASSUME Types, NEW id \in Ids, CtlReconcile(id)
  PROVE  Types' /\ Calm
<1> DEFINE wire == PeekVerdict(Overlay(id, ctl.copy[id]))
           pc == IF wire = "none" THEN "reconcile" ELSE "say"
<1>1. /\ UNCHANGED <<brain, row, guard, dispatched, lock, pending, work, pool, runs, ready,
                     restarts, crashes, overtaken, outlived>>
      /\ ctl.pc = "reconcile"
  BY DEF CtlReconcile, CtlRest, CtlKeeps
<1>2. wire \in Wires \cup {"none"}
  <2>1. "running" \in Wires
    BY DEF Wires
  <2> QED BY <2>1, VerdictType
<1>3. ctl' = [ctl EXCEPT !.pc = pc, !.id = id, !.copy[id] = NoRow, !.say = wire]
  BY DEF CtlReconcile
<1>4. ctl.copy \in [Ids -> MaybeRow]
  BY <1>1 DEF Types, CtlTypes
<1> DEFINE c == [ctl.copy EXCEPT ![id] = NoRow]
<1>5. c \in [Ids -> MaybeRow]
  BY <1>4 DEF MaybeRow
<1>6. (pc = "say" => wire # "none") /\ pc \in {"say", "reconcile"}
  OBVIOUS
<1> HIDE DEF pc, wire
<1>7. ctl' = [pc |-> pc, id |-> id, say |-> wire, copy |-> c]
  BY <1>3 DEF Types, CtlTypes
<1> HIDE DEF c
<1>8. CtlTypes'
  BY <1>2, <1>5, <1>6, <1>7 DEF CtlTypes, CtlPCs
<1>9. WorkTypes' /\ RestTypes'
  BY <1>1 DEF Types, WorkTypes, RestTypes
<1>10. \A i \in Ids : ~Peeked(i)'
  BY <1>6, <1>7 DEF Peeked
<1>11. Calm
  BY <1>1, <1>10, AlikeItself DEF Calm, BrainLike, Like
<1> QED BY <1>8, <1>9, <1>11 DEF Types

LEMMA CtlSayCalm ==
  ASSUME Types, CtlSay
  PROVE  Types' /\ Calm
<1>1. /\ UNCHANGED <<guard, dispatched, lock, pending, work, pool, runs, ready, restarts,
                     crashes, overtaken, outlived>>
      /\ ctl.pc = "say" /\ Say(ctl.id, ctl.say)
      /\ ctl' = [ctl EXCEPT !.pc = "reconcile", !.say = "none"]
  BY DEF CtlSay, CtlRest, CtlKeeps
<1>2. ctl.id \in Ids /\ ctl.say \in Wires /\ ctl.copy \in [Ids -> MaybeRow]
  BY <1>1 DEF Types, CtlTypes
<1>3. ctl' = [pc |-> "reconcile", id |-> ctl.id, say |-> "none", copy |-> ctl.copy]
  BY <1>1 DEF Types, CtlTypes
<1>4. /\ row' \in [Ids -> MaybeRow] /\ \A i \in Ids : Like(row[i], row'[i])
      /\ brain' \in [Ids -> Jobs] /\ BrainLike(brain')
  BY <1>1, <1>2, SayIs DEF Types, RestTypes
<1>5. CtlTypes'
  BY <1>2, <1>3 DEF CtlTypes, CtlPCs
<1>6. WorkTypes' /\ RestTypes'
  BY <1>1, <1>4 DEF Types, WorkTypes, RestTypes
<1>7. \A i \in Ids : ~Peeked(i)'
  BY <1>3 DEF Peeked
<1>8. Calm
  BY <1>1, <1>4, <1>7 DEF Calm
<1> QED BY <1>5, <1>6, <1>8 DEF Types

LEMMA CtlSnapshotCalm ==
  ASSUME Types, CtlSnapshot
  PROVE  Types' /\ Calm
<1> DEFINE c == [i \in Ids |-> IF LocalWork(row[i]) THEN Snap(row[i]) ELSE NoRow]
<1>1. UNCHANGED <<brain, row, guard, dispatched, lock, pending, work, pool, runs, ready,
                  restarts, crashes, overtaken, outlived>>
  BY DEF CtlSnapshot, CtlRest, CtlKeeps
<1>2. ctl' = [pc |-> "dispatch", id |-> ctl.id, say |-> ctl.say, copy |-> c]
  BY DEF CtlSnapshot, Types, CtlTypes
<1>3. c \in [Ids -> MaybeRow]
  BY SnapIs DEF Types, RestTypes, MaybeRow
<1> HIDE DEF c
<1>4. CtlTypes'
  BY <1>2, <1>3 DEF Types, CtlTypes, CtlPCs
<1>5. WorkTypes' /\ RestTypes'
  BY <1>1 DEF Types, WorkTypes, RestTypes
<1>6. \A i \in Ids : ~Peeked(i)'
  BY <1>2 DEF Peeked
<1>7. Calm
  BY <1>1, <1>6, AlikeItself DEF Calm, BrainLike, Like
<1> QED BY <1>4, <1>5, <1>7 DEF Types

LEMMA CtlHandleCalm ==
  ASSUME Types, NEW id \in Ids, CtlHandle(id)
  PROVE  Types' /\ Calm
<1> DEFINE say == Verdict(id, Overlay(id, ctl.copy[id]))
           c == [ctl.copy EXCEPT ![id] = NoRow]
<1>1. /\ UNCHANGED <<brain, row, guard, dispatched, pending, work, pool, runs, ready,
                     restarts, crashes, overtaken, outlived>>
      /\ ctl.pc = "dispatch" /\ lock' = "control"
      /\ ctl' = [ctl EXCEPT !.pc = "write", !.id = id, !.copy[id] = NoRow, !.say = say]
  BY DEF CtlHandle, CtlRest, CtlKeeps
<1>2. say \in Wires \cup {"none"}
  <2>1. "running" \in Wires
    BY DEF Wires
  <2> QED BY <2>1, VerdictType
<1>3. ctl.copy \in [Ids -> MaybeRow]
  BY <1>1 DEF Types, CtlTypes
<1>4. c \in [Ids -> MaybeRow]
  BY <1>3 DEF MaybeRow
<1> HIDE DEF say
<1>5. ctl' = [pc |-> "write", id |-> id, say |-> say, copy |-> c]
  BY <1>1 DEF Types, CtlTypes
<1> HIDE DEF c
<1>6. CtlTypes'
  BY <1>2, <1>4, <1>5 DEF CtlTypes, CtlPCs
<1>7. WorkTypes' /\ RestTypes'
  BY <1>1 DEF Types, WorkTypes, RestTypes
<1>8. \A i \in Ids : ~Peeked(i)'
  BY <1>5 DEF Peeked
<1>9. Calm
  BY <1>1, <1>8, AlikeItself DEF Calm, BrainLike, Like
<1> QED BY <1>6, <1>7, <1>9 DEF Types

LEMMA CtlWriteCalm ==
  ASSUME Types, CtlWrite
  PROVE  Types' /\ Calm
<1>1. /\ UNCHANGED <<guard, work, pool, runs, ready, restarts, crashes, overtaken, outlived>>
      /\ ctl.pc = "write" /\ lock' = "none" /\ dispatched' = dispatched \cup {ctl.id}
      /\ pending' \in {pending \cup {ctl.id}, pending}
      /\ ctl' = [ctl EXCEPT !.pc = "dispatch", !.say = "none"]
  BY DEF CtlWrite, CtlRest, CtlKeeps
<1>2. /\ ctl.id \in Ids /\ ctl.say \in Wires \cup {"none"} /\ ctl.copy \in [Ids -> MaybeRow]
  BY <1>1 DEF Types, CtlTypes
<1>3. ctl' = [pc |-> "dispatch", id |-> ctl.id, say |-> "none", copy |-> ctl.copy]
  BY <1>1 DEF Types, CtlTypes
<1>4. /\ row' \in [Ids -> MaybeRow] /\ \A i \in Ids : Like(row[i], row'[i])
      /\ brain' \in [Ids -> Jobs] /\ BrainLike(brain')
  <2>1. CASE ctl.say = "none"
    BY <2>1, AlikeItself DEF CtlWrite, Types, RestTypes, BrainLike, Like
  <2>2. CASE ctl.say # "none"
    <3>1. ctl.say \in Wires /\ Say(ctl.id, ctl.say)
      BY <1>2, <2>2 DEF CtlWrite
    <3> QED BY <1>2, <3>1, SayIs DEF Types, RestTypes
  <2> QED BY <2>1, <2>2
<1>5. CtlTypes'
  BY <1>2, <1>3 DEF CtlTypes, CtlPCs
<1>6. WorkTypes' /\ RestTypes'
  BY <1>1, <1>2, <1>4 DEF Types, WorkTypes, RestTypes
<1>7. \A i \in Ids : ~Peeked(i)'
  BY <1>3 DEF Peeked
<1>8. Calm
  BY <1>1, <1>4, <1>7 DEF Calm
<1> QED BY <1>5, <1>6, <1>8 DEF Types

LEMMA CtlSleepCalm ==
  ASSUME Types, CtlSleep
  PROVE  Types' /\ Calm
<1>1. /\ UNCHANGED <<brain, row, guard, dispatched, lock, pending, work, pool, runs, ready,
                     restarts, crashes, overtaken, outlived>>
      /\ ctl' = CtlIdle
  BY DEF CtlSleep, CtlRest, CtlKeeps
<1>2. CtlTypes'
  BY <1>1 DEF CtlIdle, CtlTypes, CtlPCs, MaybeRow, Wires
<1>3. WorkTypes' /\ RestTypes'
  BY <1>1 DEF Types, WorkTypes, RestTypes
<1>4. \A i \in Ids : ~Peeked(i)'
  BY <1>1 DEF Peeked, CtlIdle
<1>5. Calm
  BY <1>1, <1>4, AlikeItself DEF Calm, BrainLike, Like
<1> QED BY <1>2, <1>3, <1>5 DEF Types

LEMMA PoolTellsCalm ==
  ASSUME Types, NEW id \in Ids, PoolTells(id)
  PROVE  Types' /\ Calm
<1>1. /\ UNCHANGED <<row, guard, dispatched, lock, ctl, pending, work, pool, runs, ready,
                     restarts, crashes, overtaken, outlived>>
      /\ row[id] # NoRow /\ brain' = Told(id, row[id].wire)
  BY DEF PoolTells
<1>2. row[id].wire \in Wires
  BY <1>1 DEF Types, RestTypes, MaybeRow, Rows
<1>3. brain' \in [Ids -> Jobs] /\ BrainLike(brain')
  BY <1>1, <1>2, ToldIs DEF Types, RestTypes
<1>4. CtlTypes' /\ WorkTypes' /\ RestTypes'
  BY <1>1, <1>3 DEF Types, CtlTypes, WorkTypes, RestTypes
<1>5. Calm
  BY <1>1, <1>3, AlikeItself DEF Calm, Like, Peeked
<1> QED BY <1>4, <1>5 DEF Types

LEMMA WorkHandleCalm ==
  ASSUME Types, NEW id \in Ids, WorkHandle(id)
  PROVE  Types' /\ Calm
<1> DEFINE say == Verdict(id, Overlay(id, work.batch[id]))
<1>1. /\ UNCHANGED <<brain, row, guard, dispatched, pending, pool, runs, ctl, ready,
                     restarts, crashes, overtaken, outlived>>
      /\ work.pc = "batch" /\ work.batch[id] # NoRow /\ lock' = "worker"
      /\ work' = [work EXCEPT !.pc = "write", !.id = id, !.say = say]
  BY DEF WorkHandle, WorkRest
<1>2. say \in Wires \cup {"none"}
  <2>1. "running" \in Wires
    BY DEF Wires
  <2> QED BY <2>1, VerdictType
<1> HIDE DEF say
<1>3. work' = [pc |-> "write", id |-> id, say |-> say, batch |-> work.batch, plan |-> work.plan]
  BY <1>1 DEF Types, WorkTypes
<1>4. WorkTypes'
  BY <1>1, <1>2, <1>3 DEF Types, WorkTypes, WorkPCs
<1>5. CtlTypes' /\ RestTypes'
  BY <1>1 DEF Types, CtlTypes, RestTypes
<1>6. Calm
  BY <1>1, <1>3, AlikeItself DEF Calm, BrainLike, Like, Peeked
<1> QED BY <1>4, <1>5, <1>6 DEF Types

LEMMA WorkWriteCalm ==
  ASSUME Types, WorkWrite
  PROVE  Types' /\ Calm
<1>1. /\ UNCHANGED <<guard, pending, pool, runs, ctl, ready, restarts, crashes, overtaken,
                     outlived>>
      /\ work.pc = "write" /\ lock' = "none" /\ dispatched' = dispatched \cup {work.id}
      /\ work' = [work EXCEPT !.pc = "plan", !.say = "none"]
  BY DEF WorkWrite, WorkRest
<1>2. work.id \in Ids /\ work.say \in Wires \cup {"none"}
  BY <1>1 DEF Types, WorkTypes
<1>3. work' = [pc |-> "plan", id |-> work.id, say |-> "none", batch |-> work.batch, plan |-> work.plan]
  BY <1>1 DEF Types, WorkTypes
<1>4. /\ row' \in [Ids -> MaybeRow] /\ \A i \in Ids : Like(row[i], row'[i])
      /\ brain' \in [Ids -> Jobs] /\ BrainLike(brain')
  <2>1. CASE work.say = "none"
    BY <2>1, AlikeItself DEF WorkWrite, Types, RestTypes, BrainLike, Like
  <2>2. CASE work.say # "none"
    <3>1. work.say \in Wires /\ Say(work.id, work.say)
      BY <1>2, <2>2 DEF WorkWrite
    <3> QED BY <1>2, <3>1, SayIs DEF Types, RestTypes
  <2> QED BY <2>1, <2>2
<1>5. WorkTypes'
  BY <1>1, <1>3 DEF Types, WorkTypes, WorkPCs
<1>6. CtlTypes' /\ RestTypes'
  BY <1>1, <1>2, <1>4 DEF Types, CtlTypes, RestTypes
<1>7. Calm
  BY <1>1, <1>3, <1>4 DEF Calm, Peeked
<1> QED BY <1>5, <1>6, <1>7 DEF Types

LEMMA WorkFinalCalm ==
  ASSUME Types, WorkFinal
  PROVE  Types' /\ Calm
<1> DEFINE wire == FinalWire(work.plan, work.plan.wire)
           pc == IF \A i \in Ids : work.batch[i] = NoRow THEN "wait" ELSE "batch"
<1>1. /\ UNCHANGED <<guard, dispatched, lock, pending, pool, runs, ctl, ready, restarts,
                     crashes, overtaken, outlived>>
      /\ work.pc \in {"final", "find"}
      /\ work' = [work EXCEPT !.plan = NoRow, !.pc = pc]
  BY DEF WorkFinal, WorkRest
<1>2. work.id \in Ids /\ work.plan \in Rows /\ work.plan.wire \in Wires
  BY <1>1 DEF Types, WorkTypes, MaybeRow, Rows
<1>3. pc \in {"wait", "batch"}
  OBVIOUS
<1>4. /\ row' \in [Ids -> MaybeRow] /\ \A i \in Ids : Like(row[i], row'[i])
      /\ brain' \in [Ids -> Jobs] /\ BrainLike(brain')
  <2>1. CASE wire = "none"
    BY <2>1, AlikeItself DEF WorkFinal, Types, RestTypes, BrainLike, Like
  <2>2. CASE wire # "none"
    <3>1. wire \in Wires /\ Say(work.id, wire)
      BY <1>2, <2>2, VerdictType DEF WorkFinal
    <3> HIDE DEF wire
    <3> QED BY <1>2, <3>1, SayIs DEF Types, RestTypes
  <2> QED BY <2>1, <2>2
<1> HIDE DEF wire, pc
<1>5. work' = [pc |-> pc, id |-> work.id, say |-> work.say, batch |-> work.batch, plan |-> NoRow]
  BY <1>1 DEF Types, WorkTypes
<1>6. WorkTypes'
  BY <1>3, <1>5 DEF Types, WorkTypes, WorkPCs, MaybeRow
<1>7. CtlTypes' /\ RestTypes'
  BY <1>1, <1>4 DEF Types, CtlTypes, RestTypes
<1>8. work'.batch = work.batch /\ work'.pc \notin {"find", "capability"} /\ work.pc # "capability"
  BY <1>1, <1>3, <1>5
<1>9. Calm
  BY <1>1, <1>4, <1>8 DEF Calm, Peeked
<1> QED BY <1>6, <1>7, <1>9 DEF Types

LEMMA WorkTakeDoes ==
  ASSUME Types, WorkTake
  PROVE  /\ Types' /\ work.pc = "wait" /\ work'.pc \in {"wait", "batch"}
         /\ \A i \in Ids : \/ work'.batch[i] = NoRow
                           \/ row[i] # NoRow /\ work'.batch[i] = Snap(row[i])
         /\ UNCHANGED <<brain, row, guard, ctl, pool, runs, ready, crashes, overtaken,
                        outlived>>
<1> DEFINE b == [i \in Ids |-> IF i \in pending THEN Snap(row[i]) ELSE NoRow]
           pc == IF \A i \in Ids : b[i] = NoRow THEN "wait" ELSE "batch"
<1>1. /\ UNCHANGED <<brain, row, guard, dispatched, lock, pool, runs, ctl, ready, restarts,
                     crashes, overtaken, outlived>>
      /\ work.pc = "wait" /\ pending' = {} /\ work' = [work EXCEPT !.batch = b, !.pc = pc]
  BY DEF WorkTake, WorkRest
<1>2. b \in [Ids -> MaybeRow] /\ pc \in {"wait", "batch"}
  BY SnapIs DEF Types, RestTypes, MaybeRow
<1>3. \A i \in Ids : b[i] = NoRow \/ (row[i] # NoRow /\ b[i] = Snap(row[i]))
  BY DEF Snap
<1> HIDE DEF b, pc
<1>4. work' = [pc |-> pc, id |-> work.id, say |-> work.say, batch |-> b, plan |-> work.plan]
  BY <1>1 DEF Types, WorkTypes
<1>5. WorkTypes'
  BY <1>2, <1>4 DEF Types, WorkTypes, WorkPCs
<1>6. CtlTypes' /\ RestTypes'
  BY <1>1 DEF Types, CtlTypes, RestTypes
<1> QED BY <1>1, <1>2, <1>3, <1>4, <1>5, <1>6 DEF Types

LEMMA WorkPlanDoes ==
  ASSUME Types, WorkPlan
  PROVE  /\ Types' /\ work.pc = "plan" /\ work'.pc = "find"
         /\ work.id \in Ids /\ work'.id = work.id /\ work.batch[work.id] # NoRow
         /\ work'.plan = IF row[work.id] # NoRow THEN Snap(row[work.id]) ELSE work.batch[work.id]
         /\ work'.batch = [work.batch EXCEPT ![work.id] = NoRow]
         /\ UNCHANGED <<brain, row, guard, ctl, pool, runs, ready, crashes, overtaken,
                        outlived>>
<1> DEFINE p == Overlay(work.id, work.batch[work.id])
           b == [work.batch EXCEPT ![work.id] = NoRow]
<1>1. /\ UNCHANGED <<brain, row, guard, dispatched, lock, pending, pool, runs, ctl, ready,
                     restarts, crashes, overtaken, outlived>>
      /\ work.pc = "plan"
      /\ work' = [work EXCEPT !.pc = "find", !.plan = p, !.batch[work.id] = NoRow]
  BY DEF WorkPlan, WorkRest
<1>2. /\ work.id \in Ids /\ work.batch[work.id] # NoRow
      /\ work.batch \in [Ids -> MaybeRow] /\ row \in [Ids -> MaybeRow]
  BY <1>1 DEF Types, WorkTypes, RestTypes
<1>3. /\ p \in Rows /\ p # NoRow
      /\ p = IF row[work.id] # NoRow THEN Snap(row[work.id]) ELSE work.batch[work.id]
  BY <1>2, OverlayIs
<1>4. b \in [Ids -> MaybeRow] /\ b[work.id] = NoRow
  BY <1>2 DEF MaybeRow
<1> HIDE DEF p
<1>5. work' = [pc |-> "find", id |-> work.id, say |-> work.say, batch |-> b, plan |-> p]
  BY <1>1 DEF Types, WorkTypes
<1>6. WorkTypes'
  <2> HIDE DEF b
  <2> QED BY <1>2, <1>3, <1>4, <1>5 DEF Types, WorkTypes, WorkPCs, MaybeRow
<1>7. CtlTypes' /\ RestTypes'
  BY <1>1 DEF Types, CtlTypes, RestTypes
<1> QED BY <1>1, <1>2, <1>3, <1>5, <1>6, <1>7 DEF Types

\* The row a step's status is written to: its job, and what else it keeps.
StepWritten(id, st) ==
    /\ \A i \in Ids : i # id => Like(row[i], row'[i])
    /\ row[id] = NoRow <=> row'[id] = NoRow
    /\ row[id] # NoRow => /\ row'[id].gen = row[id].gen /\ row'[id].pre = row[id].pre
                          /\ row'[id].step = st
                          /\ row[id].step = st \/ ~row'[id].told
                          /\ row[id].step = st => (row'[id].told => row[id].told)
                          /\ row'[id].synced /\ row'[id].wire \in Closed =>
                                row[id].synced /\ row[id].wire \in Closed

LEMMA WorkStartDoes ==
  ASSUME Types, WorkStart
  PROVE  /\ Types' /\ work.pc = "find" /\ work'.pc = "capability"
         /\ work.id \in Ids /\ work'.id = work.id /\ work.batch[work.id] = NoRow
         /\ work.plan \in Rows /\ LocalWork(work.plan)
         /\ work'.plan.gen = work.plan.gen /\ work'.batch = work.batch
         /\ StepWritten(work.id, Running)
         /\ pool' = Append(pool, Task("queued")) /\ Task("queued") \in Tasks
         /\ UNCHANGED <<brain, guard, ctl, runs, ready, crashes, overtaken, outlived>>
<1>1. /\ UNCHANGED <<brain, guard, dispatched, lock, pending, runs, ctl, ready, restarts,
                     crashes, overtaken, outlived>>
      /\ work.pc = "find" /\ LocalWork(work.plan)
      /\ row' = SetWire(SetStep(work.id, Running), work.id, "running")
      /\ pool' = Append(pool, Task("queued"))
      /\ work' = [work EXCEPT !.pc = "capability", !.plan.step = Running]
  BY DEF WorkStart, WorkRest
<1>2. /\ work.id \in Ids /\ work.plan \in Rows /\ work.batch[work.id] = NoRow
      /\ row \in [Ids -> MaybeRow] /\ pool \in Seq(Tasks)
  BY <1>1 DEF Types, WorkTypes, RestTypes, MaybeRow
<1> DEFINE p == [work.plan EXCEPT !.step = Running]
<1>3. p \in Rows /\ p.gen = work.plan.gen /\ p # NoRow
  <2>1. p \in Rows /\ p.gen = work.plan.gen
    BY <1>2 DEF Rows, Running
  <2> QED BY <2>1, Present
<1> HIDE DEF p
<1>4. work' = [pc |-> "capability", id |-> work.id, say |-> work.say, batch |-> work.batch,
               plan |-> p]
  BY <1>1 DEF Types, WorkTypes, p
<1>5. Task("queued") \in Tasks
  BY <1>2 DEF Task, Tasks, Rows
<1>6. row' \in [Ids -> MaybeRow] /\ StepWritten(work.id, Running)
  <2> DEFINE s == SetStep(work.id, Running)
  <2>1. Running \in 0..3 /\ "running" \in Wires
    BY DEF Running, Wires
  <2>2. /\ s \in [Ids -> MaybeRow]
        /\ \A i \in Ids : i # work.id => s[i] = row[i]
        /\ row[work.id] = NoRow => s[work.id] = NoRow
        /\ row[work.id] # NoRow =>
              /\ s[work.id] # NoRow
              /\ s[work.id].gen = row[work.id].gen
              /\ s[work.id].pre = row[work.id].pre
              /\ s[work.id].step = Running
              /\ s[work.id].synced = row[work.id].synced /\ s[work.id].wire = row[work.id].wire
              /\ row[work.id].step = Running \/ ~s[work.id].told
              /\ row[work.id].step = Running => s[work.id] = row[work.id]
    BY <1>2, <2>1, SetStepIs
  <2> HIDE DEF s
  <2>3. row' = SetWire(s, work.id, "running")
    BY <1>1 DEF s
  <2>4. row' \in [Ids -> MaybeRow] /\ \A i \in Ids : Like(s[i], row'[i])
    BY <1>2, <2>1, <2>2, <2>3, SetWireIs
  <2> QED BY <1>2, <2>2, <2>4 DEF StepWritten, Like
<1>7. pool' \in Seq(Tasks)
  BY <1>1, <1>2, <1>5, TaskAdded
<1>8. WorkTypes'
  BY <1>2, <1>3, <1>4 DEF Types, WorkTypes, WorkPCs, MaybeRow
<1>9. CtlTypes' /\ RestTypes'
  BY <1>1, <1>6, <1>7 DEF Types, CtlTypes, RestTypes
<1>10. /\ work'.pc = "capability" /\ work'.id = work.id /\ work'.plan.gen = work.plan.gen
       /\ work'.batch = work.batch
  BY <1>3, <1>4
<1>11. Types'
  BY <1>8, <1>9 DEF Types
<1> QED BY <1>1, <1>2, <1>5, <1>6, <1>10, <1>11

\* A step's end is recorded: the worker goes on to close the intent.
LEMMA RecordDoes ==
  ASSUME Types, work.pc = "capability", NEW st \in Ended, Record(st)
  PROVE  /\ WorkTypes' /\ row' \in [Ids -> MaybeRow] /\ StepWritten(work.id, st)
         /\ work.id \in Ids /\ work'.pc = "final" /\ work'.batch = work.batch
<1>1. /\ row' = SetStep(work.id, st) /\ work' = [work EXCEPT !.pc = "final", !.plan.step = st]
      /\ st \in 0..3
  BY DEF Record, Ended, Succeeded, Failed
<1>2. /\ work.id \in Ids /\ work.plan \in Rows /\ work.batch[work.id] = NoRow
      /\ row \in [Ids -> MaybeRow]
  BY DEF Types, WorkTypes, RestTypes, MaybeRow
<1> DEFINE p == [work.plan EXCEPT !.step = st]
<1>3. p \in Rows /\ p # NoRow
  <2>1. p \in Rows
    BY <1>1, <1>2 DEF Rows
  <2> QED BY <2>1, Present
<1> HIDE DEF p
<1>4. work' = [pc |-> "final", id |-> work.id, say |-> work.say, batch |-> work.batch, plan |-> p]
  BY <1>1 DEF Types, WorkTypes, p
<1>5. WorkTypes'
  BY <1>2, <1>3, <1>4 DEF Types, WorkTypes, WorkPCs, MaybeRow
<1>6. row' \in [Ids -> MaybeRow] /\ StepWritten(work.id, st)
  <2> DEFINE s == SetStep(work.id, st)
  <2>1. /\ s \in [Ids -> MaybeRow]
        /\ \A i \in Ids : i # work.id => s[i] = row[i]
        /\ row[work.id] = NoRow => s[work.id] = NoRow
        /\ row[work.id] # NoRow =>
              /\ s[work.id] # NoRow
              /\ s[work.id].gen = row[work.id].gen
              /\ s[work.id].pre = row[work.id].pre
              /\ s[work.id].step = st
              /\ s[work.id].synced = row[work.id].synced /\ s[work.id].wire = row[work.id].wire
              /\ row[work.id].step = st \/ ~s[work.id].told
              /\ row[work.id].step = st => s[work.id] = row[work.id]
    BY <1>1, <1>2, SetStepIs
  <2> HIDE DEF s
  <2>2. row' = s
    BY <1>1 DEF s
  <2> QED BY <1>2, <2>1, <2>2 DEF StepWritten, Like
<1> QED BY <1>2, <1>4, <1>5, <1>6

LEMMA WorkTimeoutDoes ==
  ASSUME Types, WorkTimeout
  PROVE  /\ Types' /\ work.pc = "capability" /\ work'.pc = "final" /\ work'.batch = work.batch
         /\ work.id \in Ids /\ StepWritten(work.id, Failed) /\ pool' = Orphaned(pool)
         /\ UNCHANGED <<brain, guard, ctl, runs, ready, crashes, overtaken, outlived>>
<1>1. /\ UNCHANGED <<brain, guard, dispatched, lock, pending, runs, ctl, ready, restarts,
                     crashes, overtaken, outlived>>
      /\ work.pc = "capability" /\ pool' = Orphaned(pool) /\ Record(Failed)
  BY DEF WorkTimeout, WorkRest
<1>2. /\ WorkTypes' /\ row' \in [Ids -> MaybeRow] /\ StepWritten(work.id, Failed)
      /\ work.id \in Ids /\ work'.pc = "final" /\ work'.batch = work.batch
  <2>1. Failed \in Ended
    BY DEF Ended
  <2> QED BY <1>1, <2>1, RecordDoes
<1>3. pool' \in Seq(Tasks)
  BY <1>1, TasksOrphaned DEF Types, RestTypes
<1>4. CtlTypes' /\ RestTypes'
  BY <1>1, <1>2, <1>3 DEF Types, CtlTypes, RestTypes
<1> QED BY <1>1, <1>2, <1>4 DEF Types

LEMMA PoolStartDoes ==
  ASSUME Types, PoolStart
  PROVE  /\ Types' /\ UNCHANGED <<brain, row, guard, ctl, work, ready, crashes, overtaken,
                                  outlived>>
         /\ \E k \in DOMAIN pool :
               /\ pool[k].st = "queued" /\ pool[k] \in Tasks
               /\ DOMAIN pool' = DOMAIN pool
               /\ \A j \in DOMAIN pool : j # k => pool'[j] = pool[j]
               /\ pool'[k].id = pool[k].id /\ pool'[k].gen = pool[k].gen
               /\ pool'[k].st = "running" /\ (pool'[k].mine <=> pool[k].mine)
               /\ runs' = [runs EXCEPT ![pool[k].id][pool[k].gen] = @ + 1]
<1>1. UNCHANGED <<brain, row, guard, dispatched, lock, ctl, pending, work, ready, restarts,
                  crashes, overtaken, outlived>>
  BY DEF PoolStart
<1>2. PICK k \in DOMAIN pool : /\ pool[k].st = "queued"
                               /\ pool' = [pool EXCEPT ![k].st = "running"]
                               /\ runs' = [runs EXCEPT ![pool[k].id][pool[k].gen] = @ + 1]
  BY DEF PoolStart
<1>3. pool \in Seq(Tasks) /\ pool[k] \in Tasks
  BY PoolIs DEF Types, RestTypes
<1> DEFINE t == [pool[k] EXCEPT !.st = "running"]
<1>4. /\ t \in Tasks /\ t.id = pool[k].id /\ t.gen = pool[k].gen /\ t.st = "running"
      /\ t.mine <=> pool[k].mine
  BY <1>3 DEF Tasks
<1>5. pool' = [pool EXCEPT ![k] = t]
  BY <1>2
<1> HIDE DEF t
<1>6. /\ pool' \in Seq(Tasks) /\ DOMAIN pool' = DOMAIN pool /\ pool'[k] = t
      /\ \A j \in DOMAIN pool : j # k => pool'[j] = pool[j]
  BY <1>3, <1>4, <1>5, TaskChanged
<1>7. runs' \in [Ids -> [Gens -> Nat]]
  <2>1. pool[k].id \in Ids /\ pool[k].gen \in Gens /\ runs \in [Ids -> [Gens -> Nat]]
    BY <1>3 DEF Tasks, Types, RestTypes
  <2> QED BY <1>2, <2>1
<1>8. CtlTypes' /\ WorkTypes' /\ RestTypes'
  BY <1>1, <1>6, <1>7 DEF Types, CtlTypes, WorkTypes, RestTypes
<1>9. Types'
  BY <1>8 DEF Types
<1> QED BY <1>1, <1>2, <1>3, <1>4, <1>6, <1>9

LEMMA PoolEndDoes ==
  ASSUME Types, Waits, PoolEnd
  PROVE  /\ Types' /\ UNCHANGED <<brain, guard, ctl, runs, ready, crashes, overtaken, outlived>>
         /\ \E k \in DOMAIN pool :
               /\ pool[k].st = "running" /\ pool' = Without(pool, k)
               /\ \/ ~pool[k].mine /\ UNCHANGED <<row, work>>
                  \/ /\ pool[k].mine /\ work.pc = "capability" /\ work'.pc = "final"
                     /\ work'.batch = work.batch /\ work.id \in Ids
                     /\ \E st \in Ended : StepWritten(work.id, st)
<1>1. UNCHANGED <<brain, guard, dispatched, lock, ctl, pending, runs, ready, restarts,
                  crashes, overtaken, outlived>>
  BY DEF PoolEnd
<1>2. PICK k \in InPool :
         /\ pool' = Without(pool, k)
         /\ IF Awaited(pool[k]) THEN \E st \in Ended : Record(st) ELSE UNCHANGED <<row, work>>
  BY DEF PoolEnd
<1>3. k \in DOMAIN pool /\ pool[k].st = "running" /\ pool \in Seq(Tasks)
  BY DEF InPool, Types, RestTypes
<1>4. pool' \in Seq(Tasks)
  BY <1>2, <1>3, TaskGone
<1>5. CASE ~pool[k].mine
  <2>1. UNCHANGED <<row, work>>
    BY <1>2, <1>5 DEF Awaited
  <2>2. CtlTypes' /\ WorkTypes' /\ RestTypes'
    BY <1>1, <1>4, <2>1 DEF Types, CtlTypes, WorkTypes, RestTypes
  <2>3. Types'
    BY <2>2 DEF Types
  <2> QED BY <1>1, <1>2, <1>3, <1>5, <2>1, <2>3
<1>6. CASE pool[k].mine
  <2>1. PICK st \in Ended : Record(st)
    BY <1>2, <1>6 DEF Awaited
  <2>2. work.pc = "capability"
    BY <1>3, <1>6 DEF Waits
  <2>3. /\ WorkTypes' /\ row' \in [Ids -> MaybeRow] /\ StepWritten(work.id, st)
        /\ work.id \in Ids /\ work'.pc = "final" /\ work'.batch = work.batch
    BY <2>1, <2>2, RecordDoes
  <2>4. CtlTypes' /\ RestTypes'
    BY <1>1, <1>4, <2>3 DEF Types, CtlTypes, RestTypes
  <2>5. Types'
    BY <2>3, <2>4 DEF Types
  <2> QED BY <1>1, <1>2, <1>3, <1>6, <2>2, <2>3, <2>5
<1> QED BY <1>5, <1>6

\* A row's report is marked, and the row dropped if it was the last.
Marked(id) ==
    /\ \A i \in Ids : i # id => row'[i] = row[i] /\ guard'[i] = guard[i]
    /\ row[id] # NoRow /\ overtaken \subseteq overtaken'
    /\ \/ /\ row'[id] = NoRow /\ guard'[id] = row[id].gen /\ row[id].wire \in Closed
          /\ row[id].synced \/ brain'[id].wire \in Closed
          /\ ctl.pc = "ingest" => id \in overtaken'
       \/ /\ row'[id] # NoRow /\ row'[id].gen = row[id].gen /\ row'[id].pre = row[id].pre
          /\ row'[id].step = row[id].step /\ guard'[id] = guard[id]
          /\ row'[id].wire = row[id].wire
          /\ row'[id].synced /\ row'[id].wire \in Closed =>
                row[id].synced \/ brain'[id].wire \in Closed

LEMMA ReportStepDoes ==
  ASSUME Types, NEW id \in Ids, ReportStep(id)
  PROVE  /\ Types' /\ Marked(id)
         /\ \A i \in Ids : /\ brain'[i].gen = brain[i].gen /\ brain'[i].pre = brain[i].pre
                           /\ i # id => brain'[i].step = brain[i].step
                           /\ brain'[i].wire = brain[i].wire
         /\ brain'[id].step = row[id].step
         /\ UNCHANGED <<ctl, work, pool, runs, ready, crashes, outlived>>
<1>1. /\ UNCHANGED <<dispatched, lock, ctl, pending, work, pool, runs, ready, outlived,
                     restarts, crashes>>
      /\ row[id] # NoRow /\ brain' = [brain EXCEPT ![id].step = row[id].step]
      /\ Settle(id, [row[id] EXCEPT !.told = TRUE])
  BY DEF ReportStep
<1>2. /\ row[id] \in Rows /\ row \in [Ids -> MaybeRow] /\ guard \in [Ids -> 0..MaxGen]
      /\ brain \in [Ids -> Jobs] /\ brain[id] \in Jobs
  BY <1>1 DEF Types, RestTypes, MaybeRow
<1> DEFINE r == [row[id] EXCEPT !.told = TRUE]
           b == [brain[id] EXCEPT !.step = row[id].step]
<1>3. /\ r \in Rows /\ r.gen = row[id].gen /\ r.pre = row[id].pre /\ r.step = row[id].step
      /\ r.synced = row[id].synced /\ r.wire = row[id].wire
  BY <1>2, RowMarked
<1>4. /\ b \in Jobs /\ b.gen = brain[id].gen /\ b.pre = brain[id].pre /\ b.step = row[id].step
      /\ b.wire = brain[id].wire
  BY <1>2 DEF Jobs, Rows
<1>5. brain' = [brain EXCEPT ![id] = b] /\ Settle(id, r)
  BY <1>1
<1> HIDE DEF r, b
<1>o. overtaken \subseteq Ids
  BY DEF Types, RestTypes
<1>s. /\ row' \in [Ids -> MaybeRow] /\ guard' \in [Ids -> 0..MaxGen]
      /\ overtaken' \subseteq Ids /\ overtaken \subseteq overtaken'
      /\ \A i \in Ids : i # id => row'[i] = row[i] /\ guard'[i] = guard[i]
      /\ \/ /\ row'[id] = NoRow /\ guard'[id] = r.gen /\ r.synced /\ r.wire \in Closed
            /\ ctl.pc = "ingest" => id \in overtaken'
         \/ row'[id] = r /\ guard'[id] = guard[id]
  BY <1>o, <1>2, <1>3, <1>5, SettleIs
<1>6. Marked(id)
  BY <1>1, <1>3, <1>s, Present DEF Marked
<1>7. brain' \in [Ids -> Jobs]
  BY <1>2, <1>4, <1>5
<1>8. CtlTypes' /\ WorkTypes' /\ RestTypes'
  BY <1>1, <1>s, <1>7 DEF Types, CtlTypes, WorkTypes, RestTypes
<1>9. Types'
  BY <1>8 DEF Types
<1> QED BY <1>1, <1>2, <1>4, <1>5, <1>6, <1>9

LEMMA ReportIntentDoes ==
  ASSUME Types, NEW id \in Ids, ReportIntent(id)
  PROVE  /\ Types' /\ Marked(id) /\ BrainLike(brain')
         /\ row'[id] # NoRow => (row'[id].told => row[id].told)
         /\ UNCHANGED <<ctl, work, pool, runs, ready, crashes, outlived>>
<1>1. /\ UNCHANGED <<dispatched, lock, ctl, pending, work, pool, runs, ready, outlived,
                     restarts, crashes>>
      /\ row[id] # NoRow /\ brain' = Told(id, row[id].wire)
      /\ Settle(id, [row[id] EXCEPT !.synced = TRUE])
  BY DEF ReportIntent
<1>2. /\ row[id] \in Rows /\ row \in [Ids -> MaybeRow] /\ guard \in [Ids -> 0..MaxGen]
      /\ brain \in [Ids -> Jobs] /\ row[id].wire \in Wires
  BY <1>1 DEF Types, RestTypes, MaybeRow, Rows
<1> DEFINE r == [row[id] EXCEPT !.synced = TRUE]
<1>3. /\ r \in Rows /\ r.gen = row[id].gen /\ r.pre = row[id].pre /\ r.step = row[id].step
      /\ r.told => row[id].told
      /\ r.wire = row[id].wire
  BY <1>2, RowMarked
<1>o. overtaken \subseteq Ids
  BY DEF Types, RestTypes
<1>4. Settle(id, r)
  BY <1>1
<1> HIDE DEF r
<1>5. /\ row' \in [Ids -> MaybeRow] /\ guard' \in [Ids -> 0..MaxGen]
      /\ overtaken' \subseteq Ids /\ overtaken \subseteq overtaken'
      /\ \A i \in Ids : i # id => row'[i] = row[i] /\ guard'[i] = guard[i]
      /\ \/ /\ row'[id] = NoRow /\ guard'[id] = r.gen /\ r.synced /\ r.wire \in Closed
            /\ ctl.pc = "ingest" => id \in overtaken'
         \/ row'[id] = r /\ guard'[id] = guard[id]
  BY <1>o, <1>2, <1>3, <1>4, SettleIs
<1>7. /\ brain' \in [Ids -> Jobs] /\ BrainLike(brain')
      /\ row[id].wire \in Closed => brain'[id].wire \in Closed
  BY <1>1, <1>2, ToldIs
<1>6. Marked(id) /\ (row'[id] # NoRow => (row'[id].told => row[id].told))
  BY <1>1, <1>3, <1>5, <1>7, Present DEF Marked
<1>8. CtlTypes' /\ WorkTypes' /\ RestTypes'
  BY <1>1, <1>5, <1>7 DEF Types, CtlTypes, WorkTypes, RestTypes
<1>9. Types'
  BY <1>8 DEF Types
<1> QED BY <1>1, <1>6, <1>7, <1>9

LEMMA PreEndsDoes ==
  ASSUME Types, NEW id \in Ids, PreEnds(id)
  PROVE  /\ Types' /\ brain[id].pre # Succeeded /\ ready \subseteq ready'
         /\ brain'[id].pre = Succeeded => <<id, brain[id].gen>> \in ready'
         /\ \A i \in Ids : /\ brain'[i].gen = brain[i].gen /\ brain'[i].step = brain[i].step
                           /\ i # id => brain'[i].pre = brain[i].pre
                           /\ brain'[i].wire = brain[i].wire
         /\ UNCHANGED <<row, guard, ctl, work, pool, runs, crashes, overtaken, outlived>>
<1>1. /\ UNCHANGED <<row, guard, dispatched, lock, ctl, pending, work, pool, runs, restarts,
                     crashes, overtaken, outlived>>
      /\ brain[id].pre = Waiting
  BY DEF PreEnds
<1>2. PICK st \in Ended :
         /\ brain' = [brain EXCEPT ![id].pre = st]
         /\ ready' = IF st = Succeeded THEN ready \cup {<<id, brain[id].gen>>} ELSE ready
  BY DEF PreEnds
<1>3. st \in 0..3 /\ Waiting # Succeeded
  BY DEF Ended, Succeeded, Failed, Waiting
<1> DEFINE b == [brain[id] EXCEPT !.pre = st]
<1>4. brain \in [Ids -> Jobs] /\ brain[id] \in Jobs
  BY DEF Types, RestTypes
<1>5. /\ b \in Jobs /\ b.gen = brain[id].gen /\ b.pre = st /\ b.step = brain[id].step
      /\ b.wire = brain[id].wire
  BY <1>3, <1>4 DEF Jobs
<1>6. brain' = [brain EXCEPT ![id] = b]
  BY <1>2
<1> HIDE DEF b
<1>7. CtlTypes' /\ WorkTypes' /\ RestTypes'
  BY <1>1, <1>4, <1>5, <1>6 DEF Types, CtlTypes, WorkTypes, RestTypes
<1>8. Types'
  BY <1>7 DEF Types
<1> QED BY <1>1, <1>2, <1>3, <1>4, <1>5, <1>6, <1>8

LEMMA RecycleDoes ==
  ASSUME Types, NEW id \in Ids, Recycle(id)
  PROVE  /\ Types' /\ brain'[id].gen = brain[id].gen + 1 /\ ready \subseteq ready'
         /\ brain'[id].pre = Succeeded => <<id, brain'[id].gen>> \in ready'
         /\ \A i \in Ids : i # id => brain'[i] = brain[i]
         /\ UNCHANGED <<row, guard, ctl, work, pool, runs, crashes, overtaken, outlived>>
<1>1. /\ UNCHANGED <<row, guard, dispatched, lock, ctl, pending, work, pool, runs, crashes,
                     overtaken, outlived>>
      /\ brain[id].gen < MaxGen /\ restarts' = restarts + 1
  BY DEF Recycle
<1>2. PICK shape \in Shapes \ {"empty"} :
         /\ brain' = [brain EXCEPT ![id] = NewJob(brain[id].gen + 1, shape)]
         /\ ready' = IF shape = "after" THEN ready ELSE ready \cup {<<id, brain[id].gen + 1>>}
  BY DEF Recycle
<1>3. brain \in [Ids -> Jobs] /\ brain[id] \in Jobs
  BY DEF Types, RestTypes
<1> DEFINE j == NewJob(brain[id].gen + 1, shape)
<1>4. /\ j \in Jobs /\ j.gen = brain[id].gen + 1
      /\ j.pre = Succeeded => shape # "after"
  BY <1>1, <1>3, RuntimeAssumption DEF NewJob, Jobs, Gens, Wires, Waiting, Succeeded
<1>5. brain' = [brain EXCEPT ![id] = j]
  BY <1>2
<1> HIDE DEF j
<1>6. CtlTypes' /\ WorkTypes' /\ RestTypes'
  BY <1>1, <1>3, <1>4, <1>5 DEF Types, CtlTypes, WorkTypes, RestTypes
<1>7. Types'
  BY <1>6 DEF Types
<1> QED BY <1>1, <1>2, <1>3, <1>4, <1>5, <1>7

LEMMA RunCrashDoes ==
  ASSUME Types, Crash
  PROVE  /\ Types' /\ crashes' = crashes + 1 /\ pool' = <<>>
         /\ ctl'.pc = "peek" /\ work'.pc = "wait"
         /\ \A i \in Ids : guard'[i] = 0 /\ work'.batch[i] = NoRow
         /\ UNCHANGED <<brain, row, runs, ready, outlived>>
<1>1. /\ UNCHANGED <<brain, row, runs, ready, outlived, restarts>> /\ crashes' = crashes + 1
      /\ guard' = [i \in Ids |-> 0] /\ dispatched' = {} /\ lock' = "none" /\ ctl' = CtlIdle
      /\ pending' = {} /\ work' = WorkIdle /\ pool' = <<>> /\ overtaken' = {}
  BY DEF Crash
<1>2. CtlTypes'
  BY <1>1 DEF CtlIdle, CtlTypes, CtlPCs, MaybeRow, Wires
<1>3. WorkTypes'
  BY <1>1 DEF WorkIdle, WorkTypes, WorkPCs, MaybeRow, Wires
<1>4. RestTypes'
  BY <1>1, RuntimeAssumption DEF Types, RestTypes
<1>5. Types'
  BY <1>2, <1>3, <1>4 DEF Types
<1>6. ctl'.pc = "peek" /\ work'.pc = "wait" /\ \A i \in Ids : work'.batch[i] = NoRow
  BY <1>1 DEF CtlIdle, WorkIdle
<1> QED BY <1>1, <1>5, <1>6

-----------------------------------------------------------------------------
(* Every step is calm or one of the actions that bear on what may run.     *)

LEMMA StepIs ==
  ASSUME Types, [Next]_vars
  PROVE  \/ Types' /\ Calm
         \/ CtlPeek \/ CtlIngest \/ CtlPrune
         \/ WorkTake \/ WorkPlan \/ WorkStart \/ WorkTimeout
         \/ PoolStart \/ PoolEnd \/ Crash
         \/ \E i \in Ids : PreEnds(i) \/ Recycle(i) \/ ReportStep(i) \/ ReportIntent(i)
<1>1. CASE UNCHANGED vars
  <2>1. Types'
    BY <1>1 DEF vars, Types, CtlTypes, WorkTypes, RestTypes
  <2>2. Calm
    BY <1>1, AlikeItself DEF vars, Calm, BrainLike, Like, Peeked
  <2> QED BY <2>1, <2>2
<1>2. CASE Control
  BY <1>2, CtlReconcileCalm, CtlSayCalm, CtlSnapshotCalm, CtlHandleCalm, CtlWriteCalm, CtlSleepCalm
  DEF Control
<1>3. CASE Work
  BY <1>3, WorkHandleCalm, WorkWriteCalm, WorkFinalCalm DEF Work
<1>4. CASE \E i \in Ids : PoolTells(i)
  BY <1>4, PoolTellsCalm
<1> QED BY <1>1, <1>2, <1>3, <1>4 DEF Next

LEMMA TypesStep == Types /\ Waits /\ [Next]_vars => Types'
BY StepIs, CtlPeekDoes, CtlIngestDoes, CtlPruneDoes, WorkTakeDoes, WorkPlanDoes, WorkStartDoes,
   WorkTimeoutDoes, PoolStartDoes, PoolEndDoes, RunCrashDoes, PreEndsDoes, RecycleDoes,
   ReportStepDoes, ReportIntentDoes

LEMMA WaitsStep == Types /\ Waits /\ [Next]_vars => Waits'
<1> SUFFICES ASSUME Types, Waits, [Next]_vars PROVE Waits'
  OBVIOUS
<1>p. pool \in Seq(Tasks) /\ DOMAIN pool = 1..Len(pool) /\ Len(pool) \in Nat
  BY PoolIs DEF Types, RestTypes
<1>s. ASSUME pool' = pool, work'.pc = "capability" <=> work.pc = "capability"
      PROVE  Waits'
  BY <1>s DEF Waits
<1>1. CASE Calm
  BY <1>1, <1>s DEF Calm
<1>2. CASE CtlPeek \/ CtlIngest \/ CtlPrune
  BY <1>2, <1>s, CtlPeekDoes, CtlIngestDoes, CtlPruneDoes
<1>3. CASE WorkTake \/ WorkPlan
  BY <1>3, <1>s, WorkTakeDoes, WorkPlanDoes
<1>4. CASE WorkStart
  <2>1. /\ work.pc = "find" /\ work'.pc = "capability"
        /\ pool' = Append(pool, Task("queued")) /\ Task("queued") \in Tasks
    BY <1>4, WorkStartDoes
  <2>2. \A k \in DOMAIN pool : ~pool[k].mine
    BY <2>1 DEF Waits
  <2>3. Task("queued").mine
    BY DEF Task
  <2>4. /\ DOMAIN pool' = DOMAIN pool \cup {Len(pool) + 1}
        /\ \A k \in DOMAIN pool : pool'[k] = pool[k]
        /\ pool'[Len(pool) + 1] = Task("queued")
    BY <1>p, <2>1, TaskAdded
  <2> QED BY <2>1, <2>2, <2>3, <2>4 DEF Waits
<1>5. CASE WorkTimeout
  <2>1. work'.pc = "final" /\ pool' = Orphaned(pool)
    BY <1>5, WorkTimeoutDoes
  <2>2. DOMAIN pool' = DOMAIN pool /\ \A k \in DOMAIN pool : ~pool'[k].mine
    BY <1>p, <2>1, TasksOrphaned
  <2> QED BY <2>1, <2>2 DEF Waits
<1>6. CASE PoolStart
  <2>1. work' = work /\ \E k \in DOMAIN pool :
               /\ DOMAIN pool' = DOMAIN pool
               /\ \A j \in DOMAIN pool : j # k => pool'[j] = pool[j]
               /\ pool'[k].mine <=> pool[k].mine
    BY <1>6, PoolStartDoes
  <2>2. DOMAIN pool' = DOMAIN pool /\ \A k \in DOMAIN pool : pool'[k].mine <=> pool[k].mine
    BY <2>1
  <2> QED BY <2>1, <2>2 DEF Waits
<1>7. CASE PoolEnd
  <2>1. PICK k \in DOMAIN pool :
           /\ pool' = Without(pool, k)
           /\ \/ ~pool[k].mine /\ work' = work
              \/ pool[k].mine /\ work.pc = "capability" /\ work'.pc = "final"
    BY <1>7, PoolEndDoes
  <2>2. /\ DOMAIN pool' = 1..(Len(pool) - 1)
        /\ \A j \in DOMAIN pool' : pool'[j] = IF j < k THEN pool[j] ELSE pool[j + 1]
    BY <1>p, <2>1, TaskGone
  <2> DEFINE was(j) == IF j < k THEN j ELSE j + 1
  <2>3. \A j \in DOMAIN pool' : was(j) \in DOMAIN pool /\ was(j) # k /\ pool'[j] = pool[was(j)]
    BY <1>p, <2>2
  <2>4. \A i, j \in DOMAIN pool' : was(i) = was(j) => i = j
    BY <1>p, <2>2
  <2>5. \A m \in DOMAIN pool : m # k => \E j \in DOMAIN pool' : was(j) = m
    <3> SUFFICES ASSUME NEW m \in DOMAIN pool, m # k PROVE \E j \in DOMAIN pool' : was(j) = m
      OBVIOUS
    <3>1. CASE m < k
      BY <1>p, <2>2, <3>1
    <3>2. CASE m > k
      <4>1. m - 1 \in DOMAIN pool' /\ was(m - 1) = m
        BY <1>p, <2>2, <3>2
      <4> QED BY <4>1
    <3> QED BY <1>p, <3>1, <3>2
  <2> HIDE DEF was
  <2>6. \A i, j \in DOMAIN pool' : pool'[i].mine /\ pool'[j].mine => i = j
    BY <2>3, <2>4 DEF Waits
  <2>7. CASE pool[k].mine
    <3>1. \A j \in DOMAIN pool' : ~pool'[j].mine
      BY <2>3, <2>7 DEF Waits
    <3> QED BY <2>1, <2>6, <2>7, <3>1 DEF Waits
  <2>8. CASE ~pool[k].mine
    <3>1. (\E j \in DOMAIN pool' : pool'[j].mine) <=> (\E m \in DOMAIN pool : pool[m].mine)
      BY <2>3, <2>5, <2>8
    <3> QED BY <2>1, <2>6, <2>8, <3>1 DEF Waits
  <2> QED BY <2>7, <2>8
<1>8. CASE Crash
  <2>1. pool' = <<>> /\ work'.pc = "wait"
    BY <1>8, RunCrashDoes
  <2>2. DOMAIN pool' = {}
    BY <2>1
  <2> QED BY <2>1, <2>2 DEF Waits
<1>9. CASE \E i \in Ids : PreEnds(i) \/ Recycle(i) \/ ReportStep(i) \/ ReportIntent(i)
  BY <1>9, <1>s, PreEndsDoes, RecycleDoes, ReportStepDoes, ReportIntentDoes
<1> QED BY <1>1, <1>2, <1>3, <1>4, <1>5, <1>6, <1>7, <1>8, <1>9, StepIs

LEMMA WaitsInit == Init => Waits
<1> SUFFICES ASSUME Init PROVE Waits
  OBVIOUS
<1>1. DOMAIN pool = {} /\ work.pc = "wait"
  BY DEF Init, WorkIdle
<1> QED BY <1>1 DEF Waits

LEMMA WorkInvariant == Spec => [](Types /\ Waits)
<1>1. Init => Types /\ Waits
  BY RunTypesInit, WaitsInit
<1>2. Types /\ Waits /\ [Next]_vars => Types' /\ Waits'
  BY TypesStep, WaitsStep
<1> QED BY <1>1, <1>2, PTL DEF Spec

\* Type correctness of the agent's run time, for any number of intents, jobs, restarts
\* and crashes and any size of the pool.
THEOREM RuntimeTypes == Spec => []TypeOK
<1>1. Types => TypeOK
  <2> SUFFICES ASSUME Types PROVE TypeOK
    OBVIOUS
  <2>1. MaybeRow = Copies
    BY DEF MaybeRow, Rows, Copies, Wires
  <2>2. \A k \in DOMAIN pool : pool[k].id \in Ids /\ pool[k].gen \in Gens
    BY PoolIs DEF Types, RestTypes, Tasks
  <2>3. \A i \in Ids : brain[i].gen \in Gens
    BY DEF Types, RestTypes, Jobs
  <2> QED BY <2>1, <2>2, <2>3 DEF TypeOK, Types, WorkTypes, RestTypes
<1> QED BY <1>1, WorkInvariant, PTL

\* A result is the result of the one task the worker waits for (_run_capability): what
\* comes back from a task given up earlier is never taken for another's, whatever
\* hangs in the pool.
THEOREM OneIsWaitedFor == Spec => []OneWaited
<1>1. Types /\ Waits => OneWaited
  <2> SUFFICES ASSUME Types, Waits PROVE OneWaited
    OBVIOUS
  <2> DEFINE M == {i \in DOMAIN pool : pool[i].mine}
  <2>1. CASE work.pc = "capability"
    <3>1. PICK k \in DOMAIN pool : pool[k].mine
      BY <2>1 DEF Waits
    <3>2. M = {k}
      BY <3>1 DEF Waits
    <3>3. Cardinality(M) = 1
      BY <3>2, FS_Singleton
    <3> QED BY <2>1, <3>3 DEF OneWaited
  <2>2. CASE work.pc # "capability"
    <3>1. M = {}
      BY <2>2 DEF Waits
    <3>2. Cardinality(M) = 0
      BY <3>1, FS_EmptySet
    <3> QED BY <2>2, <3>2 DEF OneWaited
  <2> QED BY <2>1, <2>2
<1> QED BY <1>1, WorkInvariant, PTL

-----------------------------------------------------------------------------
(* A capability runs behind its predecessor.                               *)

LEMMA ReadyInit == Init => ReadyOnly
<1> SUFFICES ASSUME Init PROVE ReadyOnly
  OBVIOUS
<1>1. PICK shape \in [Ids -> Shapes] :
         /\ brain = [i \in Ids |-> NewJob(1, shape[i])]
         /\ ready = {<<i, 1>> : i \in {j \in Ids : shape[j] # "after"}}
  BY DEF Init
<1>2. ASSUME NEW i \in Ids PROVE Behind(i, brain[i])
  <2>1. brain[i].gen = 1 /\ brain[i].pre = (IF shape[i] = "after" THEN Waiting ELSE Succeeded)
    BY <1>1 DEF NewJob
  <2>2. CASE shape[i] = "after"
    BY <2>1, <2>2 DEF Behind, Waiting, Succeeded
  <2>3. CASE shape[i] # "after"
    BY <1>1, <2>1, <2>3 DEF Behind
  <2> QED BY <2>2, <2>3
<1>3. \A i \in Ids : row[i] = NoRow /\ work.batch[i] = NoRow
  BY DEF Init, WorkIdle
<1>4. ctl.pc = "peek" /\ work.pc = "wait" /\ DOMAIN pool = {}
  BY DEF Init, CtlIdle, WorkIdle
<1> QED BY <1>2, <1>3, <1>4, Present DEF ReadyOnly, Behind

LEMMA ReadyStep == Types /\ Types' /\ Waits /\ ReadyOnly /\ [Next]_vars => ReadyOnly'
<1> SUFFICES ASSUME Types, Types', Waits, ReadyOnly, [Next]_vars PROVE ReadyOnly'
  OBVIOUS
<1>0. /\ NoRow.gen = 0 /\ NoJob.gen = 0
      /\ \A i \in Ids : row[i] \in MaybeRow /\ row'[i] \in MaybeRow
  BY Present DEF Types, RestTypes
<1>p. pool \in Seq(Tasks) /\ DOMAIN pool = 1..Len(pool) /\ Len(pool) \in Nat
  BY PoolIs DEF Types, RestTypes
<1>b. \A i \in Ids : /\ Behind(i, brain[i]) /\ Behind(i, row[i]) /\ Behind(i, work.batch[i])
                     /\ ctl.pc = "ingest" => Behind(i, ctl.copy[i])
  BY DEF ReadyOnly
<1>t. \A k \in DOMAIN pool : <<pool[k].id, pool[k].gen>> \in ready
  BY DEF ReadyOnly
\* What has the job and the predecessor of something that was behind is behind.
<1>s. \A i, r, s : ready \subseteq ready' /\ Behind(i, r) /\ s.gen = r.gen /\ s.pre = r.pre =>
                   (s.gen # 0 /\ s.pre = Succeeded => <<i, s.gen>> \in ready')
  BY DEF Behind
<1>1. CASE Calm
  <2>1. /\ BrainLike(brain') /\ UNCHANGED <<pool, ready>> /\ work'.batch = work.batch
        /\ work'.pc = "find" => work.pc = "find" /\ work'.id = work.id /\ work'.plan = work.plan
        /\ \A i \in Ids : Like(row[i], row'[i])
        /\ \A i \in Ids : Peeked(i)' => Peeked(i) /\ ctl'.copy[i] = ctl.copy[i]
    BY <1>1 DEF Calm
  <2>2. ASSUME NEW i \in Ids PROVE Behind(i, brain[i])' /\ Behind(i, row[i])'
    BY <1>0, <1>b, <2>1 DEF BrainLike, Like, Behind
  <2>3. ASSUME NEW i \in Ids, ctl'.pc = "ingest" PROVE Behind(i, ctl.copy[i])'
    <3>1. CASE ctl'.copy[i] = NoJob
      BY <1>0, <3>1 DEF Behind
    <3>2. CASE ctl'.copy[i] # NoJob
      <4>1. Peeked(i) /\ ctl'.copy[i] = ctl.copy[i]
        BY <2>1, <2>3, <3>2 DEF Peeked
      <4> QED BY <1>b, <2>1, <4>1 DEF Peeked, Behind
    <3> QED BY <3>1, <3>2
  <2> QED BY <1>b, <1>t, <2>1, <2>2, <2>3 DEF ReadyOnly, Behind
<1>2. CASE CtlPeek
  <2>1. /\ ctl'.pc = "ingest" /\ UNCHANGED <<brain, row, work, pool, ready>>
        /\ \A i \in Ids : ctl'.copy[i] = brain[i] \/ ctl'.copy[i] = NoJob
    BY <1>2, CtlPeekDoes
  <2>2. ReadyOnly'
    BY <1>0, <1>b, <1>t, <2>1 DEF ReadyOnly, Behind
  <2> QED BY <2>2
<1>3. CASE CtlIngest
  <2>1. /\ ctl'.pc = "prune" /\ BrainLike(brain') /\ UNCHANGED <<work, pool, ready>>
        /\ \A i \in Ids : \/ row'[i] = row[i]
                          \/ /\ Peeked(i)
                             /\ \E old \in BOOLEAN : row'[i] = TakenIn(i, ctl.copy[i], old)
    BY <1>3, CtlIngestDoes
  <2>2. ASSUME NEW i \in Ids PROVE Behind(i, row[i])'
    <3>1. CASE row'[i] = row[i]
      BY <1>b, <2>1, <3>1 DEF Behind
    <3>2. CASE Peeked(i) /\ \E old \in BOOLEAN : row'[i] = TakenIn(i, ctl.copy[i], old)
      <4>0. PICK old \in BOOLEAN : row'[i] = TakenIn(i, ctl.copy[i], old)
        BY <3>2
      <4>1. ctl.copy[i] \in Jobs /\ Behind(i, ctl.copy[i])
        BY <1>b, <3>2 DEF Peeked, Types, CtlTypes
      <4>2. \/ row'[i] = NoRow
            \/ row'[i].gen = ctl.copy[i].gen /\ row'[i].pre = ctl.copy[i].pre
        <5>1. row \in [Ids -> MaybeRow]
          BY DEF Types, RestTypes
        <5>2. CASE Remade(i, ctl.copy[i].gen, old)
          BY <4>0, <4>1, <5>1, <5>2, TakenInIs
        <5>3. CASE ~Remade(i, ctl.copy[i].gen, old)
          BY <4>0, <4>1, <5>1, <5>3, TakenInIs
        <5> QED BY <5>2, <5>3
      <4> QED BY <1>0, <2>1, <4>1, <4>2 DEF Behind
    <3> QED BY <2>1, <3>1, <3>2
  <2> QED BY <1>b, <1>t, <2>1, <2>2 DEF ReadyOnly, Behind, BrainLike
<1>4. CASE CtlPrune
  <2>1. /\ ctl'.pc = "reconcile" /\ UNCHANGED <<brain, work, pool, ready>>
        /\ \A i \in Ids : row'[i] = row[i] \/ row'[i] = NoRow
    BY <1>4, CtlPruneDoes
  <2> QED BY <1>0, <1>b, <1>t, <2>1 DEF ReadyOnly, Behind
<1>5. CASE WorkTake
  <2>1. /\ work'.pc # "find" /\ UNCHANGED <<brain, row, ctl, pool, ready>>
        /\ \A i \in Ids : \/ work'.batch[i] = NoRow
                          \/ row[i] # NoRow /\ work'.batch[i] = Snap(row[i])
    BY <1>5, WorkTakeDoes
  <2>2. \A i \in Ids : \/ work'.batch[i] = NoRow
                       \/ work'.batch[i].gen = row[i].gen /\ work'.batch[i].pre = row[i].pre
    BY <1>0, <2>1, SnapIs
  <2> QED BY <1>0, <1>b, <1>t, <2>1, <2>2 DEF ReadyOnly, Behind
<1>6. CASE WorkPlan
  <2>1. /\ work.id \in Ids /\ work'.id = work.id /\ UNCHANGED <<brain, row, ctl, pool, ready>>
        /\ work'.plan = IF row[work.id] # NoRow THEN Snap(row[work.id]) ELSE work.batch[work.id]
        /\ work'.batch = [work.batch EXCEPT ![work.id] = NoRow]
    BY <1>6, WorkPlanDoes
  <2>2. \/ work'.plan.gen = row[work.id].gen /\ work'.plan.pre = row[work.id].pre
        \/ work'.plan = work.batch[work.id]
    BY <1>0, <2>1, SnapIs
  <2>3. \A i \in Ids : work'.batch[i] = work.batch[i] \/ work'.batch[i] = NoRow
    BY <2>1 DEF Types, WorkTypes
  <2> QED BY <1>0, <1>b, <1>t, <2>1, <2>2, <2>3 DEF ReadyOnly, Behind
<1>w. ASSUME NEW st, StepWritten(work.id, st), ready' = ready
      PROVE  \A i \in Ids : Behind(i, row[i])'
  <2>1. \A i \in Ids : \/ row'[i] = NoRow
                       \/ row'[i].gen = row[i].gen /\ row'[i].pre = row[i].pre
    BY <1>w DEF StepWritten, Like
  <2> QED BY <1>0, <1>b, <1>w, <2>1 DEF Behind
<1>7. CASE WorkStart
  <2>1. /\ work.pc = "find" /\ work'.pc = "capability" /\ work.id \in Ids
        /\ work.plan \in Rows /\ LocalWork(work.plan) /\ work'.batch = work.batch
        /\ StepWritten(work.id, Running)
        /\ pool' = Append(pool, Task("queued")) /\ Task("queued") \in Tasks
        /\ UNCHANGED <<brain, ctl, ready>>
    BY <1>7, WorkStartDoes
  <2>2. <<work.id, work.plan.gen>> \in ready
    BY <2>1, Present DEF ReadyOnly, Behind, LocalWork
  <2>3. Task("queued").id = work.id /\ Task("queued").gen = work.plan.gen
    BY DEF Task
  <2>4. /\ DOMAIN pool' = DOMAIN pool \cup {Len(pool) + 1}
        /\ \A k \in DOMAIN pool : pool'[k] = pool[k]
        /\ pool'[Len(pool) + 1] = Task("queued")
    BY <1>p, <2>1, TaskAdded
  <2>5. \A k \in DOMAIN pool' : <<pool'[k].id, pool'[k].gen>> \in ready'
    BY <1>t, <2>1, <2>2, <2>3, <2>4
  <2> QED BY <1>b, <1>w, <2>1, <2>5 DEF ReadyOnly, Behind
<1>8. CASE WorkTimeout
  <2>1. /\ work'.pc = "final" /\ work'.batch = work.batch /\ StepWritten(work.id, Failed)
        /\ pool' = Orphaned(pool) /\ UNCHANGED <<brain, ctl, ready>>
    BY <1>8, WorkTimeoutDoes
  <2>2. \A k \in DOMAIN pool' : <<pool'[k].id, pool'[k].gen>> \in ready'
    BY <1>p, <1>t, <2>1, TasksOrphaned
  <2> QED BY <1>b, <1>w, <2>1, <2>2 DEF ReadyOnly, Behind
<1>9. CASE PoolStart
  <2>1. UNCHANGED <<brain, row, ctl, work, ready>>
    BY <1>9, PoolStartDoes
  <2>2. \A k \in DOMAIN pool' : <<pool'[k].id, pool'[k].gen>> \in ready'
    BY <1>9, <1>t, PoolStartDoes
  <2> QED BY <1>b, <2>1, <2>2 DEF ReadyOnly, Behind
<1>10. CASE PoolEnd
  <2>1. /\ UNCHANGED <<brain, ctl, ready>>
        /\ \E k \in DOMAIN pool :
              /\ pool' = Without(pool, k)
              /\ \/ UNCHANGED <<row, work>>
                 \/ /\ work'.pc = "final" /\ work'.batch = work.batch
                    /\ \E st : StepWritten(work.id, st)
    BY <1>10, PoolEndDoes
  <2>2. PICK k \in DOMAIN pool : pool' = Without(pool, k)
    BY <2>1
  <2>3. /\ DOMAIN pool' = 1..(Len(pool) - 1)
        /\ \A j \in DOMAIN pool' : pool'[j] = IF j < k THEN pool[j] ELSE pool[j + 1]
    BY <1>p, <2>2, TaskGone
  <2>4. \A j \in DOMAIN pool' : <<pool'[j].id, pool'[j].gen>> \in ready'
    BY <1>p, <1>t, <2>1, <2>3
  <2>5. CASE UNCHANGED <<row, work>>
    BY <1>b, <2>1, <2>4, <2>5 DEF ReadyOnly, Behind
  <2>6. CASE work'.pc = "final" /\ work'.batch = work.batch /\ \E st : StepWritten(work.id, st)
    BY <1>b, <1>w, <2>1, <2>4, <2>6 DEF ReadyOnly, Behind
  <2> QED BY <2>1, <2>5, <2>6
<1>11. CASE Crash
  <2>1. /\ ctl'.pc = "peek" /\ work'.pc = "wait" /\ pool' = <<>>
        /\ \A i \in Ids : work'.batch[i] = NoRow
        /\ UNCHANGED <<brain, row, ready>>
    BY <1>11, RunCrashDoes
  <2>2. DOMAIN pool' = {}
    BY <2>1
  <2> QED BY <1>0, <1>b, <2>1, <2>2 DEF ReadyOnly, Behind
<1>12. ASSUME NEW id \in Ids, PreEnds(id) \/ Recycle(id) PROVE ReadyOnly'
  <2>1. /\ UNCHANGED <<row, ctl, work, pool>> /\ ready \subseteq ready'
        /\ brain'[id].pre = Succeeded => <<id, brain'[id].gen>> \in ready'
        /\ \A i \in Ids : i # id => brain'[i].gen = brain[i].gen /\ brain'[i].pre = brain[i].pre
    BY <1>12, PreEndsDoes, RecycleDoes
  <2> QED BY <1>b, <1>t, <2>1 DEF ReadyOnly, Behind
<1>13. ASSUME NEW id \in Ids, ReportStep(id) \/ ReportIntent(id) PROVE ReadyOnly'
  <2>1. /\ UNCHANGED <<ctl, work, pool, ready>> /\ Marked(id)
        /\ \A i \in Ids : brain'[i].gen = brain[i].gen /\ brain'[i].pre = brain[i].pre
    BY <1>13, ReportStepDoes, ReportIntentDoes DEF BrainLike
  <2>2. \A i \in Ids : row'[i] = NoRow \/ (row'[i].gen = row[i].gen /\ row'[i].pre = row[i].pre)
    BY <2>1 DEF Marked
  <2> QED BY <1>0, <1>b, <1>t, <2>1, <2>2 DEF ReadyOnly, Behind
<1> QED BY <1>1, <1>2, <1>3, <1>4, <1>5, <1>6, <1>7, <1>8, <1>9, <1>10, <1>11, <1>12, <1>13,
           StepIs

\* A capability is started only when the step before it, on another edge, has succeeded
\* for this very job (_step_eligible_for_execution): not for an older job of the id,
\* however old the peek or the copy the worker reads.
THEOREM RunsBehindPredecessor == Spec => []PredecessorDone
<1>1. Init => Types /\ Waits /\ ReadyOnly
  BY RunTypesInit, WaitsInit, ReadyInit
<1>2. Types /\ Waits /\ ReadyOnly /\ [Next]_vars => Types' /\ Waits' /\ ReadyOnly'
  BY TypesStep, WaitsStep, ReadyStep
<1>3. ReadyOnly => PredecessorDone
  BY DEF ReadyOnly, PredecessorDone
<1> QED BY <1>1, <1>2, <1>3, PTL DEF Spec

-----------------------------------------------------------------------------
(* A job runs once between two crashes.                                    *)

LEMMA JobTypes ==
  ASSUME Types, NEW i \in Ids
  PROVE  /\ Gens \subseteq Nat /\ brain[i].gen \in Gens \cap Nat /\ guard[i] \in Nat
         /\ crashes \in Nat /\ \A g \in Gens : runs[i][g] \in Nat
         /\ row[i] # NoRow => row[i].gen \in Gens \cap Nat
         /\ Peeked(i) => ctl.copy[i] \in Jobs /\ ctl.copy[i].gen \in Gens \cap Nat
         /\ work.batch[i] # NoRow => work.batch[i].gen \in Gens \cap Nat
         /\ work.pc \in {"find", "capability"} => work.plan.gen \in Gens \cap Nat
<1>1. Gens \subseteq Nat /\ 0..MaxGen \subseteq Nat /\ Gens \cap Nat = Gens
  BY RuntimeAssumption DEF Gens
<1>2. /\ brain[i] \in Jobs /\ row[i] \in MaybeRow /\ work.batch[i] \in MaybeRow
      /\ work.plan \in MaybeRow
      /\ work.pc \in {"find", "capability"} => work.plan # NoRow
  BY DEF Types, RestTypes, WorkTypes
<1>3. Peeked(i) => ctl.copy[i] \in Jobs
  BY DEF Peeked, Types, CtlTypes
<1> QED BY <1>1, <1>2, <1>3, Present DEF Types, RestTypes, MaybeRow

\* A job that has never run may be started.
LEMMA NeverRun ==
  ASSUME Types, NEW i \in Ids, NEW g \in Gens, ~HasRun(i, g)
  PROVE  Fresh(i, g)
BY JobTypes DEF HasRun, Fresh

\* The pool and the counts of one id say no more than before that a job has run.
RunsLike(i) == \A g \in Gens :
    /\ HasRun(i, g)' => HasRun(i, g)
    /\ Fresh(i, g) => Fresh(i, g)'
    /\ Lived(i, g) => Lived(i, g)'
    /\ Lived(i, g)' \/ /\ runs'[i][g] <= crashes' + 1
                       /\ QueuedFor(i, g)' => runs'[i][g] <= crashes'

\* Nothing else of an id changes that matters to its runs.
Alike(i) ==
    /\ brain'[i].gen = brain[i].gen /\ brain'[i].pre = brain[i].pre
    /\ brain'[i].step = brain[i].step
    /\ Like(row[i], row'[i]) /\ guard'[i] = guard[i]
    /\ Peeked(i)' => Peeked(i) /\ ctl'.copy[i] = ctl.copy[i]
    /\ work'.batch[i] = work.batch[i]
    /\ \/ work'.pc = work.pc /\ work'.id = work.id /\ work'.plan = work.plan
       \/ /\ ~(work.pc = "capability" /\ work.id = i)
          /\ ~(work'.pc \in {"find", "capability"} /\ work'.id = i)

LEMMA RunsSame ==
  ASSUME Types, NEW i \in Ids, OnceAt(i), UNCHANGED <<pool, runs, crashes>>,
         outlived \subseteq outlived'
  PROVE  RunsLike(i)
BY DEF RunsLike, OnceAt, HasRun, Fresh, QueuedFor, Lived

LEMMA AlikeKeeps ==
  ASSUME Types, NEW i \in Ids, JobInv(i), Alike(i), RunsLike(i)
  PROVE  JobInv(i)'
<1>t. /\ brain[i].gen \in Gens \cap Nat
      /\ row[i] # NoRow => row[i].gen \in Gens \cap Nat
      /\ Peeked(i) => ctl.copy[i].gen \in Gens \cap Nat
      /\ work.batch[i] # NoRow => work.batch[i].gen \in Gens \cap Nat
      /\ work.pc \in {"find", "capability"} => work.plan.gen \in Gens \cap Nat
  BY JobTypes
<1>1. AgesAt(i)'
  BY <1>t DEF JobInv, AgesAt, Below, Alike, RunsLike, Like
<1>2. InHandAt(i)'
  BY <1>t DEF JobInv, InHandAt, Settled, Holds, NewRow, LocalWork, Alike, RunsLike, Like
<1>3. OnceAt(i)'
  BY <1>t DEF JobInv, OnceAt, NewRow, AtWork, Open2Run, Alike, RunsLike, Like
<1> QED BY <1>1, <1>2, <1>3 DEF JobInv

\* A peek shows what Brain has.
LEMMA PeekOnce ==
  ASSUME Types, NEW i \in Ids, JobInv(i), CtlPeek
  PROVE  JobInv(i)'
<1>1. /\ ~Peeked(i) /\ ctl'.copy[i] = IF Open(i) THEN brain[i] ELSE NoJob
      /\ UNCHANGED <<brain, row, guard, work, pool, runs, crashes, outlived>>
  BY CtlPeekDoes DEF Peeked
<1>2. RunsLike(i)
  BY <1>1, RunsSame DEF JobInv
<1>3. Peeked(i)' => ctl'.copy[i] = brain[i]
  BY <1>1 DEF Peeked
<1>t. /\ Gens \subseteq Nat /\ brain[i].gen \in Gens \cap Nat /\ guard[i] \in Nat
      /\ row[i] # NoRow => row[i].gen \in Gens \cap Nat
      /\ work.batch[i] # NoRow => work.batch[i].gen \in Gens \cap Nat
      /\ work.pc \in {"find", "capability"} => work.plan.gen \in Gens \cap Nat
  BY JobTypes
<1>a. \A g \in Nat : Below(i, g) => Below(i, g)'
  BY <1>1, <1>3 DEF Below
<1>h. \A g : (Settled(i, g) => Settled(i, g)') /\ (Holds(i, g) => Holds(i, g)')
  BY <1>1, <1>3 DEF Settled, Holds, NewRow, Lived
<1>4. AgesAt(i)'
  <2>1. Peeked(i)' => ctl'.copy[i].gen <= brain'[i].gen
    BY <1>t, <1>1, <1>3
  <2>2. \A g \in Gens : HasRun(i, g)' => HasRun(i, g)
    BY <1>2 DEF RunsLike
  <2> QED BY <1>t, <1>1, <1>a, <2>1, <2>2 DEF JobInv, AgesAt
<1>5. InHandAt(i)'
  <2>1. (Peeked(i) /\ ctl.copy[i].pre = Succeeded => Settled(i, ctl.copy[i].gen))'
    BY <1>1, <1>3 DEF Settled
  <2>2. \A g \in Gens : Fresh(i, g) => Fresh(i, g)'
    BY <1>2 DEF RunsLike
  <2>3. LocalWork(work.batch[i]) => work.batch[i] # NoRow
    BY DEF LocalWork
  <2> QED BY <1>t, <1>1, <1>h, <2>1, <2>2, <2>3 DEF JobInv, InHandAt
<1>6. OnceAt(i)'
  BY <1>t, <1>1, <1>2, <1>3 DEF JobInv, OnceAt, NewRow, AtWork, Open2Run, RunsLike, Lived
<1> QED BY <1>4, <1>5, <1>6 DEF JobInv

\* A peek that is older than the row's drop makes no row of the same job, and a row it
\* makes is of a job that has not run since the last crash.
LEMMA IngestOnce ==
  ASSUME Types, NEW i \in Ids, JobInv(i), ClosedAt(i), CtlIngest
  PROVE  JobInv(i)'
<1>1. /\ ctl'.pc = "prune" /\ BrainLike(brain') /\ UNCHANGED <<guard, work, pool, runs,
                                                               crashes>>
      /\ outlived \subseteq outlived'
      /\ \/ row'[i] = row[i]
         \/ /\ Peeked(i)
            /\ \E old \in BOOLEAN :
                  /\ row'[i] = TakenIn(i, ctl.copy[i], old)
                  /\ old /\ i \in overtaken /\ ctl.copy[i].gen = guard[i] =>
                        <<i, ctl.copy[i].gen>> \in outlived'
  BY CtlIngestDoes
<1>2. RunsLike(i)
  BY <1>1, RunsSame DEF JobInv
<1>3. ~Peeked(i)'
  BY <1>1 DEF Peeked
<1>b. brain'[i].gen = brain[i].gen /\ brain'[i].pre = brain[i].pre /\ brain'[i].step = brain[i].step
  BY <1>1 DEF BrainLike
<1>t. /\ Gens \subseteq Nat /\ brain[i].gen \in Gens \cap Nat /\ guard[i] \in Nat
      /\ row[i] # NoRow => row[i].gen \in Gens \cap Nat
      /\ work.batch[i] # NoRow => work.batch[i].gen \in Gens \cap Nat
      /\ work.pc \in {"find", "capability"} => work.plan.gen \in Gens \cap Nat
  BY JobTypes
<1>4. CASE row'[i] = row[i] \/ (row[i] = NoRow /\ row'[i] = NoRow)
  <2>1. Alike(i)
    BY <1>1, <1>3, <1>4, <1>b DEF Alike, Like
  <2> QED BY <1>2, <2>1, AlikeKeeps
<1> DEFINE c == ctl.copy[i]
<1>5. ASSUME NEW old \in BOOLEAN, Peeked(i), Remade(i, c.gen, old), row'[i] = TakenIn(i, c, old),
             old /\ i \in overtaken /\ c.gen = guard[i] => <<i, c.gen>> \in outlived'
      PROVE  JobInv(i)'
  <2>1. c \in Jobs /\ c.gen \in Gens \cap Nat /\ row \in [Ids -> MaybeRow]
    BY <1>5, JobTypes DEF Types, RestTypes
  <2>2. row'[i] # NoRow /\ row'[i].gen = c.gen /\ row'[i].pre = c.pre /\ row'[i].step = c.step
    BY <1>5, <2>1, TakenInIs
  <2>l. NewRow(i, c.gen) \/ <<i, c.gen>> \in outlived'
    BY <1>5 DEF Remade, NewRow, ClosedAt
  <2>g. \A g \in Gens : Lived(i, g) => Lived(i, g)'
    BY <1>2 DEF RunsLike
  <2>a. \A g \in Nat : Below(i, g) => Below(i, g)'
    BY <1>3, <1>5, <1>b, <2>2 DEF Below
  <2>3. AgesAt(i)'
    <3>1. Below(i, row[i].gen)'
      BY <1>3, <1>5, <1>b, <1>t, <2>1, <2>2 DEF JobInv, AgesAt, Below
    <3>2. \A g \in Gens : HasRun(i, g)' => HasRun(i, g)
      BY <1>2 DEF RunsLike
    <3> QED BY <1>1, <1>3, <1>t, <2>a, <3>1, <3>2 DEF JobInv, AgesAt
  <2>4. InHandAt(i)'
    <3>1. (row[i].pre = Succeeded => Settled(i, row[i].gen))'
      BY <1>1, <1>3, <1>5, <1>b, <2>2 DEF JobInv, InHandAt, Settled
    <3>2. ASSUME NEW g \in Gens, Holds(i, g), Below(i, g) PROVE Holds(i, g)'
      <4>1. CASE Lived(i, g) \/ Lived(i, g)'
        BY <2>g, <4>1 DEF Holds, Lived
      <4>2. CASE ~Lived(i, g) /\ ~Lived(i, g)'
        <5>1. g # c.gen /\ g <= c.gen /\ c.gen <= brain[i].gen
          BY <1>5, <2>l, <3>2, <4>2 DEF Holds, Below, JobInv, AgesAt, Lived
        <5>2. brain[i].gen # g
          BY <1>t, <2>1, <5>1
        <5> QED BY <1>3, <1>b, <2>2, <5>1, <5>2 DEF Holds, Settled, Lived
      <4> QED BY <4>1, <4>2
    <3>3. \A g \in Gens : Fresh(i, g) => Fresh(i, g)'
      BY <1>2 DEF RunsLike
    <3>4. \A g \in Gens : Holds(i, g) /\ Below(i, g) => Holds(i, g)'
      BY <3>2
    <3>5. /\ work.batch[i] # NoRow => Below(i, work.batch[i].gen)
          /\ work.pc \in {"find", "capability"} /\ work.id = i => Below(i, work.plan.gen)
      BY DEF JobInv, AgesAt
    <3>6. LocalWork(work.batch[i]) => work.batch[i] # NoRow
      BY DEF LocalWork
    <3> QED BY <1>1, <1>3, <1>t, <3>1, <3>3, <3>4, <3>5, <3>6 DEF JobInv, InHandAt
  <2>5. ~HasRun(i, brain[i].gen) \/ brain[i].gen = c.gen
    <3>1. c.gen <= brain[i].gen
      BY <1>5 DEF JobInv, AgesAt
    <3>2. HasRun(i, brain[i].gen) => brain[i].gen <= c.gen
      BY <1>5, <1>t DEF JobInv, AgesAt, Below
    <3> QED BY <1>t, <2>1, <3>1, <3>2
  <2>6. Fresh(i, brain[i].gen) \/ brain[i].gen = c.gen
    BY <1>t, <2>5, NeverRun
  <2>7. OnceAt(i)'
    <3>1. CASE NewRow(i, c.gen)
      BY <1>1, <1>2, <1>3, <1>5, <1>b, <1>t, <2>1, <2>2, <2>6, <3>1
      DEF JobInv, OnceAt, NewRow, AtWork, Open2Run, RunsLike, Lived
    <3>2. CASE <<i, c.gen>> \in outlived'
      <4>1. \A g : g = c.gen => Fresh(i, g)'
        BY <3>2 DEF Fresh, Lived
      <4>2. Fresh(i, brain[i].gen) => Fresh(i, brain[i].gen)'
        BY <1>2, <1>b, <1>t DEF RunsLike
      <4>3. Fresh(i, brain[i].gen)' /\ Fresh(i, row[i].gen)'
        BY <1>b, <2>2, <2>6, <4>1, <4>2
      <4> QED BY <1>2, <1>3, <1>b, <4>3 DEF OnceAt, RunsLike, Lived
    <3> QED BY <2>l, <3>1, <3>2
  <2> QED BY <2>3, <2>4, <2>7 DEF JobInv
<1>6. ASSUME NEW old \in BOOLEAN, Peeked(i), ~Remade(i, c.gen, old), row'[i] = TakenIn(i, c, old)
      PROVE  JobInv(i)'
  <2>1. c \in Jobs /\ c.gen \in Gens \cap Nat /\ row \in [Ids -> MaybeRow]
    BY <1>6, JobTypes DEF Types, RestTypes
  <2>2. /\ row[i] = NoRow => row'[i] = NoRow
        /\ row[i] # NoRow => /\ row[i].gen = c.gen /\ row'[i] # NoRow
                             /\ row'[i].gen = row[i].gen /\ row'[i].pre = c.pre
                             /\ row'[i].step = row[i].step /\ (row'[i].told => row[i].told)
    BY <1>6, <2>1, TakenInIs
  <2>3. CASE row[i] = NoRow
    BY <1>4, <2>2, <2>3
  <2>4. CASE row[i] # NoRow
    <3>1. AgesAt(i)'
      BY <1>1, <1>2, <1>3, <1>b, <1>t, <2>2, <2>4 DEF JobInv, AgesAt, Below, RunsLike
    <3>2. InHandAt(i)'
      BY <1>1, <1>2, <1>3, <1>6, <1>b, <1>t, <2>2, <2>4
      DEF JobInv, AgesAt, Below, InHandAt, Settled, Holds, Remade, NewRow, LocalWork, RunsLike, Lived
    <3>3. OnceAt(i)'
      BY <1>1, <1>2, <1>3, <1>b, <1>t, <2>2, <2>4
      DEF JobInv, OnceAt, NewRow, AtWork, Open2Run, RunsLike, Lived
    <3> QED BY <3>1, <3>2, <3>3 DEF JobInv
  <2> QED BY <2>3, <2>4
<1> QED BY <1>1, <1>4, <1>5, <1>6

\* A pruned row is of a job that is over or that has not begun.
LEMMA PruneOnce ==
  ASSUME Types, NEW i \in Ids, JobInv(i), CtlPrune
  PROVE  JobInv(i)'
<1>1. /\ ctl.pc = "prune" /\ ctl'.pc = "reconcile"
      /\ UNCHANGED <<brain, guard, work, pool, runs, crashes, outlived>>
      /\ row'[i] = row[i] \/ (Prunable(row[i]) /\ row'[i] = NoRow)
  BY CtlPruneDoes
<1>2. RunsLike(i)
  BY <1>1, RunsSame DEF JobInv
<1>3. ~Peeked(i) /\ ~Peeked(i)'
  BY <1>1 DEF Peeked
<1>t. /\ Gens \subseteq Nat /\ brain[i].gen \in Gens \cap Nat /\ guard[i] \in Nat
      /\ row[i] # NoRow => row[i].gen \in Gens \cap Nat
      /\ work.batch[i] # NoRow => work.batch[i].gen \in Gens \cap Nat
      /\ work.pc \in {"find", "capability"} => work.plan.gen \in Gens \cap Nat
  BY JobTypes
<1>4. CASE row'[i] = row[i]
  <2>1. Alike(i)
    BY <1>1, <1>3, <1>4 DEF Alike, Like
  <2> QED BY <1>2, <2>1, AlikeKeeps
<1>5. CASE Prunable(row[i]) /\ row'[i] = NoRow
  <2>1. row[i] # NoRow /\ ~LocalWork(row[i]) /\ row[i].told
    BY <1>5 DEF Prunable
  <2>2. AgesAt(i)'
    BY <1>1, <1>2, <1>3, <1>5, <1>t DEF JobInv, AgesAt, Below, RunsLike
  <2>3. InHandAt(i)'
    BY <1>1, <1>2, <1>3, <1>5, <1>t, <2>1
    DEF JobInv, InHandAt, Settled, Holds, NewRow, RunsLike, LocalWork, Lived
  <2>4. brain[i].gen = row[i].gen => Fresh(i, brain[i].gen) \/ ~Open2Run(brain[i])
    <3>1. CASE AtWork(i)
      BY <2>1, <3>1 DEF JobInv, InHandAt, Holds, AtWork, Fresh, Lived
    <3>2. CASE ~AtWork(i)
      BY <2>1, <3>2 DEF JobInv, OnceAt, Lived
    <3> QED BY <3>1, <3>2
  <2>5. OnceAt(i)'
    BY <1>1, <1>2, <1>3, <1>5, <1>t, <2>1, <2>4 DEF JobInv, OnceAt, NewRow, AtWork, RunsLike, Lived
  <2> QED BY <2>2, <2>3, <2>5 DEF JobInv
<1> QED BY <1>1, <1>4, <1>5

\* A copy that the worker takes of a row may be run: the row's job is not at work.
LEMMA CopyMayRun ==
  ASSUME Types, NEW i \in Ids, JobInv(i), work.pc # "capability",
         row[i] # NoRow, LocalWork(row[i])
  PROVE  Holds(i, row[i].gen) /\ Fresh(i, row[i].gen)
<1>1. Settled(i, row[i].gen)
  BY DEF JobInv, InHandAt, LocalWork
<1>2. Fresh(i, row[i].gen)
  BY DEF JobInv, OnceAt, LocalWork, Open2Run, AtWork, Lived
<1> QED BY <1>1, <1>2 DEF Holds, NewRow, Lived

LEMMA TakeOnce ==
  ASSUME Types, NEW i \in Ids, JobInv(i), WorkTake
  PROVE  JobInv(i)'
<1>1. /\ work.pc = "wait" /\ work'.pc \in {"wait", "batch"}
      /\ work'.batch[i] = NoRow \/ (row[i] # NoRow /\ work'.batch[i] = Snap(row[i]))
      /\ UNCHANGED <<brain, row, guard, ctl, pool, runs, crashes, outlived>>
  BY WorkTakeDoes
<1>2. RunsLike(i)
  BY <1>1, RunsSame DEF JobInv
<1>t. /\ Gens \subseteq Nat /\ brain[i].gen \in Gens \cap Nat /\ guard[i] \in Nat
      /\ row[i] # NoRow => row[i].gen \in Gens \cap Nat
  BY JobTypes
<1>3. \/ work'.batch[i] = NoRow
      \/ /\ row[i] # NoRow /\ work'.batch[i] # NoRow /\ work'.batch[i].gen = row[i].gen
         /\ LocalWork(work'.batch[i]) => LocalWork(row[i])
  BY <1>1, SnapIs DEF LocalWork, Types, RestTypes
<1>b. \A g \in Gens : /\ HasRun(i, g)' => HasRun(i, g)
                      /\ Fresh(i, g) => Fresh(i, g)'
  BY <1>2 DEF RunsLike
<1>4. AgesAt(i)'
  BY <1>1, <1>3, <1>t, <1>b DEF JobInv, AgesAt, Below, Peeked
<1>5. InHandAt(i)'
  <2>1. LocalWork(work'.batch[i]) => work'.batch[i] # NoRow
    BY DEF LocalWork
  <2>2. LocalWork(work'.batch[i]) => (Holds(i, work.batch[i].gen) /\ Fresh(i, work.batch[i].gen))'
    <3>1. LocalWork(work'.batch[i]) => /\ Holds(i, work'.batch[i].gen)
                                       /\ Fresh(i, work'.batch[i].gen)
      BY <1>1, <1>3, <2>1, CopyMayRun
    <3> QED BY <1>1, <3>1 DEF Holds, Settled, NewRow, Fresh, QueuedFor, Peeked, Lived
  <2> QED BY <1>1, <2>2 DEF JobInv, InHandAt, Settled, LocalWork, Peeked
<1>6. OnceAt(i)'
  BY <1>1, <1>2, <1>t, JobTypes DEF JobInv, OnceAt, NewRow, AtWork, RunsLike, Peeked, Lived
<1> QED BY <1>4, <1>5, <1>6 DEF JobInv

LEMMA PlanOnce ==
  ASSUME Types, NEW i \in Ids, JobInv(i), WorkPlan
  PROVE  JobInv(i)'
<1>1. /\ work.pc = "plan" /\ work'.pc = "find"
      /\ work.id \in Ids /\ work'.id = work.id /\ work.batch[work.id] # NoRow
      /\ work'.plan = IF row[work.id] # NoRow THEN Snap(row[work.id]) ELSE work.batch[work.id]
      /\ work'.batch = [work.batch EXCEPT ![work.id] = NoRow]
      /\ UNCHANGED <<brain, row, guard, ctl, pool, runs, crashes, outlived>>
  BY WorkPlanDoes
<1>2. RunsLike(i)
  BY <1>1, RunsSame DEF JobInv
<1>3. work'.batch[i] = IF i = work.id THEN NoRow ELSE work.batch[i]
  BY <1>1 DEF Types, WorkTypes
<1>4. CASE i # work.id
  <2>1. Alike(i)
    BY <1>1, <1>3, <1>4 DEF Alike, Like, Peeked
  <2> QED BY <1>2, <2>1, AlikeKeeps
<1>5. CASE i = work.id
  <2>t. /\ Gens \subseteq Nat /\ brain[i].gen \in Gens \cap Nat /\ guard[i] \in Nat
        /\ row[i] # NoRow => row[i].gen \in Gens \cap Nat
        /\ work.batch[i] # NoRow => work.batch[i].gen \in Gens \cap Nat
    BY JobTypes
  <2>1. \/ /\ row[i] = NoRow /\ work'.plan = work.batch[i] /\ work.batch[i] # NoRow
        \/ /\ row[i] # NoRow /\ work'.plan.gen = row[i].gen
           /\ LocalWork(work'.plan) => LocalWork(row[i])
    BY <1>1, <1>5, SnapIs DEF LocalWork, Types, RestTypes
  <2>b. \A g \in Gens : /\ HasRun(i, g)' => HasRun(i, g)
                        /\ Fresh(i, g) => Fresh(i, g)'
    BY <1>2 DEF RunsLike
  <2>2. AgesAt(i)'
    <3>1. \A g \in Gens : HasRun(i, g) => g <= work'.plan.gen
      BY <1>5, <2>1, <2>t DEF JobInv, AgesAt, Below
    <3>2. Below(i, work'.plan.gen)
      BY <1>5, <2>1, <2>t DEF JobInv, AgesAt
    <3>3. Below(i, work.plan.gen)'
      BY <1>1, <3>2 DEF Below, Peeked
    <3> QED BY <1>1, <1>3, <1>5, <2>t, <2>b, <3>1, <3>3 DEF JobInv, AgesAt, Below, Peeked
  <2>3. InHandAt(i)'
    <3>1. LocalWork(work'.plan) => Holds(i, work'.plan.gen) /\ Fresh(i, work'.plan.gen)
      BY <1>1, <1>5, <2>1, <2>t, CopyMayRun DEF JobInv, InHandAt
    <3>2. LocalWork(work'.plan) => (Holds(i, work.plan.gen) /\ Fresh(i, work.plan.gen))'
      BY <1>1, <3>1 DEF Holds, Settled, NewRow, Fresh, QueuedFor, Peeked, Lived
    <3> QED BY <1>1, <1>3, <1>5, <3>2 DEF JobInv, InHandAt, Settled, LocalWork, Peeked
  <2>4. OnceAt(i)'
    BY <1>1, <1>2, <2>t, JobTypes DEF JobInv, OnceAt, NewRow, AtWork, RunsLike, Peeked, Lived
  <2> QED BY <2>2, <2>3, <2>4 DEF JobInv
<1> QED BY <1>4, <1>5

\* A job is started once: it was fresh, no older job of the id is started after it, and
\* none that is taken in from then on is older.
LEMMA StartOnce ==
  ASSUME Types, NEW i \in Ids, JobInv(i), WorkStart
  PROVE  JobInv(i)'
<1> DEFINE p == work.plan.gen
<1>1. /\ work.pc = "find" /\ work'.pc = "capability"
      /\ work.id \in Ids /\ work'.id = work.id /\ work.batch[work.id] = NoRow
      /\ work.plan \in Rows /\ LocalWork(work.plan)
      /\ work'.plan.gen = p /\ work'.batch = work.batch
      /\ StepWritten(work.id, Running)
      /\ pool' = Append(pool, Task("queued")) /\ Task("queued") \in Tasks
      /\ UNCHANGED <<brain, guard, ctl, runs, crashes, outlived>>
  BY WorkStartDoes
<1>t. /\ Gens \subseteq Nat /\ brain[i].gen \in Gens \cap Nat /\ guard[i] \in Nat
      /\ crashes \in Nat /\ \A g \in Gens : runs[i][g] \in Nat
      /\ row[i] # NoRow => row[i].gen \in Gens \cap Nat
      /\ Peeked(i) => ctl.copy[i].gen \in Gens \cap Nat
      /\ p \in Gens \cap Nat
  BY <1>1, JobTypes
<1>q. \A g : QueuedFor(i, g)' <=> QueuedFor(i, g) \/ (i = work.id /\ g = p)
  <2>1. /\ pool \in Seq(Tasks) /\ Task("queued").id = work.id /\ Task("queued").gen = p
        /\ Task("queued").st = "queued"
    BY DEF Types, RestTypes, Task
  <2>2. /\ DOMAIN pool' = DOMAIN pool \cup {Len(pool) + 1}
        /\ \A k \in DOMAIN pool : pool'[k] = pool[k]
        /\ pool'[Len(pool) + 1] = Task("queued")
    BY <1>1, <2>1, TaskAdded
  <2> QED BY <2>1, <2>2 DEF QueuedFor
<1>p. Peeked(i)' <=> Peeked(i)
  BY <1>1 DEF Peeked
<1>2. CASE i # work.id
  <2>1. Alike(i)
    BY <1>1, <1>2, <1>p DEF Alike, Like, StepWritten
  <2>2. RunsLike(i)
    BY <1>1, <1>2, <1>q DEF RunsLike, HasRun, Fresh, JobInv, OnceAt, Lived
  <2> QED BY <2>1, <2>2, AlikeKeeps
<1>3. CASE i = work.id
  <2>1. Holds(i, p) /\ Fresh(i, p) /\ Below(i, p)
    BY <1>1, <1>3 DEF JobInv, InHandAt, AgesAt
  <2>2. /\ row'[i] = NoRow <=> row[i] = NoRow
        /\ row[i] # NoRow => /\ row'[i].gen = row[i].gen /\ row'[i].pre = row[i].pre
                             /\ row'[i].step = Running
    BY <1>1, <1>3 DEF StepWritten
  <2>3. \A g \in Gens : HasRun(i, g) => g <= p
    BY <1>1, <1>3 DEF JobInv, AgesAt
  <2>4. \A g \in Gens : HasRun(i, g)' => HasRun(i, g) \/ g = p
    BY <1>1, <1>q DEF HasRun
  <2>6. \A g \in Gens : g # p /\ p <= g => Fresh(i, g)'
    <3> SUFFICES ASSUME NEW g \in Gens, g # p, p <= g PROVE Fresh(i, g)'
      OBVIOUS
    <3>1. g \in Nat /\ ~HasRun(i, g)
      BY <1>t, <2>3
    <3>2. Fresh(i, g)
      BY <3>1, NeverRun
    <3> QED BY <1>1, <1>q, <3>2 DEF Fresh, Lived
  <2>7. AgesAt(i)'
    BY <1>1, <1>3, <1>p, <1>t, <2>1, <2>2, <2>3, <2>4 DEF JobInv, AgesAt, Below
  <2>8. InHandAt(i)'
    BY <1>1, <1>3, <1>p, <2>1, <2>2
    DEF JobInv, InHandAt, Settled, Holds, NewRow, LocalWork, Running, Lived
  <2>9. OnceAt(i)'
    <3>1. ASSUME NEW g \in Gens
          PROVE  Lived(i, g)' \/ /\ runs'[i][g] <= crashes' + 1
                                 /\ QueuedFor(i, g)' => runs'[i][g] <= crashes'
      BY <1>1, <1>q, <2>1 DEF JobInv, OnceAt, Fresh, Lived
    <3>2. row[i] # NoRow /\ row[i].gen # p => Fresh(i, row[i].gen)'
      BY <1>t, <2>1, <2>2, <2>6 DEF Below
    <3>5. ASSUME NEW g \in Gens, p <= g, g = p => ~Holds(i, p) \/ Lived(i, p)
          PROVE  Fresh(i, g)'
      <4>1. Lived(i, g) => Lived(i, g)'
        BY <1>1 DEF Lived
      <4> QED BY <2>1, <2>6, <3>5, <4>1 DEF Fresh
    <3>3. NewRow(i, brain[i].gen) => (brain[i].gen = p => Lived(i, p)) /\ p <= brain[i].gen
      BY <2>1 DEF Below, Holds
    <3>6. Peeked(i) /\ NewRow(i, ctl.copy[i].gen) =>
             (ctl.copy[i].gen = p => Lived(i, p)) /\ p <= ctl.copy[i].gen
      BY <2>1 DEF Below, Holds
    <3>7. NewRow(i, brain[i].gen) => (\A g : g = brain[i].gen => Fresh(i, g)')
      BY <1>t, <3>3, <3>5
    <3>4. Peeked(i) /\ NewRow(i, ctl.copy[i].gen) => (\A g : g = ctl.copy[i].gen => Fresh(i, g)')
      BY <1>t, <3>6, <3>5
    <3> QED BY <1>1, <1>3, <1>p, <2>2, <3>1, <3>2, <3>7, <3>4
        DEF OnceAt, NewRow, AtWork, Open2Run, Running
  <2> QED BY <2>7, <2>8, <2>9 DEF JobInv
<1> QED BY <1>2, <1>3

\* A step's end is written to a row that has its job, or to one of another job.
LEMMA RecordOnce ==
  ASSUME Types, NEW i \in Ids, JobInv(i), RunsLike(i),
         work.pc = "capability", work'.pc = "final", work'.batch = work.batch, work.id \in Ids,
         NEW st \in Ended, StepWritten(work.id, st), UNCHANGED <<brain, guard, ctl, outlived>>
  PROVE  JobInv(i)'
<1>p. Peeked(i)' <=> Peeked(i)
  BY DEF Peeked
<1>1. CASE i # work.id
  <2>1. Alike(i)
    BY <1>1, <1>p DEF Alike, Like, StepWritten
  <2> QED BY <2>1, AlikeKeeps
<1>2. CASE i = work.id
  <2>t. /\ brain[i].gen \in Gens \cap Nat /\ (row[i] # NoRow => row[i].gen \in Gens \cap Nat)
        /\ Peeked(i) => ctl.copy[i].gen \in Gens \cap Nat
    BY JobTypes
  <2>1. /\ row'[i] = NoRow <=> row[i] = NoRow
        /\ row[i] # NoRow => /\ row'[i].gen = row[i].gen /\ row'[i].pre = row[i].pre
                             /\ row'[i].step = st
                             /\ row'[i].told => row[i].told /\ row[i].step = st
    BY <1>2 DEF StepWritten
  <2>2. work.batch[i] = NoRow /\ st \notin {Waiting, Running}
    BY <1>2 DEF Types, WorkTypes, Ended, Succeeded, Failed, Waiting, Running
  <2>3. \A g \in Gens : /\ HasRun(i, g)' => HasRun(i, g)
                        /\ Fresh(i, g) => Fresh(i, g)'
    BY DEF RunsLike
  <2>4. AgesAt(i)'
    BY <1>p, <2>1, <2>2, <2>3 DEF JobInv, AgesAt, Below
  <2>5. InHandAt(i)'
    BY <1>p, <2>1, <2>2 DEF JobInv, InHandAt, Settled, LocalWork
  <2>6. OnceAt(i)'
    BY <1>p, <2>t, <2>1, <2>2 DEF JobInv, OnceAt, RunsLike, NewRow, Open2Run, Lived
  <2> QED BY <2>4, <2>5, <2>6 DEF JobInv
<1> QED BY <1>1, <1>2

LEMMA TimeoutOnce ==
  ASSUME Types, NEW i \in Ids, JobInv(i), WorkTimeout
  PROVE  JobInv(i)'
<1>1. /\ work.pc = "capability" /\ work'.pc = "final" /\ work'.batch = work.batch
      /\ work.id \in Ids /\ StepWritten(work.id, Failed) /\ pool' = Orphaned(pool)
      /\ UNCHANGED <<brain, guard, ctl, runs, crashes, outlived>>
  BY WorkTimeoutDoes
<1>2. \A g : QueuedFor(i, g)' <=> QueuedFor(i, g)
  BY <1>1, TasksOrphaned DEF QueuedFor, Types, RestTypes
<1>3. RunsLike(i)
  BY <1>1, <1>2 DEF RunsLike, HasRun, Fresh, JobInv, OnceAt, Lived
<1>4. Failed \in Ended
  BY DEF Ended
<1> QED BY <1>1, <1>3, <1>4, RecordOnce

\* The pool starts a task that was waiting: the job has run.
LEMMA PoolStartOnce ==
  ASSUME Types, OneQueued, NEW i \in Ids, JobInv(i), PoolStart
  PROVE  JobInv(i)'
<1>1. UNCHANGED <<brain, row, guard, ctl, work, crashes, outlived>>
  BY PoolStartDoes
<1>2. PICK k \in DOMAIN pool :
         /\ pool[k].st = "queued" /\ pool[k] \in Tasks
         /\ DOMAIN pool' = DOMAIN pool
         /\ \A j \in DOMAIN pool : j # k => pool'[j] = pool[j]
         /\ pool'[k].st = "running"
         /\ runs' = [runs EXCEPT ![pool[k].id][pool[k].gen] = @ + 1]
  BY PoolStartDoes
<1>t. pool[k].id \in Ids /\ pool[k].gen \in Gens /\ runs \in [Ids -> [Gens -> Nat]] /\ crashes \in Nat
  BY <1>2 DEF Tasks, Types, RestTypes
<1>3. \A g : QueuedFor(i, g)' => QueuedFor(i, g)
  BY <1>2 DEF QueuedFor
<1>4. ASSUME NEW g \in Gens
      PROVE  /\ HasRun(i, g)' => HasRun(i, g)
             /\ Fresh(i, g) => Fresh(i, g)'
             /\ Lived(i, g) => Lived(i, g)'
             /\ Lived(i, g)' \/ /\ runs'[i][g] <= crashes' + 1
                                /\ QueuedFor(i, g)' => runs'[i][g] <= crashes'
  <2>1. CASE i = pool[k].id /\ g = pool[k].gen
    <3>1. QueuedFor(i, g)
      BY <1>2, <2>1 DEF QueuedFor
    <3>2. Lived(i, g) \/ ~QueuedFor(i, g)'
      BY <1>2, <2>1 DEF QueuedFor, OneQueued, Lived
    <3>3. /\ Lived(i, g) \/ runs[i][g] <= crashes
          /\ runs'[i][g] = runs[i][g] + 1 /\ runs[i][g] \in Nat
      BY <1>2, <1>t, <2>1, <3>1 DEF JobInv, OnceAt
    <3> QED BY <1>1, <1>t, <3>1, <3>2, <3>3 DEF HasRun, Fresh, Lived
  <2>2. CASE ~(i = pool[k].id /\ g = pool[k].gen)
    <3>1. runs'[i][g] = runs[i][g]
      BY <1>2, <1>t, <2>2
    <3> QED BY <1>1, <1>3, <3>1 DEF HasRun, Fresh, JobInv, OnceAt, Lived
  <2> QED BY <2>1, <2>2
<1>5. RunsLike(i)
  BY <1>4 DEF RunsLike
<1>6. Alike(i)
  BY <1>1 DEF Alike, Like, Peeked
<1> QED BY <1>5, <1>6, AlikeKeeps

LEMMA PoolEndOnce ==
  ASSUME Types, Waits, NEW i \in Ids, JobInv(i), PoolEnd
  PROVE  JobInv(i)'
<1>1. UNCHANGED <<brain, guard, ctl, runs, crashes, outlived>>
  BY PoolEndDoes
<1>2. PICK k \in DOMAIN pool :
         /\ pool[k].st = "running" /\ pool' = Without(pool, k)
         /\ \/ ~pool[k].mine /\ UNCHANGED <<row, work>>
            \/ /\ pool[k].mine /\ work.pc = "capability" /\ work'.pc = "final"
               /\ work'.batch = work.batch /\ work.id \in Ids
               /\ \E st \in Ended : StepWritten(work.id, st)
  BY PoolEndDoes
<1>3. \A g : QueuedFor(i, g)' => QueuedFor(i, g)
  <2>1. /\ pool \in Seq(Tasks) /\ DOMAIN pool = 1..Len(pool) /\ Len(pool) \in Nat
        /\ DOMAIN pool' = 1..(Len(pool) - 1)
        /\ \A j \in DOMAIN pool' : pool'[j] = IF j < k THEN pool[j] ELSE pool[j + 1]
    BY <1>2, TaskGone, PoolIs DEF Types, RestTypes
  <2>2. \A j \in DOMAIN pool' : \E m \in DOMAIN pool : pool'[j] = pool[m]
    BY <2>1
  <2> QED BY <2>2 DEF QueuedFor
<1>5. RunsLike(i)
  BY <1>1, <1>3 DEF RunsLike, HasRun, Fresh, JobInv, OnceAt, Lived
<1>6. CASE UNCHANGED <<row, work>>
  <2>1. Alike(i)
    BY <1>1, <1>6 DEF Alike, Like, Peeked
  <2> QED BY <1>5, <2>1, AlikeKeeps
<1>7. CASE /\ work.pc = "capability" /\ work'.pc = "final"
           /\ work'.batch = work.batch /\ work.id \in Ids
           /\ \E st \in Ended : StepWritten(work.id, st)
  <2>1. PICK st \in Ended : StepWritten(work.id, st)
    BY <1>7
  <2> QED BY <1>1, <1>5, <1>7, <2>1, RecordOnce
<1> QED BY <1>2, <1>6, <1>7

\* After a crash every job may be started once more.
LEMMA CrashOnce ==
  ASSUME Types, NEW i \in Ids, JobInv(i), Crash
  PROVE  JobInv(i)'
<1>1. /\ crashes' = crashes + 1 /\ pool' = <<>> /\ ctl'.pc = "peek" /\ work'.pc = "wait"
      /\ guard'[i] = 0 /\ work'.batch[i] = NoRow
      /\ UNCHANGED <<brain, row, runs, outlived>>
  BY RunCrashDoes
<1>t. /\ Gens \subseteq Nat /\ brain[i].gen \in Gens \cap Nat
      /\ crashes \in Nat /\ \A g \in Gens : runs[i][g] \in Nat
      /\ row[i] # NoRow => row[i].gen \in Gens \cap Nat
  BY JobTypes
<1>2. ~Peeked(i)' /\ \A g : ~QueuedFor(i, g)'
  <2>1. DOMAIN pool' = {}
    BY <1>1
  <2> QED BY <1>1, <2>1 DEF Peeked, QueuedFor
<1>3. ASSUME NEW g \in Gens
      PROVE  /\ HasRun(i, g)' => HasRun(i, g)
             /\ Fresh(i, g)' /\ (Lived(i, g)' \/ runs'[i][g] <= crashes' + 1)
  <2>1. (Lived(i, g) \/ runs[i][g] <= crashes + 1) /\ runs[i][g] \in Nat
    BY <1>t DEF JobInv, OnceAt
  <2> QED BY <1>1, <1>2, <1>t, <2>1 DEF HasRun, Fresh, Lived
<1>4. AgesAt(i)'
  BY <1>1, <1>t, <1>2, <1>3 DEF JobInv, AgesAt, Below
<1>5. InHandAt(i)'
  BY <1>1, <1>2 DEF JobInv, InHandAt, Settled, LocalWork
<1>6. OnceAt(i)'
  <2>1. Fresh(i, brain[i].gen)' /\ (row[i] # NoRow => Fresh(i, row[i].gen)')
    BY <1>1, <1>t, <1>3
  <2> QED BY <1>1, <1>2, <1>3, <2>1 DEF OnceAt, Lived
<1> QED BY <1>4, <1>5, <1>6 DEF JobInv

\* A report that drops a row leaves its job in the guard, and one that keeps it leaves
\* Brain with a step that is over.
LEMMA MarkOnce ==
  ASSUME Types, NEW i \in Ids, JobInv(i), NEW id \in Ids, Marked(id),
         brain'[i].gen = brain[i].gen, brain'[i].pre = brain[i].pre,
         \/ brain'[i].step = brain[i].step /\ (row'[i] # NoRow => (row'[i].told => row[i].told))
         \/ i = id /\ brain'[i].step = row[i].step,
         UNCHANGED <<ctl, work, pool, runs, crashes, outlived>>
  PROVE  JobInv(i)'
<1>1. RunsLike(i)
  BY RunsSame DEF JobInv
<1>p. Peeked(i)' <=> Peeked(i)
  BY DEF Peeked
<1>2. CASE i # id
  <2>1. Alike(i)
    BY <1>2, <1>p DEF Marked, Alike, Like
  <2> QED BY <1>1, <2>1, AlikeKeeps
<1>3. CASE i = id
  <2>t. /\ Gens \subseteq Nat /\ brain[i].gen \in Gens \cap Nat
        /\ row[i] # NoRow /\ row[i].gen \in Gens \cap Nat
        /\ Peeked(i) => ctl.copy[i].gen \in Gens \cap Nat
        /\ work.batch[i] # NoRow => work.batch[i].gen \in Gens \cap Nat
        /\ work.pc \in {"find", "capability"} => work.plan.gen \in Gens \cap Nat
    BY <1>3, JobTypes DEF Marked
  <2>1. /\ \/ row'[i] = NoRow /\ guard'[i] = row[i].gen
           \/ /\ row'[i] # NoRow /\ row'[i].gen = row[i].gen /\ row'[i].pre = row[i].pre
              /\ row'[i].step = row[i].step /\ guard'[i] = guard[i]
        /\ row[i] # NoRow
    BY <1>3 DEF Marked
  <2>4. \A g \in Gens : /\ HasRun(i, g)' <=> HasRun(i, g)
                        /\ Fresh(i, g) <=> Fresh(i, g)'
    BY DEF HasRun, Fresh, QueuedFor, Lived
  <2>5. AgesAt(i)'
    BY <1>p, <2>1, <2>4 DEF JobInv, AgesAt, Below
  <2>6. InHandAt(i)'
    BY <1>p, <2>t, <2>1, <2>4 DEF JobInv, InHandAt, Settled, Holds, NewRow, LocalWork, Lived
  \* A job that is not the row's and would make a new one has never run.
  <2>7. /\ row[i].gen # brain[i].gen => Fresh(i, brain[i].gen)
        /\ Peeked(i) /\ row[i].gen # ctl.copy[i].gen => Fresh(i, ctl.copy[i].gen)
    <3>1. \A g \in Gens \cap Nat : HasRun(i, g) => g <= row[i].gen
      BY <2>1 DEF JobInv, AgesAt, Below
    <3>2. row[i].gen <= brain[i].gen /\ (Peeked(i) => row[i].gen <= ctl.copy[i].gen)
      BY <2>1 DEF JobInv, AgesAt, Below
    <3>3. /\ row[i].gen # brain[i].gen => ~HasRun(i, brain[i].gen)
          /\ Peeked(i) /\ row[i].gen # ctl.copy[i].gen => ~HasRun(i, ctl.copy[i].gen)
      BY <2>t, <3>1, <3>2
    <3> QED BY <2>t, <3>3, NeverRun
  <2>8. OnceAt(i)'
    <3>0. \A g \in Gens :
             Lived(i, g)' \/ (/\ runs'[i][g] <= crashes' + 1
                              /\ QueuedFor(i, g)' => runs'[i][g] <= crashes')
      BY <1>1 DEF RunsLike
    <3>1. row'[i] # NoRow /\ Open2Run(row'[i]) /\ ~AtWork(i)' => Fresh(i, row[i].gen)
      BY <2>1 DEF JobInv, OnceAt, AtWork, Open2Run
    <3>2. row'[i] # NoRow /\ ~Open2Run(row'[i]) /\ row'[i].told /\ brain[i].gen = row[i].gen =>
             Fresh(i, row[i].gen) \/ ~Open2Run(brain'[i])
      BY <2>1 DEF JobInv, OnceAt, Open2Run, Lived
    <3>3. NewRow(i, brain[i].gen)' => Fresh(i, brain[i].gen)
      BY <2>1, <2>7 DEF NewRow
    <3>4. Peeked(i)' /\ NewRow(i, ctl.copy[i].gen)' => Fresh(i, ctl.copy[i].gen)
      BY <1>p, <2>1, <2>7 DEF NewRow
    <3>5. \A g \in Gens : Fresh(i, g) => Fresh(i, g)'
      BY <2>4
    <3>6. /\ row'[i] # NoRow => (Fresh(i, row[i].gen) => Fresh(i, row[i].gen)')
          /\ Fresh(i, brain[i].gen) => Fresh(i, brain[i].gen)'
          /\ Peeked(i) => (Fresh(i, ctl.copy[i].gen) => Fresh(i, ctl.copy[i].gen)')
      BY <2>t, <2>1, <3>5
    <3> QED BY <1>p, <2>1, <3>0, <3>1, <3>2, <3>3, <3>4, <3>6 DEF OnceAt
  <2> QED BY <2>5, <2>6, <2>8 DEF JobInv
<1> QED BY <1>2, <1>3

LEMMA ReportOnce ==
  ASSUME Types, NEW i \in Ids, JobInv(i), NEW id \in Ids, ReportStep(id) \/ ReportIntent(id)
  PROVE  JobInv(i)'
<1>1. CASE ReportStep(id)
  <2>1. /\ Marked(id) /\ brain'[i].gen = brain[i].gen /\ brain'[i].pre = brain[i].pre
        /\ i # id => brain'[i].step = brain[i].step
        /\ brain'[id].step = row[id].step
        /\ UNCHANGED <<ctl, work, pool, runs, crashes, outlived>>
    BY <1>1, ReportStepDoes
  <2>2. i # id => row'[i] = row[i]
    BY <2>1 DEF Marked
  <2> QED BY <2>1, <2>2, MarkOnce
<1>2. CASE ReportIntent(id)
  <2>1. /\ Marked(id) /\ BrainLike(brain') /\ UNCHANGED <<ctl, work, pool, runs, crashes,
                                                          outlived>>
        /\ row'[id] # NoRow => (row'[id].told => row[id].told)
    BY <1>2, ReportIntentDoes
  <2>2. /\ brain'[i].gen = brain[i].gen /\ brain'[i].pre = brain[i].pre
        /\ brain'[i].step = brain[i].step
    BY <2>1 DEF BrainLike
  <2>3. row'[i] # NoRow => (row'[i].told => row[i].told)
    BY <2>1 DEF Marked
  <2> QED BY <2>1, <2>2, <2>3, MarkOnce
<1> QED BY <1>1, <1>2

LEMMA PreEndsOnce ==
  ASSUME Types, NEW i \in Ids, JobInv(i), NEW id \in Ids, PreEnds(id)
  PROVE  JobInv(i)'
<1>1. /\ brain[id].pre # Succeeded
      /\ brain'[i].gen = brain[i].gen /\ brain'[i].step = brain[i].step
      /\ i # id => brain'[i].pre = brain[i].pre
      /\ UNCHANGED <<row, guard, ctl, work, pool, runs, crashes, outlived>>
  BY PreEndsDoes
<1>2. RunsLike(i)
  BY <1>1, RunsSame DEF JobInv
<1>p. Peeked(i)' <=> Peeked(i)
  BY <1>1 DEF Peeked
<1>3. CASE i # id
  <2>1. Alike(i)
    BY <1>1, <1>3, <1>p DEF Alike, Like
  <2> QED BY <1>2, <2>1, AlikeKeeps
<1>4. CASE i = id
  <2>t. /\ brain[i].gen \in Gens \cap Nat /\ (row[i] # NoRow => row[i].gen \in Gens \cap Nat)
        /\ Peeked(i) => ctl.copy[i].gen \in Gens \cap Nat
        /\ work.batch[i] # NoRow => work.batch[i].gen \in Gens \cap Nat
        /\ work.pc \in {"find", "capability"} => work.plan.gen \in Gens \cap Nat
    BY JobTypes
  <2>1. \A g \in Gens : /\ HasRun(i, g)' => HasRun(i, g)
                        /\ Fresh(i, g) => Fresh(i, g)'
    BY <1>2 DEF RunsLike
  <2>2. AgesAt(i)'
    BY <1>1, <1>p, <2>1 DEF JobInv, AgesAt, Below
  <2>3. InHandAt(i)'
    <3>1. LocalWork(work.batch[i]) => work.batch[i] # NoRow
      BY DEF LocalWork
    <3> QED BY <1>1, <1>4, <1>p, <2>t, <2>1, <3>1 DEF JobInv, InHandAt, Settled, Holds, NewRow, Lived
  <2>4. OnceAt(i)'
    BY <1>1, <1>2, <1>p, <2>t DEF JobInv, OnceAt, RunsLike, NewRow, AtWork, Open2Run, Lived
  <2> QED BY <2>2, <2>3, <2>4 DEF JobInv
<1> QED BY <1>3, <1>4

\* The new job of a recycled id has not run, and what is known of the old one is not
\* taken for it.
LEMMA RecycleOnce ==
  ASSUME Types, NEW i \in Ids, JobInv(i), NEW id \in Ids, Recycle(id)
  PROVE  JobInv(i)'
<1>1. /\ brain'[id].gen = brain[id].gen + 1
      /\ i # id => brain'[i] = brain[i]
      /\ UNCHANGED <<row, guard, ctl, work, pool, runs, crashes, outlived>>
      /\ brain' \in [Ids -> Jobs]
  <2>1. Types'
    BY RecycleDoes
  <2> QED BY <2>1, RecycleDoes DEF Types, RestTypes
<1>2. RunsLike(i)
  BY <1>1, RunsSame DEF JobInv
<1>p. Peeked(i)' <=> Peeked(i)
  BY <1>1 DEF Peeked
<1>3. CASE i # id
  <2>1. Alike(i)
    BY <1>1, <1>3, <1>p DEF Alike, Like
  <2> QED BY <1>2, <2>1, AlikeKeeps
<1>4. CASE i = id
  <2>t. /\ Gens \subseteq Nat /\ brain[i].gen \in Gens \cap Nat /\ guard[i] \in Nat
        /\ row[i] # NoRow => row[i].gen \in Gens \cap Nat
        /\ Peeked(i) => ctl.copy[i].gen \in Gens \cap Nat
        /\ work.batch[i] # NoRow => work.batch[i].gen \in Gens \cap Nat
        /\ work.pc \in {"find", "capability"} => work.plan.gen \in Gens \cap Nat
        /\ brain'[i].gen \in Gens
    <3>1. brain'[i].gen \in Gens
      BY <1>1 DEF Jobs
    <3> QED BY <3>1, JobTypes
  <2>1. \A g \in Gens : /\ HasRun(i, g)' => HasRun(i, g)
                        /\ Fresh(i, g) => Fresh(i, g)'
    BY <1>2 DEF RunsLike
  <2>3. AgesAt(i)'
    BY <1>1, <1>4, <1>p, <2>t, <2>1 DEF JobInv, AgesAt, Below
  <2>4. /\ row[i] # NoRow => row[i].gen # brain'[i].gen
        /\ Peeked(i) => ctl.copy[i].gen # brain'[i].gen
        /\ work.batch[i] # NoRow => work.batch[i].gen # brain'[i].gen
        /\ work.pc \in {"find", "capability"} /\ work.id = i => work.plan.gen # brain'[i].gen
    BY <1>1, <1>4, <2>t DEF JobInv, AgesAt, Below
  <2>5. InHandAt(i)'
    <3>1. LocalWork(work.batch[i]) => work.batch[i] # NoRow
      BY DEF LocalWork
    <3> QED BY <1>1, <1>p, <2>t, <2>1, <2>4, <3>1 DEF JobInv, InHandAt, Settled, Holds, NewRow, Lived
  <2>6. OnceAt(i)'
    <3>1. ~HasRun(i, brain'[i].gen)
      BY <1>1, <1>4, <2>t DEF JobInv, AgesAt, Below
    <3>2. Fresh(i, brain'[i].gen)
      BY <2>t, <3>1, NeverRun
    <3>3. Fresh(i, brain[i].gen)'
      BY <1>1, <3>2 DEF Fresh, QueuedFor, Lived
    <3> QED BY <1>1, <1>2, <1>p, <2>t, <2>4, <3>3
        DEF JobInv, OnceAt, RunsLike, NewRow, AtWork, Open2Run, Lived
  <2> QED BY <2>3, <2>5, <2>6 DEF JobInv
<1> QED BY <1>3, <1>4

LEMMA OneQueuedStep ==
  ASSUME Types, Waits, OneQueued, \A i \in Ids : JobInv(i), [Next]_vars
  PROVE  OneQueued'
<1>p. pool \in Seq(Tasks) /\ DOMAIN pool = 1..Len(pool) /\ Len(pool) \in Nat
  BY PoolIs DEF Types, RestTypes
<1>l. outlived \subseteq outlived'
  BY StepIs, CtlPeekDoes, CtlIngestDoes, CtlPruneDoes, WorkTakeDoes, WorkPlanDoes, WorkStartDoes,
     WorkTimeoutDoes, PoolStartDoes, PoolEndDoes, RunCrashDoes, PreEndsDoes, RecycleDoes,
     ReportStepDoes, ReportIntentDoes DEF Calm
<1>1. CASE pool' = pool
  BY <1>l, <1>1 DEF OneQueued, Lived
<1>2. CASE WorkStart
  <2>1. /\ work.pc = "find" /\ work.id \in Ids /\ LocalWork(work.plan)
        /\ pool' = Append(pool, Task("queued")) /\ Task("queued") \in Tasks
    BY <1>2, WorkStartDoes
  <2>2. Lived(work.id, work.plan.gen) \/ ~QueuedFor(work.id, work.plan.gen)
    BY <2>1 DEF JobInv, InHandAt, Fresh
  <2>3. Task("queued").id = work.id /\ Task("queued").gen = work.plan.gen
    BY DEF Task
  <2>4. /\ DOMAIN pool' = DOMAIN pool \cup {Len(pool) + 1}
        /\ \A k \in DOMAIN pool : pool'[k] = pool[k]
        /\ pool'[Len(pool) + 1] = Task("queued")
    BY <1>p, <2>1, TaskAdded
  <2> QED BY <1>l, <2>2, <2>3, <2>4 DEF OneQueued, QueuedFor, Lived
<1>3. CASE WorkTimeout
  <2>1. pool' = Orphaned(pool)
    BY <1>3, WorkTimeoutDoes
  <2> QED BY <1>l, <1>p, <2>1, TasksOrphaned DEF OneQueued, Lived
<1>4. CASE PoolStart
  <2>1. \E k \in DOMAIN pool :
           /\ DOMAIN pool' = DOMAIN pool /\ pool'[k].st = "running"
           /\ \A j \in DOMAIN pool : j # k => pool'[j] = pool[j]
    BY <1>4, PoolStartDoes
  <2> QED BY <1>l, <2>1 DEF OneQueued, Lived
<1>5. CASE PoolEnd
  <2>1. PICK k \in DOMAIN pool : pool' = Without(pool, k)
    BY <1>5, PoolEndDoes
  <2>2. /\ DOMAIN pool' = 1..(Len(pool) - 1)
        /\ \A j \in DOMAIN pool' : pool'[j] = IF j < k THEN pool[j] ELSE pool[j + 1]
    BY <1>p, <2>1, TaskGone
  <2> DEFINE was(j) == IF j < k THEN j ELSE j + 1
  <2>3. \A j \in DOMAIN pool' : was(j) \in DOMAIN pool /\ pool'[j] = pool[was(j)]
    BY <1>p, <2>2
  <2>4. \A i, j \in DOMAIN pool' : was(i) = was(j) => i = j
    BY <1>p, <2>2
  <2> HIDE DEF was
  <2> QED BY <1>l, <2>3, <2>4 DEF OneQueued, Lived
<1>6. CASE Crash
  <2>1. pool' = <<>>
    BY <1>6, RunCrashDoes
  <2>2. DOMAIN pool' = {}
    BY <2>1
  <2> QED BY <2>2 DEF OneQueued, Lived
<1> QED BY <1>1, <1>2, <1>3, <1>4, <1>5, <1>6, StepIs, CtlPeekDoes, CtlIngestDoes, CtlPruneDoes,
           WorkTakeDoes, WorkPlanDoes, PreEndsDoes, RecycleDoes, ReportStepDoes,
           ReportIntentDoes DEF Calm

-----------------------------------------------------------------------------
(* What the ledger has done with is closed at Brain.                       *)

\* Nothing of an id changes that bears on this, or its row goes.
Quiet(i) ==
    /\ brain'[i].gen = brain[i].gen
    /\ brain[i].wire \in Closed => brain'[i].wire \in Closed
    /\ guard'[i] = guard[i]
    /\ Peeked(i)' => Peeked(i) /\ ctl'.copy[i] = ctl.copy[i] /\ overtaken \subseteq overtaken'
    /\ row'[i] # NoRow => /\ row[i] # NoRow /\ row'[i].gen = row[i].gen
                          /\ row'[i].synced /\ row'[i].wire \in Closed =>
                                row[i].synced /\ row[i].wire \in Closed

LEMMA QuietKeeps ==
  ASSUME NEW i \in Ids, ClosedAt(i), Quiet(i)
  PROVE  ClosedAt(i)'
BY DEF ClosedAt, Quiet

LEMMA WrittenQuiet ==
  ASSUME NEW i \in Ids, NEW id \in Ids, NEW st, StepWritten(id, st),
         UNCHANGED <<brain, guard, ctl, overtaken>>
  PROVE  Quiet(i)
BY DEF Quiet, StepWritten, Like, Peeked

\* A peek shows the jobs that are open, a row it makes is of an open one, and the job of
\* a row that is dropped is closed.
LEMMA ClosedStep ==
  ASSUME Types, Waits, NEW i \in Ids, JobInv(i), ClosedAt(i), [Next]_vars
  PROVE  ClosedAt(i)'
<1>1. CASE Calm
  <2>1. Quiet(i)
    BY <1>1 DEF Calm, Quiet, BrainLike, Like
  <2> QED BY <2>1, QuietKeeps
<1>2. CASE CtlPeek
  <2>1. /\ ctl'.copy[i] = (IF Open(i) THEN brain[i] ELSE NoJob)
        /\ UNCHANGED <<brain, row, guard>>
    BY <1>2, CtlPeekDoes
  <2>2. Peeked(i)' => ctl'.copy[i] = brain[i] /\ brain[i].wire \notin Closed
    BY <2>1 DEF Peeked, Open
  <2> QED BY <2>1, <2>2 DEF ClosedAt
<1>3. CASE CtlIngest
  <2>1. /\ ctl'.pc = "prune" /\ guard' = guard
        /\ brain'[i].gen = brain[i].gen /\ (brain[i].wire \in Closed => brain'[i].wire \in Closed)
        /\ \/ row'[i] = row[i]
           \/ Peeked(i) /\ \E old \in BOOLEAN : row'[i] = TakenIn(i, ctl.copy[i], old)
    BY <1>3, CtlIngestDoes DEF BrainLike
  <2>2. ~Peeked(i)'
    BY <2>1 DEF Peeked
  <2>3. CASE row'[i] = row[i] \/ row'[i] = NoRow
    <3>1. Quiet(i)
      BY <2>1, <2>2, <2>3 DEF Quiet
    <3> QED BY <3>1, QuietKeeps
  <2>4. ASSUME Peeked(i), row'[i] # NoRow, NEW old \in BOOLEAN,
               row'[i] = TakenIn(i, ctl.copy[i], old)
        PROVE  ClosedAt(i)'
    <3>1. ctl.copy[i] \in Jobs /\ row \in [Ids -> MaybeRow]
      BY <2>4, JobTypes DEF Types, RestTypes
    <3>2. CASE Remade(i, ctl.copy[i].gen, old)
      <4>1. row'[i].wire \notin Closed
        BY <2>4, <3>1, <3>2, TakenInIs DEF ClosedAt
      <4> QED BY <2>1, <2>2, <4>1 DEF ClosedAt
    <3>3. CASE ~Remade(i, ctl.copy[i].gen, old)
      <4>1. /\ row[i] # NoRow /\ row'[i].gen = row[i].gen
            /\ row'[i].synced = row[i].synced /\ row'[i].wire = row[i].wire
        BY <2>4, <3>1, <3>3, TakenInIs
      <4>2. Quiet(i)
        BY <2>1, <2>2, <4>1 DEF Quiet
      <4> QED BY <4>2, QuietKeeps
    <3> QED BY <3>2, <3>3
  <2> QED BY <2>1, <2>3, <2>4
<1>4. CASE CtlPrune
  <2>1. /\ ctl'.pc = "reconcile" /\ UNCHANGED <<brain, guard>>
        /\ row'[i] = row[i] \/ row'[i] = NoRow
    BY <1>4, CtlPruneDoes
  <2>2. ~Peeked(i)'
    BY <2>1 DEF Peeked
  <2>3. Quiet(i)
    BY <2>1, <2>2 DEF Quiet
  <2> QED BY <2>3, QuietKeeps
<1>5. CASE WorkTake \/ WorkPlan \/ PoolStart
  <2>1. UNCHANGED <<brain, row, guard, ctl, overtaken>>
    BY <1>5, WorkTakeDoes, WorkPlanDoes, PoolStartDoes
  <2>2. Quiet(i)
    BY <2>1 DEF Quiet, Peeked
  <2> QED BY <2>2, QuietKeeps
<1>6. CASE WorkStart \/ WorkTimeout
  <2>1. /\ UNCHANGED <<brain, guard, ctl, overtaken>>
        /\ work.id \in Ids /\ \E st : StepWritten(work.id, st)
    BY <1>6, WorkStartDoes, WorkTimeoutDoes
  <2> QED BY <2>1, WrittenQuiet, QuietKeeps
<1>7. CASE PoolEnd
  <2>1. /\ UNCHANGED <<brain, guard, ctl, overtaken>>
        /\ row' = row \/ (work.id \in Ids /\ \E st : StepWritten(work.id, st))
    BY <1>7, PoolEndDoes
  <2>2. CASE row' = row
    <3>1. Quiet(i)
      BY <2>1, <2>2 DEF Quiet, Peeked
    <3> QED BY <3>1, QuietKeeps
  <2>3. CASE work.id \in Ids /\ \E st : StepWritten(work.id, st)
    BY <2>1, <2>3, WrittenQuiet, QuietKeeps
  <2> QED BY <2>1, <2>2, <2>3
<1>8. CASE Crash
  <2>1. ctl'.pc = "peek" /\ guard'[i] = 0 /\ UNCHANGED <<brain, row>>
    BY <1>8, RunCrashDoes
  <2>2. ~Peeked(i)' /\ brain[i].gen # 0
    BY <2>1, Present DEF Peeked, Types, RestTypes
  <2> QED BY <2>1, <2>2 DEF ClosedAt
<1>9. ASSUME NEW id \in Ids, PreEnds(id) PROVE ClosedAt(i)'
  <2>1. /\ UNCHANGED <<row, guard, ctl, overtaken>>
        /\ brain'[i].gen = brain[i].gen /\ brain'[i].wire = brain[i].wire
    BY <1>9, PreEndsDoes
  <2>2. Quiet(i)
    BY <2>1 DEF Quiet, Peeked
  <2> QED BY <2>2, QuietKeeps
<1>10. ASSUME NEW id \in Ids, Recycle(id) PROVE ClosedAt(i)'
  <2>1. /\ UNCHANGED <<row, guard, ctl, overtaken>>
        /\ \/ brain'[i] = brain[i]
           \/ brain'[i].gen = brain[i].gen + 1
    BY <1>10, RecycleDoes
  <2>2. CASE brain'[i] = brain[i]
    <3>1. Quiet(i)
      BY <2>1, <2>2 DEF Quiet, Peeked
    <3> QED BY <3>1, QuietKeeps
  <2>3. CASE brain'[i].gen = brain[i].gen + 1
    <3>1. /\ brain[i].gen \in Nat /\ guard[i] \in Nat /\ guard[i] <= brain[i].gen
          /\ row[i] # NoRow => row[i].gen \in Nat /\ row[i].gen <= brain[i].gen
      BY JobTypes DEF JobInv, AgesAt, Below
    <3>2. guard[i] # brain'[i].gen /\ (row[i] # NoRow => row[i].gen # brain'[i].gen)
      BY <2>3, <3>1
    <3>3. (Peeked(i)' <=> Peeked(i)) /\ ctl' = ctl
      BY <2>1 DEF Peeked
    <3> QED BY <2>1, <3>2, <3>3 DEF ClosedAt
  <2> QED BY <2>1, <2>2, <2>3
<1>11. ASSUME NEW id \in Ids, ReportStep(id) \/ ReportIntent(id) PROVE ClosedAt(i)'
  <2>1. /\ Marked(id) /\ ctl' = ctl /\ brain'[i].gen = brain[i].gen
        /\ brain[i].wire \in Closed => brain'[i].wire \in Closed
    BY <1>11, ReportStepDoes, ReportIntentDoes DEF BrainLike
  <2>2. (Peeked(i)' <=> Peeked(i)) /\ overtaken \subseteq overtaken'
    BY <2>1 DEF Peeked, Marked
  <2>3. CASE i # id
    <3>1. Quiet(i)
      BY <2>1, <2>2, <2>3 DEF Quiet, Marked
    <3> QED BY <3>1, QuietKeeps
  <2>4. CASE i = id /\ row'[i] = NoRow
    <3>1. /\ guard'[i] = row[i].gen /\ row[i].wire \in Closed /\ row[i] # NoRow
          /\ row[i].synced \/ brain'[i].wire \in Closed
          /\ ctl.pc = "ingest" => i \in overtaken'
      BY <2>1, <2>4 DEF Marked
    <3>2. row[i].gen = brain[i].gen => brain'[i].wire \in Closed
      BY <2>1, <3>1 DEF ClosedAt
    <3> QED BY <2>1, <2>2, <2>4, <3>1, <3>2 DEF ClosedAt, Peeked
  <2>5. CASE i = id /\ row'[i] # NoRow
    <3>1. /\ row[i] # NoRow /\ row'[i].gen = row[i].gen /\ guard'[i] = guard[i]
          /\ row'[i].wire = row[i].wire
          /\ row'[i].synced /\ row'[i].wire \in Closed =>
                row[i].synced \/ brain'[i].wire \in Closed
      BY <2>1, <2>5 DEF Marked
    <3> QED BY <2>1, <2>2, <3>1 DEF ClosedAt
  <2> QED BY <2>3, <2>4, <2>5
<1> QED BY <1>1, <1>2, <1>3, <1>4, <1>5, <1>6, <1>7, <1>8, <1>9, <1>10, <1>11, StepIs

LEMMA OnceStep ==
  ASSUME Types, Waits, OneQueued, \A i \in Ids : JobInv(i) /\ ClosedAt(i), [Next]_vars
  PROVE  \A i \in Ids : JobInv(i)'
<1> SUFFICES ASSUME NEW i \in Ids PROVE JobInv(i)'
  OBVIOUS
<1>1. JobInv(i) /\ ClosedAt(i)
  OBVIOUS
<1>2. CASE Calm
  <2>1. Alike(i)
    BY <1>2 DEF Calm, Alike, BrainLike
  <2>2. RunsLike(i)
    BY <1>1, <1>2, RunsSame DEF Calm, JobInv
  <2> QED BY <1>1, <2>1, <2>2, AlikeKeeps
<1>3. CASE CtlPeek \/ CtlIngest \/ CtlPrune
  BY <1>1, <1>3, PeekOnce, IngestOnce, PruneOnce
<1>4. CASE WorkTake \/ WorkPlan \/ WorkStart \/ WorkTimeout
  BY <1>1, <1>4, TakeOnce, PlanOnce, StartOnce, TimeoutOnce
<1>5. CASE PoolStart \/ PoolEnd \/ Crash
  BY <1>1, <1>5, PoolStartOnce, PoolEndOnce, CrashOnce
<1>6. CASE \E id \in Ids : PreEnds(id) \/ Recycle(id) \/ ReportStep(id) \/ ReportIntent(id)
  BY <1>1, <1>6, PreEndsOnce, RecycleOnce, ReportOnce
<1> QED BY <1>2, <1>3, <1>4, <1>5, <1>6, StepIs

LEMMA OnceInit == Init => OneQueued /\ \A i \in Ids : JobInv(i) /\ ClosedAt(i)
<1> SUFFICES ASSUME Init PROVE OneQueued /\ \A i \in Ids : JobInv(i) /\ ClosedAt(i)
  OBVIOUS
<1>0. Types
  BY RunTypesInit
<1>1. DOMAIN pool = {} /\ ctl.pc = "peek" /\ work.pc = "wait" /\ crashes = 0
  BY DEF Init, CtlIdle, WorkIdle
<1>2. OneQueued
  BY <1>1 DEF OneQueued, Lived
<1>3. ASSUME NEW i \in Ids PROVE JobInv(i) /\ ClosedAt(i)
  <2>1. row[i] = NoRow /\ guard[i] = 0 /\ work.batch[i] = NoRow /\ \A g \in Gens : runs[i][g] = 0
    BY DEF Init, WorkIdle
  <2>2. ~Peeked(i) /\ \A g : ~QueuedFor(i, g)
    BY <1>1 DEF Peeked, QueuedFor
  <2>3. \A g \in Gens : ~HasRun(i, g) /\ Fresh(i, g) /\ runs[i][g] <= crashes + 1
    BY <1>1, <2>1, <2>2 DEF HasRun, Fresh, Lived
  <2>4. brain[i].gen \in Gens \cap Nat
    BY <1>0, JobTypes
  <2>5. AgesAt(i)
    BY <1>1, <2>1, <2>2, <2>3, <2>4 DEF AgesAt, Below
  <2>6. InHandAt(i)
    BY <1>1, <2>1, <2>2 DEF InHandAt, LocalWork
  <2>7. OnceAt(i)
    BY <2>1, <2>2, <2>3, <2>4 DEF OnceAt, Lived
  <2>8. ClosedAt(i)
    <3>1. brain[i].gen # 0
      BY <1>0, Present DEF Types, RestTypes
    <3> QED BY <2>1, <2>2, <3>1 DEF ClosedAt
  <2> QED BY <2>5, <2>6, <2>7, <2>8 DEF JobInv
<1> QED BY <1>2, <1>3

\* A job's capability is started at most once between two crashes of the agent, whatever
\* the peeks, the pruning, the recycled ids and the two threads that share the scheduler
\* do: a row that is dropped is remembered (_ghost_guard), and one that is pruned has
\* nothing left to run.  The one exception is a job whose row was dropped while the
\* control thread held a peek of it, when that peek reaches the ledger after the guard's
\* 120 s: any other job is closed at Brain by the time it is dropped, and no later peek
\* shows it.
THEOREM JobsRunOnce == Spec => []RunsOnce
<1> DEFINE IInv == Types /\ Waits /\ OneQueued /\ \A i \in Ids : JobInv(i) /\ ClosedAt(i)
<1>1. Init => IInv
  BY RunTypesInit, WaitsInit, OnceInit
<1>2. IInv /\ [Next]_vars => IInv'
  <2> SUFFICES ASSUME IInv, [Next]_vars PROVE IInv'
    OBVIOUS
  <2>1. Types' /\ Waits'
    BY TypesStep, WaitsStep
  <2>2. OneQueued'
    BY OneQueuedStep
  <2>3. \A i \in Ids : JobInv(i)'
    BY OnceStep
  <2>4. \A i \in Ids : ClosedAt(i)'
    BY ClosedStep
  <2> QED BY <2>1, <2>2, <2>3, <2>4
<1>3. IInv => RunsOnce
  <2> SUFFICES ASSUME IInv, NEW i \in Ids, NEW g \in Gens, <<i, g>> \notin outlived
               PROVE  runs[i][g] <= 1 + crashes
    BY DEF RunsOnce
  <2>1. runs[i][g] <= crashes + 1 /\ crashes \in Nat
    BY JobTypes DEF JobInv, OnceAt, Lived
  <2> QED BY <2>1
<1> HIDE DEF IInv
<1> QED BY <1>1, <1>2, <1>3, PTL DEF Spec
=============================================================================
