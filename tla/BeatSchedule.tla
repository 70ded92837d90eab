----------------------------- MODULE BeatSchedule -----------------------------
(***************************************************************************)
(* The beats of one interval or cron step.                                 *)
(*                                                                         *)
(* Which beat is next is kept twice: in memory (timing_beats._BEATS),      *)
(* which decides, and in the ledger row, which survives a restart. Every   *)
(* change of the first is followed by a write to the second (note_beat),   *)
(* in a step of its own. The executor thread runs the step, skips the      *)
(* beats it is too late for and arms the next one; the control loop writes *)
(* beats too, when it accepts another intent from Brain                    *)
(* (LocalLedger._hydrate_beats); the process may crash and start again;    *)
(* the clock follows Brain's and may be set back.                          *)
(*                                                                         *)
(* Brain's view and the delivery of statuses are LedgerSync's matter. The  *)
(* loops that skip beats give up after 64 in one go; the horizon here is   *)
(* shorter than that.                                                      *)
(***************************************************************************)
EXTENDS ExecutionTiming, Sequences

CONSTANTS
    T,            \* the step's execution_timing
    Horizon,      \* the clock stops here
    MaxSyncs,     \* how often the clock is set back
    MaxIngests,   \* how often another intent is accepted
    MaxCrashes

ASSUME TimingAssumption == T \in Timing /\ IsRecurring(T)
ASSUME LimitsAssumption ==
    Horizon \in Nat /\ MaxSyncs \in Nat /\ MaxIngests \in Nat /\ MaxCrashes \in Nat

VARIABLES
    now,      \* BRAIN_CLOCK
    row,      \* the step in the ledger row: its status and beat, and the intent's end
    mem,      \* _BEATS
    ex,       \* the executor thread: where it is, its copy of the status, a time it
              \* has read, a beat it is about to note
    hyd,      \* the control loop inside _hydrate_beats
    runs,     \* history: the beats run, each with the time it started
    ended,    \* history: when the last run ended, None before that
    syncs, ingests, crashes

vars == <<now, row, mem, ex, hyd, runs, ended, syncs, ingests, crashes>>

WAITING   == 0
RUNNING   == 1
SUCCEEDED == 2
FAILED    == 3

GateOf(b) == Gate(T, now, b)

-----------------------------------------------------------------------------
(* The executor: one pass of handle_intent.                                *)

ExIdle == [pc |-> "idle", next |-> "idle", copy |-> WAITING, at |-> 0, beat |-> 0]

Goes(pc) == ex' = [ex EXCEPT !.pc = pc]

\* set_step_status writes the beat in memory along with the status.
Record(status) == row' = [row EXCEPT !.status = status, !.beat = mem]

\* advance_beat: first in memory, then its listener notes it in the row.
Advance(next) ==
    /\ mem' = mem + 1
    /\ ex' = [ex EXCEPT !.pc = "note", !.next = next, !.beat = mem + 1]

\* Mutant: nobody listens.
NoteUnheard ==
    /\ ex.pc = "note"
    /\ Goes(ex.next)
    /\ UNCHANGED <<now, row, mem, hyd, runs, ended, syncs, ingests, crashes>>

Note ==
    /\ ex.pc = "note"
    /\ row' = [row EXCEPT !.beat = ex.beat]
    /\ Goes(ex.next)
    /\ UNCHANGED <<now, mem, hyd, runs, ended, syncs, ingests, crashes>>

\* The control loop hands the intent over while its series is not over; the row's
\* beat decides, unless it is 0.
RowBeat == IF row.beat = 0 THEN mem ELSE row.beat

\* Mutant: the intent is handed over only when its beat is due.
TakeDueOnly ==
    /\ ex.pc = "idle" /\ GateOf(RowBeat) = "due"
    /\ ex' = [ExIdle EXCEPT !.pc = "advance", !.copy = row.status, !.at = now]
    /\ UNCHANGED <<now, row, mem, hyd, runs, ended, syncs, ingests, crashes>>

Take ==
    /\ ex.pc = "idle" /\ GateOf(RowBeat) # "terminal"
    /\ ex' = [ExIdle EXCEPT !.pc = "advance", !.copy = row.status, !.at = now]
    /\ UNCHANGED <<now, row, mem, hyd, runs, ended, syncs, ingests, crashes>>

\* A RUNNING nobody is running: waiting again, in the copy; its beats are not
\* looked at in this pass.
Orphan ==
    /\ ex.pc = "advance" /\ ex.copy = RUNNING
    /\ ex' = [ex EXCEPT !.pc = "find", !.copy = WAITING]
    /\ UNCHANGED <<now, row, mem, hyd, runs, ended, syncs, ingests, crashes>>

SkipMissed ==
    /\ ex.pc = "advance" /\ ex.copy # RUNNING
    /\ Gate(T, ex.at, mem) = "skip"
    /\ Advance("advance")
    /\ UNCHANGED <<now, row, hyd, runs, ended, syncs, ingests, crashes>>

\* The rest of _advance_skipped_beats: a series that is over is reported, a beat
\* that has ended is armed again.
SkippedAll ==
    /\ ex.pc = "advance" /\ ex.copy # RUNNING
    /\ Gate(T, ex.at, mem) # "skip"
    /\ LET status == IF Gate(T, ex.at, mem) = "terminal" THEN SUCCEEDED
                     ELSE WAITING
       IN  /\ ex' = [ex EXCEPT !.pc = "find", !.copy = status]
           /\ IF status = ex.copy /\ status = WAITING THEN row' = row ELSE Record(status)
    /\ UNCHANGED <<now, mem, hyd, runs, ended, syncs, ingests, crashes>>

\* find_next_eligible_local_step; what follows is one beat.
Start ==
    /\ ex.pc = "find" /\ ex.copy = WAITING /\ GateOf(mem) = "due"
    /\ Record(RUNNING)
    /\ runs' = Append(runs, [beat |-> mem, at |-> now])
    /\ Goes("running")
    /\ UNCHANGED <<now, mem, hyd, ended, syncs, ingests, crashes>>

NothingDue ==
    /\ ex.pc = "find" /\ ~(ex.copy = WAITING /\ GateOf(mem) = "due")
    /\ Goes("final")
    /\ UNCHANGED <<now, row, mem, hyd, runs, ended, syncs, ingests, crashes>>

CapabilityEnds ==
    /\ ex.pc = "running"
    /\ \E status \in {SUCCEEDED, FAILED} : Record(status)
    /\ ended' = now
    /\ Goes("ended")
    /\ UNCHANGED <<now, mem, hyd, runs, syncs, ingests, crashes>>

\* Mutant: the beat that has ended stays the next one.
BeatOverUnadvanced ==
    /\ ex.pc = "ended"
    /\ Goes("over")
    /\ UNCHANGED <<now, row, mem, hyd, runs, ended, syncs, ingests, crashes>>

BeatOver ==
    /\ ex.pc = "ended"
    /\ Advance("over")
    /\ UNCHANGED <<now, row, hyd, runs, ended, syncs, ingests, crashes>>

\* skip_passed_interval_triggers, with the time it is called at.
SkipFrom ==
    /\ ex.pc = "over"
    /\ ex' = [ex EXCEPT !.pc = "skip", !.at = now]
    /\ UNCHANGED <<now, row, mem, hyd, runs, ended, syncs, ingests, crashes>>

\* Mutant: a trigger at this very instant is not passed.
PassedStrictly ==
    /\ T.count # None => mem < T.count
    /\ PlannedStart(T, mem) # None /\ PlannedStart(T, mem) < ex.at

Passed ==
    /\ T.count # None => mem < T.count
    /\ PlannedStart(T, mem) # None /\ PlannedStart(T, mem) <= ex.at

SkipPassed ==
    /\ ex.pc = "skip" /\ Passed
    /\ Advance("skip")
    /\ UNCHANGED <<now, row, hyd, runs, ended, syncs, ingests, crashes>>

SeriesDone ==
    /\ ex.pc = "skip" /\ ~Passed /\ GateOf(mem) = "terminal"
    /\ row' = [row EXCEPT !.done = TRUE]
    /\ Goes("final")
    /\ UNCHANGED <<now, mem, hyd, runs, ended, syncs, ingests, crashes>>

Rearm ==
    /\ ex.pc = "skip" /\ ~Passed /\ GateOf(mem) # "terminal"
    /\ Record(WAITING)
    /\ Goes("final")
    /\ UNCHANGED <<now, mem, hyd, runs, ended, syncs, ingests, crashes>>

\* finalize_intent_from_plan.
Finalize ==
    /\ ex.pc = "final"
    /\ row' = [row EXCEPT !.done = @ \/ GateOf(mem) = "terminal"]
    /\ ex' = ExIdle
    /\ UNCHANGED <<now, mem, hyd, runs, ended, syncs, ingests, crashes>>

Executor ==
    \/ Take \/ Note \/ Orphan \/ SkipMissed \/ SkippedAll \/ Start \/ NothingDue
    \/ CapabilityEnds \/ BeatOver \/ SkipFrom \/ SkipPassed \/ SeriesDone \/ Rearm
    \/ Finalize

-----------------------------------------------------------------------------
(* The control loop accepts another intent, and sets every beat in memory  *)
(* to the one in its row: it reads the row, writes memory and notes the    *)
(* row.                                                                    *)

HydrateRead ==
    /\ hyd.pc = "idle" /\ ingests < MaxIngests
    /\ ingests' = ingests + 1
    /\ hyd' = [pc |-> "set", beat |-> row.beat]
    /\ UNCHANGED <<now, row, mem, ex, runs, ended, syncs, crashes>>

HydrateSet ==
    /\ hyd.pc = "set"
    /\ mem' = hyd.beat
    /\ hyd' = [hyd EXCEPT !.pc = "note"]
    /\ UNCHANGED <<now, row, ex, runs, ended, syncs, ingests, crashes>>

HydrateNote ==
    /\ hyd.pc = "note"
    /\ row' = [row EXCEPT !.beat = hyd.beat]
    /\ hyd' = [hyd EXCEPT !.pc = "idle"]
    /\ UNCHANGED <<now, mem, ex, runs, ended, syncs, ingests, crashes>>

Hydrate == HydrateRead \/ HydrateSet \/ HydrateNote

-----------------------------------------------------------------------------
(* Time, and crashes.                                                      *)

Tick ==
    /\ now < Horizon
    /\ now' = now + 1
    /\ UNCHANGED <<row, mem, ex, hyd, runs, ended, syncs, ingests, crashes>>

\* Mutant: a time before the epoch is accepted.
ClockSyncUnchecked ==
    /\ syncs < MaxSyncs /\ now > 0
    /\ syncs' = syncs + 1
    /\ now' \in (-1)..(now - 1)
    /\ UNCHANGED <<row, mem, ex, hyd, runs, ended, ingests, crashes>>

\* A heartbeat brings Brain's time, which is behind.
ClockSync ==
    /\ syncs < MaxSyncs /\ now > 0
    /\ syncs' = syncs + 1
    /\ now' \in 0..(now - 1)
    /\ UNCHANGED <<row, mem, ex, hyd, runs, ended, ingests, crashes>>

\* Mutant: the beats are not read back from the ledger.
CrashForgets ==
    /\ crashes < MaxCrashes
    /\ crashes' = crashes + 1
    /\ ex' = ExIdle /\ hyd' = [hyd EXCEPT !.pc = "idle"]
    /\ mem' = 0
    /\ UNCHANGED <<now, row, runs, ended, syncs, ingests>>

Crash ==
    /\ crashes < MaxCrashes
    /\ crashes' = crashes + 1
    /\ ex' = ExIdle /\ hyd' = [hyd EXCEPT !.pc = "idle"]
    /\ mem' = row.beat
    /\ UNCHANGED <<now, row, runs, ended, syncs, ingests>>

-----------------------------------------------------------------------------

Init ==
    /\ now = 0
    /\ row = [status |-> WAITING, beat |-> 0, done |-> FALSE]
    /\ mem = 0
    /\ ex = ExIdle
    /\ hyd = [pc |-> "idle", beat |-> 0]
    /\ runs = <<>> /\ ended = None
    /\ syncs = 0 /\ ingests = 0 /\ crashes = 0

Next == Executor \/ Hydrate \/ Tick \/ ClockSync \/ Crash

Spec == Init /\ [][Next]_vars

\* Time passes, and the executor goes on when it can.
FairSpec == Spec /\ WF_vars(Tick) /\ WF_vars(Executor) /\ WF_vars(Hydrate)

-----------------------------------------------------------------------------
(* Properties.                                                             *)

ExPC == {"idle", "advance", "note", "find", "running", "ended", "over", "skip", "final"}

\* Every variable keeps the shape the code gives it.
TypeOK ==
    /\ now \in 0..Horizon
    /\ row \in [status : WAITING..FAILED, beat : Nat, done : BOOLEAN]
    /\ mem \in Nat
    /\ ex \in [pc : ExPC, next : ExPC, copy : WAITING..FAILED, at : 0..Horizon, beat : Nat]
    /\ hyd \in [pc : {"idle", "set", "note"}, beat : Nat]
    /\ runs \in Seq([beat : Nat, at : 0..Horizon])
    /\ ended \in OptTime
    /\ syncs \in 0..MaxSyncs /\ ingests \in 0..MaxIngests /\ crashes \in 0..MaxCrashes

\* A beat is run again only after a crash: as often as the process died, at most.
OncePerBeat ==
    \A b \in {runs[i].beat : i \in DOMAIN runs} :
        Cardinality({i \in DOMAIN runs : runs[i].beat = b}) <= 1 + crashes

\* Beats are run in their order, whatever the clock and crashes do.
BeatsInOrder == \A i, j \in DOMAIN runs : i < j => runs[i].beat <= runs[j].beat

\* Nothing is caught up: a beat whose time came while an earlier one was running
\* is not run (skip_passed_interval_triggers), while no crash repeats a beat and the clock
\* is not set back.
NoCatchUp ==
    ex.pc = "running" /\ ended # None /\ crashes = 0 /\ syncs = 0
        => PlannedStart(T, runs[Len(runs)].beat) > ended

\* A crash loses no beat and brings none back: at rest, the row's beat is the one in
\* memory, and between two steps it is behind by the beat about to be noted.
BeatPersisted ==
    mem = row.beat \/ (ex.pc = "note" /\ mem = ex.beat /\ row.beat = mem - 1)

\* The series comes to its end, and the intent with it.
SeriesEnds == <>row.done

\* A step left RUNNING by a crash does not stay so for ever: it is run again, or its
\* beat is skipped and the next one armed (_advance_skipped_beats).
StaleRunningReclaimed == row.status = RUNNING /\ ex.pc = "idle" ~> row.status # RUNNING

=============================================================================
