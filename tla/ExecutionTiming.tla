--------------------------- MODULE ExecutionTiming ---------------------------
(***************************************************************************)
(* When a step of a plan may start: the pure functions of                  *)
(* mac_edge/execution_timing.py.  Times are natural numbers of one unit; a *)
(* cron expression is the set of instants it fires at, which is all that   *)
(* cron_next_after tells of it.                                            *)
(***************************************************************************)
EXTENDS Integers, FiniteSets, FiniteSetsExt

CONSTANTS
    OneShotMiss,   \* ONE_SHOT_MISS_MS
    PeriodicMiss   \* PERIODIC_MISS_CAP_MS

ASSUME MissAssumption == OneShotMiss \in Nat /\ PeriodicMiss \in Nat

None == -1   \* Python's None where a time or a count may be missing

Modes == {"immediate", "delay", "interval", "cron"}

OptTime == Nat \cup {None}

Timing == [mode : Modes, exec : OptTime, first : OptTime, interval : OptTime \ {0},
           fires : SUBSET Nat, end : OptTime, count : OptTime \ {0}]

IsRecurring(t) == t.mode \in {"interval", "cron"}

\* The first fire strictly after an instant.
CronNextAfter(fires, after) ==
    IF \E f \in fires : f > after THEN Min({f \in fires : f > after}) ELSE None

NextPlannedAfter(t, planned) ==
    CASE t.mode = "interval" -> IF t.interval = None THEN None ELSE planned + t.interval
      [] t.mode = "cron"     -> CronNextAfter(t.fires, planned)
      [] OTHER               -> None

\* The planned start of beat b, beats counted from 0.
PlannedStart(t, b) ==
    CASE t.mode = "delay"    -> t.exec
      [] t.mode = "interval" -> IF t.first = None \/ t.interval = None THEN None
                                ELSE t.first + b * t.interval
      [] t.mode = "cron"     ->
            LET start[k \in 0..b] ==
                  IF k = 0 THEN t.first
                  ELSE IF start[k - 1] = None THEN None
                  ELSE CronNextAfter(t.fires, start[k - 1])
            IN  start[b]
      [] OTHER -> None

\* Mutant: the window reaches to the next beat.
MissWindowWhole(t, planned) ==
    IF ~IsRecurring(t) THEN OneShotMiss
    ELSE LET next == NextPlannedAfter(t, planned)
         IN  IF next = None \/ next <= planned THEN PeriodicMiss
             ELSE Min({next - planned, PeriodicMiss})

\* How late a beat may start: half way to the next one, and never more than the cap.
MissWindow(t, planned) ==
    IF ~IsRecurring(t) THEN OneShotMiss
    ELSE LET next == NextPlannedAfter(t, planned)
         IN  IF next = None \/ next <= planned THEN PeriodicMiss
             ELSE Min({(next - planned) \div 2, PeriodicMiss})

\* Mutant: a beat waits at the very instant it is planned for.
GateLate(t, now, b) ==
    LET planned == PlannedStart(t, b)
        late    == now - planned
    IN  IF t.mode = "immediate"                   THEN "due"
        ELSE IF t.count # None /\ b >= t.count    THEN "terminal"
        ELSE IF planned = None                    THEN "wait"
        ELSE IF t.end # None /\ planned > t.end   THEN "terminal"
        ELSE IF now <= planned                    THEN "wait"
        ELSE IF late <= MissWindow(t, planned)    THEN "due"
        ELSE IF IsRecurring(t)                    THEN "skip"
        ELSE "terminal"

\* timing_gate: what beat b may do at an instant.
\*   "due"       it may start            "wait"      it is too early, or nobody knows when
\*   "skip"      it is missed            "terminal"  nothing is to come any more
Gate(t, now, b) ==
    LET planned == PlannedStart(t, b)
        late    == now - planned
    IN  IF t.mode = "immediate"                   THEN "due"
        ELSE IF t.count # None /\ b >= t.count    THEN "terminal"
        ELSE IF planned = None                    THEN "wait"
        ELSE IF t.end # None /\ planned > t.end   THEN "terminal"
        ELSE IF now < planned                     THEN "wait"
        ELSE IF late <= MissWindow(t, planned)    THEN "due"
        ELSE IF IsRecurring(t)                    THEN "skip"
        ELSE "terminal"

=============================================================================
