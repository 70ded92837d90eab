---------------------------- MODULE MCBeatSchedule ----------------------------
(***************************************************************************)
(* Two series for BeatSchedule: an interval of two units for three beats,  *)
(* and a cron expression with uneven fires that runs until an end time.    *)
(***************************************************************************)
EXTENDS BeatSchedule

IntervalT == [mode |-> "interval", exec |-> None, first |-> 1, interval |-> 2,
              fires |-> {}, end |-> None, count |-> 3]

CronT == [mode |-> "cron", exec |-> None, first |-> 0, interval |-> None,
          fires |-> {1, 3, 4, 6}, end |-> 4, count |-> None]
=============================================================================
