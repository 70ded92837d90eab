------------------------------- MODULE MCHome -------------------------------
\* Small values of the constants of Home that a configuration cannot write down; the
\* beats are those of MCBeatSchedule.
EXTENDS Home, MCBeatSchedule, TLC

\* No part tells one pool worker from another.
WorkersAlike == Permutations(Workers)

\* Every delay, interval and cron timing over the first few instants.
AllTimings ==
    [mode : {"delay"}, exec : 0..3, first : {None}, interval : {None},
     fires : {{}}, end : {None, 2}, count : {None}]
    \cup
    [mode : {"interval"}, exec : {None}, first : 0..2, interval : 1..5,
     fires : {{}}, end : {None, 4}, count : {None, 1, 3}]
    \cup
    [mode : {"cron"}, exec : {None}, first : 0..2, interval : {None},
     fires : SUBSET (1..7), end : {None, 4}, count : {None, 2}]

\* The hits of a search for songs: of an artist or not, with or without a title's words.
AllHits == [id : {0}, title : {0, 2}, by : {1, 2}, names : {0, 2}]
               \cup {[id |-> 0, title |-> 1, by |-> 2, names |-> 1]}

\* Three beats of a cron expression, one and two units apart; the last is missed at 5.
ThreeBeats == [CronT EXCEPT !.fires = {1, 3, 5}, !.end = 3]

ModeAndTemp == <<"mode", "temp">>
BothIsAAndB == [c \in {"a", "b", "both"} |-> IF c = "both" THEN {"a", "b"} ELSE {}]
=============================================================================
