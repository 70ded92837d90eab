------------------------------ MODULE LiveVideo ------------------------------
(***************************************************************************)
(* Live video (video_live_ingest.py): a phone pushes a stream to a         *)
(* session, prepared for one push by the console or standing on the Larix  *)
(* port for ever; ffmpeg makes a playlist of it, which is kept as a replay *)
(* when the push ends, until its timer goes off or there are too many.     *)
(* Pushes run in the sessions' threads, timers in theirs, requests in the  *)
(* HTTP server's.                                                          *)
(***************************************************************************)
EXTENDS Naturals, FiniteSets

CONSTANTS
    Streams,      \* stream ids: 1..n, given out in turn
    Handlers,     \* requests under way
    MaxSessions,  \* hls_max_sessions, 0 for no limit
    MaxPushes     \* bound

VARIABLES
    eventMode,    \* hls_list_size = 0: the playlist keeps everything
    session,      \* per id: state of its session
    standing,     \* _larix
    larix,        \* history: ids that were the Larix port's
    folder,       \* ids whose hls_dir is on disk
    playlist,     \* ids with a playlist in it
    dumps,        \* ids with a .ts dump on disk, which nothing ever removes
    archive,      \* ids in _archives, in the order they ended
    armed,        \* per id: timers that count; a record's own goes off last
    late,         \* per id: timers that went off and wait for the lock
    removing,     \* directories an expiry is about to remove
    stopper,      \* per request: the Larix session it has seen
    left,         \* history: directories a restart has forgotten
    bare,         \* history: directories of pushes that ended without a playlist
    pushes        \* bound

vars == <<eventMode, session, standing, larix, folder, playlist, dumps, archive, armed, late,
          removing, stopper, left, bare, pushes>>

None == 0
Unused == {i \in Streams : session[i] = "unused"}
NewId == CHOOSE i \in Unused : \A j \in Unused : i <= j
Live == {i \in Streams : session[i] \in {"streaming", "stopping"}}
Archived == {i \in Streams : archive[i] > 0}

sessionVars == <<session, standing, larix, stopper>>
replayVars == <<folder, playlist, dumps, archive, armed, late, removing, bare>>

-----------------------------------------------------------------------------
(* Requests.                                                               *)

Prepare ==
    /\ Unused # {} /\ session' = [session EXCEPT ![NewId] = "listening"]
    /\ UNCHANGED <<eventMode, standing, larix, stopper, left, pushes>> /\ UNCHANGED replayVars

\* StreamSession.stop: a push that is under way ends soon.
Stopped(i) == IF i \in Live THEN "stopping" ELSE "gone"

StopConsole(i) ==
    /\ i \notin larix /\ session[i] \in {"listening", "streaming", "idle"}
    /\ session' = [session EXCEPT ![i] = Stopped(i)]
    /\ UNCHANGED <<eventMode, standing, larix, stopper, left, pushes>> /\ UNCHANGED replayVars

\* stop_stream for the standing session reads _larix under the lock ...
StopRead(h) ==
    /\ stopper[h] = None /\ standing # None
    /\ stopper' = [stopper EXCEPT ![h] = standing]
    /\ UNCHANGED <<eventMode, session, standing, larix, left, pushes>> /\ UNCHANGED replayVars

\* ... and stops it and starts the next one without; a port that is taken is an error.
StopLarix(h) ==
    /\ stopper[h] # None /\ Unused # {}
    /\ LET i == stopper[h]
           taken == \E j \in larix \ {i} : session[j] \in {"listening", "streaming"}
       IN  session' = [session EXCEPT ![i] = IF @ = "error" THEN @ ELSE Stopped(i),
                                      ![NewId] = IF taken THEN "error" ELSE "listening"]
    /\ standing' = NewId /\ larix' = larix \cup {NewId}
    /\ stopper' = [stopper EXCEPT ![h] = None]
    /\ UNCHANGED <<eventMode, left, pushes>> /\ UNCHANGED replayVars

-----------------------------------------------------------------------------
(* A push.                                                                 *)

\* The timers of the records of these ids are cancelled, if they have not gone off.
Cancelled(ids) == [i \in Streams |-> IF i \in ids /\ armed[i] > 0 THEN armed[i] - 1 ELSE armed[i]]

\* Records in the order they ended, from 1.
Renumbered(gone) ==
    [j \in Streams |-> IF archive[j] = 0 \/ j \in gone THEN 0
                       ELSE Cardinality({k \in Archived \ gone : archive[k] <= archive[j]})]

\* _recv: what an earlier push left in the directory goes, _hls_session_started drops
\* its replay, and a timer of it that has not gone off is cancelled. There is no new
\* directory without an ffmpeg; the dump is opened in any case.
PushStarts(i) ==
    /\ session[i] = "listening" /\ pushes < MaxPushes /\ pushes' = pushes + 1
    /\ session' = [session EXCEPT ![i] = "streaming"]
    /\ folder' \in {folder \ {i}, folder \cup {i}} /\ playlist' = playlist \ {i}
    /\ dumps' = dumps \cup {i} /\ bare' = bare \ {i}
    /\ archive' = Renumbered({i}) /\ armed' = Cancelled(Archived \cap {i})
    /\ UNCHANGED <<eventMode, standing, larix, late, removing, stopper, left>>

PlaylistAppears(i) ==
    /\ i \in Live /\ i \in folder \ playlist
    /\ playlist' = playlist \cup {i}
    /\ UNCHANGED <<eventMode, folder, dumps, archive, armed, late, removing, left, bare, pushes>>
    /\ UNCHANGED sessionVars

\* Mutant: a pruned replay keeps its files.
PrunedKeeping(i) ==
    LET kept == [Renumbered({i}) EXCEPT ![i] = Cardinality(Archived \ {i}) + 1]
        many == MaxSessions > 0 /\ Cardinality(Archived \cup {i}) > MaxSessions
        old  == IF many THEN {j \in Streams : kept[j] = 1} ELSE {}
    IN  /\ archive' = [j \in Streams |-> IF j \in old THEN 0
                                         ELSE IF many /\ kept[j] > 0 THEN kept[j] - 1 ELSE kept[j]]
        /\ armed' = [Cancelled((Archived \cap {i}) \cup (old \ {i})) EXCEPT ![i] = @ + 1]
        /\ UNCHANGED <<folder, playlist>>

\* The record of stream i, and _prune_archives_locked: the oldest goes with its files.
Pruned(i) ==
    LET kept == [Renumbered({i}) EXCEPT ![i] = Cardinality(Archived \ {i}) + 1]
        many == MaxSessions > 0 /\ Cardinality(Archived \cup {i}) > MaxSessions
        old  == IF many THEN {j \in Streams : kept[j] = 1} ELSE {}
    IN  /\ archive' = [j \in Streams |-> IF j \in old THEN 0
                                         ELSE IF many /\ kept[j] > 0 THEN kept[j] - 1 ELSE kept[j]]
        /\ armed' = [Cancelled((Archived \cap {i}) \cup (old \ {i})) EXCEPT ![i] = @ + 1]
        /\ folder' = folder \ old /\ playlist' = playlist \ old

\* The end of _recv, with _hls_session_ended: a push with a playlist becomes a replay,
\* one without (_archive_record) leaves its directory; a sliding window is removed.
PushEnds(i) ==
    /\ i \in Live
    /\ \/ eventMode /\ i \in playlist /\ Pruned(i) /\ UNCHANGED bare
       \/ /\ eventMode /\ i \notin playlist /\ bare' = bare \cup ({i} \cap folder)
          /\ UNCHANGED <<folder, playlist, archive, armed>>
       \/ /\ ~eventMode /\ folder' = folder \ {i} /\ playlist' = playlist \ {i}
          /\ UNCHANGED <<archive, armed, bare>>
    /\ session' = [session EXCEPT ![i] = IF @ = "stopping" THEN "gone"
                                         ELSE IF i \in larix THEN "listening" ELSE "idle"]
    /\ UNCHANGED <<eventMode, standing, larix, dumps, late, removing, stopper, left, pushes>>

-----------------------------------------------------------------------------
(* Expiry, of a record with a retention time.                              *)

TimerGoesOff(i) ==
    /\ armed[i] > 0
    /\ armed' = [armed EXCEPT ![i] = @ - 1] /\ late' = [late EXCEPT ![i] = @ + 1]
    /\ UNCHANGED <<eventMode, folder, playlist, dumps, archive, removing, left, bare, pushes>>
    /\ UNCHANGED sessionVars

\* _expire_archive takes whatever record the id has by then ...
ExpirePop(i) ==
    /\ late[i] > 0 /\ late' = [late EXCEPT ![i] = @ - 1]
    /\ IF i \in Archived
       THEN archive' = Renumbered({i}) /\ removing' = removing \cup {i}
       ELSE UNCHANGED <<archive, removing>>
    /\ UNCHANGED <<eventMode, folder, playlist, dumps, armed, left, bare, pushes>>
    /\ UNCHANGED sessionVars

\* ... and removes the directory without the lock.
ExpireRemove(i) ==
    /\ i \in removing /\ removing' = removing \ {i}
    /\ folder' = folder \ {i} /\ playlist' = playlist \ {i} /\ bare' = bare \ {i}
    /\ UNCHANGED <<eventMode, dumps, archive, armed, late, left, pushes>> /\ UNCHANGED sessionVars

\* The Runtime starts anew: all but the files is forgotten.
Restart ==
    /\ Unused # {}
    /\ left' = left \cup folder
    /\ session' = [i \in Streams |-> IF i \in Unused THEN IF i = NewId THEN "listening" ELSE "unused"
                                     ELSE "gone"]
    /\ standing' = NewId /\ larix' = larix \cup {NewId}
    /\ archive' = [i \in Streams |-> 0] /\ armed' = [i \in Streams |-> 0] /\ late' = [i \in Streams |-> 0] /\ removing' = {}
    /\ stopper' = [h \in Handlers |-> None]
    /\ UNCHANGED <<eventMode, folder, playlist, dumps, bare, pushes>>

Init ==
    /\ eventMode \in BOOLEAN
    /\ session = [i \in Streams |-> IF i = 1 THEN "listening" ELSE "unused"]
    /\ standing = 1 /\ larix = {1}
    /\ folder = {} /\ playlist = {} /\ dumps = {} /\ bare = {}
    /\ archive = [i \in Streams |-> 0] /\ armed = [i \in Streams |-> 0] /\ late = [i \in Streams |-> 0] /\ removing = {}
    /\ stopper = [h \in Handlers |-> None] /\ left = {} /\ pushes = 0

Next ==
    \/ Prepare \/ Restart
    \/ \E h \in Handlers : StopRead(h) \/ StopLarix(h)
    \/ \E i \in Streams :
         \/ StopConsole(i) \/ PushStarts(i) \/ PlaylistAppears(i) \/ PushEnds(i)
         \/ TimerGoesOff(i) \/ ExpirePop(i) \/ ExpireRemove(i)

-----------------------------------------------------------------------------
\* Types of the variables.
TypeOK ==
    /\ \A i \in Streams : session[i] \in {"unused", "listening", "streaming", "stopping", "idle",
                                          "gone", "error"}
    /\ standing \in larix /\ larix \subseteq Streams
    /\ playlist \subseteq folder /\ folder \subseteq dumps /\ dumps \subseteq Streams
    /\ \A i \in Streams : /\ archive[i] <= Cardinality(Archived)
                          /\ armed[i] + late[i] <= pushes

\* A directory on disk is being written, is listed as a replay or is about to be removed:
\* whatever order pushes, timers, pruning and requests come in, nothing else is left that
\* nothing will remove but the directories of a restart and of a push that ended without a
\* playlist, and the dumps (_hls_session_ended, _archive_record, _expire_archive).
NoOrphanFiles == folder \subseteq Live \cup Archived \cup removing \cup left \cup bare

=============================================================================
