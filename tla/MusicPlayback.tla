---------------------------- MODULE MusicPlayback ----------------------------
(***************************************************************************)
(* Music: capabilities that command the player through ncm-cli, the        *)
(* recorder that writes down what is played while a timer counts the       *)
(* song's length, and the music mode that capabilities and Brain's hints   *)
(* switch (netease_music.py, ncm_play_record.py, ncm_songs/store.py,       *)
(* music_linkage.py).                                                      *)
(*                                                                         *)
(* Several calls run at once: one that timed out goes on in its pool       *)
(* worker. Songs are the numbers of one list, which is what every queue    *)
(* plays.                                                                  *)
(***************************************************************************)
EXTENDS Naturals, Sequences

CONSTANTS
    Callers,      \* pool workers that run music capabilities
    Heart,        \* the heartbeat thread
    Songs,        \* 1..n, in the queue's order
    Length,       \* how long a song lasts
    MaxCalls,     \* bound: calls and hints of Brain
    MaxFaults     \* bound: restarts of the Edge, changes of the login, the recorder's failures

VARIABLES
    call,         \* per worker: where its call is
    calls, faults,\* bounds
    login,        \* NetEase: is the user logged in
    logout,       \* _logout_cache: a logout is remembered
    recording,    \* _active_original_id, 0 for none
    ffmpeg,       \* the song a recorder process writes down, 0 when none runs
    list, index,  \* _playlist (one song, or all), _playlist_index
    generation,   \* _generation
    timer,        \* _timer: the generation and the time left
    fired,        \* timers that went off and wait for the recorder's lock
    status,       \* ncm_recordings: each song's status
    elapsed,      \* per song: how much of it is in its file
    died,         \* history: songs whose recorder died before their time
    untold,       \* history: songs whose row could not be written
    mode,         \* music_linkage._state: music mode
    modeFile,     \* its flag file
    held,         \* who keeps music_linkage._lock for good
    heart         \* the heartbeat thread

vars == <<call, calls, faults, login, logout, recording, ffmpeg, list, index, generation,
          timer, fired, status, elapsed, died, untold, mode, modeFile, held, heart>>

playerVars == <<login, logout>>
recorderVars == <<recording, ffmpeg, list, index, generation, timer, fired, status, elapsed,
                  died, untold>>
modeVars == <<mode, modeFile, held, heart>>
boundVars == <<calls, faults>>

Ready == [pc |-> "ready", cap |-> "none"]
NoTimer == [gen |-> 0, left |-> 0]
NoOne == "nobody"
Plays == {"song", "queue", "bare", "cast"}
Controls == {"pause", "stop", "next", "previous", "resume"}

Goes(w, pc) == call' = [call EXCEPT ![w].pc = pc]
Ends(w) == call' = [call EXCEPT ![w] = Ready]

-----------------------------------------------------------------------------
(* The player's side of a call.                                            *)

\* raise_if_known_logged_out: a remembered logout is checked before a play.
Begin(w, cap) ==
    /\ call[w] = Ready /\ calls < MaxCalls
    /\ calls' = calls + 1
    /\ LET refused == cap \in Plays /\ logout /\ ~login
       IN  /\ logout' = IF cap \in Plays THEN refused ELSE logout
           /\ call' = IF refused THEN call
                      ELSE [call EXCEPT ![w] = [pc |-> "cli", cap |-> cap]]
    /\ UNCHANGED <<faults, login>> /\ UNCHANGED recorderVars /\ UNCHANGED modeVars

\* A failure that speaks of the login is remembered (promote_login_required).
CliFails(w) ==
    /\ call[w].pc \in {"cli", "fill", "play list"}
    /\ logout' = (logout \/ ~login)
    /\ Ends(w)
    /\ UNCHANGED login /\ UNCHANGED boundVars
    /\ UNCHANGED recorderVars /\ UNCHANGED modeVars

\* The one call of a control, of a song, or of a resume that has something to go on
\* with; a bare play and a resume without go over to the daily queue.
CliDone(w) ==
    /\ call[w].pc = "cli" /\ login
    /\ LET cap == call[w].cap
       IN  \/ cap \notin {"queue", "bare", "resume"} /\ Goes(w, "record")
           \/ cap \in {"bare", "resume"} /\ Goes(w, "mode")
           \/ cap \in {"queue", "bare", "resume"} /\ Goes(w, "fill")
    /\ UNCHANGED playerVars /\ UNCHANGED boundVars
    /\ UNCHANGED recorderVars /\ UNCHANGED modeVars

\* The playlist is made once, emptied and filled; each request may fail.
FillPlaylist(w) ==
    /\ call[w].pc = "fill" /\ Goes(w, "play list")
    /\ UNCHANGED playerVars /\ UNCHANGED boundVars
    /\ UNCHANGED recorderVars /\ UNCHANGED modeVars

\* play_playlist: when the player was only called to the front, the first track is
\* played by itself.
PlayList(w) ==
    /\ call[w].pc = "play list"
    /\ call' = [call EXCEPT ![w].pc = "record",
                            ![w].cap = IF @ = "queue" THEN "queue" ELSE "daily"]
    /\ UNCHANGED playerVars /\ UNCHANGED boundVars
    /\ UNCHANGED recorderVars /\ UNCHANGED modeVars

PlayFirst(w) ==
    /\ call[w].pc = "play list"
    /\ call' = [call EXCEPT ![w].pc = "record", ![w].cap = "song"]
    /\ UNCHANGED playerVars /\ UNCHANGED boundVars
    /\ UNCHANGED recorderVars /\ UNCHANGED modeVars

-----------------------------------------------------------------------------
(* The recorder. A new state of it is a record; its lock makes a step of   *)
(* each. In a step ffmpeg may not be found or not start, or the database   *)
(* may not answer: both are only logged.                                   *)

Recorder == [recording |-> recording, ffmpeg |-> ffmpeg, list |-> list, index |-> index,
             gen |-> generation, timer |-> timer, status |-> status, elapsed |-> elapsed,
             died |-> died, untold |-> untold, fails |-> "nothing"]

Becomes(r) ==
    /\ recording' = r.recording /\ ffmpeg' = r.ffmpeg /\ list' = r.list /\ index' = r.index
    /\ generation' = r.gen /\ timer' = r.timer /\ status' = r.status /\ elapsed' = r.elapsed
    /\ died' = r.died /\ untold' = r.untold

\* How a step of the recorder may go wrong.
Failing(how) ==
    faults' = faults + (IF how = "nothing" THEN 0 ELSE 1) /\ faults' <= MaxFaults
Failures == {"nothing", "spawn", "store"}

\* Mutant: the row of a recording that is stopped for the next is left as it is.
FinalizedUnmarked(r, verdict) ==
    [r EXCEPT !.recording = 0, !.ffmpeg = 0, !.timer = NoTimer,
              !.status = IF r.recording = 0 \/ verdict = "incomplete" THEN @
                         ELSE [@ EXCEPT ![r.recording] = verdict]]

\* _cancel_timer_locked and _finalize_active_locked.
Finalized(r, verdict) ==
    LET lost == r.recording # 0 /\ r.fails = "store"
    IN  [r EXCEPT !.recording = 0, !.ffmpeg = 0, !.timer = NoTimer,
                  !.status = IF r.recording = 0 \/ lost THEN @ ELSE [@ EXCEPT ![r.recording] = verdict],
                  !.untold = IF lost THEN @ \union {r.recording} ELSE @]

\* recording_is_complete: a row that says so, and a file that is not empty.
Whole(r, song) == r.status[song] = "complete" /\ r.elapsed[song] > 0 /\ r.fails # "store"

\* The rest of _spawn_locked: ffmpeg, a new generation and its timer, and the row.
Spawned(r, song) ==
    [r EXCEPT !.ffmpeg = song, !.gen = @ + 1, !.timer = [gen |-> r.gen + 1, left |-> Length],
              !.elapsed[song] = 0, !.died = @ \ {song}]

Started(r, song) ==
    CASE r.fails = "spawn" -> r
      [] r.fails = "store" -> [Spawned(r, song) EXCEPT !.untold = @ \union {song}]
      [] OTHER -> [Spawned(r, song) EXCEPT !.recording = song, !.status[song] = "recording",
                                           !.untold = @ \ {song}]

\* _spawn_locked on a list: songs that are complete are skipped.
SpawnAt(r, i) ==
    LET f == Finalized(r, "incomplete")
        open == {j \in i..Len(f.list) : ~Whole(f, f.list[j])}
    IN  IF open = {} THEN [f EXCEPT !.index = Len(f.list)]
        ELSE LET j == CHOOSE j \in open : \A k \in open : j <= k
             IN  [Started(f, f.list[j]) EXCEPT
                     !.index = IF f.fails # "spawn" THEN j ELSE IF j = i THEN @ ELSE j - 1]

Single(r, song) ==
    LET f == Finalized([r EXCEPT !.list = <<>>, !.index = 0], "incomplete")
    IN  IF Whole(f, song) THEN f ELSE Started(f, song)

Stopped(r) ==
    [Finalized(r, "incomplete") EXCEPT !.list = <<>>, !.index = 0, !.gen = @ + 1]

\* on_next and on_previous, beyond the list's ends or without a list.
Moved(r, i) == IF i \in 1..Len(r.list) THEN SpawnAt(r, i) ELSE Stopped(r)

\* What a call leaves to the recorder.
Record(w) ==
    /\ call[w].pc = "record"
    /\ \E how \in Failures :
       LET r == [Recorder EXCEPT !.fails = how]
           cap == call[w].cap
       IN /\ Failing(how)
          /\ CASE cap = "next"              -> Becomes(Moved(r, r.index + 1))
               [] cap = "previous"          -> Becomes(Moved(r, r.index - 1))
               [] cap \in {"pause", "stop"} -> Becomes(Stopped(r))
               [] cap \in {"queue", "daily"} ->
                     Becomes(SpawnAt([r EXCEPT !.list = [i \in Songs |-> i], !.index = 1], 1))
               [] cap = "cast" /\ Whole(r, 1) -> Becomes(r)
               [] cap \in {"song", "cast"} -> \E s \in Songs : Becomes(Single(r, s))
    /\ Goes(w, IF call[w].cap \in Plays \cup {"daily", "stop"} THEN "mode" ELSE "end")
    /\ UNCHANGED <<fired, calls>> /\ UNCHANGED playerVars /\ UNCHANGED modeVars

TimerGoesOff ==
    /\ timer # NoTimer /\ timer.left = 0 /\ timer.gen \notin fired
    /\ fired' = fired \cup {timer.gen}
    /\ Becomes(Recorder) /\ UNCHANGED call
    /\ UNCHANGED playerVars /\ UNCHANGED boundVars /\ UNCHANGED modeVars

\* Mutant: a timer ends whatever is recorded when it gets the lock.
CurrentAny(g) == TRUE

Current(g) == g = generation

\* _fire, with the lock: the recording is complete, whether its recorder still runs or
\* not, and the next song begins.
Fire(g) ==
    /\ g \in fired /\ fired' = fired \ {g}
    /\ IF ~Current(g) THEN Becomes(Recorder) /\ UNCHANGED faults
       ELSE \E how \in Failures :
            LET r == Finalized([Recorder EXCEPT !.fails = how], "complete")
            IN  Failing(how) /\ Becomes(IF r.index < Len(r.list) THEN SpawnAt(r, r.index + 1) ELSE r)
    /\ UNCHANGED <<call, calls>> /\ UNCHANGED playerVars /\ UNCHANGED modeVars

Passes ==
    /\ timer # NoTimer /\ timer.left > 0
    /\ timer' = [timer EXCEPT !.left = @ - 1]
    /\ elapsed' = IF ffmpeg = 0 THEN elapsed ELSE [elapsed EXCEPT ![ffmpeg] = @ + 1]
    /\ UNCHANGED <<call, recording, ffmpeg, list, index, generation, fired, status, died, untold>>
    /\ UNCHANGED playerVars /\ UNCHANGED boundVars /\ UNCHANGED modeVars

\* The recorder's process ends before its time (no such input, a full disk).
RecorderDies ==
    /\ ffmpeg # 0 /\ timer.left > 0 /\ faults < MaxFaults /\ faults' = faults + 1
    /\ Becomes([Recorder EXCEPT !.ffmpeg = 0, !.died = @ \union {ffmpeg}])
    /\ UNCHANGED <<call, calls, fired>> /\ UNCHANGED playerVars /\ UNCHANGED modeVars

-----------------------------------------------------------------------------
(* Music mode.                                                             *)

Free == held = NoOne

\* enter.
Enters == mode' = TRUE /\ modeFile' = TRUE /\ UNCHANGED held

\* exit_mode: with no mode in memory it asks is_active, which wants the lock that
\* exit_mode holds.
Exits(who) ==
    IF mode THEN mode' = FALSE /\ modeFile' = FALSE /\ UNCHANGED held
    ELSE held' = who /\ UNCHANGED <<mode, modeFile>>

\* The end of a call: the mode, and a logout remembered is forgotten.
SwitchMode(w) ==
    /\ call[w].pc = "mode" /\ Free
    /\ IF call[w].cap = "stop"
       THEN Exits(w) /\ Goes(w, IF mode THEN "end" ELSE "stuck")
       ELSE Enters /\ Goes(w, "end")
    /\ UNCHANGED heart /\ UNCHANGED playerVars /\ UNCHANGED boundVars /\ UNCHANGED recorderVars

Finish(w) ==
    /\ call[w].pc = "end"
    /\ logout' = FALSE
    /\ Ends(w)
    /\ UNCHANGED login /\ UNCHANGED boundVars
    /\ UNCHANGED recorderVars /\ UNCHANGED modeVars

\* The heartbeat carries the mode (heartbeat_ack) ...
HeartAck ==
    /\ heart = "ack" /\ Free
    /\ heart' = "answer"
    /\ UNCHANGED <<call, mode, modeFile, held>>
    /\ UNCHANGED playerVars /\ UNCHANGED boundVars /\ UNCHANGED recorderVars

\* ... and its answer may hint at another (apply_brain_hint).
HeartHint ==
    /\ heart = "answer" /\ Free /\ calls < MaxCalls /\ calls' = calls + 1
    /\ \/ Enters /\ heart' = "ack"
       \/ Exits(Heart) /\ heart' = IF mode THEN "ack" ELSE "stuck"
    /\ UNCHANGED <<call, faults>> /\ UNCHANGED playerVars /\ UNCHANGED recorderVars

HeartNoHint ==
    /\ heart = "answer" /\ heart' = "ack"
    /\ UNCHANGED <<call, mode, modeFile, held>>
    /\ UNCHANGED playerVars /\ UNCHANGED boundVars /\ UNCHANGED recorderVars

-----------------------------------------------------------------------------
(* Outside.                                                                *)

LoginChanges ==
    /\ faults < MaxFaults /\ faults' = faults + 1
    /\ login' = ~login
    /\ UNCHANGED <<call, calls, logout>>
    /\ UNCHANGED recorderVars /\ UNCHANGED modeVars

\* cleanup_orphans when the Edge starts again: the old recorder is killed, its row
\* is given up, if the database answers.
Restart ==
    /\ faults < MaxFaults /\ faults' = faults + 1
    /\ call' = [w \in Callers |-> Ready] /\ logout' = FALSE
    /\ recording' = 0 /\ ffmpeg' = 0 /\ list' = <<>> /\ index' = 0 /\ generation' = 0
    /\ timer' = NoTimer /\ fired' = {}
    /\ LET stale == {s \in Songs : status[s] = "recording"}
       IN \/ /\ status' = [s \in Songs |-> IF s \in stale THEN "incomplete" ELSE status[s]]
             /\ untold' = untold \ stale
          \/ untold' = untold \union stale /\ UNCHANGED status
    /\ mode' = FALSE /\ held' = NoOne /\ heart' = "ack"
    /\ UNCHANGED <<calls, login, elapsed, died, modeFile>>

Init ==
    /\ call = [w \in Callers |-> Ready] /\ calls = 0 /\ faults = 0
    /\ login = TRUE /\ logout = FALSE
    /\ recording = 0 /\ ffmpeg = 0 /\ died = {} /\ untold = {} /\ list = <<>> /\ index = 0 /\ generation = 0
    /\ timer = NoTimer /\ fired = {}
    /\ status = [s \in Songs |-> "none"] /\ elapsed = [s \in Songs |-> 0]
    /\ mode = FALSE /\ modeFile = FALSE /\ held = NoOne /\ heart = "ack"

Call(w) ==
    \/ CliFails(w) \/ CliDone(w) \/ FillPlaylist(w) \/ PlayList(w) \/ PlayFirst(w)
    \/ Record(w) \/ SwitchMode(w) \/ Finish(w)

Heartbeat == HeartAck \/ HeartHint \/ HeartNoHint

Next ==
    \/ \E w \in Callers : Call(w) \/ \E cap \in Plays \cup Controls : Begin(w, cap)
    \/ TimerGoesOff \/ (\E g \in fired : Fire(g)) \/ Passes \/ RecorderDies
    \/ Heartbeat \/ LoginChanges \/ Restart

Spec == Init /\ [][Next]_vars

FairSpec == Spec /\ WF_vars(Heartbeat) /\ \A w \in Callers : WF_vars(Call(w))

-----------------------------------------------------------------------------
(* Properties.                                                             *)

\* Every variable keeps the shape the code gives it.
TypeOK ==
    /\ {recording, ffmpeg} \subseteq {0} \cup Songs /\ died \cup untold \subseteq Songs
    /\ index \in 0..Len(list) /\ Len(list) \in {0} \cup Songs
    /\ status \in [Songs -> {"none", "recording", "complete", "incomplete"}]
    /\ timer.left \in 0..Length /\ held \in {NoOne, Heart} \cup Callers

\* A song is recorded when its row says so: two calls, the timer of a song that was
\* skipped, a recorder that cannot be started and a restart leave no row behind that is
\* recorded by nobody. Only the database can: a row it did not take is one of untold.
RowIsRecorded == \A s \in Songs \ untold : status[s] = "recording" => recording = s

\* A recording that counts as complete, and is played to the speaker instead of the
\* song, holds all of it: a timer that went off while another song was begun does not
\* complete that one. It is cut short only where the recorder died, which _fire does not
\* see, or a row could not be written.
CompleteIsFull ==
    \A s \in Songs \ (died \cup untold) : status[s] = "complete" => elapsed[s] >= Length

\* The heartbeat thread, which says to Brain whether music plays, gets to say it.
HeartbeatGoesOn == heart # "ack" ~> heart = "ack"
=============================================================================
