---------------------------- MODULE SpeechOutput ----------------------------
(***************************************************************************)
(* Capabilities that speak, run by several pool workers of the Runtime:    *)
(* the Mac's own voice with its chain of engines and the flag file that    *)
(* mutes mac_voice meanwhile (notify_speak.py, tts_playback.py), and the   *)
(* speaker that is found on the network and pulls a file                   *)
(* (xiaodu_speaker.py).                                                    *)
(***************************************************************************)
EXTENDS Naturals, FiniteSets

CONSTANTS
    Speakers,     \* pool workers that speak
    StaleAge,     \* _STALE_SEC
    MaxMoves      \* bound: the network speaker changes its address, the Runtime crashes

VARIABLES
    voice,        \* per worker: where it is
    device,       \* per worker: the address it resolved
    plays,        \* per worker: Play requests sent
    depth,        \* _session_depth
    flag,         \* the flag file's age, or NoFlag
    lasted,       \* per worker: how long it has been talking
    muteWas,      \* PlaybackMute._was, in mac_voice
    hangover,     \* mac_voice's mute goes on for a moment
    renderer,     \* the network speaker's address now, 0 when it is off
    cached,       \* the address in the cache file, 0 for none
    moves         \* bound

vars == <<voice, device, plays, depth, flag, lasted, muteWas, hangover, renderer, cached, moves>>

NoFlag == StaleAge + 2
Engines == <<"edge", "say", "pyttsx3">>
Talking == {s \in Speakers : voice[s] \in {"edge", "say", "pyttsx3"}}

Goes(s, pc) == voice' = [voice EXCEPT ![s] = pc]

MacOnly == UNCHANGED <<device, plays, muteWas, hangover, renderer, cached, moves>>
LanOnly == UNCHANGED <<depth, flag, lasted, muteWas, hangover, renderer, moves>>

-----------------------------------------------------------------------------
(* The Mac's voice.                                                        *)

\* notify.speak for a phone goes to mac_voice's bridge, which may have no phone;
\* otherwise, and then, a playback session is opened around the engines.
BeginNotify(s) ==
    /\ voice[s] = "ready"
    /\ \/ Goes(s, "done") /\ UNCHANGED <<depth, flag>>
       \/ /\ depth' = depth + 1 /\ flag' = 0
          /\ \E engine \in {"edge", "say"} : Goes(s, engine)
    /\ MacOnly /\ UNCHANGED lasted

\* Mutant: whoever ends first removes the flag.
EndSessionAlone ==
    /\ depth' = IF depth > 0 THEN depth - 1 ELSE 0
    /\ flag' = NoFlag

\* The last session removes the flag, any other renews it.
EndSession ==
    /\ depth' = IF depth > 0 THEN depth - 1 ELSE 0
    /\ flag' = IF depth > 1 THEN 0 ELSE NoFlag

Silent(s) == lasted' = [lasted EXCEPT ![s] = 0]

EngineSpeaks(s) ==
    /\ s \in Talking
    /\ EndSession /\ Goes(s, "done") /\ Silent(s)
    /\ MacOnly

\* An engine that fails leaves it to the next; after the last the step has failed.
EngineFails(s) ==
    /\ s \in Talking
    /\ IF voice[s] = "pyttsx3" THEN EndSession /\ Goes(s, "failed") /\ Silent(s)
       ELSE /\ Goes(s, IF voice[s] = "edge" THEN "say" ELSE "pyttsx3")
            /\ UNCHANGED <<depth, flag, lasted>>
    /\ MacOnly

-----------------------------------------------------------------------------
(* The network speaker.                                                    *)

\* An override is not probed; the cache is believed when what it names answers now.
BeginXiaodu(s) ==
    /\ voice[s] = "ready" /\ plays[s] = 0
    /\ \/ /\ device' = [device EXCEPT ![s] = [at |-> 1, source |-> "override"]]
          /\ Goes(s, "play") /\ UNCHANGED cached
       \/ /\ cached # 0 /\ cached = renderer
          /\ device' = [device EXCEPT ![s] = [at |-> cached, source |-> "cache"]]
          /\ Goes(s, "play") /\ UNCHANGED cached
       \/ /\ cached = 0 \/ cached # renderer
          /\ cached' = 0
          /\ Goes(s, "discover") /\ UNCHANGED device
    /\ LanOnly /\ UNCHANGED plays

\* discover_xiaodu probes what it finds, and only that is remembered.
Discover(s) ==
    /\ voice[s] = "discover"
    /\ \/ /\ renderer # 0
          /\ device' = [device EXCEPT ![s] = [at |-> renderer, source |-> "discovered"]]
          /\ cached' = renderer
          /\ Goes(s, "play")
       \/ Goes(s, "failed") /\ UNCHANGED <<device, cached>>
    /\ LanOnly /\ UNCHANGED plays

\* Mutant: every failure is tried again.
RetryAlways(s) == device[s].source # "override"

\* Only the first failure leads to a new search.
Retry(s) == device[s].source # "override" /\ plays[s] = 0

\* Stop, SetAVTransportURI and Play; a request may fail though the speaker obeyed.
PlayXiaodu(s) ==
    /\ voice[s] = "play"
    /\ plays' = [plays EXCEPT ![s] = @ + 1]
    /\ \/ device[s].at = renderer /\ Goes(s, "done") /\ UNCHANGED cached
       \/ /\ Retry(s)
          /\ cached' = 0 /\ Goes(s, "discover")
       \/ ~Retry(s) /\ Goes(s, "failed") /\ UNCHANGED cached
    /\ LanOnly /\ UNCHANGED device

-----------------------------------------------------------------------------
(* mac_voice's capture asks before every chunk.                            *)

\* Mutant: a flag counts however old it is.
IsPlayingAlways == flag # NoFlag

IsPlaying == flag <= StaleAge

PlaybackMute ==
    /\ muteWas' = IsPlaying
    /\ hangover' = (~IsPlaying /\ muteWas)
    /\ UNCHANGED <<voice, device, plays, depth, flag, lasted, renderer, cached, moves>>

Muted == IsPlaying \/ hangover

-----------------------------------------------------------------------------
(* Outside.                                                                *)

\* Time passes. Nothing renews the flag while the engines talk, and they may talk on
\* past its age: 12 s for edge-tts and 120 s for its file, then 10 s to list the voices and
\* 120 s for say, then pyttsx3 without any limit.
Ages ==
    /\ flag <= StaleAge /\ flag' = flag + 1
    /\ lasted' = [s \in Speakers |-> IF s \in Talking /\ lasted[s] <= StaleAge THEN lasted[s] + 1
                                    ELSE lasted[s]]
    /\ UNCHANGED <<voice, device, plays, depth, muteWas, hangover, renderer, cached, moves>>

Moves ==
    /\ moves < MaxMoves /\ moves' = moves + 1
    /\ renderer' \in (0..2) \ {renderer}
    /\ UNCHANGED <<voice, device, plays, depth, flag, lasted, muteWas, hangover, cached>>

\* The Runtime dies: what it was saying ends, the flag file stays.
Crash ==
    /\ moves < MaxMoves /\ moves' = moves + 1
    /\ voice' = [s \in Speakers |-> IF voice[s] = "ready" THEN "ready" ELSE "failed"]
    /\ depth' = 0 /\ lasted' = [s \in Speakers |-> 0]
    /\ UNCHANGED <<device, plays, flag, muteWas, hangover, renderer, cached>>

Init ==
    /\ voice = [s \in Speakers |-> "ready"]
    /\ device = [s \in Speakers |-> [at |-> 0, source |-> "none"]]
    /\ plays = [s \in Speakers |-> 0]
    /\ lasted = [s \in Speakers |-> 0]
    /\ depth = 0 /\ flag = NoFlag /\ muteWas = FALSE /\ hangover = FALSE
    /\ renderer = 1 /\ cached = 0 /\ moves = 0

Worker(s) ==
    \/ BeginNotify(s) \/ EngineSpeaks(s) \/ EngineFails(s)
    \/ BeginXiaodu(s) \/ Discover(s) \/ PlayXiaodu(s)

Next ==
    \/ \E s \in Speakers : Worker(s)
    \/ PlaybackMute \/ Ages \/ Moves \/ Crash

-----------------------------------------------------------------------------
(* Properties.                                                             *)

\* Every variable keeps the shape the code gives it.
TypeOK ==
    /\ depth \in 0..Cardinality(Speakers) /\ flag \in 0..NoFlag
    /\ lasted \in [Speakers -> 0..(StaleAge + 1)]
    /\ \A s \in Speakers : plays[s] \in 0..2

\* While somebody speaks on the Mac, and has not for longer than the flag counts, mac_voice
\* does not listen: a session that ends or crashes does not unmute another one's speech.
MuteCovers == (\E s \in Talking : lasted[s] <= StaleAge) => IsPlaying

\* A text goes to the network speaker twice at most: once to the address that was
\* remembered, once to the one found when that failed (speak_via_dlna).
PlaysBounded == \A s \in Speakers : plays[s] <= 2

\* mac_voice is not deaf for ever: not even when the Runtime dies while it speaks.
MuteEnds == Muted
MuteEnded == ~Muted \/ Talking # {}
=============================================================================
