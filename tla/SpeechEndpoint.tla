--------------------------- MODULE SpeechEndpoint ---------------------------
(***************************************************************************)
(* Cutting one microphone's sound into clips: the segmenter (segmenter.py) *)
(* with the endpoint that says how long a silence ends a clip, short while *)
(* the wake word is hunted and long in a command (UsbEndpoint in           *)
(* listen.py, the phone's in pickup_ingest.py). Sound comes in chunks,     *)
(* which are the clock.                                                    *)
(***************************************************************************)
EXTENDS Naturals

CONSTANTS
    WakeSilence, CommandSilence,   \* chunks of silence that end a clip
    WakeMax, CommandMax,           \* chunks a clip may have
    MinSpeech,                     \* chunks a clip must have
    Hold, Onset,                   \* begin_command_listen: mute, and then the window
    MaxChunks                      \* bound

VARIABLES
    ingress,      \* which microphone: "usb" or "phone"
    chunk,        \* chunks so far
    preRoll,      \* the first chunk kept from before a clip, 0 for none
    clip,         \* the clip being spoken, or NoClip
    deadline,     \* _command_until, _command_onset_deadline
    inCommand,    \* _command_utt_active
    break,        \* the phone's _segment_break
    muteUntil,    \* the phone's _segment_mute_until
    playing,      \* USB: the playback flag; wasMuted is what the endpoint saw last
    wasMuted,
    lastMuted,    \* history: the last chunk that came while muted
    cut           \* history: the clip that was yielded last

vars == <<ingress, chunk, preRoll, clip, deadline, inCommand, break, muteUntil, playing,
          wasMuted, lastMuted, cut>>

NoClip == [from |-> 0, length |-> 0, quiet |-> 0, command |-> FALSE]
NoCut == [clip |-> NoClip, why |-> "none"]

-----------------------------------------------------------------------------
(* The endpoint.                                                           *)

InWindow(now) == now <= deadline

\* Mutant: a command's silence only while the window lasts.
CommandEndpointWindow(now, active) == InWindow(now)

\* silence_ms and max_speech_ms: the phone counts the window as command too.
CommandEndpoint(now, active) == active \/ (ingress = "phone" /\ InWindow(now))
Silence(now, active) == IF CommandEndpoint(now, active) THEN CommandSilence ELSE WakeSilence
Longest(now, active) == IF CommandEndpoint(now, active) THEN CommandMax ELSE WakeMax

\* note_activity("speech"), note_segment_activity("speech").
ActiveOnSpeech(now) == inCommand \/ InWindow(now)

\* ("idle"): the command is over, and so is its window.
Idles ==
    /\ inCommand' = FALSE
    /\ deadline' = IF inCommand THEN 0 ELSE deadline

\* begin_command_listen: the phone also drops what it has and waits for its speaker.
BeginCommandListen ==
    /\ deadline' = chunk + Onset + IF ingress = "phone" THEN Hold ELSE 0
    /\ inCommand' = FALSE
    /\ IF ingress = "phone" THEN break' = TRUE /\ muteUntil' = chunk + Hold
       ELSE UNCHANGED <<break, muteUntil>>
    /\ clip' = [clip EXCEPT !.command = FALSE]
    /\ UNCHANGED <<ingress, chunk, preRoll, playing, wasMuted, lastMuted, cut>>

PlaybackTurns ==
    /\ ingress = "usb" /\ playing' = ~playing
    /\ UNCHANGED <<ingress, chunk, preRoll, clip, deadline, inCommand, break, muteUntil,
                   wasMuted, lastMuted, cut>>

-----------------------------------------------------------------------------
(* The segmenter, chunk by chunk.                                          *)

Muted(now) == IF ingress = "usb" THEN playing ELSE break \/ now < muteUntil

\* Mutant: the sound from before the mute stays in the pre-roll.
MutedChunkKeeping ==
    /\ chunk < MaxChunks /\ chunk' = chunk + 1 /\ Muted(chunk')
    /\ lastMuted' = chunk' /\ break' = FALSE /\ wasMuted' = TRUE
    /\ clip' = NoClip
    /\ IF clip # NoClip THEN Idles ELSE UNCHANGED <<inCommand, deadline>>
    /\ UNCHANGED <<ingress, preRoll, muteUntil, playing, cut>>

\* A muted chunk: a clip is dropped, the pre-roll is emptied.
MutedChunk ==
    /\ chunk < MaxChunks /\ chunk' = chunk + 1 /\ Muted(chunk')
    /\ lastMuted' = chunk' /\ break' = FALSE /\ wasMuted' = TRUE
    /\ clip' = NoClip /\ preRoll' = 0
    /\ IF clip # NoClip THEN Idles ELSE UNCHANGED <<inCommand, deadline>>
    /\ UNCHANGED <<ingress, muteUntil, playing, cut>>

Heard ==
    /\ chunk < MaxChunks /\ chunk' = chunk + 1 /\ ~Muted(chunk')
    /\ wasMuted' = FALSE
    /\ UNCHANGED <<ingress, break, muteUntil, playing, lastMuted>>

\* note_mute: the end of the Mac's own speech opens the command window.
Unmuted == ingress = "usb" /\ wasMuted

QuietChunk ==
    /\ Heard /\ clip = NoClip
    /\ preRoll' = IF preRoll = 0 THEN chunk' ELSE IF preRoll + 1 < chunk' THEN chunk' - 1 ELSE preRoll
    /\ deadline' = IF Unmuted THEN chunk' + Onset ELSE deadline
    /\ UNCHANGED <<clip, inCommand, cut>>

\* The first loud chunk opens a clip, with the pre-roll before it.
LoudChunk ==
    /\ Heard /\ clip = NoClip
    /\ LET active == ActiveOnSpeech(chunk') \/ Unmuted
       IN  /\ clip' = [from |-> IF preRoll = 0 THEN chunk' ELSE preRoll, length |-> 1,
                       quiet |-> 0, command |-> chunk' <= deadline \/ Unmuted]
           /\ inCommand' = active
           /\ deadline' = IF Unmuted THEN chunk' + Onset ELSE deadline
    /\ preRoll' = 0
    /\ UNCHANGED cut

\* Inside a clip; _is_trailing_quiet says whether the chunk counts as silence.
Longer(quiet) ==
    [clip EXCEPT !.length = @ + 1, !.quiet = IF quiet THEN @ + 1 ELSE 0]

TooLong(c) == c.length >= Longest(chunk', inCommand)
SilentLongEnough(c) == c.quiet >= Silence(chunk', inCommand) /\ c.length >= MinSpeech

ClipGoesOn(quiet) ==
    /\ Heard /\ clip # NoClip
    /\ LET c == Longer(quiet)
       IN  ~TooLong(c) /\ ~SilentLongEnough(c) /\ clip' = c
    /\ UNCHANGED <<preRoll, deadline, inCommand, cut>>

ClipEnds(quiet) ==
    /\ Heard /\ clip # NoClip
    /\ LET c == Longer(quiet)
       IN  /\ TooLong(c) \/ SilentLongEnough(c)
           /\ \/ cut' = [clip |-> c, why |-> IF TooLong(c) THEN "max" ELSE "silence"]
              \/ UNCHANGED cut        \* flat rumble is not yielded
    /\ clip' = NoClip /\ preRoll' = 0 /\ Idles

\* Rumble for long enough: the clip is dropped, and a loud chunk begins another one.
AmbientDrop(loud) ==
    /\ Heard /\ clip # NoClip /\ clip.length + 1 >= MinSpeech
    /\ preRoll' = 0
    /\ IF ~loud THEN clip' = NoClip /\ Idles
       ELSE LET window == IF inCommand THEN 0 ELSE deadline
            IN  /\ clip' = [from |-> chunk', length |-> 1, quiet |-> 0, command |-> chunk' <= window]
                /\ deadline' = window /\ inCommand' = (chunk' <= window)
    /\ UNCHANGED cut

Init ==
    /\ ingress \in {"usb", "phone"}
    /\ chunk = 0 /\ preRoll = 0 /\ clip = NoClip /\ deadline = 0 /\ inCommand = FALSE
    /\ break = FALSE /\ muteUntil = 0 /\ playing = FALSE /\ wasMuted = FALSE
    /\ lastMuted = 0 /\ cut = NoCut

Next ==
    \/ BeginCommandListen \/ PlaybackTurns \/ MutedChunk \/ QuietChunk \/ LoudChunk
    \/ \E b \in BOOLEAN : ClipGoesOn(b) \/ ClipEnds(b) \/ AmbientDrop(b)

-----------------------------------------------------------------------------
(* Properties.                                                             *)

\* Every variable keeps the shape the code gives it.
TypeOK ==
    /\ chunk \in 0..MaxChunks /\ preRoll \in 0..chunk /\ clip.length \in (0..WakeMax) \cup (0..CommandMax)
    /\ deadline \in 0..(MaxChunks + Hold + Onset) /\ inCommand \in BOOLEAN

\* What the speaker says itself is in no clip, not even in the pre-roll of one.
NothingMuted == clip # NoClip => lastMuted < clip.from

\* A command that was begun inside the window is cut by a command's silence, however
\* long the window is over, unless the window was opened anew meanwhile.
CommandHeardOut ==
    cut.why = "silence" /\ cut.clip.command => cut.clip.quiet >= CommandSilence
=============================================================================
