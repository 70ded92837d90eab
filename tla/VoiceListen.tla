---------------------------- MODULE VoiceListen ----------------------------
(***************************************************************************)
(* mac_voice's live loop: microphones cut speech into utterances and put   *)
(* them on one queue, the loop has each written down (speech to text) and  *)
(* feeds the words to the wake gate of whoever spoke, and a task per gate  *)
(* says the answer to the wake word and then opens the command window      *)
(* (listen.py, wake.py, pipeline.py).                                      *)
(*                                                                         *)
(* Words are what the gate tells apart; time is a small clock, and a       *)
(* gate's times are instants of it.                                        *)
(***************************************************************************)
EXTENDS Naturals, Sequences

CONSTANTS
    Keys,         \* who speaks: a gate each (participant or ingress)
    Usb,          \* the key of the Mac's own microphone
    QueueMax,     \* utterances that wait for the loop
    Window, AckWait, PartialWait, StaleAfter,     \* lengths of time
    LastInstant,  \* bound: the clock
    MaxUtterances \* bound: what is said

VARIABLES
    instant,      \* the clock
    mic,          \* per key: when the utterance being spoken began, 0 for none
    talking,      \* _CaptureActivity.in_speech, one flag for all microphones
    said,         \* utterances so far (bound)
    queue,        \* utt_q; Dead is the None of a capture thread that ended
    capture,      \* the USB microphone's capture thread runs
    loop,         \* the live loop: "poll", or the utterance with the recogniser
    gate,         \* WakeGate of each key
    ack,          \* wake_tasks: "saying", or "none" when done or cancelled
    openings,     \* history: wakes and spoken answers heard, per key
    posted,       \* history: commands posted, per key
    window        \* history: the command window opened last and not used since

vars == <<instant, mic, talking, said, queue, capture, loop, gate, ack, openings, posted, window>>

Over == [what |-> "over"]
Poll == [what |-> "poll"]
Dead == [what |-> "dead"]
Words == {"none", "wake", "half wake", "answer", "wake and answer", "answer then command",
          "command"}
NoWindow == [from |-> 1, till |-> 0]

Max2(a, b) == IF a > b THEN a ELSE b

-----------------------------------------------------------------------------
(* WakeGate: what a gate is after it was given an utterance u, and whether *)
(* a command came out (cmd) or an answer must be said (say).               *)

Idle == [state |-> "idle", deadline |-> 0, open |-> 0, late |-> 0]

\* Mutant: every reset leaves the window to late utterances.
ResetKeeping(g, keep) ==
    [Idle EXCEPT !.late = IF g.state = "listening" THEN g.deadline ELSE 0]

Reset(g, keep) ==
    [Idle EXCEPT !.late = IF keep /\ g.state = "listening" THEN g.deadline ELSE 0]

Listening(t) == [state |-> "listening", deadline |-> t + Window, open |-> t, late |-> 0]
Partial(g, end) == [g EXCEPT !.state = "partial", !.deadline = end + PartialWait]
Acking(g, end) == [g EXCEPT !.state = "acking", !.deadline = end + AckWait]

Result(g, cmd, say) == [gate |-> g, cmd |-> cmd, say |-> say]
Quiet(g) == Result(g, FALSE, FALSE)
Command(g) == Result(Reset(g, FALSE), TRUE, FALSE)
Wakes(g, u) == Result(Acking(g, u.end), FALSE, TRUE)
HearsAnswer(u) == Quiet(Listening(Max2(u.end, instant)))

OnIdle(g, u, words) ==
    CASE words \in {"wake", "wake and answer"} -> Wakes(g, u)
      [] words = "half wake"                   -> Quiet(Partial(g, u.end))
      [] words = "answer then command"         -> Command(g)
      [] words = "answer"                      -> HearsAnswer(u)
      [] words = "command"                     -> Quiet(g)

\* Two halves make a wake word said twice.
OnPartial(g, u, words) ==
    CASE words \in {"wake", "wake and answer", "half wake"} -> Wakes(g, u)
      [] words = "answer then command"                       -> Command(g)
      [] words = "answer"                                    -> HearsAnswer(u)
      [] words = "command"                                   -> Quiet(Reset(g, FALSE))

OnAcking(g, u, words) ==
    CASE words \in {"answer", "wake and answer"}          -> HearsAnswer(u)
      [] words = "wake"                                    -> Wakes(g, u)
      [] words = "half wake"                               -> Quiet(Partial(g, u.end))
      [] words \in {"command", "answer then command"}      -> Command(g)

\* What began before the window and ended with its opening is the answer's tail.
EchoTail(g, u) == u.start < g.open /\ u.end <= g.open

OnListening(g, u, words) ==
    CASE words = "answer then command"                     -> Command(g)
      [] words \in {"answer", "wake and answer"}           -> HearsAnswer(u)
      [] words \in {"wake", "half wake", "command"} /\ EchoTail(g, u) -> Quiet(g)
      [] words = "wake" /\ ~EchoTail(g, u)                     -> Wakes(g, u)
      [] words = "half wake" /\ ~EchoTail(g, u)                -> Quiet(Partial(g, u.end))
      [] words = "command" /\ ~EchoTail(g, u)                  -> Command(g)

\* Mutant: a window that the timer closed is closed for late words too.
CaughtUpNever(g, u) ==
    IF g.state = "acking" /\ u.start > g.deadline THEN Listening(g.deadline)
    ELSE IF g.state \in {"partial", "listening"} /\ u.start > g.deadline THEN Reset(g, FALSE)
    ELSE g

\* The start of feed: deadlines count for when the words began.
CaughtUp(g, u) ==
    IF g.state = "idle" /\ g.late > 0 /\ u.start <= g.late
    THEN [state |-> "listening", deadline |-> g.late,
          open |-> IF g.late > Window THEN g.late - Window ELSE 0, late |-> 0]
    ELSE IF g.state = "acking" /\ u.start > g.deadline THEN Listening(g.deadline)
    ELSE IF g.state \in {"partial", "listening"} /\ u.start > g.deadline THEN Reset(g, FALSE)
    ELSE g

Fed(g, u, words) ==
    IF words = "none" THEN Quiet(g)
    ELSE LET c == CaughtUp(g, u)
         IN  CASE c.state = "listening" -> OnListening(c, u, words)
               [] c.state = "acking"    -> OnAcking(c, u, words)
               [] c.state = "partial"   -> OnPartial(c, u, words)
               [] c.state = "idle"      -> OnIdle(c, u, words)

\* expire_if_needed.
Expired(g) ==
    IF g.state = "acking" /\ instant > g.deadline THEN Listening(g.deadline)
    ELSE IF g.state = "listening" /\ instant > g.deadline THEN Reset(g, TRUE)
    ELSE g

-----------------------------------------------------------------------------
(* Microphones.                                                            *)

Live == loop # Over

Tick ==
    /\ Live /\ instant < LastInstant /\ instant' = instant + 1
    /\ UNCHANGED <<mic, talking, said, queue, capture, loop, gate, ack, openings, posted, window>>

SpeechBegins(k) ==
    /\ Live /\ (k = Usb => capture) /\ mic[k] = 0 /\ said < MaxUtterances
    /\ mic' = [mic EXCEPT ![k] = instant] /\ talking' = TRUE
    /\ said' = said + 1
    /\ UNCHANGED <<instant, queue, capture, loop, gate, ack, openings, posted, window>>

\* _put_latest: capture never waits; a full queue is emptied for the newest.
PutLatest(u) == IF Len(queue) < QueueMax THEN Append(queue, u) ELSE <<u>>

SpeechEnds(k) ==
    /\ Live /\ (k = Usb => capture) /\ mic[k] # 0
    /\ queue' = PutLatest([what |-> "speech", key |-> k, start |-> mic[k], end |-> instant])
    /\ mic' = [mic EXCEPT ![k] = 0] /\ talking' = FALSE
    /\ UNCHANGED <<instant, said, capture, loop, gate, ack, openings, posted, window>>

\* Too short, too even, or said while the speaker plays: the clip is dropped.
SpeechDropped(k) ==
    /\ Live /\ (k = Usb => capture) /\ mic[k] # 0
    /\ mic' = [mic EXCEPT ![k] = 0] /\ talking' = FALSE
    /\ UNCHANGED <<instant, said, queue, capture, loop, gate, ack, openings, posted, window>>

\* The USB capture thread dies; its None is lost when the queue is full, or when a
\* phone's utterance empties it.
CaptureDies ==
    /\ Live /\ capture
    /\ capture' = FALSE
    /\ mic' = [mic EXCEPT ![Usb] = 0] /\ UNCHANGED talking
    /\ queue' = IF Len(queue) < QueueMax THEN Append(queue, Dead) ELSE queue
    /\ UNCHANGED <<instant, said, loop, gate, ack, openings, posted, window>>

-----------------------------------------------------------------------------
(* The loop.                                                               *)

\* Nothing came for 0.4 s: gates whose time is over close, unless somebody speaks.
LoopExpires ==
    /\ loop = Poll /\ queue = <<>> /\ ~talking
    /\ \E k \in Keys : Expired(gate[k]) # gate[k]
    /\ gate' = [k \in Keys |-> Expired(gate[k])]
    /\ window' = [k \in Keys |->
                    IF gate[k].state = "acking" /\ gate'[k].state = "listening"
                    THEN [from |-> gate'[k].open, till |-> gate'[k].deadline] ELSE window[k]]
    /\ UNCHANGED <<instant, mic, talking, said, queue, capture, loop, ack, openings, posted>>

\* The end of the loop cancels the tasks.
Ended ==
    /\ loop' = Over
    /\ ack' = [k \in Keys |-> "none"]
    /\ capture' = FALSE /\ mic' = [k \in Keys |-> 0] /\ talking' = FALSE

LoopTakes ==
    /\ loop = Poll /\ queue # <<>>
    /\ queue' = Tail(queue)
    /\ IF Head(queue) = Dead THEN Ended
       ELSE /\ loop' = IF instant > Head(queue).end + StaleAfter THEN Poll ELSE Head(queue)
            /\ UNCHANGED <<ack, capture, mic, talking>>
    /\ UNCHANGED <<instant, said, gate, openings, posted, window>>

\* The recogniser fails or times out, or is spared while music plays.
LoopDrops ==
    /\ loop \notin {Poll, Over}
    /\ loop' = Poll
    /\ UNCHANGED <<instant, mic, talking, said, queue, capture, gate, ack, openings, posted, window>>

\* The recogniser has the words: the gate, the answer and the intent.  A post that
\* fails ends the loop.
LoopHears(words) ==
    /\ loop \notin {Poll, Over}
    /\ LET u == loop
           k == u.key
           r == Fed(gate[k], u, words)
           heard == r.gate.state = "listening" /\ r.gate # gate[k]
       IN  /\ gate' = [gate EXCEPT ![k] = r.gate]
           /\ openings' = [openings EXCEPT ![k] =
                 @ + IF r.say \/ words \in {"answer", "wake and answer", "answer then command"}
                     THEN 1 ELSE 0]
           /\ posted' = [posted EXCEPT ![k] = @ + IF r.cmd THEN 1 ELSE 0]
           /\ window' = [window EXCEPT ![k] =
                 IF heard THEN [from |-> r.gate.open, till |-> r.gate.deadline]
                 ELSE IF words = "none" \/ r.gate = gate[k] THEN @
                 ELSE NoWindow]
           /\ \/ /\ loop' = Poll
                 /\ ack' = IF r.say THEN [ack EXCEPT ![k] = "saying"] ELSE ack
                 /\ UNCHANGED <<capture, mic, talking>>
              \/ r.cmd /\ Ended
    /\ UNCHANGED <<instant, said, queue>>

-----------------------------------------------------------------------------
(* _ack_wake: the answer was said or could not be.  A new wake of the same *)
(* gate cancels the task.                                                  *)

\* Mutant: a task that could not speak leaves the gate as it is.
AckDoneSaid(k) ==
    /\ ack[k] = "saying"
    /\ ack' = [ack EXCEPT ![k] = "none"]
    /\ \/ gate' = [gate EXCEPT ![k] = IF @.state = "acking" THEN Listening(instant) ELSE @]
       \/ gate' = gate
    /\ UNCHANGED <<instant, mic, talking, said, queue, capture, loop, openings, posted, window>>

AckDone(k) ==
    /\ ack[k] = "saying"
    /\ ack' = [ack EXCEPT ![k] = "none"]
    /\ gate' = [gate EXCEPT ![k] = IF @.state = "acking" THEN Listening(instant) ELSE @]
    /\ window' = [window EXCEPT ![k] = IF gate[k].state = "acking"
                                       THEN [from |-> instant, till |-> instant + Window] ELSE @]
    /\ UNCHANGED <<instant, mic, talking, said, queue, capture, loop, openings, posted>>

-----------------------------------------------------------------------------

Init ==
    /\ instant = 1 /\ mic = [k \in Keys |-> 0] /\ talking = FALSE /\ said = 0
    /\ queue = <<>> /\ capture = TRUE /\ loop = Poll
    /\ gate = [k \in Keys |-> Idle]
    /\ ack = [k \in Keys |-> "none"]
    /\ openings = [k \in Keys |-> 0] /\ posted = [k \in Keys |-> 0]
    /\ window = [k \in Keys |-> NoWindow]

Next ==
    \/ Tick \/ CaptureDies \/ LoopExpires \/ LoopTakes \/ LoopDrops
    \/ \E k \in Keys : SpeechBegins(k) \/ SpeechEnds(k) \/ SpeechDropped(k) \/ AckDone(k)
    \/ \E words \in Words : LoopHears(words)

-----------------------------------------------------------------------------
(* Properties.                                                             *)

\* Every variable keeps the shape the code gives it.
TypeOK ==
    /\ instant \in 1..LastInstant /\ capture \in BOOLEAN /\ Len(queue) <= QueueMax
    /\ loop \in {Poll, Over} \/ loop.what = "speech"
    /\ ack \in [Keys -> {"none", "saying"}]
    /\ \A k \in Keys :
          /\ mic[k] \in 0..instant
          /\ gate[k].state \in {"idle", "partial", "acking", "listening"}

\* A wake word, or an answer that is heard, is good for one command: talk that goes
\* on in the room afterwards is no command, whichever clip the recogniser is late
\* with.
OneCommandEach == \A k \in Keys : posted[k] <= openings[k]

\* A command that was begun inside the window counts, although the recogniser was
\* slow and the timer has closed the window meanwhile.
LateWordsCount ==
    [][\A k \in Keys :
          LoopHears("command") /\ loop.key = k
          /\ window[k].from <= loop.start /\ loop.start <= window[k].till
          => posted'[k] = posted[k] + 1]_vars

\* Who has said the wake word is listened to in the end, though the answer could not
\* be said or another wake word cancelled it.
WakeAnswered(k) == gate[k].state = "acking"
WakeSettled(k) == gate[k].state # "acking" \/ loop = Over
=============================================================================
