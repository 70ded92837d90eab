----------------------------- MODULE MCHomeLive -----------------------------
(***************************************************************************)
(* What must come to an end, under the fairness each part of the code      *)
(* gives, in one run: a behaviour is that of one part, the subject, while  *)
(* the others stay as they begin (as in Home). The first part, the         *)
(* edge's identity, is EdgeIdentity itself.                                *)
(***************************************************************************)
EXTENDS EdgeIdentity, Integers

CONSTANTS
    w1, w2,    \* two of the pool's workers
    k1, k2     \* two microphones

IntervalT == [mode |-> "interval", exec |-> -1, first |-> 1, interval |-> 2,
              fires |-> {}, end |-> -1, count |-> 2]

-----------------------------------------------------------------------------

VARIABLES instant, mic, talking, said, queue, capture, loop, gate, ack, openings, posted,
    window
Listening == INSTANCE VoiceListen WITH
    Keys <- {k1, k2}, Usb <- k1, QueueMax <- 1, Window <- 2, AckWait <- 3, PartialWait <- 1,
    StaleAfter <- 2, LastInstant <- 3, MaxUtterances <- 2
listeningVars == <<instant, mic, talking, said, queue, capture, loop, gate, ack, openings,
    posted, window>>

VARIABLES speaker, device, plays, depth, flag, lasted, muteWas, hangover, renderer, cached, moves
Speaking == INSTANCE SpeechOutput WITH
    Speakers <- {w1, w2}, StaleAge <- 1, MaxMoves <- 2,
    voice <- speaker
speakingVars == <<speaker, device, plays, depth, flag, lasted, muteWas, hangover, renderer, cached,
    moves>>

VARIABLES offers, down, origin, report, reportsLanded, brainOutages
Several == INSTANCE SeveralBrains WITH
    Brains <- {1, 2}, Ids <- {1}, Lost <- {1}, MaxOutages <- 2,
    landed <- reportsLanded, outages <- brainOutages
brainsVars == <<offers, down, origin, report, reportsLanded, brainOutages>>

VARIABLES works, declared, toProbe, capsSeen, told, catalogFile, remote, disk, ads, fresh, described,
    offerTurns
Offer == INSTANCE CapabilityOffer WITH
    Caps <- {"a", "b", "both"}, Checked <- {"b"},
    PartsOf <- [c \in {"a", "b", "both"} |-> IF c = "both" THEN {"a", "b"} ELSE {}], MaxTurns <- 3,
    seen <- capsSeen, turns <- offerTurns
offerVars == <<works, declared, toProbe, capsSeen, told, catalogFile, remote, disk, ads,
    fresh, described, offerTurns>>

VARIABLES now, row, beatMem, ex, hyd, runs, ended, syncs, ingests, seriesCrashes
Series == INSTANCE BeatSchedule WITH
    OneShotMiss <- 3, PeriodicMiss <- 2, T <- IntervalT, Horizon <- 6,
    MaxSyncs <- 0, MaxIngests <- 1, MaxCrashes <- 0,
    mem <- beatMem, crashes <- seriesCrashes
seriesVars == <<now, row, beatMem, ex, hyd, runs, ended, syncs, ingests, seriesCrashes>>

-----------------------------------------------------------------------------

VARIABLE subject   \* the part whose behaviour this is

Parts == {"identity", "listening", "speaking", "brains", "offer", "series"}

liveVars == <<subject, vars, listeningVars, speakingVars, brainsVars, offerVars, seriesVars>>

Frozen(p) ==
    CASE p = "identity" -> UNCHANGED vars
      [] p = "listening" -> UNCHANGED listeningVars
      [] p = "speaking" -> UNCHANGED speakingVars
      [] p = "brains" -> UNCHANGED brainsVars
      [] p = "offer" -> UNCHANGED offerVars
      [] p = "series" -> UNCHANGED seriesVars

Only(p) == subject = p /\ UNCHANGED subject /\ \A q \in Parts \ {p} : Frozen(q)

\* What a part may begin with does not matter while another is the subject.
LiveInit ==
    /\ subject \in Parts
    /\ IF subject = "identity" THEN TRUE ELSE file = NoId /\ known = {}
    /\ IF subject = "brains" THEN TRUE ELSE offers = [b \in {1, 2} |-> {}]
    /\ IF subject = "offer" THEN TRUE ELSE works = {} /\ catalogFile = 0 /\ remote = 0
    /\ Init /\ Listening!Init /\ Speaking!Init /\ Several!Init /\ Offer!Init
    /\ Series!Init

LiveNext ==
    \/ Only("identity") /\ Next
    \/ Only("listening") /\ Listening!Next
    \/ Only("speaking") /\ Speaking!Next
    \/ Only("brains") /\ Several!Next
    \/ Only("offer") /\ Offer!Next
    \/ Only("series") /\ Series!Next

\* Every thread's loop goes round, every call has a time-out, a sentence that is
\* being said ends, time passes, and a Brain that is not lost comes back.
LiveSpec ==
    /\ LiveInit /\ [][LiveNext]_liveVars
    /\ WF_vars(subject = "identity" /\ Heartbeat)
    /\ WF_vars(subject = "identity" /\ Control)
    /\ WF_vars(subject = "identity" /\ Voice)
    /\ \A k \in {k1, k2} : WF_listeningVars(subject = "listening" /\ Listening!AckDone(k))
    /\ \A w \in {w1, w2} : WF_speakingVars(subject = "speaking" /\ Speaking!Worker(w))
    /\ WF_speakingVars(subject = "speaking" /\ Speaking!PlaybackMute)
    /\ WF_speakingVars(subject = "speaking" /\ Speaking!Ages)
    /\ WF_brainsVars(subject = "brains" /\ Several!Pull)
    /\ WF_brainsVars(subject = "brains" /\ Several!StartReport(1))
    /\ WF_brainsVars(subject = "brains" /\ Several!AskBrain(1))
    /\ WF_brainsVars(subject = "brains" /\ Several!ComesBack(2))
    /\ WF_offerVars(subject = "offer" /\ Offer!BeginBeat)
    /\ \A c \in {"a", "b", "both"} : WF_offerVars(subject = "offer" /\ Offer!Probe(c))
    /\ WF_seriesVars(subject = "series" /\ Series!Tick)
    /\ WF_seriesVars(subject = "series" /\ Series!Executor)
    /\ WF_seriesVars(subject = "series" /\ Series!Hydrate)

-----------------------------------------------------------------------------
(* Properties; TypeOK, RegistrationsBounded, FileAgrees and VoiceFollows   *)
(* are EdgeIdentity's.                                                     *)

\* In the end everybody shares one id that Brain knows (EdgeIdentity!Settles).
IdentitySettles == subject = "identity" => Settles

\* A recurring series comes to its end, and the intent with it (BeatSchedule!SeriesEnds).
SeriesEnds == subject = "series" => Series!SeriesEnds

\* Those who wait for the subject, by number, so that one formula serves all parts.
Waiting(n) ==
    \/ subject = "listening" /\ Listening!WakeAnswered(<<k1, k2>>[n])
    \/ subject = "speaking" /\ n = 1 /\ Speaking!MuteEnds
    \/ subject = "brains" /\ n = 1 /\ Several!Waits(1)
    \/ subject = "offer" /\ Offer!Offered(<<"b", "both">>[n])

Settled(n) ==
    CASE subject = "listening" -> Listening!WakeSettled(<<k1, k2>>[n])
      [] subject = "speaking"  -> Speaking!MuteEnded
      [] subject = "brains"    -> Several!Taken(1)
      [] subject = "offer"     -> Offer!OfferSettled(<<"b", "both">>[n])
      [] OTHER                 -> TRUE

\* Who has said the wake word is listened to, mac_voice is not deaf for ever, a
\* status reaches the Brain the intent is from, and a capability that works again is
\* offered again, whatever failed meanwhile.
EveryoneServed == \A n \in 1..2 : Waiting(n) ~> Settled(n)
=============================================================================
