-------------------------------- MODULE Home --------------------------------
(***************************************************************************)
(* The parts of the house that do not wait for each other, in one          *)
(* specification: a behaviour is that of one part, the subject, while the  *)
(* others stay as they begin. So every property says of each part what it  *)
(* would say of the part alone, and the numbers of states add up. The      *)
(* first part, a series of beats, is BeatSchedule itself.                  *)
(***************************************************************************)
EXTENDS BeatSchedule

CONSTANTS
    Workers,      \* the pool's workers: who speaks, plays, takes photos, prints ...
    Heart,        \* the heartbeat thread
    \* TimingCheck
    LookLength, LookTimings,
    \* VoiceListen
    Keys, Usb, QueueMax, Window, AckWait, PartialWait, StaleAfter, LastInstant, MaxUtterances,
    \* SpeechOutput
    StaleAge, MaxMoves,
    \* MusicPlayback
    Songs, SongLength, MaxCalls, MaxMusicFaults,
    \* SongSearch
    PageSize, MaxPages, SongHits, MaxHits, MaxSongChanges,
    \* SpeechEndpoint
    WakeSilence, CommandSilence, WakeMax, CommandMax, MinSpeech, Hold, Onset, MaxChunks,
    \* PhotoCapture
    Captures, Dests, MaxPhotoMishaps,
    \* SeveralBrains
    Brains, Ids, Lost, MaxBrainOutages,
    \* CloudUsage
    MaxCloudCalls, MaxUsageStops,
    \* CapabilityOffer
    Caps, Checked, PartsOf, MaxOfferTurns,
    \* LiveVideo
    Streams, Handlers, MaxSessions, MaxPushes,
    \* ClimateControl
    Units, Bound, Settings, MaxRequests, MaxClimateMishaps,
    \* XiaomiHome
    MaxXiaomiSteps, MaxRefusals,
    \* Television
    Addrs, MaxFrames, MaxCasts, MaxTvChanges,
    \* ImageSearch
    ImageHits, Wanted, TTL, LastSecond,
    \* AssetFetch
    MaxLan, MaxUses, MaxAssetTurns,
    \* PrintJob
    Queues, Matching, MaxPrints, MaxPrintOutages,
    \* PingMonitor
    Hosts, Gateway, Targets, Renew,
    \* PdfDisplay
    Documents, PageCount, ZoomLevels, MaxPdfSteps,
    \* WebPage
    Deadline, MaxWebPages,
    \* PlanData
    Last

\* What the code takes its parameters from: a pool of finitely many threads, numbers that
\* are not negative, and lists whose members are numbered.
ASSUME WorkersAssumption == IsFiniteSet(Workers) /\ Heart \notin Workers
ASSUME TimingsAssumption == LookTimings \subseteq Timing /\ LookLength \in Nat
ASSUME SpeakingAssumption == StaleAge \in Nat
ASSUME MusicAssumption ==
    SongLength \in Nat /\ IsFiniteSet(Songs) /\ Songs # {} /\ Songs = 1..Cardinality(Songs)
ASSUME SongsAssumption ==
    /\ PageSize \in Nat \ {0} /\ {MaxPages, MaxHits, MaxSongChanges} \subseteq Nat
    /\ SongHits \subseteq [id : Nat, title : 0..2, by : 0..2, names : 0..2]
ASSUME WebAssumption == Deadline \in Nat /\ MaxWebPages \in Nat
ASSUME VideoAssumption ==
    /\ IsFiniteSet(Streams) /\ Streams \subseteq Nat \ {0} /\ 1 \in Streams
    /\ MaxSessions \in Nat /\ MaxPushes \in Nat
ASSUME PdfAssumption == PageCount \in Nat \ {0} /\ ZoomLevels \in Nat \ {0}
ASSUME EndpointAssumption ==
    /\ {WakeSilence, CommandSilence, WakeMax, MinSpeech, Hold, Onset, MaxChunks} \subseteq Nat
    /\ CommandMax \in Nat \ {0}
ASSUME PrinterAssumption == Queues \subseteq Nat \ {0} /\ Matching \subseteq Queues
ASSUME PingAssumption == IsFiniteSet(Hosts) /\ Gateway \in Hosts /\ Renew \in Nat
ASSUME XiaomiAssumption == MaxXiaomiSteps \in Nat /\ MaxRefusals \in Nat
ASSUME ImagesAssumption ==
    /\ ImageHits \subseteq Nat \ {0} /\ 1 \in ImageHits
    /\ Wanted \in Nat \ {0} /\ LastSecond \in Nat \ {0} /\ TTL \in Nat
ASSUME AssetsAssumption == MaxLan \in Nat \ {0} /\ MaxUses \in Nat
ASSUME PlanAssumption == Last \in Nat
ASSUME ListeningAssumption ==
    {QueueMax, LastInstant} \subseteq Nat \ {0} /\ {Window, AckWait, PartialWait} \subseteq Nat
ASSUME BrainsAssumption ==
    /\ IsFiniteSet(Brains) /\ Brains # {} /\ Brains = 1..Cardinality(Brains)
    /\ MaxCloudCalls \in Nat
ASSUME ClimateAssumption == Settings \in Seq({"mode", "temp", "fan", "swing"}) /\ MaxRequests \in Nat
ASSUME TvAssumption == Addrs \subseteq Nat \ {0} /\ MaxFrames \in Nat

-----------------------------------------------------------------------------

VARIABLES t, clock
Timings == INSTANCE TimingCheck WITH
    Length <- LookLength, Timings <- LookTimings, now <- clock
timingVars == <<t, clock>>

VARIABLES instant, mic, talking, said, queue, capture, loop, gate, ack, openings, posted,
    window
Listening == INSTANCE VoiceListen
listeningVars == <<instant, mic, talking, said, queue, capture, loop, gate, ack, openings,
    posted, window>>

VARIABLES voice, device, plays, depth, flag, lasted, muteWas, hangover, renderer, cached, moves
Speaking == INSTANCE SpeechOutput WITH Speakers <- Workers
speakingVars == <<voice, device, plays, depth, flag, lasted, muteWas, hangover, renderer, cached, moves>>

VARIABLES call, calls, musicFaults, login, logout, recording, ffmpeg, list, index, generation,
    timer, fired, songStatus, elapsed, died, untold, mode, modeFile, musicHeld, heart
Music == INSTANCE MusicPlayback WITH
    Callers <- Workers, Length <- SongLength, MaxFaults <- MaxMusicFaults,
    faults <- musicFaults, status <- songStatus, held <- musicHeld
musicVars == <<call, calls, musicFaults, login, logout, recording, ffmpeg, list, index, generation,
    timer, fired, songStatus, elapsed, died, untold, mode, modeFile, musicHeld, heart>>

VARIABLES request, songCatalog, searchPage, found, answer, songChanges
Search == INSTANCE SongSearch WITH
    Hits <- SongHits, MaxChanges <- MaxSongChanges,
    page <- searchPage, catalog <- songCatalog, changes <- songChanges
songsVars == <<request, songCatalog, searchPage, found, answer, songChanges>>

VARIABLES ingress, chunk, preRoll, clip, deadline, inCommand, break, muteUntil, playing,
    wasMuted, lastMuted, cut
Endpoint == INSTANCE SpeechEndpoint
endpointVars == <<ingress, chunk, preRoll, clip, deadline, inCommand, break, muteUntil,
    playing, wasMuted, lastMuted, cut>>

VARIABLES taker, wifi, adrift, picture, sidecar, photosHeld, photoMishaps
Photo == INSTANCE PhotoCapture WITH
    Takers <- Workers, MaxMishaps <- MaxPhotoMishaps, held <- photosHeld, mishaps <- photoMishaps
photoVars == <<taker, wifi, adrift, picture, sidecar, photosHeld, photoMishaps>>

VARIABLES offers, down, origin, report, reportsLanded, brainOutages
Several == INSTANCE SeveralBrains WITH
    MaxOutages <- MaxBrainOutages,
    landed <- reportsLanded, outages <- brainOutages
brainsVars == <<offers, down, origin, report, reportsLanded, brainOutages>>

VARIABLES beat, usage, delta, counted, made, retold, crossed, usageStops
Usage == INSTANCE CloudUsage WITH MaxStops <- MaxUsageStops, stops <- usageStops
usageVars == <<beat, usage, delta, counted, made, retold, crossed, usageStops>>

VARIABLES works, declared, toProbe, capsSeen, told, catalogFile, remote, disk, ads, fresh, described,
    offerTurns
Offer == INSTANCE CapabilityOffer WITH
    MaxTurns <- MaxOfferTurns,
    seen <- capsSeen, turns <- offerTurns
offerVars == <<works, declared, toProbe, capsSeen, told, catalogFile, remote, disk, ads,
    fresh, described, offerTurns>>

VARIABLES eventMode, session, standing, larix, folder, playlist, dumps, archive, armed, lateTimers,
    removing, stopper, left, bare, pushes
Video == INSTANCE LiveVideo WITH late <- lateTimers
videoVars == <<eventMode, session, standing, larix, folder, playlist, dumps, archive, armed,
    lateTimers, removing, stopper, left, bare, pushes>>

VARIABLES climate, unitOn, taken, settingsLanded, disturbed, requests, climateMishaps
Climate == INSTANCE ClimateControl WITH
    MaxMishaps <- MaxClimateMishaps,
    landed <- settingsLanded, mishaps <- climateMishaps
climateVars == <<climate, unitOn, taken, settingsLanded, disturbed, requests, climateMishaps>>

VARIABLES xiaomi, shared, tokens, logins, written, fed, xiaomiSteps, refusals
Xiaomi == INSTANCE XiaomiHome WITH
    Callers <- Workers, MaxSteps <- MaxXiaomiSteps,
    steps <- xiaomiSteps
xiaomiVars == <<xiaomi, shared, tokens, logins, written, fed, xiaomiSteps, refusals>>

VARIABLES byHost, lease, asleep, location, mac, cast, moved, astray, casts, tvChanges
TheTv == INSTANCE Television WITH
    Casters <- Workers, MaxChanges <- MaxTvChanges,
    changes <- tvChanges
tvVars == <<byHost, lease, asleep, location, mac, cast, moved, astray, casts, tvChanges>>

VARIABLES second, cachedAt, search, staged, lanStore, cloudStore, lanLost, imageCatalog,
    clashed
Images == INSTANCE ImageSearch WITH
    Searchers <- Workers, Hits <- ImageHits, catalog <- imageCatalog
imagesVars == <<second, cachedAt, search, staged, lanStore, cloudStore, lanLost, imageCatalog,
    clashed>>

VARIABLES storage, lanNow, use, handed, stagingFile, remembered, fetched, exempt, torn, uses,
    assetTurns
Assets == INSTANCE AssetFetch WITH
    Users <- Workers, MaxTurns <- MaxAssetTurns,
    file <- stagingFile, turns <- assetTurns
assetsVars == <<storage, lanNow, use, handed, stagingFile, remembered, fetched, exempt, torn,
    uses, assetTurns>>

VARIABLES accepting, hasLp, hasIpp, print, jobs, unclear, prints, printOutages
Printer == INSTANCE PrintJob WITH
    Printers <- Workers, MaxOutages <- MaxPrintOutages, outages <- printOutages
printerVars == <<accepting, hasLp, hasIpp, print, jobs, unclear, prints, printOutages>>

VARIABLES pingMode, thread, stopping, up, peers, todo, heard, age, latePings
Pings == INSTANCE PingMonitor WITH late <- latePings
pingsVars == <<pingMode, thread, stopping, up, peers, todo, heard, age, latePings>>

VARIABLES reader, opened, current, drawn, links, tv, alone, doubt, pdfSteps
Pdf == INSTANCE PdfDisplay WITH
    Readers <- Workers, MaxSteps <- MaxPdfSteps, steps <- pdfSteps
pdfVars == <<reader, opened, current, drawn, links, tv, alone, doubt, pdfSteps>>

VARIABLES hasChrome, hasWeasy, webPage, chrome, printed, looks, fileSeen, temps, body, pages
Web == INSTANCE WebPage WITH
    MaxPages <- MaxWebPages,
    page <- webPage, seen <- fileSeen
webVars == <<hasChrome, hasWeasy, webPage, chrome, printed, looks, fileSeen, temps, body, pages>>

VARIABLES plan, given, planStatus, outputs, bags, brain, context, passing, copy, used
Plan == INSTANCE PlanData WITH status <- planStatus
planVars == <<plan, given, planStatus, outputs, bags, brain, context, passing, copy, used>>

-----------------------------------------------------------------------------

VARIABLE subject   \* the part whose behaviour this is

Parts == {"beats", "timing", "listening", "speaking", "music", "songs", "endpoint", "photo", "brains",
          "usage", "offer", "video", "climate", "xiaomi", "tv", "images", "assets", "printer", "pings",
          "pdf", "web", "plan"}

homeVars == <<subject, vars, timingVars, listeningVars, speakingVars, musicVars, songsVars, endpointVars,
            photoVars, brainsVars, usageVars, offerVars, videoVars, climateVars, xiaomiVars,
            tvVars, imagesVars, assetsVars, printerVars, pingsVars, pdfVars, webVars, planVars>>

Frozen(p) ==
    CASE p = "beats" -> UNCHANGED vars
      [] p = "timing" -> UNCHANGED timingVars
      [] p = "listening" -> UNCHANGED listeningVars
      [] p = "speaking" -> UNCHANGED speakingVars
      [] p = "music" -> UNCHANGED musicVars
      [] p = "songs" -> UNCHANGED songsVars
      [] p = "endpoint" -> UNCHANGED endpointVars
      [] p = "photo" -> UNCHANGED photoVars
      [] p = "brains" -> UNCHANGED brainsVars
      [] p = "usage" -> UNCHANGED usageVars
      [] p = "offer" -> UNCHANGED offerVars
      [] p = "video" -> UNCHANGED videoVars
      [] p = "climate" -> UNCHANGED climateVars
      [] p = "xiaomi" -> UNCHANGED xiaomiVars
      [] p = "tv" -> UNCHANGED tvVars
      [] p = "images" -> UNCHANGED imagesVars
      [] p = "assets" -> UNCHANGED assetsVars
      [] p = "printer" -> UNCHANGED printerVars
      [] p = "pings" -> UNCHANGED pingsVars
      [] p = "pdf" -> UNCHANGED pdfVars
      [] p = "web" -> UNCHANGED webVars
      [] p = "plan" -> UNCHANGED planVars

Only(p) == subject = p /\ UNCHANGED subject /\ \A q \in Parts \ {p} : Frozen(q)

\* What a part may begin with does not matter while another is the subject.
FirstAddr == CHOOSE a \in Addrs : \A b \in Addrs : a <= b

HomeInit ==
    /\ subject \in Parts
    /\ IF subject = "songs" THEN TRUE
       ELSE /\ songCatalog = <<>>
            /\ request = [kind |-> "title", want |-> 1, ranked |-> FALSE, index |-> <<>>]
    /\ IF subject = "endpoint" THEN TRUE ELSE ingress = "usb"
    /\ IF subject = "brains" THEN TRUE ELSE offers = [b \in Brains |-> {}]
    /\ IF subject = "offer" THEN TRUE ELSE works = {} /\ catalogFile = 0 /\ remote = 0
    /\ IF subject = "video" THEN TRUE ELSE eventMode = TRUE
    /\ IF subject = "tv" THEN TRUE ELSE byHost = 0 /\ lease = [a \in Addrs |-> IF a = FirstAddr THEN "tv" ELSE "other"]
    /\ IF subject = "assets" THEN TRUE ELSE storage = [backend |-> "local", pub |-> 0, cloud |-> FALSE]
    /\ IF subject = "printer" THEN TRUE ELSE accepting = {} /\ hasLp = FALSE /\ hasIpp = FALSE
    /\ IF subject = "pings" THEN TRUE ELSE pingMode = "lan"
    /\ IF subject = "web" THEN TRUE ELSE hasChrome = FALSE /\ hasWeasy = FALSE
    /\ IF subject = "plan" THEN TRUE
       ELSE /\ given = FALSE
            /\ plan = [n \in 1..Last |-> [here |-> TRUE, makes |-> TRUE, declares |-> TRUE, uses |-> FALSE]]
    /\ IF subject = "timing" THEN TRUE
       ELSE t = CHOOSE timing \in LookTimings : TRUE
    /\ Init /\ Timings!Init /\ Listening!Init /\ Speaking!Init /\ Music!Init /\ Search!Init
    /\ Endpoint!Init /\ Photo!Init /\ Several!Init /\ Usage!Init /\ Offer!Init
    /\ Video!Init /\ Climate!Init /\ Xiaomi!Init /\ TheTv!Init /\ Images!Init /\ Assets!Init
    /\ Printer!Init /\ Pings!Init /\ Pdf!Init /\ Web!Init /\ Plan!Init

HomeNext ==
    \/ Only("beats") /\ Next
    \/ Only("timing") /\ Timings!Next
    \/ Only("listening") /\ Listening!Next
    \/ Only("speaking") /\ Speaking!Next
    \/ Only("music") /\ Music!Next
    \/ Only("songs") /\ Search!Next
    \/ Only("endpoint") /\ Endpoint!Next
    \/ Only("photo") /\ Photo!Next
    \/ Only("brains") /\ Several!Next
    \/ Only("usage") /\ Usage!Next
    \/ Only("offer") /\ Offer!Next
    \/ Only("video") /\ Video!Next
    \/ Only("climate") /\ Climate!Next
    \/ Only("xiaomi") /\ Xiaomi!Next
    \/ Only("tv") /\ TheTv!Next
    \/ Only("images") /\ Images!Next
    \/ Only("assets") /\ Assets!Next
    \/ Only("printer") /\ Printer!Next
    \/ Only("pings") /\ Pings!Next
    \/ Only("pdf") /\ Pdf!Next
    \/ Only("web") /\ Web!Next
    \/ Only("plan") /\ Plan!Next

HomeSpec == HomeInit /\ [][HomeNext]_homeVars

-----------------------------------------------------------------------------
(* The properties, each a conjunction of what the parts' modules state;    *)
(* those of beats are BeatSchedule's.                                      *)

\* The variables of the part that runs keep the shape the code gives them; those of the
\* others are as at the start.
TypesOK ==
    /\ subject = "listening" => Listening!TypeOK
    /\ subject = "speaking" => Speaking!TypeOK
    /\ subject = "music" => Music!TypeOK
    /\ subject = "songs" => Search!TypeOK
    /\ subject = "endpoint" => Endpoint!TypeOK
    /\ subject = "photo" => Photo!TypeOK
    /\ subject = "brains" => Several!TypeOK
    /\ subject = "usage" => Usage!TypeOK
    /\ subject = "offer" => Offer!TypeOK
    /\ subject = "video" => Video!TypeOK
    /\ subject = "climate" => Climate!TypeOK
    /\ subject = "xiaomi" => Xiaomi!TypeOK
    /\ subject = "tv" => TheTv!TypeOK
    /\ subject = "images" => Images!TypeOK
    /\ subject = "assets" => Assets!TypeOK
    /\ subject = "printer" => Printer!TypeOK
    /\ subject = "pings" => Pings!TypeOK
    /\ subject = "pdf" => Pdf!TypeOK
    /\ subject = "web" => Web!TypeOK
    /\ subject = "plan" => Plan!TypeOK

\* What was asked for once is done once, through time-outs, retries, second workers
\* and second servers: a spoken command, a setting of the air conditioner, a meal of
\* the fish, a printed document, a download, an upload, a song of a queue, and a
\* cloud call that is told to Brain.  And what is tried again is tried again once: a
\* text is sent to the speaker twice at most, the account of Xiaomi is logged in to
\* once for each worker and refusal.
DoneOnce ==
    /\ Listening!OneCommandEach /\ Search!NoSongTwice /\ Usage!CountedOnce
    /\ Climate!TakenOnce /\ Xiaomi!DoneOnce /\ Printer!PrintedOnce
    /\ Assets!FetchedOnce /\ Images!OneCopy
    /\ Speaking!PlaysBounded /\ Xiaomi!LoginsBounded

\* What a step tells the user, or hands to the next one, is so: the settings it
\* announces, the page on the television, the set or what answers to its name and no other
\* device, the picture that was searched, the address of a file, the songs of an artist,
\* and the page numbers.
TrueToSaid ==
    /\ Climate!AnnouncedLanded /\ Pdf!ScreenIsSession /\ Images!OwnPicture
    /\ TheTv!RightScreen /\ Assets!UrlIsCurrent /\ Search!QueueIsTheArtists /\ Web!NumberedAsSaid

\* A step is run with what a step before it made for it, and with nothing older than the
\* last value made on this Mac (_hydrate_context).
InputIsProduced == Plan!InputIsProduced

\* The microphones do not hear the house's own voice as long as the flag counts, and hear a
\* command to its end.
HeardRight == Speaking!MuteCovers /\ Endpoint!NothingMuted /\ Endpoint!CommandHeardOut

\* A command that was begun in time counts, however slow the recogniser was.
LateWordsCount == Listening!LateWordsCount

\* What is kept is what it counts as: a recording that runs, or is whole unless its recorder
\* died or the database was away, a photo that was uploaded, and the catalog of capabilities.
KeptTrue ==
    /\ Music!RowIsRecorded /\ Music!CompleteIsFull
    /\ Photo!MarkedIsHeld /\ Photo!UploadsWhole /\ Offer!AdsSurvive

\* Whatever fails on the way, the Mac is as before when it is over: on its own
\* network, no Chrome or temporary file left, no ping after the stop. Of a stream only the
\* dump stays, and the directory of a push that made no playlist or that a restart forgot.
AsBefore ==
    Photo!HomeAgain /\ Web!NothingLeft /\ Video!NoOrphanFiles /\ Pings!QuietAfterStop

\* The windows of two beats never meet, and none is passed over, for any timing.
WindowsDisjoint == subject = "timing" => Timings!WindowsDisjoint
NoBeatPassedOver == Timings!NoBeatPassedOver
=============================================================================
