SPECIFICATION HomeSpec
CONSTANTS
    OneShotMiss = 3
    PeriodicMiss = 1
    T <- ThreeBeats
    Horizon = 5
    MaxSyncs = 1
    MaxIngests = 0
    MaxCrashes = 1
    Workers = {w1, w2}
    Heart = heart0
    LookLength = 10
    LookTimings <- AllTimings
    Keys = {k1, k2}
    Usb = k1
    QueueMax = 1
    Window = 2
    AckWait = 3
    PartialWait = 1
    StaleAfter = 2
    LastInstant = 4
    MaxUtterances = 3
    StaleAge = 1
    MaxMoves = 2
    Songs = {1, 2}
    SongLength = 1
    MaxCalls = 2
    MaxMusicFaults = 1
    PageSize = 1
    MaxPages = 2
    SongHits <- AllHits
    MaxHits = 3
    MaxSongChanges = 1
    WakeSilence = 1
    CommandSilence = 2
    WakeMax = 3
    CommandMax = 4
    MinSpeech = 2
    Hold = 1
    Onset = 2
    MaxChunks = 7
    Captures = {k1, k2}
    Dests = {"img_server", "cloud"}
    MaxPhotoMishaps = 1
    Brains = {1, 2}
    Ids = {1}
    Lost = {1}
    MaxBrainOutages = 2
    MaxCloudCalls = 2
    MaxUsageStops = 1
    Caps = {"a", "b", "both"}
    Checked = {"b"}
    PartsOf <- BothIsAAndB
    MaxOfferTurns = 3
    Streams = {1, 2, 3}
    Handlers = {h1}
    MaxSessions = 1
    MaxPushes = 2
    Units = {k1}
    Bound = {k1}
    Settings <- ModeAndTemp
    MaxRequests = 2
    MaxClimateMishaps = 1
    MaxXiaomiSteps = 3
    MaxRefusals = 1
    Addrs = {1, 2}
    MaxFrames = 2
    MaxCasts = 2
    MaxTvChanges = 1
    ImageHits = {1, 2}
    Wanted = 1
    TTL = 1
    LastSecond = 2
    MaxLan = 2
    MaxUses = 3
    MaxAssetTurns = 1
    Queues = {1, 2}
    Matching = {2}
    MaxPrints = 2
    MaxPrintOutages = 1
    Hosts = {1, 2, 3}
    Gateway = 1
    Targets = {2}
    Renew = 2
    Documents = {"d1", "d2"}
    PageCount = 2
    ZoomLevels = 2
    MaxPdfSteps = 3
    Deadline = 4
    MaxWebPages = 1
    Last = 3
SYMMETRY WorkersAlike
INVARIANTS TypeOK TypesOK OncePerBeat BeatsInOrder BeatPersisted NoCatchUp DoneOnce TrueToSaid InputIsProduced HeardRight KeptTrue AsBefore WindowsDisjoint
PROPERTIES LateWordsCount NoBeatPassedOver
CHECK_DEADLOCK FALSE
