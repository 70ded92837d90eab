---------------------------- MODULE ImageSearch ----------------------------
(***************************************************************************)
(* search.images (search_images.py, asset/img_upload.py): the hits of a    *)
(* query, from the cache or the provider, are downloaded, staged in a      *)
(* file, uploaded to the house's server or, when that fails, to the        *)
(* cloud's, and registered with Brain one by one. The staging files of all *)
(* workers share a directory.                                              *)
(***************************************************************************)
EXTENDS Naturals

CONSTANTS
    Searchers,    \* worker threads
    Hits,         \* hits of a query: 1..n
    Wanted,       \* count
    TTL,          \* CACHE_TTL_SEC
    LastSecond    \* bound on time

VARIABLES
    second,       \* the clock, in the seconds of the file names
    cachedAt,     \* when the query's hits were cached; 0 if they were not
    search,       \* per worker: its step
    staged,       \* per file: the picture in it
    lanStore, cloudStore,   \* history: pictures each server has stored, by step and hit
    lanLost,      \* history: uploads the house's server took and did not confirm
    catalog,      \* registered: the hit, and the picture that was stored for it
    clashed       \* history: two steps have named their files in the same second

vars == <<second, cachedAt, search, staged, lanStore, cloudStore, lanLost, catalog, clashed>>

Blank == <<>>
Fresh(t) == t # 0 /\ second - t < TTL
Idle == [at |-> "idle", stamp |-> 0, hit |-> 0, refs |-> 0, got |-> Blank]
Mine(w) == <<w, search[w].hit>>

\* upload_image_bytes names the file by the second and the picture's number.
NameByNumber(w) == <<1, search[w].refs + 1>>
Name(w) == <<search[w].stamp, search[w].refs + 1>>
Names == (1..LastSecond) \X (1..Wanted)

At(w, at) == search' = [search EXCEPT ![w].at = at]
Stores == <<lanStore, cloudStore, lanLost>>

\* The next hit, if more pictures are wanted and there is one.
Onward(w, refs) ==
    LET more == refs < Wanted /\ search[w].hit + 1 \in Hits
    IN [search EXCEPT ![w].refs = refs, ![w].got = Blank,
                      ![w].hit = IF more THEN @ + 1 ELSE @,
                      ![w].at = IF more THEN "downloading" ELSE IF refs > 0 THEN "ok" ELSE "failed"]

-----------------------------------------------------------------------------

\* The hits: _load_cache, or the provider and _store_cache, or none.
Ask(w) ==
    /\ search[w].at = "idle"
    /\ \/ /\ cachedAt' = IF Fresh(cachedAt) THEN cachedAt ELSE second
          /\ search' = [search EXCEPT ![w] = [Idle EXCEPT !.at = "downloading", !.stamp = second, !.hit = 1]]
          /\ clashed' = (clashed \/ \E v \in Searchers \ {w} : search[v].stamp = second)
       \/ ~Fresh(cachedAt) /\ At(w, "failed") /\ UNCHANGED <<cachedAt, clashed>>
    /\ UNCHANGED <<second, staged, Stores, catalog>>

\* The picture, or its thumbnail; a hit that has neither is passed over.
Download(w) ==
    /\ search[w].at = "downloading"
    /\ \/ At(w, "staging")
       \/ search' = Onward(w, search[w].refs)
    /\ UNCHANGED <<second, cachedAt, staged, Stores, catalog, clashed>>

Stage(w) ==
    /\ search[w].at = "staging" /\ staged' = [staged EXCEPT ![Name(w)] = Mine(w)]
    /\ At(w, "probing") /\ UNCHANGED <<second, cachedAt, Stores, catalog, clashed>>

\* probe_reachable: when the house's server does not answer, it is left out.
Probe(w) ==
    /\ search[w].at = "probing" /\ \E at \in {"lan", "cloud"} : At(w, at)
    /\ UNCHANGED <<second, cachedAt, staged, Stores, catalog, clashed>>

\* upload_image_file: the cloud only after the house's server has failed.
AfterLanBoth(stored) == "cloud"
AfterLan(stored) == IF stored THEN "registering" ELSE "cloud"

\* _upload_once reads the file as it is now.
PutLan(w) ==
    /\ search[w].at = "lan"
    /\ \E stored, confirmed \in BOOLEAN :
          /\ confirmed => stored
          /\ search' = [search EXCEPT ![w].at = AfterLan(confirmed), ![w].got = staged[Name(w)]]
          /\ lanStore' = IF stored THEN lanStore \union {Mine(w)} ELSE lanStore
          /\ lanLost' = IF stored /\ ~confirmed THEN lanLost \union {Mine(w)} ELSE lanLost
    /\ UNCHANGED <<second, cachedAt, staged, cloudStore, catalog, clashed>>

PutCloud(w) ==
    /\ search[w].at = "cloud"
    /\ \/ /\ search' = [search EXCEPT ![w].at = "registering", ![w].got = staged[Name(w)]]
          /\ cloudStore' = cloudStore \union {Mine(w)}
       \/ search' = Onward(w, search[w].refs) /\ UNCHANGED cloudStore
    /\ UNCHANGED <<second, cachedAt, staged, lanStore, lanLost, catalog, clashed>>

Register(w) ==
    /\ search[w].at = "registering"
    /\ \/ /\ catalog' = catalog \union {[hit |-> Mine(w), picture |-> search[w].got]}
          /\ search' = Onward(w, search[w].refs + 1)
       \/ search' = Onward(w, search[w].refs) /\ UNCHANGED catalog
    /\ UNCHANGED <<second, cachedAt, staged, Stores, clashed>>

Tick == second < LastSecond /\ second' = second + 1
        /\ UNCHANGED <<cachedAt, search, staged, Stores, catalog, clashed>>

-----------------------------------------------------------------------------

Init ==
    /\ second = 1 /\ cachedAt = 0 /\ search = [w \in Searchers |-> Idle]
    /\ staged = [n \in Names |-> Blank] /\ lanStore = {} /\ cloudStore = {} /\ lanLost = {}
    /\ catalog = {} /\ clashed = FALSE

Next ==
    \/ Tick
    \/ \E w \in Searchers :
          Ask(w) \/ Download(w) \/ Stage(w) \/ Probe(w) \/ PutLan(w) \/ PutCloud(w) \/ Register(w)

-----------------------------------------------------------------------------

Pictures == Searchers \X Hits

\* Types of the variables.
TypeOK ==
    /\ second \in 1..LastSecond /\ cachedAt \in 0..LastSecond
    /\ search \in [Searchers -> [at : {"idle", "downloading", "staging", "probing", "lan", "cloud",
                                       "registering", "ok", "failed"},
                                 stamp : 0..LastSecond, hit : {0} \union Hits, refs : 0..Wanted,
                                 got : {Blank} \union Pictures]]
    /\ staged \in [Names -> {Blank} \union Pictures]
    /\ lanStore \union cloudStore \union lanLost \subseteq Pictures /\ clashed \in BOOLEAN

\* A picture is not uploaded to the house and to the cloud, unless the house's
\* server took it and the answer was lost.
OneCopy == lanStore \intersect cloudStore \subseteq lanLost

\* What is registered for a hit is that hit's picture, whatever other steps stage
\* and upload meanwhile, unless two of them named their files in the same second.
OwnPicture == ~clashed => \A r \in catalog : r.picture = r.hit
=============================================================================
