----------------------------- MODULE AssetFetch -----------------------------
(***************************************************************************)
(* How a step gets at an asset (asset/manager.py,                          *)
(* asset/backends/img_server.py): as an address another device can fetch,  *)
(* or as a file of this host, which is downloaded once and remembered. The *)
(* house's address may change, workers may want the same asset at once,    *)
(* and a restart forgets what was downloaded.                              *)
(***************************************************************************)
EXTENDS Naturals, FiniteSets

CONSTANTS
    Users,        \* worker threads
    MaxLan,       \* addresses this host may have on the house's network: 1..n
    MaxUses,      \* bound on the steps begun
    MaxTurns      \* bound on leases, sweeps and restarts

VARIABLES
    storage,      \* the asset's storage locator
    lanNow,       \* this host's address now
    use,          \* per worker: its step
    handed,       \* history, per worker: the address it was given and lanNow then
    file,         \* the staging file: none, part or whole
    remembered,   \* _materialized has the asset
    fetched,      \* history: downloads that ended well, of the file that is there
    exempt,       \* history: two steps were downloading it at once, or the staging
                  \* directory was tidied while the file was remembered
    torn,         \* history: steps that read a file that was not whole
    uses, turns

vars == <<storage, lanNow, use, handed, file, remembered, fetched, exempt, torn, uses, turns>>

None == 0
Public == MaxLan + 1
Cloud == MaxLan + 2
Brain == MaxLan + 3
NoUrl == [base |-> None, lan |-> None]
History == <<fetched, exempt, torn>>

\* backend; public_base as older versions stored it; whether there is a mirror.
Storages == [backend : {"local", "img_server", "local_upload"}, pub : 0..Public, cloud : BOOLEAN]

\* _pick_base: an address of the house that was stored may be old.
PickStored(s) == IF s.pub # None THEN s.pub ELSE IF s.cloud THEN Cloud ELSE lanNow
PickBase(s) ==
    IF s.pub = Public THEN Public
    ELSE IF s.pub # None THEN lanNow
    ELSE IF s.cloud THEN Cloud ELSE lanNow

\* resolve_for_capability(need = "http_url").
HttpBase(s) == IF s.backend = "local_upload" THEN Brain ELSE PickBase(s)

\* The cached path counts while its file is there.
KnownNever == FALSE
Known == remembered /\ file # "none"

At(w, at) == use' = [use EXCEPT ![w] = at]
Fetching == {w \in Users : use[w] \in {"fetching", "writing"}}

-----------------------------------------------------------------------------

Idle(w) == use[w] \in {"idle", "ok", "failed"} /\ uses < MaxUses /\ uses' = uses + 1

HttpUrl(w) ==
    /\ Idle(w) /\ At(w, "ok")
    /\ handed' = [handed EXCEPT ![w] = [base |-> HttpBase(storage), lan |-> lanNow]]
    /\ UNCHANGED <<storage, lanNow, file, remembered, History, turns>>

\* materialize_file: remembered, or a file of this host, or to be downloaded.
Materialize(w) ==
    /\ Idle(w)
    /\ IF Known \/ storage.backend = "local"
       THEN At(w, "reading") /\ UNCHANGED exempt
       ELSE At(w, "fetching") /\ exempt' = (exempt \/ Fetching # {})
    /\ UNCHANGED <<storage, lanNow, handed, file, remembered, fetched, torn, turns>>

\* The bytes are here; the file is emptied and written.
Answers(w) ==
    /\ use[w] = "fetching" /\ At(w, "writing") /\ file' = "part"
    /\ UNCHANGED <<storage, lanNow, handed, remembered, History, uses, turns>>

FetchFails(w) ==
    /\ use[w] = "fetching" /\ At(w, "failed")
    /\ UNCHANGED <<storage, lanNow, handed, file, remembered, History, uses, turns>>

\* Only a file that is there whole is remembered.
Written(w) ==
    /\ use[w] = "writing" /\ At(w, "reading") /\ file' = "whole" /\ remembered' = TRUE
    /\ fetched' = fetched + 1
    /\ UNCHANGED <<storage, lanNow, handed, exempt, torn, uses, turns>>

Reads(w) ==
    /\ use[w] = "reading" /\ At(w, "ok")
    /\ torn' = IF storage.backend # "local" /\ file = "part" THEN torn \union {w} ELSE torn
    /\ UNCHANGED <<storage, lanNow, handed, file, remembered, fetched, exempt, uses, turns>>

-----------------------------------------------------------------------------

Turn == turns < MaxTurns /\ turns' = turns + 1

Lease == /\ Turn /\ lanNow' \in (1..MaxLan) \ {lanNow}
         /\ UNCHANGED <<storage, use, handed, file, remembered, History, uses>>

\* The staging directory is tidied between steps.
Sweep ==
    /\ Turn /\ \A w \in Users : use[w] \in {"idle", "ok", "failed"}
    /\ file' = "none" /\ fetched' = 0 /\ exempt' = (exempt \/ remembered)
    /\ UNCHANGED <<storage, lanNow, use, handed, remembered, torn, uses>>

Restart ==
    /\ Turn /\ use' = [w \in Users |-> "idle"] /\ remembered' = FALSE /\ fetched' = 0
    /\ UNCHANGED <<storage, lanNow, handed, file, exempt, torn, uses>>

-----------------------------------------------------------------------------

Init ==
    /\ storage \in Storages /\ lanNow = 1 /\ use = [w \in Users |-> "idle"]
    /\ handed = [w \in Users |-> NoUrl] /\ file = "none" /\ remembered = FALSE
    /\ fetched = 0 /\ exempt = FALSE /\ torn = {} /\ uses = 0 /\ turns = 0

Next ==
    \/ \E w \in Users : HttpUrl(w) \/ Materialize(w) \/ Answers(w) \/ FetchFails(w) \/ Written(w) \/ Reads(w)
    \/ Lease \/ Sweep \/ Restart

-----------------------------------------------------------------------------

\* Types of the variables.
TypeOK ==
    /\ storage \in Storages /\ lanNow \in 1..MaxLan
    /\ use \in [Users -> {"idle", "fetching", "writing", "reading", "ok", "failed"}]
    /\ handed \in [Users -> [base : 0..Brain, lan : 0..MaxLan]]
    /\ file \in {"none", "part", "whole"} /\ remembered \in BOOLEAN
    /\ fetched \in 0..MaxUses /\ exempt \in BOOLEAN /\ torn \subseteq Users

\* An address in the house that is handed out is the one this host has at that
\* moment, though older assets name the one it had when they were stored.
UrlIsCurrent == \A w \in Users : handed[w].base \in 1..MaxLan => handed[w].base = handed[w].lan

\* An asset several steps use is downloaded once, and none of them reads it half
\* written, unless two of them began to download it at the same time or a remembered file
\* was tidied away (then the path is trusted while it is being written again).
FetchedOnce == exempt \/ (fetched <= 1 /\ torn = {})
=============================================================================
