--------------------------- MODULE CapabilityOffer ---------------------------
(***************************************************************************)
(* What an Edge tells Brain it can do: the capabilities it declares once,  *)
(* when it starts (services.py), whether each of them works, probed one    *)
(* after another for every heartbeat (capability_availability.py), and the *)
(* planner's description of them, from the marketplace, a catalog file or  *)
(* a cache on disk (marketplace_catalog.py, capability_ads.py).            *)
(***************************************************************************)
EXTENDS Naturals, FiniteSets

CONSTANTS
    Caps,         \* capabilities
    Checked,      \* those whose service is only declared when it answers at start
    PartsOf,      \* what a composite consists of, {} for an atomic one
    MaxTurns      \* bound: something starts or stops working, the catalog changes, restarts

VARIABLES
    works,        \* atomic capabilities that work now
    declared,     \* Identity.services
    toProbe,      \* capabilities the heartbeat still has to probe
    seen,         \* what it found working
    told,         \* what Brain was told last
    catalogFile, remote, \* versions of the ads, 0 for none: MARKETPLACE_CATALOG, HTTP
    disk,         \* marketplace-ads.json, 0 when it is not there or cannot be read
    ads, fresh,   \* _ads, and is it younger than its TTL
    described,    \* history: there were ads since the Edge started
    turns         \* bound

vars == <<works, declared, toProbe, seen, told, catalogFile, remote, disk, ads, fresh, described, turns>>

Atoms == {c \in Caps : PartsOf[c] = {}}
adVars == <<catalogFile, remote, disk, ads, fresh, described>>
Unset == 3   \* _ads is None
offerVars == <<declared, toProbe, seen, told>>

-----------------------------------------------------------------------------
(* Ads.                                                                    *)

\* Mutant: what was fetched is kept, nothing too.
LoadedBare(m) ==
    \/ /\ catalogFile # 0 /\ ads' = catalogFile /\ fresh' = TRUE /\ UNCHANGED disk
    \/ /\ catalogFile = 0 /\ remote # 0 /\ ads' = remote /\ fresh' = TRUE /\ disk' \in {disk, remote, 0}
    \/ /\ catalogFile = 0 /\ ads' = 0 /\ fresh' = TRUE /\ UNCHANGED disk

\* refresh_ads, from what memory holds (m): the catalog file; else the marketplace, which
\* is written to disk, or not, or in part (the write fails or the Edge ends in it), which
\* reads as nothing; else the cache on disk; else what there was, and only a memory that
\* was never filled takes the empty catalog for a fresh one.
Loaded(m) ==
    \/ /\ catalogFile # 0 /\ ads' = catalogFile /\ fresh' = TRUE /\ UNCHANGED disk
    \/ /\ catalogFile = 0 /\ remote # 0 /\ ads' = remote /\ fresh' = TRUE /\ disk' \in {disk, remote, 0}
    \/ /\ catalogFile = 0 /\ disk # 0 /\ ads' = disk /\ fresh' = TRUE /\ UNCHANGED disk
    \/ /\ catalogFile = 0 /\ disk = 0 /\ ads' = (IF m = Unset THEN 0 ELSE m)
       /\ fresh' = (m = Unset) /\ UNCHANGED disk

Refresh ==
    /\ ~fresh /\ Loaded(ads) /\ described' = (described \/ ads' # 0)
    /\ UNCHANGED <<works, catalogFile, remote, turns>> /\ UNCHANGED offerVars

-----------------------------------------------------------------------------
(* Capabilities.                                                           *)

\* is_available: a composite works when all its parts do; a probe that raises says no.
Available(c) == IF PartsOf[c] = {} THEN c \in works ELSE \A p \in PartsOf[c] : p \in works

\* default_services, by role and whitelist: a service that has to answer (Cast, the
\* character and the pronunciation service, a renderer, a printer) is left out when
\* it does not.
Declarable(allowed) == {c \in allowed : c \in Checked => Available(c)}

StartEdge ==
    /\ turns < MaxTurns /\ turns' = turns + 1
    /\ \E allowed \in {Caps} \cup {Atoms} : declared' = Declarable(allowed)
    /\ toProbe' = {} /\ seen' = {}
    /\ Loaded(Unset) /\ described' = (ads' # 0)
    /\ UNCHANGED <<works, told, catalogFile, remote>>

BeginBeat ==
    /\ toProbe = {} /\ declared # {}
    /\ toProbe' = declared /\ seen' = {}
    /\ UNCHANGED <<works, declared, told, turns>> /\ UNCHANGED adVars

\* Mutant: what Brain was told not to work is not probed again.
ProbeOnce(c) ==
    /\ c \in toProbe
    /\ toProbe' = toProbe \ {c}
    /\ seen' = IF Available(c) /\ (c \in told \/ told = {}) THEN seen \cup {c} ELSE seen
    /\ \/ told' = (IF toProbe' = {} THEN seen' ELSE told) /\ UNCHANGED turns
       \/ toProbe' = {} /\ turns < MaxTurns /\ turns' = turns + 1 /\ UNCHANGED told
    /\ UNCHANGED <<works, declared>> /\ UNCHANGED adVars

\* snapshot_services, capability by capability, and at the end the heartbeat, which
\* says of each declared capability whether it works; or the request fails.
Probe(c) ==
    /\ c \in toProbe
    /\ toProbe' = toProbe \ {c}
    /\ seen' = IF Available(c) THEN seen \cup {c} ELSE seen
    /\ \/ told' = (IF toProbe' = {} THEN seen' ELSE told) /\ UNCHANGED turns
       \/ toProbe' = {} /\ turns < MaxTurns /\ turns' = turns + 1 /\ UNCHANGED told
    /\ UNCHANGED <<works, declared>> /\ UNCHANGED adVars

-----------------------------------------------------------------------------
(* The surroundings.                                                       *)

Turn == turns < MaxTurns /\ turns' = turns + 1 /\ UNCHANGED offerVars

WorksOrNot ==
    /\ Turn /\ \E c \in Atoms : works' = IF c \in works THEN works \ {c} ELSE works \cup {c}
    /\ UNCHANGED adVars

CatalogChanges ==
    /\ Turn
    /\ \/ remote' \in {0, 1, 2} \ {remote} /\ UNCHANGED catalogFile
       \/ catalogFile' \in {0, 1} \ {catalogFile} /\ UNCHANGED remote
    /\ UNCHANGED <<works, disk, ads, fresh, described>>

AdsAge ==
    /\ fresh /\ fresh' = FALSE
    /\ UNCHANGED <<works, catalogFile, remote, disk, ads, described, turns>> /\ UNCHANGED offerVars

Init ==
    /\ works \in SUBSET Atoms
    /\ declared = {} /\ toProbe = {} /\ seen = {} /\ told = {}
    /\ catalogFile \in {0, 1} /\ remote \in {0, 1} /\ disk = 0 /\ ads = Unset
    /\ fresh = FALSE /\ described = FALSE /\ turns = 0

Next ==
    \/ Refresh \/ StartEdge \/ BeginBeat \/ \E c \in Caps : Probe(c)
    \/ WorksOrNot \/ CatalogChanges \/ AdsAge

-----------------------------------------------------------------------------
\* Types of the variables.
TypeOK ==
    /\ works \subseteq Atoms /\ declared \subseteq Caps
    /\ toProbe \subseteq declared /\ seen \subseteq declared /\ told \subseteq Caps
    /\ catalogFile \in 0..1 /\ {remote, disk} \subseteq 0..2 /\ ads \in 0..Unset
    /\ {fresh, described} \subseteq BOOLEAN

\* Once there were ads, the planner's descriptions do not vanish while the Edge runs,
\* though the marketplace cannot be reached or has none; nor by a restart, as long as the
\* cache on disk can be read. Only a restart after a torn write, which no marketplace
\* follows, loses them (refresh_ads).
AdsSurvive == described \/ disk # 0 => ads \notin {0, Unset}

\* A declared capability that works again is told to Brain as available, a composite
\* when its last part is back; no earlier failure of its probe is remembered.
Offered(c) == c \in declared /\ Available(c)
OfferSettled(c) == c \in told \/ ~Offered(c)
=============================================================================
