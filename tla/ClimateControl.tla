--------------------------- MODULE ClimateControl ---------------------------
(***************************************************************************)
(* climate.set (hisense_ac.py over hisense_cloud.py): a worker logs in to  *)
(* the cloud, picks the unit, reads whether it is on, turns it on if it    *)
(* must and sends the wanted settings one by one. Several workers, and the *)
(* remote control in somebody's hand, may do so at once; and the cloud's   *)
(* reading lags: it may be of a moment when the unit was the other way.    *)
(***************************************************************************)
EXTENDS Naturals, Sequences, FiniteSets

CONSTANTS
    Workers,      \* worker threads that run climate.set
    Units,        \* the air conditioners of the account
    Bound,        \* MAC_EDGE_HISENSE_DEVICES
    Settings,     \* what can be set, in the order it is sent
    MaxRequests,  \* bound on the steps begun
    MaxMishaps    \* bound on refusals, missing or late statuses, lost answers, the remote

VARIABLES
    climate,      \* per worker: its step
    unitOn,       \* the units that are on
    taken,        \* history, per worker: how often the cloud took each command
    landed,       \* history, per worker: settings taken while the unit was on
    disturbed,    \* history: workers whose unit was turned off under them, or said to be on
    requests, mishaps   \* bounds

vars == <<climate, unitOn, taken, landed, disturbed, requests, mishaps>>

Any == "any"
Commands == {"on", "off"} \union {Settings[i] : i \in 1..Len(Settings)}
Idle == [at |-> "idle", unit |-> Any, power |-> "none", wants |-> {}, plan |-> {}, tries |-> 0]
History == <<taken, landed, disturbed>>

\* What parse_climate_params lets through: something, and no setting with "off".
Requests ==
    {r \in [power : {"none", "on", "off"}, wants : SUBSET (Commands \ {"on", "off"})] :
        /\ r.power # "none" \/ r.wants # {}
        /\ r.power = "off" => r.wants = {}}

\* resolve_bound_device and _pick_device: the unit named, or the only one.
Resolved(named) ==
    IF named # Any THEN {named} \intersect Units
    ELSE IF Cardinality(Bound) = 1 THEN Bound \intersect Units
    ELSE IF Bound = {} /\ Cardinality(Units) = 1 THEN Units
    ELSE {}

\* Mutant: the unit is turned on only when that was asked for.
PlanAsked(s, on) ==
    IF s.power = "off" THEN {"off"}
    ELSE (IF s.power = "on" /\ ~on THEN {"on"} ELSE {}) \union s.wants

\* The commands of apply_climate, after it has read whether the unit is on.
Plan(s, on) ==
    IF s.power = "off" THEN {"off"}
    ELSE (IF ~on THEN {"on"} ELSE {}) \union s.wants

\* They are sent in the order of the code: the power, then the settings.
Order == <<"on", "off">> \o Settings
First(plan) ==
    Order[CHOOSE i \in DOMAIN Order : Order[i] \in plan /\ \A j \in 1..(i - 1) : Order[j] \notin plan]

Stays(w) == UNCHANGED <<unitOn, taken, landed, disturbed, requests>>
Mishap == mishaps < MaxMishaps /\ mishaps' = mishaps + 1
Goes(w, at) == climate' = [climate EXCEPT ![w].at = at]

-----------------------------------------------------------------------------

\* set_from_params, connect_ac: log in, list the homes, list the units.
Begin(w, r, named) ==
    /\ climate[w].at \in {"idle", "ok", "failed"} /\ requests < MaxRequests
    /\ Resolved(named) # {}
    /\ \E u \in Resolved(named) :
          LET s == [Idle EXCEPT !.at = "reading", !.unit = u, !.power = r.power, !.wants = r.wants]
          IN climate' = [climate EXCEPT ![w] =
                IF r.power = "off" THEN [s EXCEPT !.at = "sending", !.plan = Plan(s, TRUE), !.tries = 1]
                ELSE s]
    /\ taken' = [taken EXCEPT ![w] = [c \in Commands |-> 0]]
    /\ landed' = [landed EXCEPT ![w] = {}] /\ disturbed' = disturbed \ {w}
    /\ requests' = requests + 1 /\ UNCHANGED <<unitOn, mishaps>>

\* Every call may fail on the way out, the login's too: the step fails.
CallFails(w) ==
    /\ climate[w].at \in {"reading", "sending", "confirming", "closing"} /\ Mishap
    /\ Goes(w, "failed") /\ Stays(w)

\* The status says whether the unit is on.
Reads(w, on) ==
    /\ climate[w].at = "reading"
    /\ LET plan == Plan(climate[w], on)
       IN climate' = [climate EXCEPT ![w].at = IF plan = {} THEN "closing" ELSE "sending",
                                     ![w].plan = plan, ![w].tries = 1]
    /\ UNCHANGED <<unitOn, taken, landed, requests>>

ReadStatus(w) == Reads(w, climate[w].unit \in unitOn) /\ UNCHANGED <<disturbed, mishaps>>

\* "Cloud readback lags": the reading is of before the unit's last change.
ReadLate(w) ==
    LET on == climate[w].unit \in unitOn
    IN Reads(w, ~on) /\ Mishap /\ disturbed' = IF on THEN disturbed ELSE disturbed \union {w}

\* check_status gives nothing, even with a fresh token.
StatusMissing(w) ==
    /\ climate[w].at \in {"reading", "confirming", "closing"} /\ Mishap
    /\ Goes(w, IF climate[w].at = "closing" THEN "ok" ELSE "failed") /\ Stays(w)

\* The cloud takes a command: the unit's power changes, a setting lands if it is on.
Powered(u, c) == CASE c = "on" -> unitOn \union {u} [] c = "off" -> unitOn \ {u} [] OTHER -> unitOn
Takes(w) ==
    LET c == First(climate[w].plan)
        u == climate[w].unit
    IN /\ taken' = [taken EXCEPT ![w][c] = @ + 1]
       /\ unitOn' = Powered(u, c)
       /\ landed' = [landed EXCEPT ![w] = @ \union (IF u \in unitOn THEN {c} \ {"on", "off"} ELSE {})]
       /\ disturbed' = disturbed \union
             {v \in Workers \ {w} : c = "off" /\ climate[v].unit = u}

\* The command is done with: the next one, or the last reading.
Advanced(s) ==
    LET rest == s.plan \ {First(s.plan)}
    IN  IF rest # {} THEN [s EXCEPT !.at = "sending", !.plan = rest, !.tries = 1]
        ELSE [s EXCEPT !.at = "closing", !.plan = {}]

\* _post_command answered True: the answer held the status.
Sent(w) ==
    /\ climate[w].at = "sending" /\ Takes(w)
    /\ climate' = [climate EXCEPT ![w] = Advanced(@)] /\ UNCHANGED <<requests, mishaps>>

\* It answered False: a new token, and the command once more.
AfterRefusal(s) == IF s.tries = 1 THEN [s EXCEPT !.tries = 2] ELSE [s EXCEPT !.at = "failed"]

AfterBareRefused(s) == AfterRefusal(s)

\* It answered None: taken, no status, which is asked for on its own.
AfterBare(s) == [s EXCEPT !.at = "confirming"]

SentBare(w) ==
    /\ climate[w].at = "sending" /\ Mishap /\ Takes(w)
    /\ climate' = [climate EXCEPT ![w] = AfterBare(@)] /\ UNCHANGED requests

SendRefused(w) ==
    /\ climate[w].at = "sending" /\ Mishap
    /\ climate' = [climate EXCEPT ![w] = AfterRefusal(@)] /\ Stays(w)

Confirm(w) ==
    /\ climate[w].at = "confirming" /\ climate' = [climate EXCEPT ![w] = Advanced(@)]
    /\ UNCHANGED <<unitOn, taken, landed, disturbed, requests, mishaps>>

\* The last reading is for the indoor temperature; the request is announced.
Announce(w) == climate[w].at = "closing" /\ Goes(w, "ok") /\ Stays(w) /\ UNCHANGED mishaps

\* The remote control turns a unit on, or off.
RemoteOn(u) ==
    /\ u \notin unitOn /\ Mishap /\ unitOn' = unitOn \union {u}
    /\ UNCHANGED <<climate, taken, landed, disturbed, requests>>

RemoteOff(u) ==
    /\ u \in unitOn /\ Mishap /\ unitOn' = unitOn \ {u}
    /\ disturbed' = disturbed \union {v \in Workers : climate[v].unit = u}
    /\ UNCHANGED <<climate, taken, landed, requests>>

-----------------------------------------------------------------------------

Init ==
    /\ climate = [w \in Workers |-> Idle] /\ unitOn \in SUBSET Units
    /\ taken = [w \in Workers |-> [c \in Commands |-> 0]]
    /\ landed = [w \in Workers |-> {}] /\ disturbed = {} /\ requests = 0 /\ mishaps = 0

Next ==
    \/ \E w \in Workers :
          \/ \E r \in Requests, named \in Units \union {Any} : Begin(w, r, named)
          \/ CallFails(w) \/ ReadStatus(w) \/ ReadLate(w) \/ StatusMissing(w) \/ Sent(w)
          \/ SentBare(w) \/ SendRefused(w) \/ Confirm(w) \/ Announce(w)
    \/ \E u \in Units : RemoteOn(u) \/ RemoteOff(u)

-----------------------------------------------------------------------------

\* Types of the variables.
TypeOK ==
    /\ climate \in [Workers -> [at : {"idle", "reading", "sending", "confirming", "closing", "ok", "failed"},
                                unit : Units \union {Any}, power : {"none", "on", "off"},
                                wants : SUBSET Commands, plan : SUBSET Commands, tries : 0..2]]
    /\ unitOn \subseteq Units /\ taken \in [Workers -> [Commands -> 0..MaxRequests]]
    /\ landed \in [Workers -> SUBSET Commands] /\ disturbed \subseteq Workers

\* The cloud takes no command of a step twice, though a refused one is sent again
\* with a new token and one taken without an answer is asked about.
TakenOnce == \A w \in Workers, c \in Commands : taken[w][c] <= 1

\* What a step announces is so: each setting it wanted reached a unit that was on, unless
\* another step or the remote turned the unit off under it, or the cloud's late reading
\* said it was on.
AnnouncedLanded ==
    \A w \in Workers :
        climate[w].at = "ok" /\ w \notin disturbed => climate[w].wants \subseteq landed[w]
=============================================================================
