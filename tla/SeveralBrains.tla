---------------------------- MODULE SeveralBrains ----------------------------
(***************************************************************************)
(* One Edge that serves several Brains (multi_brain.py): intents are       *)
(* pulled from every Brain in turn, and a status goes to the Brain an      *)
(* intent came from, found by asking one after another when that is not    *)
(* known. What all of them are told with a heartbeat is CloudUsage.        *)
(***************************************************************************)
EXTENDS Naturals, Sequences, FiniteSets

CONSTANTS
    Brains,       \* 1..n, in configured order; 1 is the primary
    Ids,          \* intents
    Lost,         \* Brains that may stay away for ever
    MaxOutages    \* bound

VARIABLES
    offers,       \* per Brain: the intents it has
    down,         \* Brains that cannot be reached
    origin,       \* _SHARED_INTENT_ORIGIN, 0 for none
    report,       \* per intent: Brains still to be asked, <<>> when none is under way
    landed,       \* <<intent, Brain>>: a status was taken
    outages       \* bound

vars == <<offers, down, origin, report, landed, outages>>

intentVars == <<origin, report, landed>>
worldVars == <<offers, down, outages>>

Up == Brains \ down

-----------------------------------------------------------------------------
(* Intents and statuses.                                                   *)

\* The first Brain that offers an intent among those that answer.
FirstOf(i, answering) == CHOOSE b \in answering : i \in offers[b] /\ \A c \in answering : i \in offers[c] => b <= c

\* Mutant: only the primary's intents are remembered.
RememberPrimary(answering) ==
    [i \in Ids |-> IF 1 \in answering /\ i \in offers[1] THEN 1 ELSE origin[i]]

\* remember_intent_origin, for every intent that was pulled.
Remember(answering) ==
    [i \in Ids |-> IF \E b \in answering : i \in offers[b] THEN FirstOf(i, answering) ELSE origin[i]]

\* pull_intents: a Brain that fails is passed over, a secondary also when it is slow;
\* of two intents with one id the first Brain's is taken.
Pull ==
    /\ \E slow \in SUBSET ((Up \cap Lost) \ {1}) :
         origin' = Remember(Up \ slow)
    /\ UNCHANGED <<report, landed>> /\ UNCHANGED worldVars

\* _brain_probe_order: the origin, or the primary, and then the others.
ProbeOrder(i) ==
    LET first == IF origin[i] # 0 THEN origin[i] ELSE 1
    IN  [k \in 1..Cardinality(Brains) |->
            IF k = 1 THEN first ELSE IF k <= first THEN k - 1 ELSE k]

Taken(i) == \E b \in Brains : <<i, b>> \in landed

\* A status of an intent the ledger has, until one is taken.
StartReport(i) ==
    /\ report[i] = <<>> /\ ~Taken(i) /\ \E b \in Brains : i \in offers[b]
    /\ report' = [report EXCEPT ![i] = ProbeOrder(i)]
    /\ UNCHANGED <<origin, landed>> /\ UNCHANGED worldVars

\* _call_routed: an error that is not "no such intent" ends the report; a Brain that
\* does not know the intent hands it to the next.
AskBrain(i) ==
    /\ report[i] # <<>>
    /\ LET b == Head(report[i])
       IN  \/ /\ b \in down
              /\ report' = [report EXCEPT ![i] = <<>>] /\ UNCHANGED <<origin, landed>>
           \/ /\ b \in Up /\ i \notin offers[b]
              /\ report' = [report EXCEPT ![i] = Tail(@)] /\ UNCHANGED <<origin, landed>>
           \/ /\ b \in Up /\ i \in offers[b]
              /\ report' = [report EXCEPT ![i] = <<>>]
              /\ origin' = [origin EXCEPT ![i] = b]
              /\ landed' = landed \cup {<<i, b>>}
    /\ UNCHANGED worldVars

-----------------------------------------------------------------------------
GoesDown(b) ==
    /\ b \in Up /\ outages < MaxOutages
    /\ outages' = outages + 1 /\ down' = down \cup {b}
    /\ UNCHANGED offers /\ UNCHANGED intentVars

ComesBack(b) ==
    /\ b \in down /\ down' = down \ {b}
    /\ UNCHANGED <<offers, outages>> /\ UNCHANGED intentVars

\* The map is in memory only.
Restart ==
    /\ outages < MaxOutages /\ outages' = outages + 1
    /\ origin' = [i \in Ids |-> 0] /\ report' = [i \in Ids |-> <<>>]
    /\ UNCHANGED <<landed, offers, down>>

Init ==
    /\ offers \in [Brains -> SUBSET Ids]
    /\ down = {} /\ outages = 0
    /\ origin = [i \in Ids |-> 0] /\ report = [i \in Ids |-> <<>>] /\ landed = {}

Next ==
    \/ Pull \/ \E i \in Ids : StartReport(i) \/ AskBrain(i)
    \/ \E b \in Brains : GoesDown(b) \/ ComesBack(b)
    \/ Restart

-----------------------------------------------------------------------------
\* Types of the variables.
TypeOK ==
    /\ offers \in [Brains -> SUBSET Ids] /\ down \subseteq Brains
    /\ origin \in [Ids -> Brains \cup {0}] /\ \A i \in Ids : Len(report[i]) <= Cardinality(Brains)
    /\ landed \subseteq Ids \X Brains

\* A status of an intent of a Brain that comes back from every outage is taken at last,
\* though another Brain, the primary too, is away for ever and though the Runtime forgets
\* where an intent came from when it restarts (the next pull tells it again).
Waits(i) == \E b \in Brains \ Lost : i \in offers[b] /\ \A c \in Brains \ {b} : i \notin offers[c]
=============================================================================
