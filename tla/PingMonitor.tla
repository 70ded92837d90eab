---------------------------- MODULE PingMonitor ----------------------------
(***************************************************************************)
(* The intranet ping monitor (intranet_ping_monitor.py): a thread that     *)
(* pings the hosts of the house one after another, looks for them anew now *)
(* and then, and must end soon after the agent asks it to.                 *)
(***************************************************************************)
EXTENDS Naturals, FiniteSets

CONSTANTS
    Hosts,        \* addresses of the subnet
    Gateway,      \* one of them
    Targets,      \* MAC_EDGE_INTRANET_PING_TARGETS
    Renew         \* rounds between two searches for hosts

VARIABLES
    pingMode,     \* settings.mode
    thread,       \* none, searching, round or pinging
    stopping,     \* _stop
    up,           \* hosts that answer
    peers,        \* _peers
    todo,         \* hosts left in this search or round
    heard,        \* hosts that answered this search
    age,          \* rounds since the last search
    late          \* history: pings begun after the stop

vars == <<pingMode, thread, stopping, up, peers, todo, heard, age, late>>

LateMore == late' = late + (IF stopping THEN 1 ELSE 0)

\* _refresh_peers when it is due; a round otherwise.
Due == pingMode = "lan" /\ age >= Renew

-----------------------------------------------------------------------------

Start ==
    /\ thread = "none" /\ ~stopping /\ ~(pingMode = "targets" /\ Targets = {})
    /\ thread' = IF pingMode = "lan" THEN "searching" ELSE "round"
    /\ todo' = Hosts /\ heard' = {} /\ age' = 0
    /\ UNCHANGED <<pingMode, stopping, up, peers, late>>

\* The agent's stop: the event is set, and five seconds are waited for the thread.
Stop == ~stopping /\ stopping' = TRUE /\ UNCHANGED <<pingMode, thread, up, peers, todo, heard, age, late>>

\* discover_lan_peers: every host of the subnet, unless the monitor is stopping.
SearchOnFully == todo # {}
SearchOn == todo # {} /\ ~stopping

SearchPing ==
    /\ thread = "searching" /\ SearchOn
    /\ \E h \in todo : todo' = todo \ {h} /\ heard' = IF h \in up THEN heard \union {h} ELSE heard
    /\ LateMore /\ UNCHANGED <<pingMode, thread, stopping, up, peers, age>>

SearchDone ==
    /\ thread = "searching" /\ ~SearchOn
    /\ peers' = heard /\ thread' = "round" /\ age' = 0 /\ todo' = {}
    /\ UNCHANGED <<pingMode, stopping, up, heard, late>>

\* _current_hosts.
Current == CASE pingMode = "gateway" -> {Gateway} [] pingMode = "targets" -> Targets [] OTHER -> peers

\* The head of the loop: ends if it is stopping, searches if it is due.
RoundBegins ==
    /\ thread = "round"
    /\ thread' = IF stopping THEN "none" ELSE IF Due THEN "searching" ELSE "pinging"
    /\ todo' = IF stopping THEN {} ELSE IF Due THEN Hosts ELSE Current
    /\ heard' = {} /\ UNCHANGED <<pingMode, stopping, up, peers, age, late>>

RoundPing ==
    /\ thread = "pinging" /\ todo # {} /\ ~stopping
    /\ \E h \in todo : todo' = todo \ {h}
    /\ LateMore /\ UNCHANGED <<pingMode, thread, stopping, up, peers, heard, age>>

\* The statistics and the wait, which a stop cuts short.
RoundDone ==
    /\ thread = "pinging" /\ (todo = {} \/ stopping)
    /\ thread' = "round" /\ todo' = {} /\ age' = IF age < Renew THEN age + 1 ELSE age
    /\ UNCHANGED <<pingMode, stopping, up, peers, heard, late>>

Comes == \E h \in Hosts : up' = (up \ {h}) \union ({h} \ up) /\ UNCHANGED <<pingMode, thread, stopping, peers, todo, heard, age, late>>

-----------------------------------------------------------------------------

Init ==
    /\ pingMode \in {"lan", "gateway", "targets"} /\ thread = "none" /\ stopping = FALSE
    /\ up = {Gateway} /\ peers = {} /\ todo = {} /\ heard = {} /\ age = 0 /\ late = 0

Next == Start \/ Stop \/ SearchPing \/ SearchDone \/ RoundBegins \/ RoundPing \/ RoundDone \/ Comes

Round == SearchPing \/ SearchDone \/ RoundBegins \/ RoundPing \/ RoundDone

-----------------------------------------------------------------------------

\* Types of the variables.
TypeOK ==
    /\ pingMode \in {"lan", "gateway", "targets"}
    /\ thread \in {"none", "searching", "round", "pinging"} /\ stopping \in BOOLEAN
    /\ up \subseteq Hosts /\ peers \subseteq Hosts /\ todo \subseteq Hosts \union Targets
    /\ heard \subseteq Hosts /\ age \in 0..Renew /\ late \in 0..Cardinality(Hosts)

\* The agent waits five seconds for the thread: whatever it was doing when it was
\* asked to stop, a whole search of the subnet too, no host is pinged after that.
QuietAfterStop == late = 0
=============================================================================
