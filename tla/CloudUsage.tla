----------------------------- MODULE CloudUsage -----------------------------
(***************************************************************************)
(* The counts of cloud calls (cloud_usage.py), which every Brain is told   *)
(* with a heartbeat (multi_brain.py): that of the heartbeat thread, or the *)
(* one that follows a registration in the control thread (agent.py),       *)
(* beside it.                                                              *)
(***************************************************************************)
EXTENDS Naturals, FiniteSets

CONSTANTS
    Brains,       \* 1..n, in configured order
    MaxCloudCalls, MaxStops   \* bounds

VARIABLES
    beat,         \* per sender, its heartbeat: the Brain it is at, 0 between two of them
    usage,        \* the counts' file
    delta,        \* per sender: the counts its heartbeat carries
    counted,      \* per sender and Brain: what that Brain was told
    made,         \* cloud calls made
    retold,       \* history: the file was not emptied after a heartbeat
    crossed,      \* history: two heartbeats under way carried the file's counts
    stops         \* bound

vars == <<beat, usage, delta, counted, made, retold, crossed, stops>>

\* The threads that send a heartbeat: its own, and the control thread when it registers.
Senders == {"heartbeat", "register"}

\* increment: by either process, under the file's lock.
CloudCall ==
    /\ made < MaxCloudCalls /\ made' = made + 1 /\ usage' = usage + 1
    /\ UNCHANGED <<beat, delta, counted, retold, crossed, stops>>

\* snapshot: the file is read, and stays as it is. (A heartbeat that finds nothing in it
\* neither tells nor drains anything.)
Snapshot(s) ==
    /\ usage > 0
    /\ beat[s] = 0 /\ beat' = [beat EXCEPT ![s] = 1] /\ delta' = [delta EXCEPT ![s] = usage]
    /\ crossed' = (crossed \/ \E r \in Senders : beat[r] # 0)
    /\ UNCHANGED <<usage, counted, made, retold, stops>>

\* The request may arrive though its answer does not; a Brain that does not know the
\* Edge (401) ends the heartbeat.
BeatBrain(s) ==
    /\ beat[s] \in Brains
    /\ LET b == beat[s]
       IN  \/ /\ counted' = [counted EXCEPT ![s][b] = @ + delta[s]]
              /\ beat' = [beat EXCEPT ![s] = b + 1]
           \/ UNCHANGED counted /\ beat' = [beat EXCEPT ![s] = b + 1]
           \/ UNCHANGED counted /\ beat' = [beat EXCEPT ![s] = Cardinality(Brains) + 1]
    /\ UNCHANGED <<usage, delta, made, retold, crossed, stops>>

Over(s) ==
    /\ beat[s] > Cardinality(Brains)
    /\ beat' = [beat EXCEPT ![s] = 0] /\ delta' = [delta EXCEPT ![s] = 0]
    /\ UNCHANGED <<counted, made, crossed>>

\* Mutant: the file is emptied only when every Brain has heard of it.
DrainTold(s) ==
    /\ Over(s)
    /\ usage' = (IF \A b \in Brains : counted[s][b] > 0 THEN 0 ELSE usage)
    /\ UNCHANGED <<retold, stops>>

\* drain: the finally clause empties the file, whatever was added meanwhile.
Drain(s) ==
    /\ Over(s)
    /\ usage' = 0 /\ UNCHANGED <<retold, stops>>

\* drain, when the file cannot be written.
DrainFails(s) ==
    /\ Over(s)
    /\ stops < MaxStops /\ stops' = stops + 1
    /\ retold' = TRUE /\ UNCHANGED usage

\* The Runtime stops, in the middle of a heartbeat perhaps; the file stays.
Restart ==
    /\ stops < MaxStops /\ stops' = stops + 1
    /\ beat' = [s \in Senders |-> 0] /\ delta' = [s \in Senders |-> 0]
    /\ retold' = (retold \/ \E s \in Senders : beat[s] > 1)
    /\ UNCHANGED <<usage, counted, made, crossed>>

Init ==
    /\ beat = [s \in Senders |-> 0] /\ delta = [s \in Senders |-> 0] /\ usage = 0
    /\ counted = [s \in Senders |-> [b \in Brains |-> 0]]
    /\ made = 0 /\ retold = FALSE /\ crossed = FALSE /\ stops = 0

Next ==
    \/ CloudCall \/ Restart
    \/ \E s \in Senders : Snapshot(s) \/ BeatBrain(s) \/ Drain(s) \/ DrainFails(s)

-----------------------------------------------------------------------------
\* Types of the variables.
TypeOK ==
    /\ beat \in [Senders -> 0..(Cardinality(Brains) + 1)]
    /\ usage \in 0..MaxCloudCalls /\ delta \in [Senders -> 0..MaxCloudCalls]
    /\ counted \in [Senders -> [Brains -> Nat]] /\ made \in 0..MaxCloudCalls
    /\ retold \in BOOLEAN /\ crossed \in BOOLEAN

\* Each of the two heartbeats tells a Brain of a cloud call once at most, whatever request
\* fails, though the file goes on being written, and may be emptied by the other, while
\* it is under way (heartbeat drains in its finally clause). Together they tell it twice
\* only when both were under way with what the file held, which the code does not rule
\* out; a file that is not emptied after a heartbeat is told again.
CountedOnce ==
    ~retold => \A b \in Brains :
        /\ \A s \in Senders : counted[s][b] <= made
        /\ ~crossed => counted["heartbeat"][b] + counted["register"][b] <= made
=============================================================================
