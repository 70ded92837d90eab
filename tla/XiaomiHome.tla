----------------------------- MODULE XiaomiHome -----------------------------
(***************************************************************************)
(* aquarium.set and lock.status (xiaomi_aquarium.py, xiaomi_lock.py) over  *)
(* one cloud session that the workers share (xiaomi_cloud.py: _SESSION). A *)
(* 403 takes the session's token away, whoever else is using it.           *)
(***************************************************************************)
EXTENDS Naturals, FiniteSets

CONSTANTS
    Callers,       \* worker threads
    MaxSteps,      \* bound on the steps begun
    MaxRefusals    \* bound on 403s and other failures

VARIABLES
    xiaomi,        \* per worker: its step
    shared,        \* _SESSION
    tokens,        \* clouds that hold a service token
    logins,        \* history: log-ins done; their number names the clouds
    written, fed,  \* history, per worker: writes and meals of its step
    steps, refusals

vars == <<xiaomi, shared, tokens, logins, written, fed, steps, refusals>>

NoCloud == 0
\* What a step asks for: fish tank writes and a meal, or the lock's state.
Asks == {[set |-> TRUE, feed |-> FALSE, lock |-> FALSE], [set |-> FALSE, feed |-> TRUE, lock |-> FALSE],
         [set |-> TRUE, feed |-> TRUE, lock |-> FALSE], [set |-> FALSE, feed |-> FALSE, lock |-> TRUE]}
Rest == [at |-> "rest", cloud |-> NoCloud, ask |-> [set |-> FALSE, feed |-> FALSE, lock |-> FALSE]]

Fails(w) == xiaomi' = [xiaomi EXCEPT ![w].at = "failed", ![w].cloud = NoCloud]
Refusal == refusals < MaxRefusals /\ refusals' = refusals + 1

-----------------------------------------------------------------------------

\* connect_cloud looks for a shared session with a token ...
UsableNever == NoCloud
Usable == IF shared \in tokens THEN shared ELSE NoCloud

BeginStep(w, ask) ==
    /\ xiaomi[w].at \in {"rest", "ok", "failed"} /\ steps < MaxSteps
    /\ xiaomi' = [xiaomi EXCEPT ![w] = [at |-> IF Usable = NoCloud THEN "connecting" ELSE "listing",
                                         cloud |-> Usable, ask |-> ask]]
    /\ written' = [written EXCEPT ![w] = 0] /\ fed' = [fed EXCEPT ![w] = 0]
    /\ steps' = steps + 1 /\ UNCHANGED <<shared, tokens, logins, refusals>>

\* ... or logs in with a cloud of its own, which becomes the shared one.
LogsIn(w) ==
    /\ xiaomi[w].at = "connecting"
    /\ logins' = logins + 1 /\ shared' = logins + 1 /\ tokens' = tokens \union {logins + 1}
    /\ xiaomi' = [xiaomi EXCEPT ![w].at = "listing", ![w].cloud = logins + 1]
    /\ UNCHANGED <<written, fed, steps, refusals>>

\* request logs in again when another worker's 403 has taken the token.
LogsInAgain(w) ==
    /\ xiaomi[w].cloud # NoCloud /\ xiaomi[w].cloud \notin tokens
    /\ logins' = logins + 1 /\ tokens' = tokens \union {xiaomi[w].cloud}
    /\ UNCHANGED <<xiaomi, shared, written, fed, steps, refusals>>

\* What comes after a call that went well: pick_device, apply_aquarium, status_from_client.
AfterList(ask) == IF ask.set THEN "writing" ELSE IF ask.feed THEN "feeding" ELSE "looking"
AfterWrite(ask) == IF ask.feed THEN "feeding" ELSE "looking"

Answered(w) ==
    LET s == xiaomi[w]
    IN /\ s.cloud \in tokens
       /\ \/ /\ s.at = "listing" /\ xiaomi' = [xiaomi EXCEPT ![w].at = AfterList(s.ask)]
             /\ UNCHANGED <<written, fed>>
          \/ /\ s.at = "listing" /\ s.ask.lock      \* the lock is offline: that is its state
             /\ xiaomi' = [xiaomi EXCEPT ![w].at = "ok", ![w].cloud = NoCloud] /\ UNCHANGED <<written, fed>>
          \/ /\ s.at = "writing" /\ xiaomi' = [xiaomi EXCEPT ![w].at = AfterWrite(s.ask)]
             /\ written' = [written EXCEPT ![w] = @ + 1] /\ UNCHANGED fed
          \/ /\ s.at = "feeding" /\ xiaomi' = [xiaomi EXCEPT ![w].at = "looking"]
             /\ fed' = [fed EXCEPT ![w] = @ + 1] /\ UNCHANGED written
          \/ /\ s.at = "looking" /\ xiaomi' = [xiaomi EXCEPT ![w].at = "ok", ![w].cloud = NoCloud]
             /\ UNCHANGED <<written, fed>>
       /\ UNCHANGED <<shared, tokens, logins, steps, refusals>>

\* 403: the token goes, from the cloud every worker shares.
Refused(w) ==
    /\ xiaomi[w].cloud \in tokens /\ Refusal
    /\ tokens' = tokens \ {xiaomi[w].cloud} /\ Fails(w)
    /\ UNCHANGED <<shared, logins, written, fed, steps>>

\* Another failure, a write the tank refuses, no such device, or a token that
\* went between request's log-in and its use of it.
CallErrs(w) ==
    /\ xiaomi[w].at \in {"connecting", "listing", "writing", "feeding", "looking"} /\ Refusal /\ Fails(w)
    /\ UNCHANGED <<shared, tokens, logins, written, fed, steps>>

\* The answer to a write or a meal is lost: it was done, and the step failed.
AnswerLost(w) ==
    /\ xiaomi[w].at \in {"writing", "feeding"} /\ xiaomi[w].cloud \in tokens /\ Refusal /\ Fails(w)
    /\ written' = [written EXCEPT ![w] = @ + (IF xiaomi[w].at = "writing" THEN 1 ELSE 0)]
    /\ fed' = [fed EXCEPT ![w] = @ + (IF xiaomi[w].at = "feeding" THEN 1 ELSE 0)]
    /\ UNCHANGED <<shared, tokens, logins, steps>>

-----------------------------------------------------------------------------

Init ==
    /\ xiaomi = [w \in Callers |-> Rest] /\ shared = NoCloud /\ tokens = {} /\ logins = 0
    /\ written = [w \in Callers |-> 0] /\ fed = [w \in Callers |-> 0]
    /\ steps = 0 /\ refusals = 0

Next ==
    \E w \in Callers :
        \/ \E ask \in Asks : BeginStep(w, ask)
        \/ LogsIn(w) \/ LogsInAgain(w) \/ Answered(w) \/ Refused(w) \/ CallErrs(w) \/ AnswerLost(w)

-----------------------------------------------------------------------------

\* Types of the variables.
TypeOK ==
    /\ xiaomi \in [Callers -> [at : {"rest", "connecting", "listing", "writing", "feeding", "looking", "ok", "failed"},
                                 cloud : 0..logins, ask : Asks \union {Rest.ask}]]
    /\ shared \in 0..logins /\ tokens \subseteq 1..logins
    /\ written \in [Callers -> 0..MaxSteps] /\ fed \in [Callers -> 0..MaxSteps]

\* The account is not logged in to for every step: each worker that found no
\* session logs in once, and once more for each token that was taken away.
LoginsBounded == logins <= (1 + refusals) * Cardinality(Callers)

\* A step that ends well wrote and fed exactly what it was asked, once, and one
\* that only asks for the lock's state changes nothing.
DoneOnce ==
    \A w \in Callers :
        /\ xiaomi[w].at = "ok" => /\ written[w] = IF xiaomi[w].ask.set THEN 1 ELSE 0
                                  /\ fed[w] = IF xiaomi[w].ask.feed THEN 1 ELSE 0
        /\ xiaomi[w].ask.lock => written[w] + fed[w] = 0
=============================================================================
