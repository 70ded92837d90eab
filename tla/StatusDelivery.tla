--------------------------- MODULE StatusDelivery ---------------------------
(***************************************************************************)
(* What reporting the outcome of one-shot steps promises: a step is        *)
(* decided once, Brain learns what was decided and keeps what it has       *)
(* learnt. A step that cannot run any more may be given up: Brain is told  *)
(* a failure nobody records, and the step is not decided after that.       *)
(* LedgerSync implements it.                                               *)
(***************************************************************************)
CONSTANTS
    Steps,      \* the steps of the plan
    Outcomes,   \* the outcomes a step can have
    Failure,    \* the outcome of a step that is given up
    Open        \* not decided, not known

VARIABLES
    decided,    \* what the edge decided of each step
    known       \* what Brain knows of each step

vars == <<decided, known>>

Init ==
    /\ decided = [n \in Steps |-> Open]
    /\ known = [n \in Steps |-> Open]

Decide(n) ==
    /\ decided[n] = Open /\ known[n] = Open
    /\ \E o \in Outcomes : decided' = [decided EXCEPT ![n] = o]
    /\ UNCHANGED known

Learn(n) ==
    /\ known[n] = Open /\ decided[n] # Open
    /\ known' = [known EXCEPT ![n] = decided[n]]
    /\ UNCHANGED decided

GiveUp(n) ==
    /\ known[n] = Open /\ decided[n] = Open
    /\ known' = [known EXCEPT ![n] = Failure]
    /\ UNCHANGED decided

Next == \E n \in Steps : Decide(n) \/ Learn(n) \/ GiveUp(n)

Spec == Init /\ [][Next]_vars
=============================================================================
