----------------------------- MODULE TimingCheck -----------------------------
(***************************************************************************)
(* ExecutionTiming over a bounded set of timings, at every instant of a    *)
(* bounded time: a behaviour picks a timing and lets the time pass.        *)
(***************************************************************************)
EXTENDS ExecutionTiming

CONSTANTS
    Length,    \* the last instant looked at
    Timings    \* the timings looked at

VARIABLES t, now

vars == <<t, now>>

Init == t \in Timings /\ now = 0

Tick == now < Length /\ now' = now + 1 /\ UNCHANGED t

Next == Tick

Spec == Init /\ [][Next]_vars

Beats == 0..Length

\* The windows of two beats never meet: at any instant at most one beat of a series
\* may start, so a late beat cannot run beside the next one (miss_window_ms).
WindowsDisjoint ==
    IsRecurring(t) => Cardinality({b \in Beats : Gate(t, now, b) = "due"}) <= 1

\* No beat is passed over as the time goes: between too early and too late there is an instant at
\* which it is due, however short the interval.
NoBeatPassedOver ==
    [][now' # now =>
           \A b \in Beats : Gate(t, now, b) = "wait" => Gate(t, now', b) \in {"wait", "due"}]_vars

=============================================================================
