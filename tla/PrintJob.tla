------------------------------ MODULE PrintJob ------------------------------
(***************************************************************************)
(* printer.print (xiaomi_aio_printer.py): a document is handed to a CUPS   *)
(* queue with lp, and when that fails with an IPP request of its own. The  *)
(* queue may stop or come back at any time, and either way's answer may be *)
(* lost.                                                                   *)
(***************************************************************************)
EXTENDS Naturals

CONSTANTS
    Printers,     \* worker threads
    Queues,       \* CUPS queues, in the order lpstat lists them
    Matching,     \* those whose name says it is the family's printer
    MaxPrints,    \* bound on the steps begun
    MaxOutages    \* bound on queues that stop or come back

VARIABLES
    accepting,    \* queues that lpstat -a lists
    hasLp, hasIpp, \* the tools that were found
    print,        \* per worker: its step
    jobs,         \* history, per worker: jobs CUPS has of its step
    unclear,      \* history: workers whose lp made a job and did not say so
    prints, outages

vars == <<accepting, hasLp, hasIpp, print, jobs, unclear, prints, outages>>

NoQueue == 0
First(S) == CHOOSE q \in S : \A r \in S : q <= r
Idle == [at |-> "idle", queue |-> NoQueue]
At(w, at) == print' = [print EXCEPT ![w].at = at]
Tools == <<hasLp, hasIpp>>

\* resolve_printer_name: the one asked for, else the first that matches.
Named(wish) == IF wish # NoQueue THEN wish
               ELSE IF accepting \intersect Matching # {} THEN First(accepting \intersect Matching) ELSE NoQueue

-----------------------------------------------------------------------------

\* print_from_params; the document is a file of this host by now.
Begin(w, wish) ==
    /\ print[w].at \in {"idle", "ok", "failed"} /\ prints < MaxPrints
    /\ print' = [print EXCEPT ![w] = [at |-> IF Named(wish) = NoQueue THEN "failed" ELSE "checking",
                                       queue |-> Named(wish)]]
    /\ jobs' = [jobs EXCEPT ![w] = 0] /\ unclear' = unclear \ {w}
    /\ prints' = prints + 1 /\ UNCHANGED <<accepting, Tools, outages>>

\* ensure_queue_accepting.
Check(w) ==
    /\ print[w].at = "checking"
    /\ At(w, IF print[w].queue \notin accepting THEN "failed" ELSE IF hasLp THEN "lp" ELSE "ipp")
    /\ UNCHANGED <<accepting, Tools, jobs, unclear, prints, outages>>

\* lp: an exit code other than 0, a time-out and an answer without a job id all fail.
AfterLpAnyway(id) == "ipp"
AfterLp(id) == IF id THEN "ok" ELSE "ipp"

Lp(w) ==
    /\ print[w].at = "lp"
    /\ \E made, id \in BOOLEAN :
          /\ made => print[w].queue \in accepting
          /\ id => made
          /\ At(w, AfterLp(id))
          /\ jobs' = [jobs EXCEPT ![w] = @ + (IF made THEN 1 ELSE 0)]
          /\ unclear' = IF made /\ ~id THEN unclear \union {w} ELSE unclear
    /\ UNCHANGED <<accepting, Tools, prints, outages>>

\* submit_print_ipp: ipptool, if there is one.
Ipp(w) ==
    /\ print[w].at = "ipp"
    /\ \E made, id \in BOOLEAN :
          /\ made => hasIpp /\ print[w].queue \in accepting
          /\ id => made
          /\ At(w, IF id THEN "ok" ELSE "failed")
          /\ jobs' = [jobs EXCEPT ![w] = @ + (IF made THEN 1 ELSE 0)]
    /\ UNCHANGED <<accepting, Tools, unclear, prints, outages>>

Outage ==
    /\ outages < MaxOutages /\ outages' = outages + 1
    /\ \E q \in Queues : accepting' = IF q \in accepting THEN accepting \ {q} ELSE accepting \union {q}
    /\ UNCHANGED <<Tools, print, jobs, unclear, prints>>

-----------------------------------------------------------------------------

Init ==
    /\ accepting \in SUBSET Queues /\ hasLp \in BOOLEAN /\ hasIpp \in BOOLEAN
    /\ print = [w \in Printers |-> Idle] /\ jobs = [w \in Printers |-> 0] /\ unclear = {}
    /\ prints = 0 /\ outages = 0

Next ==
    \/ \E w \in Printers : (\E wish \in Queues \union {NoQueue} : Begin(w, wish)) \/ Check(w) \/ Lp(w) \/ Ipp(w)
    \/ Outage

-----------------------------------------------------------------------------

\* Types of the variables.
TypeOK ==
    /\ accepting \subseteq Queues
    /\ print \in [Printers -> [at : {"idle", "checking", "lp", "ipp", "ok", "failed"},
                                 queue : {NoQueue} \union Queues]]
    /\ jobs \in [Printers -> 0..2] /\ unclear \subseteq Printers

\* The document is printed once: a second job is made only where lp made one and
\* its answer did not say so, and a step that ends well has made one.
PrintedOnce ==
    \A w \in Printers :
        /\ jobs[w] > 1 => w \in unclear
        /\ print[w].at = "ok" => jobs[w] >= 1
=============================================================================
