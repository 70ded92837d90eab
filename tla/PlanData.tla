------------------------------ MODULE PlanData ------------------------------
(***************************************************************************)
(* The values that go from step to step of a plan (executor.py:            *)
(* _hydrate_context, runtime_context.py, and local_ledger.py for the steps *)
(* of other nodes). One name, $v, is followed: a step may produce it,      *)
(* declared as a context output or not, and may use it. Producing step n   *)
(* gives v the value n; the intent itself may come with one, Given.        *)
(***************************************************************************)
EXTENDS Naturals

CONSTANTS
    Last    \* the plan's steps are 1..Last

VARIABLES
    plan,       \* per step: where it runs, and what it does with v
    given,      \* whether the intent's ctx_param has v
    status,     \* per step: as this Mac has it
    outputs,    \* per step: v in its "outputs", None when it has none
    bags,       \* per step: v in "step_outputs"
    brain,      \* Brain's record: the steps done elsewhere that it knows of
    context,    \* v in the RuntimeContext of the pass under way
    passing,    \* a pass of execute_intent is under way
    copy,       \* per step: its status as the pass copied it
    used        \* history, per step: the v it was run with, or Missing

vars == <<plan, given, status, outputs, bags, brain, context, passing, copy, used>>

Steps == 1..Last
None == 0
Given == Last + 1
Missing == Last + 2
\* A step that neither makes v nor uses it is left out: it stands for no more.
Kinds == {k \in [here : BOOLEAN, makes : BOOLEAN, declares : BOOLEAN, uses : BOOLEAN] :
             (k.makes \/ k.uses) /\ (k.declares => k.makes)}
NoCopy == [n \in Steps |-> "waiting"]
Done(n) == status[n] = "succeeded"

\* predecessors_all_succeeded.
Ready(st, n) == st[n] = "waiting" /\ \A m \in Steps : m < n => st[m] = "succeeded"

-----------------------------------------------------------------------------
(* _hydrate_context: the intent's own values, then every bag in the order  *)
(* of the steps, then the outputs in the plan; each value replaces the one *)
(* before.                                                                 *)

LastOf(f, S) == IF S = {} THEN None ELSE f[CHOOSE n \in S : \A m \in S : m <= n]
Over(new, old) == IF new # None THEN new ELSE old

\* _load_producer_bag passes over what is not declared, such as a display's echo.
WholeBag(f) == {n \in Steps : f[n] # None}
ProducerBag(f) == {n \in Steps : f[n] # None /\ plan[n].declares}

Hydrated ==
    Over(LastOf(outputs, {n \in ProducerBag(outputs) : Done(n)}),
         Over(LastOf(bags, ProducerBag(bags)), IF given THEN Given ELSE None))

PassBegins ==
    /\ ~passing /\ \E n \in Steps : Ready(status, n) /\ plan[n].here
    /\ passing' = TRUE /\ context' = Hydrated /\ copy' = status
    /\ UNCHANGED <<plan, given, status, outputs, bags, brain, used>>

\* resolve_params; without a value the step and the intent fail, for by now
\* every producer is done.  A step that succeeded publishes what it declares.
RunHere(n) ==
    /\ passing /\ Ready(copy, n) /\ plan[n].here
    /\ LET lacks == plan[n].uses /\ context = None
           out   == IF plan[n].makes THEN n ELSE None
       IN /\ used' = [used EXCEPT ![n] = IF ~plan[n].uses THEN None ELSE IF lacks THEN Missing ELSE context]
          /\ \/ /\ ~lacks /\ status' = [status EXCEPT ![n] = "succeeded"]
                /\ copy' = [copy EXCEPT ![n] = "succeeded"]
                /\ outputs' = [outputs EXCEPT ![n] = out] /\ bags' = [bags EXCEPT ![n] = Over(out, @)]
                /\ context' = IF plan[n].declares THEN Over(out, context) ELSE context
                /\ UNCHANGED passing
             \/ /\ status' = [status EXCEPT ![n] = "failed"] /\ passing' = FALSE /\ context' = None
                /\ copy' = NoCopy /\ UNCHANGED <<outputs, bags>>
    /\ UNCHANGED <<plan, given, brain>>

\* Nothing here can be run for now, or Mac Edge is started again.
PassEnds ==
    /\ passing /\ passing' = FALSE /\ context' = None /\ copy' = NoCopy
    /\ UNCHANGED <<plan, given, status, outputs, bags, brain, used>>

-----------------------------------------------------------------------------

\* Another node runs its step, once Brain has what goes before it from here.
RunThere(n) ==
    /\ Ready(status, n) /\ ~plan[n].here /\ n \notin brain /\ brain' = brain \union {n}
    /\ UNCHANGED <<plan, given, status, outputs, bags, context, passing, copy, used>>

\* _merge_foreign_progress.  _merge_foreign_outputs has already copied the bag, so
\* that it is no news, and the step's outputs stay away, unless Brain's plan
\* carries what the bag does not.
Peek(n) ==
    /\ n \in brain /\ ~Done(n)
    /\ status' = [status EXCEPT ![n] = "succeeded"]
    /\ bags' = [bags EXCEPT ![n] = IF plan[n].makes THEN n ELSE None]
    /\ \E more \in BOOLEAN :
          outputs' = [outputs EXCEPT ![n] = IF more /\ plan[n].makes THEN n ELSE None]
    /\ UNCHANGED <<plan, given, brain, context, passing, copy, used>>

-----------------------------------------------------------------------------

Init ==
    /\ plan \in [Steps -> Kinds] /\ given \in BOOLEAN
    /\ status = [n \in Steps |-> "waiting"] /\ outputs = [n \in Steps |-> None]
    /\ bags = [n \in Steps |-> None] /\ brain = {} /\ context = None /\ passing = FALSE
    /\ copy = NoCopy
    /\ used = [n \in Steps |-> None]

Next ==
    \/ PassBegins \/ PassEnds
    \/ \E n \in Steps : RunHere(n) \/ RunThere(n) \/ Peek(n)

-----------------------------------------------------------------------------

\* Types of the variables.
TypeOK ==
    /\ plan \in [Steps -> Kinds] /\ given \in BOOLEAN /\ passing \in BOOLEAN
    /\ {status, copy} \subseteq [Steps -> {"waiting", "succeeded", "failed"}]
    /\ outputs \in [Steps -> 0..Last] /\ bags \in [Steps -> 0..Last]
    /\ brain \subseteq Steps /\ context \in 0..Given /\ used \in [Steps -> 0..Missing]

Producers(n) == {m \in Steps : m < n /\ plan[m].makes /\ plan[m].declares}

\* A step runs with what a step before it made and declared, never with what one merely
\* echoed, nor with the intent's own value when one was made; it fails for want of a value
\* only if there is none. The value is never older than the last one made on this Mac:
\* only a value that another node made after it may be passed over.
InputIsProduced ==
    \A n \in Steps : used[n] # None =>
        IF Producers(n) = {} THEN used[n] = IF given THEN Given ELSE Missing
        ELSE /\ used[n] \in Producers(n)
             /\ \A m \in Producers(n) : m > used[n] => ~plan[m].here
=============================================================================
