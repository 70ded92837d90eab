-------------------------- MODULE BeatScheduleProofs --------------------------
(***************************************************************************)
(* What holds of the beats for every timing, horizon and number of crashes *)
(* and of clocks set back: types, and, while no other intent is accepted,  *)
(* that the row follows memory, that beats run in their order, once and    *)
(* once more for each crash, and that nothing is caught up.                *)
(***************************************************************************)
EXTENDS BeatSchedule, ExecutionTimingProofs, FiniteSetTheorems, TLAPS

\* No other intent is accepted, so that only the executor writes beats.
NoIngest == MaxIngests = 0

Quiet == ingests = 0 /\ hyd.pc = "idle"

\* BeatPersisted, and which of its cases holds where.
NotePending ==
    IF ex.pc = "note" THEN mem = ex.beat /\ row.beat = mem - 1 /\ ex.next # "note"
                      ELSE mem = row.beat

\* No beat after the row's has been run: a crash goes back to the row.
RunsBehind == \A i \in DOMAIN runs : runs[i].beat <= row.beat

BInv == TypeOK /\ Quiet /\ NotePending /\ RunsBehind /\ BeatsInOrder

ExState  == [pc : ExPC, next : ExPC, copy : WAITING..FAILED, at : 0..Horizon, beat : Nat]
RowState == [status : WAITING..FAILED, beat : Nat, done : BOOLEAN]

\* The rest of the types: what the executor's actions change one at a time.
OtherTypes ==
    /\ now \in 0..Horizon
    /\ mem \in Nat
    /\ hyd \in [pc : {"idle", "set", "note"}, beat : Nat]
    /\ runs \in Seq([beat : Nat, at : 0..Horizon])
    /\ ended \in OptTime
    /\ syncs \in 0..MaxSyncs /\ ingests \in 0..MaxIngests /\ crashes \in 0..MaxCrashes

\* TypeOK by its parts.
LEMMA TypeParts == TypeOK <=> ex \in ExState /\ row \in RowState /\ OtherTypes
BY DEF TypeOK, ExState, RowState, OtherTypes

\* The same after a step.
LEMMA TypePartsPrimed == TypeOK' <=> ex' \in ExState /\ row' \in RowState /\ OtherTypes'
BY DEF TypeOK, ExState, RowState, OtherTypes

\* Recording a status keeps the row's shape.
LEMMA RecordType ==
  ASSUME row \in RowState, mem \in Nat, NEW status \in WAITING..FAILED, Record(status)
  PROVE  row' \in RowState
<1>1. row' = [status |-> status, beat |-> mem, done |-> row.done]
  BY DEF Record, RowState
<1> QED BY <1>1 DEF RowState

\* So does going on to another point of the pass.
LEMMA GoesType ==
  ASSUME ex \in ExState, NEW pc \in ExPC, Goes(pc)
  PROVE  ex' \in ExState
<1>1. ex' = [pc |-> pc, next |-> ex.next, copy |-> ex.copy, at |-> ex.at, beat |-> ex.beat]
  BY DEF Goes, ExState
<1> QED BY <1>1 DEF ExState

\* Advancing the beat keeps the shape of the executor and of the beat.
LEMMA AdvanceType ==
  ASSUME ex \in ExState, mem \in Nat, NEW next \in ExPC, Advance(next)
  PROVE  ex' \in ExState /\ mem' \in Nat
<1>1. ex' = [pc |-> "note", next |-> next, copy |-> ex.copy, at |-> ex.at, beat |-> mem + 1]
  BY DEF Advance, ExState
<1>2. mem + 1 \in Nat /\ "note" \in ExPC
  BY DEF ExPC
<1> QED BY <1>1, <1>2 DEF ExState, Advance

\* The executor at rest is of its shape.
LEMMA IdleType == ExIdle \in ExState
BY LimitsAssumption DEF ExIdle, ExState, ExPC, WAITING, FAILED

\* The types hold at the start.
LEMMA BeatTypesInit == Init => TypeOK
BY LimitsAssumption, IdleType, TypeParts
   DEF Init, RowState, OtherTypes, None, OptTime, WAITING, FAILED

\* Every step keeps the types.
LEMMA BeatTypesStep == TypeOK /\ [Next]_vars => TypeOK'
<1> USE LimitsAssumption
<1> SUFFICES ASSUME ex \in ExState, row \in RowState, OtherTypes, [Next]_vars
             PROVE  ex' \in ExState /\ row' \in RowState /\ OtherTypes'
  BY TypeParts, TypePartsPrimed
<1>p. "idle" \in ExPC /\ "find" \in ExPC /\ "final" \in ExPC /\ "running" \in ExPC
      /\ "ended" \in ExPC /\ "over" \in ExPC /\ "skip" \in ExPC /\ "advance" \in ExPC
      /\ "note" \in ExPC
  BY DEF ExPC
<1>s. WAITING \in WAITING..FAILED /\ RUNNING \in WAITING..FAILED
      /\ SUCCEEDED \in WAITING..FAILED /\ FAILED \in WAITING..FAILED
  BY DEF WAITING, RUNNING, SUCCEEDED, FAILED
<1>m. mem \in Nat /\ now \in 0..Horizon
  BY DEF OtherTypes
<1>1. CASE Take
  <2>1. ex' = [pc |-> "advance", next |-> "idle", copy |-> row.status, at |-> now, beat |-> 0]
    BY <1>1 DEF Take, ExIdle
  <2>2. row.status \in WAITING..FAILED /\ 0 \in Nat
    BY DEF RowState
  <2>3. ex' \in ExState
    BY <2>1, <2>2, <1>p, <1>m DEF ExState
  <2> QED BY <1>1, <2>3 DEF Take, OtherTypes
<1>2. CASE Note
  <2>1. ex.next \in ExPC /\ ex.beat \in Nat
    BY DEF ExState
  <2>2. row' = [status |-> row.status, beat |-> ex.beat, done |-> row.done]
    BY <1>2 DEF Note, RowState
  <2> QED BY <1>2, <2>1, <2>2, GoesType DEF Note, OtherTypes, RowState
<1>3. CASE Orphan
  <2>1. ex' = [pc |-> "find", next |-> ex.next, copy |-> WAITING, at |-> ex.at, beat |-> ex.beat]
    BY <1>3 DEF Orphan, ExState
  <2>2. ex' \in ExState
    BY <2>1, <1>p, <1>s DEF ExState
  <2> QED BY <1>3, <2>2 DEF Orphan, OtherTypes
<1>4. CASE SkipMissed
  BY <1>4, <1>p, <1>m, AdvanceType DEF SkipMissed, OtherTypes
<1>5. CASE SkippedAll
  <2> DEFINE st == IF Gate(T, ex.at, mem) = "terminal" THEN SUCCEEDED ELSE WAITING
  <2>1. st \in WAITING..FAILED
    BY <1>s
  <2>2. ex' = [ex EXCEPT !.pc = "find", !.copy = st]
    BY <1>5 DEF SkippedAll
  <2>3. row' = row \/ Record(st)
    BY <1>5 DEF SkippedAll
  <2> HIDE DEF st
  <2>4. ex' = [pc |-> "find", next |-> ex.next, copy |-> st, at |-> ex.at, beat |-> ex.beat]
    BY <2>2 DEF ExState
  <2>5. ex' \in ExState
    BY <2>1, <2>4, <1>p DEF ExState
  <2>6. row' \in RowState
    BY <2>1, <2>3, <1>m, RecordType
  <2> QED BY <1>5, <2>5, <2>6 DEF SkippedAll, OtherTypes
<1>6. CASE Start
  <2>1. row' \in RowState /\ ex' \in ExState
    BY <1>6, <1>m, <1>s, <1>p, RecordType, GoesType DEF Start
  <2>2. runs' \in Seq([beat : Nat, at : 0..Horizon])
    BY <1>6, <1>m DEF Start, OtherTypes
  <2> QED BY <1>6, <2>1, <2>2 DEF Start, OtherTypes
<1>7. CASE NothingDue
  BY <1>7, <1>p, GoesType DEF NothingDue, OtherTypes
<1>8. CASE CapabilityEnds
  <2>1. row' \in RowState
    BY <1>8, <1>m, <1>s, RecordType DEF CapabilityEnds
  <2>2. ex' \in ExState
    BY <1>8, <1>p, GoesType DEF CapabilityEnds
  <2> QED BY <1>8, <1>m, <2>1, <2>2 DEF CapabilityEnds, OtherTypes, OptTime
<1>9. CASE BeatOver
  BY <1>9, <1>p, <1>m, AdvanceType DEF BeatOver, OtherTypes
<1>10. CASE SkipFrom
  <2>1. ex' = [pc |-> "skip", next |-> ex.next, copy |-> ex.copy, at |-> now, beat |-> ex.beat]
    BY <1>10 DEF SkipFrom, ExState
  <2>2. ex' \in ExState
    BY <2>1, <1>p, <1>m DEF ExState
  <2> QED BY <1>10, <2>2 DEF SkipFrom, OtherTypes
<1>11. CASE SkipPassed
  BY <1>11, <1>p, <1>m, AdvanceType DEF SkipPassed, OtherTypes
<1>12. CASE SeriesDone
  <2>1. row' = [status |-> row.status, beat |-> row.beat, done |-> TRUE]
    BY <1>12 DEF SeriesDone, RowState
  <2>2. row' \in RowState
    BY <2>1 DEF RowState
  <2> QED BY <1>12, <2>2, <1>p, GoesType DEF SeriesDone, OtherTypes
<1>13. CASE Rearm
  BY <1>13, <1>m, <1>s, <1>p, RecordType, GoesType DEF Rearm, OtherTypes
<1>14. CASE Finalize
  <2> DEFINE over == row.done \/ GateOf(mem) = "terminal"
  <2>1. over \in BOOLEAN
    BY Zenon
  <2>2. row' = [row EXCEPT !.done = over]
    BY <1>14, Zenon DEF Finalize
  <2> HIDE DEF over
  <2>3. row' \in RowState
    BY <2>1, <2>2 DEF RowState
  <2> QED BY <1>14, <2>3, IdleType DEF Finalize, OtherTypes
<1>15. CASE Hydrate
  <2>1. row.beat \in Nat
    BY DEF RowState
  <2>2. CASE HydrateRead
    BY <2>1, <2>2 DEF HydrateRead, OtherTypes
  <2>3. CASE HydrateSet
    BY <2>3 DEF HydrateSet, OtherTypes
  <2>4. CASE HydrateNote
    <3>1. hyd.beat \in Nat
      BY DEF OtherTypes
    <3>2. row' = [status |-> row.status, beat |-> hyd.beat, done |-> row.done]
      BY <2>4 DEF HydrateNote, RowState
    <3>3. row' \in RowState
      BY <3>1, <3>2 DEF RowState
    <3> QED BY <2>4, <3>3 DEF HydrateNote, OtherTypes
  <2> QED BY <1>15, <2>2, <2>3, <2>4 DEF Hydrate
<1>16. CASE Tick
  BY <1>16 DEF Tick, OtherTypes
<1>17. CASE ClockSync
  <2>1. now' \in 0..Horizon /\ syncs' \in 0..MaxSyncs
    BY <1>17 DEF ClockSync, OtherTypes
  <2> QED BY <1>17, <2>1 DEF ClockSync, OtherTypes
<1>18. CASE Crash
  <2>1. hyd' = [pc |-> "idle", beat |-> hyd.beat] /\ hyd.beat \in Nat
    BY <1>18 DEF Crash, OtherTypes
  <2>2. hyd' \in [pc : {"idle", "set", "note"}, beat : Nat]
    BY <2>1
  <2>3. mem' \in Nat
    BY <1>18 DEF Crash, RowState
  <2>4. crashes' \in 0..MaxCrashes
    BY <1>18 DEF Crash, OtherTypes
  <2>5. OtherTypes'
    BY <1>18, <2>2, <2>3, <2>4 DEF Crash, OtherTypes
  <2>6. ex' \in ExState /\ row' \in RowState
    BY <1>18, IdleType DEF Crash
  <2> QED BY <2>5, <2>6
<1>19. CASE UNCHANGED vars
  BY <1>19 DEF vars, OtherTypes
<1> QED
  BY <1>1, <1>2, <1>3, <1>4, <1>5, <1>6, <1>7, <1>8, <1>9, <1>10, <1>11, <1>12, <1>13,
     <1>14, <1>15, <1>16, <1>17, <1>18, <1>19 DEF Next, Executor

\* Type correctness of the beats, for every timing, horizon, and number of crashes,
\* ingests and clocks set back.
THEOREM BeatTypes == Spec => []TypeOK
<1>1. Init => TypeOK
  BY BeatTypesInit
<1>2. TypeOK /\ [Next]_vars => TypeOK'
  BY BeatTypesStep
<1> QED BY <1>1, <1>2, PTL DEF Spec

-----------------------------------------------------------------------------
(* While no other intent is accepted.                                      *)

\* What a sequence holds.
LEMMA InSequence ==
  ASSUME NEW S, NEW s \in Seq(S), NEW i \in DOMAIN s
  PROVE  s[i] \in S
OBVIOUS

\* An entry of the history keeps its place, and the new one comes last.
LEMMA RunAppended ==
  ASSUME runs \in Seq([beat : Nat, at : 0..Horizon]),
         NEW r \in [beat : Nat, at : 0..Horizon], runs' = Append(runs, r)
  PROVE  /\ DOMAIN runs' = 1..(Len(runs) + 1)
         /\ \A i \in DOMAIN runs : runs'[i] = runs[i]
         /\ runs'[Len(runs) + 1] = r
         /\ DOMAIN runs = 1..Len(runs) /\ Len(runs) \in Nat
OBVIOUS

\* Nothing has been run yet, and memory and row begin together.
LEMMA BeatInvInit == NoIngest /\ Init => BInv
<1> SUFFICES ASSUME NoIngest, Init PROVE BInv
  OBVIOUS
<1>1. TypeOK
  BY BeatTypesInit
<1>2. Quiet /\ NotePending /\ RunsBehind /\ BeatsInOrder
  BY DEF Init, Quiet, NotePending, RunsBehind, BeatsInOrder, ExIdle
<1> QED BY <1>1, <1>2 DEF BInv

\* Without another intent the control loop does not touch the beats.
LEMMA QuietStep ==
  ASSUME NoIngest, TypeOK, Quiet, [Next]_vars
  PROVE  Quiet' /\ ~Hydrate
<1>1. ~Hydrate
  BY LimitsAssumption DEF NoIngest, Quiet, Hydrate, HydrateRead, HydrateSet, HydrateNote
<1>2. CASE Crash
  <2>1. hyd' = [pc |-> "idle", beat |-> hyd.beat]
    BY <1>2 DEF Crash, TypeOK
  <2> QED BY <1>1, <1>2, <2>1 DEF Crash, Quiet
<1>3. CASE UNCHANGED <<hyd, ingests>>
  BY <1>1, <1>3 DEF Quiet
<1>4. CASE Executor
  <2>1. UNCHANGED <<hyd, ingests>>
    BY <1>4 DEF Executor, Take, Note, Orphan, SkipMissed, SkippedAll, Start, NothingDue,
       CapabilityEnds, BeatOver, SkipFrom, SkipPassed, SeriesDone, Rearm, Finalize
  <2> QED BY <1>3, <2>1
<1>5. CASE Tick \/ ClockSync \/ UNCHANGED vars
  BY <1>3, <1>5 DEF Tick, ClockSync, vars
<1> QED BY <1>1, <1>2, <1>4, <1>5 DEF Next

\* The row's beat never goes back, is behind only while a beat is about to be noted,
\* and nothing but Start adds to the history.
LEMMA BeatGoesOn ==
  ASSUME TypeOK, NotePending, ~Hydrate, [Next]_vars
  PROVE  NotePending' /\ row'.beat >= row.beat /\ (runs' = runs \/ Start)
<1> USE TypeParts DEF NotePending
<1>r. row.beat \in Nat /\ mem \in Nat
  BY DEF RowState, OtherTypes
<1>g. ASSUME NEW pc \in ExPC \ {"note"}, Goes(pc), ex.pc # "note", UNCHANGED <<row, mem>>
      PROVE  NotePending' /\ row'.beat >= row.beat
  <2>1. ex'.pc = pc
    BY <1>g DEF Goes, ExState
  <2> QED BY <1>g, <1>r, <2>1
<1>w. ASSUME NEW pc \in ExPC \ {"note"}, ex'.pc = pc, ex.pc # "note",
             NEW status \in WAITING..FAILED, Record(status), UNCHANGED mem
      PROVE  NotePending' /\ row'.beat >= row.beat
  <2>1. row'.beat = mem
    BY <1>w DEF Record, RowState
  <2> QED BY <1>w, <1>r, <2>1
<1>a. ASSUME NEW next \in {"advance", "over", "skip"}, Advance(next), ex.pc # "note",
             UNCHANGED row
      PROVE  NotePending' /\ row'.beat >= row.beat
  <2>1. ex'.pc = "note" /\ ex'.next = next /\ ex'.beat = mem + 1 /\ mem' = mem + 1
    BY <1>a DEF Advance, ExState
  <2> QED BY <1>a, <1>r, <2>1
<1>s. WAITING \in WAITING..FAILED /\ RUNNING \in WAITING..FAILED
      /\ SUCCEEDED \in WAITING..FAILED /\ FAILED \in WAITING..FAILED
  BY DEF WAITING, RUNNING, SUCCEEDED, FAILED
<1>p. {"idle", "find", "final", "running", "ended", "over", "skip", "advance"}
      \subseteq ExPC \ {"note"}
  BY DEF ExPC
<1>1. CASE Take
  <2>1. ex'.pc = "advance"
    BY <1>1 DEF Take, ExIdle
  <2> QED BY <1>1, <1>r, <2>1 DEF Take
<1>2. CASE Note
  <2>1. row'.beat = ex.beat /\ ex'.pc = ex.next /\ UNCHANGED <<mem, runs>>
    BY <1>2 DEF Note, Goes, RowState, ExState
  <2> QED BY <1>2, <1>r, <2>1 DEF Note
<1>3. CASE Orphan
  <2>1. ex'.pc = "find"
    BY <1>3 DEF Orphan, ExState
  <2> QED BY <1>3, <1>r, <2>1 DEF Orphan
<1>4. CASE SkipMissed
  BY <1>4, <1>a DEF SkipMissed
<1>5. CASE SkippedAll
  <2> DEFINE st == IF Gate(T, ex.at, mem) = "terminal" THEN SUCCEEDED ELSE WAITING
  <2>1. st \in WAITING..FAILED
    BY <1>s
  <2>2. ex' = [ex EXCEPT !.pc = "find", !.copy = st] /\ ex.pc = "advance"
        /\ UNCHANGED <<mem, runs>>
    BY <1>5 DEF SkippedAll
  <2>3. row' = row \/ Record(st)
    BY <1>5 DEF SkippedAll
  <2> HIDE DEF st
  <2>4. ex'.pc = "find"
    BY <2>2 DEF ExState
  <2>5. CASE row' = row
    BY <1>r, <2>2, <2>4, <2>5
  <2>6. CASE Record(st)
    BY <1>w, <1>p, <2>1, <2>2, <2>4, <2>6
  <2> QED BY <2>2, <2>3, <2>5, <2>6
<1>6. CASE Start
  <2>1. ex'.pc = "running"
    BY <1>6 DEF Start, Goes, ExState
  <2> QED BY <1>6, <1>w, <1>s, <1>p, <2>1 DEF Start
<1>7. CASE NothingDue
  BY <1>7, <1>g, <1>p DEF NothingDue
<1>8. CASE CapabilityEnds
  <2>1. ex'.pc = "ended"
    BY <1>8 DEF CapabilityEnds, Goes, ExState
  <2> QED BY <1>8, <1>w, <1>s, <1>p, <2>1 DEF CapabilityEnds
<1>9. CASE BeatOver
  BY <1>9, <1>a DEF BeatOver
<1>10. CASE SkipFrom
  <2>1. ex'.pc = "skip"
    BY <1>10 DEF SkipFrom, ExState
  <2> QED BY <1>10, <1>r, <2>1 DEF SkipFrom
<1>11. CASE SkipPassed
  BY <1>11, <1>a DEF SkipPassed
<1>12. CASE SeriesDone
  <2>1. ex'.pc = "final" /\ row'.beat = row.beat
    BY <1>12 DEF SeriesDone, Goes, ExState, RowState
  <2> QED BY <1>12, <1>r, <2>1 DEF SeriesDone
<1>13. CASE Rearm
  <2>1. ex'.pc = "final"
    BY <1>13 DEF Rearm, Goes, ExState
  <2> QED BY <1>13, <1>w, <1>s, <1>p, <2>1 DEF Rearm
<1>14. CASE Finalize
  <2>1. ex'.pc = "idle" /\ row'.beat = row.beat
    BY <1>14 DEF Finalize, ExIdle, RowState
  <2> QED BY <1>14, <1>r, <2>1 DEF Finalize
<1>15. CASE Tick \/ ClockSync \/ UNCHANGED vars
  BY <1>15, <1>r DEF Tick, ClockSync, vars
<1>16. CASE Crash
  <2>1. ex'.pc = "idle"
    BY <1>16 DEF Crash, ExIdle
  <2> QED BY <1>16, <1>r, <2>1 DEF Crash
<1> QED
  BY <1>1, <1>2, <1>3, <1>4, <1>5, <1>6, <1>7, <1>8, <1>9, <1>10, <1>11, <1>12, <1>13,
     <1>14, <1>15, <1>16 DEF Next, Executor

\* Every step keeps the invariant: the beat that starts is the row's, and none before
\* it was later.
LEMMA BeatInvStep == NoIngest /\ BInv /\ [Next]_vars => BInv'
<1> SUFFICES ASSUME NoIngest, BInv, [Next]_vars PROVE BInv'
  OBVIOUS
<1>1. TypeOK' /\ Quiet' /\ ~Hydrate
  BY BeatTypesStep, QuietStep DEF BInv
<1>2. NotePending' /\ row'.beat >= row.beat /\ (runs' = runs \/ Start)
  BY <1>1, BeatGoesOn DEF BInv
<1>t. /\ row.beat \in Nat /\ row'.beat \in Nat /\ mem \in Nat /\ now \in 0..Horizon
      /\ runs \in Seq([beat : Nat, at : 0..Horizon])
      /\ \A i \in DOMAIN runs : runs[i].beat \in Nat
  <2>1. ex \in ExState /\ row \in RowState /\ OtherTypes /\ row' \in RowState
    BY <1>1, TypeParts, TypePartsPrimed DEF BInv
  <2>2. row.beat \in Nat /\ row'.beat \in Nat
    BY <2>1 DEF RowState
  <2>3. /\ mem \in Nat /\ now \in 0..Horizon
        /\ runs \in Seq([beat : Nat, at : 0..Horizon])
    BY <2>1 DEF OtherTypes
  <2>4. \A i \in DOMAIN runs : runs[i] \in [beat : Nat, at : 0..Horizon]
    BY <2>3, InSequence, Zenon
  <2> QED BY <2>2, <2>3, <2>4
<1>3. CASE runs' = runs
  BY <1>1, <1>2, <1>3, <1>t DEF BInv, RunsBehind, BeatsInOrder
<1>4. CASE Start
  <2> DEFINE r == [beat |-> mem, at |-> now]
  <2>1. runs' = Append(runs, r) /\ r \in [beat : Nat, at : 0..Horizon] /\ r.beat = mem
    BY <1>4, <1>t DEF Start
  <2>2. row'.beat = mem
    BY <1>4, TypeParts DEF BInv, Start, Record, RowState
  <2> HIDE DEF r
  <2>3. /\ DOMAIN runs' = 1..(Len(runs) + 1) /\ DOMAIN runs = 1..Len(runs)
        /\ \A i \in DOMAIN runs : runs'[i] = runs[i]
        /\ runs'[Len(runs) + 1] = r /\ Len(runs) \in Nat
    BY <1>t, <2>1, RunAppended
  <2>4. \A i \in DOMAIN runs' : runs'[i].beat <= mem
    <3> SUFFICES ASSUME NEW i \in DOMAIN runs' PROVE runs'[i].beat <= mem
      OBVIOUS
    <3>1. CASE i = Len(runs) + 1
      BY <1>t, <2>1, <2>3, <3>1
    <3>2. CASE i \in DOMAIN runs
      <4>1. runs'[i].beat <= row.beat /\ runs'[i].beat \in Nat
        BY <1>t, <2>3, <3>2 DEF BInv, RunsBehind
      <4> QED BY <1>2, <1>t, <2>2, <4>1
    <3> QED BY <2>3, <3>1, <3>2
  <2>5. BeatsInOrder'
    BY <1>t, <2>1, <2>3, <2>4 DEF BInv, BeatsInOrder
  <2> QED BY <1>1, <1>2, <2>2, <2>4, <2>5 DEF BInv, RunsBehind
<1> QED BY <1>2, <1>3, <1>4

\* The invariant holds in every behaviour.
LEMMA BeatInvariant == ASSUME NoIngest PROVE Spec => []BInv
<1>1. Init => BInv
  BY BeatInvInit
<1>2. BInv /\ [Next]_vars => BInv'
  BY BeatInvStep
<1> QED BY <1>1, <1>2, PTL DEF Spec

\* A crash loses no beat and brings none back, for every timing and any number of
\* crashes: the row is behind memory only while a beat is about to be noted.
THEOREM BeatIsPersisted == ASSUME NoIngest PROVE Spec => []BeatPersisted
<1>1. BInv => BeatPersisted
  BY DEF BInv, NotePending, BeatPersisted
<1> QED BY <1>1, BeatInvariant, PTL

\* Beats are run in their order, for every timing, whatever the clock and crashes do.
THEOREM RunsInOrder == ASSUME NoIngest PROVE Spec => []BeatsInOrder
<1>1. BInv => BeatsInOrder
  BY DEF BInv
<1> QED BY <1>1, BeatInvariant, PTL

-----------------------------------------------------------------------------
(* How often a beat is run, while no other intent is accepted.             *)

RunsOf(b) == {i \in DOMAIN runs : runs[i].beat = b}

\* A beat that is not being run, or has not just been, has been run once for each
\* crash at most: a crash goes back to a beat that may have been run once more.
Repeats ==
    /\ \A b \in Nat : Cardinality(RunsOf(b)) <= 1 + crashes
    /\ ex.pc \notin {"running", "ended"} => Cardinality(RunsOf(mem)) <= crashes

\* A step starts the beat, is a crash, goes on to the next beat, or leaves beats and
\* history alone and does not come away from a run.
LEMMA StepKinds ==
  ASSUME TypeOK, ~Hydrate, [Next]_vars
  PROVE  \/ Start
         \/ Crash
         \/ mem' = mem + 1 /\ UNCHANGED <<runs, crashes>>
         \/ /\ UNCHANGED <<mem, runs, crashes>>
            /\ ex.pc \in {"running", "ended"} => ex'.pc \in {"running", "ended"}
<1>1. CASE SkipMissed \/ BeatOver \/ SkipPassed
  BY <1>1 DEF SkipMissed, BeatOver, SkipPassed, Advance
<1>2. CASE CapabilityEnds
  <2>1. ex'.pc = "ended"
    BY <1>2 DEF CapabilityEnds, Goes, TypeOK
  <2> QED BY <1>2, <2>1 DEF CapabilityEnds
<1>3. CASE \/ Take \/ Note \/ Orphan \/ SkippedAll \/ NothingDue \/ SkipFrom \/ SeriesDone
           \/ Rearm \/ Finalize
  BY <1>3 DEF Take, Note, Orphan, SkippedAll, NothingDue, SkipFrom, SeriesDone, Rearm, Finalize
<1>4. CASE Tick \/ ClockSync \/ UNCHANGED vars
  BY <1>4 DEF Tick, ClockSync, vars
<1> QED BY <1>1, <1>2, <1>3, <1>4 DEF Next, Executor

\* A beat's runs are finitely many, and a beat later than any run has none.
LEMMA RunsFinite ==
  ASSUME TypeOK, NEW b
  PROVE  /\ IsFiniteSet(RunsOf(b)) /\ Cardinality(RunsOf(b)) \in Nat
         /\ (\A i \in DOMAIN runs : runs[i].beat # b) => Cardinality(RunsOf(b)) = 0
<1>1. DOMAIN runs = 1..Len(runs) /\ Len(runs) \in Nat
  BY DEF TypeOK
<1>2. IsFiniteSet(DOMAIN runs)
  BY <1>1, FS_Interval
<1>3. RunsOf(b) \subseteq DOMAIN runs
  BY DEF RunsOf
<1>4. IsFiniteSet(RunsOf(b)) /\ Cardinality(RunsOf(b)) \in Nat
  BY <1>2, <1>3, FS_Subset, FS_CardinalityType
<1>5. ASSUME \A i \in DOMAIN runs : runs[i].beat # b PROVE Cardinality(RunsOf(b)) = 0
  <2>1. RunsOf(b) = {}
    BY <1>5 DEF RunsOf
  <2> QED BY <2>1, FS_EmptySet
<1> QED BY <1>4, <1>5

\* Starting a beat is one more run of it, and of no other.
LEMMA OneMoreRun ==
  ASSUME TypeOK, Start, NEW b \in Nat
  PROVE  Cardinality(RunsOf(b)') = IF b = mem THEN Cardinality(RunsOf(b)) + 1
                                   ELSE Cardinality(RunsOf(b))
<1> DEFINE r == [beat |-> mem, at |-> now]
<1>1. /\ runs' = Append(runs, r) /\ r \in [beat : Nat, at : 0..Horizon] /\ r.beat = mem
      /\ runs \in Seq([beat : Nat, at : 0..Horizon])
  BY DEF Start, TypeOK
<1> HIDE DEF r
<1>2. /\ DOMAIN runs' = 1..(Len(runs) + 1) /\ DOMAIN runs = 1..Len(runs)
      /\ \A i \in DOMAIN runs : runs'[i] = runs[i]
      /\ runs'[Len(runs) + 1] = r /\ Len(runs) \in Nat
  BY <1>1, RunAppended
<1>3. CASE b = mem
  <2>1. RunsOf(b)' = RunsOf(b) \cup {Len(runs) + 1} /\ Len(runs) + 1 \notin RunsOf(b)
    BY <1>1, <1>2, <1>3 DEF RunsOf
  <2> QED BY <1>3, <2>1, RunsFinite, FS_AddElement
<1>4. CASE b # mem
  <2>1. RunsOf(b)' = RunsOf(b)
    BY <1>1, <1>2, <1>4 DEF RunsOf
  <2> QED BY <1>4, <2>1
<1> QED BY <1>3, <1>4

LEMMA RepeatsStep ==
  ASSUME NoIngest, BInv, Repeats, [Next]_vars
  PROVE  Repeats'
<1>0. TypeOK /\ ~Hydrate
  BY QuietStep DEF BInv
<1>t. /\ mem \in Nat /\ row.beat \in Nat /\ crashes \in Nat
      /\ ex.pc # "note" => mem = row.beat
  BY <1>0, LimitsAssumption DEF TypeOK, BInv, NotePending
<1>n. \A b \in Nat : Cardinality(RunsOf(b)) \in Nat
  BY <1>0, RunsFinite
<1>1. CASE Start
  <2>1. ex.pc = "find" /\ UNCHANGED <<mem, crashes>> /\ ex'.pc = "running"
    BY <1>0, <1>1 DEF Start, Goes, TypeOK
  <2>2. Cardinality(RunsOf(mem)) <= crashes
    BY <2>1 DEF Repeats
  <2>3. \A b \in Nat : Cardinality(RunsOf(b)') <= 1 + crashes
    <3> SUFFICES ASSUME NEW b \in Nat PROVE Cardinality(RunsOf(b)') <= 1 + crashes
      OBVIOUS
    <3>1. CASE b = mem
      BY <1>0, <1>1, <1>t, <1>n, <2>2, <3>1, OneMoreRun
    <3>2. CASE b # mem
      BY <1>0, <1>1, <3>2, OneMoreRun DEF Repeats
    <3> QED BY <3>1, <3>2
  <2> QED BY <2>1, <2>3 DEF Repeats
<1>2. CASE Crash
  <2>1. crashes' = crashes + 1 /\ mem' = row.beat /\ runs' = runs
    BY <1>2 DEF Crash
  <2>2. \A b : RunsOf(b)' = RunsOf(b)
    BY <2>1 DEF RunsOf
  <2>3. \A b \in Nat : Cardinality(RunsOf(b)') <= crashes'
    BY <1>t, <1>n, <2>1, <2>2 DEF Repeats
  <2>4. Cardinality(RunsOf(mem)') <= crashes'
    <3>1. RunsOf(mem)' = RunsOf(row.beat)
      BY <2>1 DEF RunsOf
    <3> QED BY <1>t, <2>2, <2>3, <3>1
  <2> QED BY <1>t, <1>n, <2>1, <2>2, <2>3, <2>4 DEF Repeats
<1>3. CASE mem' = mem + 1 /\ UNCHANGED <<runs, crashes>>
  <2>1. \A b : RunsOf(b)' = RunsOf(b)
    BY <1>3 DEF RunsOf
  <2>2. RunsOf(mem)' = RunsOf(mem + 1)
    BY <1>3 DEF RunsOf
  <2>3. \A i \in DOMAIN runs : runs[i].beat # mem + 1
    <3> SUFFICES ASSUME NEW i \in DOMAIN runs PROVE runs[i].beat # mem + 1
      OBVIOUS
    <3>1. runs[i].beat <= row.beat /\ runs[i].beat \in Nat
      <4>1. runs \in Seq([beat : Nat, at : 0..Horizon])
        BY <1>0 DEF TypeOK
      <4>2. runs[i] \in [beat : Nat, at : 0..Horizon]
        BY <4>1, InSequence, Zenon
      <4> QED BY <4>2 DEF BInv, RunsBehind
    <3>2. row.beat <= mem
      BY <1>0, <1>t DEF BInv, NotePending
    <3> QED BY <1>t, <3>1, <3>2
  <2>4. Cardinality(RunsOf(mem + 1)) = 0
    BY <1>0, <2>3, RunsFinite
  <2> QED BY <1>3, <1>t, <2>1, <2>2, <2>4 DEF Repeats
<1>4. CASE /\ UNCHANGED <<mem, runs, crashes>>
           /\ ex.pc \in {"running", "ended"} => ex'.pc \in {"running", "ended"}
  <2>1. (\A b : RunsOf(b)' = RunsOf(b)) /\ RunsOf(mem)' = RunsOf(mem)
    BY <1>4 DEF RunsOf
  <2> QED BY <1>4, <2>1 DEF Repeats
<1> QED BY <1>0, <1>1, <1>2, <1>3, <1>4, StepKinds

\* A beat is run again only after a crash: as often as the process died, at most. For
\* every timing, any number of crashes and however the clock is set back.
THEOREM RunOncePerBeat == ASSUME NoIngest PROVE Spec => []OncePerBeat
<1>1. Init => Repeats
  <2> SUFFICES ASSUME Init PROVE Repeats
    OBVIOUS
  <2>1. TypeOK /\ crashes = 0
    BY BeatTypesInit DEF Init
  <2>2. \A b : Cardinality(RunsOf(b)) = 0
    <3>1. \A b : \A i \in DOMAIN runs : runs[i].beat # b
      BY DEF Init
    <3> QED BY <2>1, <3>1, RunsFinite
  <2> QED BY <2>1, <2>2 DEF Repeats
<1>2. BInv /\ Repeats /\ [Next]_vars => Repeats'
  BY RepeatsStep
<1>3. BInv /\ Repeats => OncePerBeat
  <2> SUFFICES ASSUME BInv, Repeats, NEW b \in {runs[i].beat : i \in DOMAIN runs}
               PROVE  Cardinality({i \in DOMAIN runs : runs[i].beat = b}) <= 1 + crashes
    BY DEF OncePerBeat
  <2>1. runs \in Seq([beat : Nat, at : 0..Horizon])
    BY DEF BInv, TypeOK
  <2>2. b \in Nat
    <3>1. \A i \in DOMAIN runs : runs[i] \in [beat : Nat, at : 0..Horizon]
      BY <2>1, InSequence, Zenon
    <3> QED BY <3>1
  <2>3. Cardinality(RunsOf(b)) <= 1 + crashes
    BY <2>2 DEF Repeats
  <2> QED BY <2>3 DEF RunsOf
<1> QED BY <1>1, <1>2, <1>3, BeatInvariant, PTL DEF Spec

-----------------------------------------------------------------------------
(* What is not caught up, while no other intent is accepted, no crash goes *)
(* back to an earlier beat and the clock is not set back.                  *)

\* Where the pass goes on once a beat is noted.
Where == IF ex.pc = "note" THEN ex.next ELSE ex.pc

\* The beat is not run any more, or its time comes after the end of the last run.
Beyond(b) ==
    \/ PlannedStart(T, b) = None
    \/ T.count # None /\ b >= T.count
    \/ PlannedStart(T, b) > ended

\* From the end of a run until the beats that came meanwhile are skipped, the next
\* beat may be one of them; the instant they are compared with is not before that end.
Skipping ==
    /\ ended <= now
    /\ Where = "skip" => ended <= ex.at
    /\ Where = "running" => PlannedStart(T, runs[Len(runs)].beat) > ended
    /\ Where \notin {"running", "ended", "over", "skip"} => Beyond(mem)

Straight == ended # None /\ crashes = 0 /\ syncs = 0

NothingLeft == Straight => Skipping

\* What lies beyond the end of a run is followed by what does.
LEMMA BeyondNext ==
  ASSUME TypeOK, Beyond(mem)
  PROVE  Beyond(mem + 1)
<1>1. T \in Timing /\ IsRecurring(T) /\ mem \in Nat /\ mem + 1 \in Nat /\ ended \in OptTime
  BY TimingAssumption DEF TypeOK
<1>2. /\ PlannedStart(T, mem) = None => PlannedStart(T, mem + 1) = None
      /\ PlannedStart(T, mem + 1) # None => PlannedStart(T, mem) < PlannedStart(T, mem + 1)
  BY <1>1, PlannedFollows
<1>3. PlannedStart(T, mem) \in OptTime /\ PlannedStart(T, mem + 1) \in OptTime
  BY <1>1, PlannedType
<1>4. T.count \in OptTime
  BY <1>1 DEF Timing
<1> QED BY <1>1, <1>2, <1>3, <1>4 DEF Beyond, OptTime, None

\* A trigger that is not passed lies beyond the time it was compared with.
LEMMA BeyondPassed ==
  ASSUME TypeOK, ~Passed, ended <= ex.at
  PROVE  Beyond(mem)
<1>1. T \in Timing /\ mem \in Nat /\ ended \in OptTime /\ ex.at \in Nat
  BY TimingAssumption, LimitsAssumption DEF TypeOK
<1>2. PlannedStart(T, mem) \in OptTime /\ T.count \in OptTime
  BY <1>1, PlannedType DEF Timing
<1> QED BY <1>1, <1>2 DEF Passed, Beyond, OptTime, None

\* A beat that may start and lies beyond the end of a run is planned after it.
LEMMA BeyondDue ==
  ASSUME GateOf(mem) = "due", Beyond(mem)
  PROVE  PlannedStart(T, mem) > ended
<1>1. T.mode # "immediate" /\ PlannedStart(T, mem) # None /\ ~(T.count # None /\ mem >= T.count)
  BY TimingAssumption DEF GateOf, Gate, IsRecurring
<1> QED BY <1>1 DEF Beyond

\* Each step of the executor, one by one; what the others do keeps it at once.
LEMMA SkippingStep ==
  ASSUME BInv, Straight, Skipping, Executor, ~CapabilityEnds
  PROVE  Skipping'
<1>t. TypeOK /\ (ex.pc = "note" => ex.next # "note")
  BY DEF BInv, NotePending
<1>u. UNCHANGED <<now, ended>>
  BY DEF Executor, Take, Note, Orphan, SkipMissed, SkippedAll, Start, NothingDue, CapabilityEnds,
     BeatOver, SkipFrom, SkipPassed, SeriesDone, Rearm, Finalize
<1>e. ended' <= now'
  BY <1>u DEF Skipping
<1> DEFINE Quietly == {"idle", "advance", "find", "final"}
<1>a. \A b : Beyond(b)' <=> Beyond(b)
  BY <1>u DEF Beyond
<1>k. ASSUME Where' \in Quietly, UNCHANGED mem, Beyond(mem)
      PROVE  Skipping'
  <2>1. Beyond(mem)'
    BY <1>k, <1>u DEF Beyond
  <2> QED BY <1>k, <1>e, <2>1 DEF Skipping
<1>q. Where \in Quietly => Beyond(mem)
  BY DEF Skipping
<1>1. CASE Take \/ Orphan \/ NothingDue \/ Finalize
  <2>1. Where \in Quietly /\ Where' \in Quietly /\ UNCHANGED mem
    <3>1. CASE Take
      BY <3>1 DEF Where, Take, ExIdle
    <3>2. CASE Orphan
      BY <1>t, <3>2 DEF Where, Orphan, TypeOK
    <3>3. CASE NothingDue
      BY <1>t, <3>3 DEF Where, NothingDue, Goes, TypeOK
    <3>4. CASE Finalize
      BY <3>4 DEF Where, Finalize, ExIdle
    <3> QED BY <1>1, <3>1, <3>2, <3>3, <3>4
  <2> QED BY <1>k, <1>q, <2>1
<1>2. CASE Note
  <2>1. Where' = Where /\ UNCHANGED <<mem, runs>> /\ ex'.at = ex.at
    BY <1>t, <1>2 DEF Where, Note, Goes, TypeOK
  <2>2. Beyond(mem)' <=> Beyond(mem)
    BY <1>u, <2>1 DEF Beyond
  <2> QED BY <1>u, <2>1, <2>2 DEF Skipping
<1>3. CASE SkipMissed
  <2>1. Where = "advance" /\ Where' = "advance" /\ mem' = mem + 1
    BY <1>t, <1>3 DEF Where, SkipMissed, Advance, TypeOK
  <2>2. Beyond(mem + 1)
    BY <1>t, <1>q, <2>1, BeyondNext
  <2>3. Beyond(mem)'
    BY <1>u, <2>1, <2>2 DEF Beyond
  <2> QED BY <1>e, <2>1, <2>3 DEF Skipping
<1>4. CASE SkippedAll
  <2> DEFINE st == IF Gate(T, ex.at, mem) = "terminal" THEN SUCCEEDED ELSE WAITING
  <2>1. ex' = [ex EXCEPT !.pc = "find", !.copy = st] /\ ex.pc = "advance" /\ UNCHANGED mem
    BY <1>4 DEF SkippedAll
  <2> HIDE DEF st
  <2>2. Where \in Quietly /\ Where' \in Quietly
    BY <1>t, <2>1 DEF Where, TypeOK
  <2> QED BY <1>k, <1>q, <2>1, <2>2
<1>5. CASE Start
  <2>1. Where = "find" /\ Where' = "running" /\ GateOf(mem) = "due"
    BY <1>t, <1>5 DEF Where, Start, Goes, TypeOK
  <2> DEFINE r == [beat |-> mem, at |-> now]
  <2>2. /\ runs' = Append(runs, r) /\ r \in [beat : Nat, at : 0..Horizon] /\ r.beat = mem
        /\ runs \in Seq([beat : Nat, at : 0..Horizon])
    BY <1>t, <1>5 DEF Start, TypeOK
  <2> HIDE DEF r
  <2>3. runs'[Len(runs')].beat = mem
    <3>1. Len(runs') = Len(runs) + 1
      BY <2>2
    <3>2. runs'[Len(runs) + 1] = r
      BY <2>2, RunAppended
    <3> QED BY <2>2, <3>1, <3>2
  <2>4. PlannedStart(T, mem) > ended
    BY <1>q, <2>1, BeyondDue
  <2> QED BY <1>e, <1>u, <2>1, <2>3, <2>4 DEF Skipping
<1>6. CASE BeatOver
  <2>1. Where' = "over"
    BY <1>t, <1>6 DEF Where, BeatOver, Advance, TypeOK
  <2> QED BY <1>e, <2>1 DEF Skipping
<1>7. CASE SkipFrom
  <2>1. Where' = "skip" /\ ex'.at = now
    BY <1>t, <1>7 DEF Where, SkipFrom, TypeOK
  <2> QED BY <1>e, <1>u, <2>1 DEF Skipping
<1>8. CASE SkipPassed
  <2>1. Where = "skip" /\ Where' = "skip" /\ ex'.at = ex.at
    BY <1>t, <1>8 DEF Where, SkipPassed, Advance, TypeOK
  <2> QED BY <1>e, <1>u, <2>1 DEF Skipping
<1>9. CASE SeriesDone \/ Rearm
  <2>1. Where = "skip" /\ Where' = "final" /\ UNCHANGED mem /\ ~Passed
    BY <1>t, <1>9 DEF Where, SeriesDone, Rearm, Goes, TypeOK
  <2>2. Beyond(mem)
    BY <1>t, <2>1, BeyondPassed DEF Skipping
  <2> QED BY <1>k, <2>1, <2>2
<1> QED BY <1>1, <1>2, <1>3, <1>4, <1>5, <1>6, <1>7, <1>8, <1>9 DEF Executor

LEMMA NothingLeftStep ==
  ASSUME NoIngest, BInv, NothingLeft, [Next]_vars
  PROVE  NothingLeft'
<1>t. TypeOK /\ TypeOK' /\ ~Hydrate
  BY QuietStep, BeatTypesStep DEF BInv
<1>n. now \in Nat /\ crashes \in Nat /\ syncs \in Nat /\ ended \in OptTime
  BY <1>t, LimitsAssumption DEF TypeOK
<1>1. CASE CapabilityEnds
  <2>1. Where' = "ended" /\ ended' = now /\ now' = now
    BY <1>t, <1>1 DEF Where, CapabilityEnds, Goes, TypeOK
  <2> QED BY <1>n, <2>1 DEF NothingLeft, Skipping
<1>2. CASE Executor /\ ~CapabilityEnds
  <2>1. UNCHANGED <<ended, crashes, syncs>>
    BY <1>2 DEF Executor, Take, Note, Orphan, SkipMissed, SkippedAll, Start, NothingDue,
       CapabilityEnds, BeatOver, SkipFrom, SkipPassed, SeriesDone, Rearm, Finalize
  <2> QED BY <1>2, <2>1, SkippingStep DEF NothingLeft, Straight
<1>3. CASE ClockSync \/ Crash
  <2>1. ~Straight'
    BY <1>n, <1>3 DEF ClockSync, Crash, Straight
  <2> QED BY <2>1 DEF NothingLeft
<1>4. CASE Tick \/ UNCHANGED vars
  <2>1. /\ UNCHANGED <<ex, mem, runs, ended, crashes, syncs>>
        /\ now' \in Nat /\ now' >= now
    BY <1>n, <1>4 DEF Tick, vars
  <2>2. ended <= now => ended' <= now'
    BY <1>n, <2>1 DEF OptTime, None
  <2>3. (Beyond(mem)' <=> Beyond(mem)) /\ Where' = Where
    BY <2>1 DEF Beyond, Where
  <2> QED BY <2>1, <2>2, <2>3 DEF NothingLeft, Straight, Skipping
<1> QED BY <1>t, <1>1, <1>2, <1>3, <1>4 DEF Next

\* Nothing is caught up (skip_passed_interval_triggers): a beat whose time came while
\* an earlier one was running is not run, for every interval or cron expression and
\* however long a run takes.
THEOREM NothingIsCaughtUp == ASSUME NoIngest PROVE Spec => []NoCatchUp
<1>1. Init => NothingLeft
  BY DEF Init, NothingLeft, Straight
<1>2. BInv /\ NothingLeft /\ [Next]_vars => NothingLeft'
  BY NothingLeftStep
<1>3. NothingLeft => NoCatchUp
  BY DEF NothingLeft, Straight, Skipping, Where, NoCatchUp
<1> QED BY <1>1, <1>2, <1>3, BeatInvariant, PTL DEF Spec
=============================================================================
