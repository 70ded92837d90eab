-------------------------- MODULE EdgeIdentityProofs --------------------------
(***************************************************************************)
(* What holds of the identity for any set of ids, number of attempts,      *)
(* forgets, failed calls and crashes: types, the agreement of file and     *)
(* memory at rest, and the bound on registrations.                         *)
(***************************************************************************)
EXTENDS EdgeIdentity, TLAPS

Threads == {"heartbeat", "control"}

Thread == [pc : ThreadPC, eid : MaybeId, try : 0..Attempts, fatal : BOOLEAN]

Hb  == th["heartbeat"]
Ctl == th["control"]

-----------------------------------------------------------------------------
(* Types.                                                                  *)

OtherTypes ==
    /\ mem \in MaybeId /\ file \in MaybeId /\ ok \in MaybeId /\ child \in MaybeId
    /\ voice \in [pc : {"wait", "spawn", "watch"}, eid : MaybeId]
    /\ known \subseteq Ids
    /\ registers \in Nat
    /\ forgets \in 0..MaxForgets /\ faults \in 0..MaxFaults /\ crashes \in 0..MaxCrashes

\* TypeOK by its parts.
LEMMA TypeParts == TypeOK <=> th \in [Threads -> Thread] /\ OtherTypes
BY DEF TypeOK, OtherTypes, Threads, Thread

\* The same after a step.
LEMMA TypePartsPrimed == TypeOK' <=> th' \in [Threads -> Thread] /\ OtherTypes'
BY DEF TypeOK, OtherTypes, Threads, Thread

\* A thread at rest.
LEMMA IdleTyped == Idle \in Thread
BY IdentityBounds DEF Idle, Thread, ThreadPC, MaybeId

\* What moving a thread to another point changes: its pc, and nothing else.
LEMMA GoesThread ==
  ASSUME th \in [Threads -> Thread], NEW t \in Threads, NEW pc \in ThreadPC, Goes(t, pc)
  PROVE  /\ th' \in [Threads -> Thread]
         /\ th'[t].pc = pc /\ th'[t].eid = th[t].eid
         /\ \A u \in Threads \ {t} : th'[u] = th[u]
<1>1. th'[t] = [th[t] EXCEPT !.pc = pc]
  BY DEF Goes
<1>2. th'[t] \in Thread /\ th'[t].pc = pc /\ th'[t].eid = th[t].eid
  BY <1>1 DEF Thread
<1>3. \A u \in Threads \ {t} : th'[u] = th[u]
  BY DEF Goes
<1> QED BY <1>2, <1>3 DEF Goes

\* What giving a thread a new record changes.
LEMMA SetThread ==
  ASSUME th \in [Threads -> Thread], NEW t \in Threads, NEW r \in Thread,
         th' = [th EXCEPT ![t] = r]
  PROVE  /\ th' \in [Threads -> Thread]
         /\ th'[t] = r
         /\ \A u \in Threads \ {t} : th'[u] = th[u]
OBVIOUS

\* Where the threads can be, so that no leaf needs the whole list.
LEMMA Points ==
  {"idle", "call", "ok", "lost", "check", "unlink", "forget", "register", "store", "save",
   "confirm", "confirmed", "read", "pull", "dead"} = ThreadPC
BY DEF ThreadPC

\* The types hold at the start.
LEMMA TypesInit == Init => TypeOK
BY IdleTyped, TypeParts, IdentityBounds DEF Init, OtherTypes, MaybeId, Threads

\* Clearing the id keeps the types.
LEMMA ClearTypes ==
  ASSUME th \in [Threads -> Thread], OtherTypes, NEW t \in Threads, Clear(t)
  PROVE  th' \in [Threads -> Thread] /\ OtherTypes'
<1>1. NoId \in MaybeId
  BY DEF MaybeId
<1>2. CASE ClearCheck(t)
  BY <1>2, GoesThread, Points DEF ClearCheck, OtherTypes
<1>3. CASE ClearUnlink(t)
  BY <1>1, <1>3, GoesThread, Points DEF ClearUnlink, OtherTypes
<1>4. CASE ClearRaises(t)
  BY <1>4, GoesThread, Points DEF ClearRaises, OtherTypes
<1>5. CASE ClearForget(t)
  BY <1>1, <1>5, GoesThread, Points DEF ClearForget, OtherTypes
<1> QED BY <1>2, <1>3, <1>4, <1>5 DEF Clear

\* The heartbeat thread keeps the types.
LEMMA HeartbeatTypes ==
  ASSUME th \in [Threads -> Thread], OtherTypes, Heartbeat \/ HbFails
  PROVE  th' \in [Threads -> Thread] /\ OtherTypes'
<1>t. "heartbeat" \in Threads
  BY DEF Threads
<1>h. Hb \in Thread /\ Hb.eid \in MaybeId /\ NoId \in MaybeId
  BY <1>t DEF Hb, Thread, MaybeId
<1>1. CASE HbRead
  <2>1. mem \in MaybeId /\ 1 \in 0..Attempts
    BY IdentityBounds DEF OtherTypes
  <2>2. [Idle EXCEPT !.pc = "call", !.eid = mem, !.try = 1] \in Thread
    BY <2>1, IdleTyped, Points DEF Thread
  <2>3. th' \in [Threads -> Thread]
    BY <1>1, <1>t, <2>2, SetThread DEF HbRead
  <2> QED BY <1>1, <2>3 DEF HbRead, OtherTypes
<1>2. CASE HbAnswered
  BY <1>2, <1>t, GoesThread, Points DEF HbAnswered, OtherTypes
<1>3. CASE HbOk
  BY <1>3, <1>t, <1>h, GoesThread, Points DEF HbOk, Hb, OtherTypes
<1>4. CASE HbLost
  BY <1>4, <1>t, <1>h, GoesThread, Points DEF HbLost, OtherTypes
<1>5. CASE Clear("heartbeat")
  BY <1>5, <1>t, ClearTypes
<1>6. CASE HbFails
  <2>1. OtherTypes'
    BY <1>6, IdentityBounds DEF HbFails, OtherTypes
  <2>2. \/ th' = [th EXCEPT !["heartbeat"] = [Hb EXCEPT !.try = @ + 1]] /\ Hb.try < Attempts
        \/ th' = [th EXCEPT !["heartbeat"] = [Hb EXCEPT !.pc = "lost"]]
    BY <1>6, Zenon DEF HbFails, Hb
  <2>3. Hb.try < Attempts => [Hb EXCEPT !.try = @ + 1] \in Thread
    BY <1>h, IdentityBounds DEF Thread
  <2>4. [Hb EXCEPT !.pc = "lost"] \in Thread
    BY <1>h, Points DEF Thread
  <2> QED BY <1>t, <2>1, <2>2, <2>3, <2>4, SetThread
<1> QED BY <1>1, <1>2, <1>3, <1>4, <1>5, <1>6 DEF Heartbeat

\* The control loop keeps the types.
LEMMA ControlTypes ==
  ASSUME th \in [Threads -> Thread], OtherTypes, Control \/ ControlFails
  PROVE  th' \in [Threads -> Thread] /\ OtherTypes'
<1>t. "control" \in Threads
  BY DEF Threads
<1>c. Ctl \in Thread /\ Ctl.eid \in MaybeId /\ NoId \in MaybeId
  BY <1>t DEF Ctl, Thread, MaybeId
<1>1. CASE Tick
  <2>1. th' = [th EXCEPT !["control"] = [Idle EXCEPT !.pc = "register"]]
        \/ th' = [th EXCEPT !["control"] = [Idle EXCEPT !.pc = "read"]]
    BY <1>1 DEF Tick
  <2>2. /\ [Idle EXCEPT !.pc = "register"] \in Thread
        /\ [Idle EXCEPT !.pc = "read"] \in Thread
    BY IdleTyped, Points DEF Thread
  <2>3. th' \in [Threads -> Thread]
    BY <1>t, <2>1, <2>2, SetThread
  <2> QED BY <1>1, <2>3 DEF Tick, OtherTypes
<1>2. CASE Register
  <2>1. PICK id \in Ids : /\ known' = known \cup {id}
                           /\ th' = [th EXCEPT !["control"] = [Ctl EXCEPT !.pc = "store", !.eid = id]]
    BY <1>2 DEF Register, Ctl
  <2>2. [Ctl EXCEPT !.pc = "store", !.eid = id] \in Thread
    BY <1>c, Points DEF Thread, MaybeId
  <2>3. th' \in [Threads -> Thread]
    BY <1>t, <2>1, <2>2, SetThread
  <2> QED BY <1>2, <2>1, <2>3 DEF Register, OtherTypes
<1>3. CASE Store
  BY <1>3, <1>t, <1>c, GoesThread, Points DEF Store, Ctl, OtherTypes
<1>4. CASE Save
  BY <1>4, <1>t, <1>c, GoesThread, Points DEF Save, Ctl, OtherTypes
<1>5. CASE Confirm
  BY <1>5, <1>t, GoesThread, Points DEF Confirm, OtherTypes
<1>6. CASE Confirmed
  BY <1>6, <1>t, <1>c, GoesThread, Points DEF Confirmed, Ctl, OtherTypes
<1>7. CASE ReadId
  <2>1. th' = [th EXCEPT !["control"] = Idle]
        \/ th' = [th EXCEPT !["control"] = [Idle EXCEPT !.pc = "pull", !.eid = mem]]
    BY <1>7 DEF ReadId
  <2>2. [Idle EXCEPT !.pc = "pull", !.eid = mem] \in Thread
    BY IdleTyped, Points DEF Thread, OtherTypes
  <2>3. th' \in [Threads -> Thread]
    BY <1>t, <2>1, <2>2, SetThread, IdleTyped
  <2> QED BY <1>7, <2>3 DEF ReadId, OtherTypes
<1>8. CASE Pull
  <2>1. th' = [th EXCEPT !["control"] = Idle]
        \/ th' = [th EXCEPT !["control"] = [Ctl EXCEPT !.pc = "check", !.fatal = TRUE]]
    BY <1>8 DEF Pull, Ctl
  <2>2. [Ctl EXCEPT !.pc = "check", !.fatal = TRUE] \in Thread
    BY <1>c, Points DEF Thread
  <2>3. th' \in [Threads -> Thread]
    BY <1>t, <2>1, <2>2, SetThread, IdleTyped
  <2> QED BY <1>8, <2>3 DEF Pull, OtherTypes
<1>9. CASE Clear("control")
  BY <1>9, <1>t, ClearTypes
<1>10. CASE ControlFails
  <2>1. known' \subseteq Ids /\ (\E pc \in ThreadPC : Goes("control", pc))
    BY <1>10, Points DEF ControlFails, OtherTypes
  <2>2. th' \in [Threads -> Thread]
    BY <1>t, <2>1, GoesThread
  <2> QED BY <1>10, <2>1, <2>2, IdentityBounds DEF ControlFails, OtherTypes
<1> QED BY <1>1, <1>2, <1>3, <1>4, <1>5, <1>6, <1>7, <1>8, <1>9, <1>10 DEF Control

\* Every step keeps the types.
LEMMA TypesStep == TypeOK /\ [Next]_vars => TypeOK'
<1> SUFFICES ASSUME th \in [Threads -> Thread], OtherTypes, [Next]_vars
             PROVE  th' \in [Threads -> Thread] /\ OtherTypes'
  BY TypeParts, TypePartsPrimed
<1>1. CASE Heartbeat \/ HbFails
  BY <1>1, HeartbeatTypes
<1>2. CASE Control \/ ControlFails
  BY <1>2, ControlTypes
<1>3. CASE Voice \/ ChildExits
  <2>1. NoId \in MaybeId /\ ok \in MaybeId /\ voice.eid \in MaybeId
    BY DEF OtherTypes, MaybeId
  <2> QED
    BY <1>3, <2>1, IdentityBounds
       DEF Voice, VoiceReads, VoiceSpawns, VoiceEnds, ChildExits, OtherTypes
<1>4. CASE BrainForgets
  BY <1>4, IdentityBounds DEF BrainForgets, OtherTypes
<1>5. CASE Restart
  <2>1. th' = [t \in Threads |-> Idle]
    BY <1>5 DEF Restart, Threads
  <2> QED BY <1>5, <2>1, IdleTyped, IdentityBounds DEF Restart, OtherTypes, MaybeId
<1>6. CASE UNCHANGED vars
  BY <1>6 DEF vars, OtherTypes
<1> QED BY <1>1, <1>2, <1>3, <1>4, <1>5, <1>6 DEF Next

\* Type correctness of the identity, for any ids, attempts, forgets, faults and crashes.
THEOREM IdentityTypes == Spec => []TypeOK
<1>1. Init => TypeOK
  BY TypesInit
<1>2. TypeOK /\ [Next]_vars => TypeOK'
  BY TypesStep
<1> QED BY <1>1, <1>2, PTL DEF Spec

-----------------------------------------------------------------------------
(* Why registrations are bounded. An id that Brain does not know is paid   *)
(* for by the forget that made it so, or by the start. What is still owed  *)
(* is at most one registration for the heartbeat thread, which may clear   *)
(* the id once more, one for the control loop, and one for a file whose    *)
(* refused id a restart would bring back.                                  *)

Clearing == {"check", "unlink", "forget"}

\* An id for which Brain refuses every call.
Refused(e) == e \in Ids \ known

\* The id in memory, as it will be when an id just received has been stored.
MemSoon == IF Ctl.pc = "store" THEN Ctl.eid ELSE mem

HbClears ==
    \/ Hb.pc \in Clearing
    \/ Hb.pc = "call" /\ Refused(Hb.eid)
    \/ Refused(MemSoon)

CtlRegisters ==
    \/ Ctl.pc \in Clearing \cup {"register"}
    \/ Ctl.pc \in {"save", "confirm", "pull"} /\ Refused(Ctl.eid)
    \/ MemSoon = NoId \/ Refused(MemSoon)

FileRefused ==
    \/ Refused(file) /\ file # MemSoon
    \/ Ctl.pc = "save" /\ Refused(Ctl.eid) /\ Ctl.eid # mem

One(b) == IF b THEN 1 ELSE 0

Owed == One(HbClears) + One(CtlRegisters) + One(FileRefused)

Paid == registers + Owed <= 2 + 2 * forgets + crashes

\* Where the control loop is tells what memory and file hold: it alone stores an id
\* and saves it, but the heartbeat thread may forget it meanwhile.
Held ==
    /\ Ctl.pc \in {"register", "store"} => mem = NoId
    /\ Ctl.pc \in {"save", "confirm", "confirmed", "pull"} => mem \in {Ctl.eid, NoId}
    /\ Ctl.pc \in {"store", "save", "confirm", "confirmed", "pull"} => Ctl.eid \in Ids
    /\ Ctl.pc = "forget" => file = NoId
    /\ Hb.pc = "call" => Hb.eid \in Ids

\* Memory and file differ only while an id is being saved or cleared.
Agrees ==
    mem # NoId => file = mem \/ Ctl.pc \in {"save", "forget"} \/ Hb.pc = "forget"

IdInv == TypeOK /\ Held /\ Agrees /\ Paid

\* What the invariant says of the heartbeat thread is about its pc and id only.
LEMMA HeartbeatKeeps ==
  ASSUME IdInv, Heartbeat \/ HbFails
  PROVE  Held' /\ Agrees' /\ Paid'
<1>t. "heartbeat" \in Threads /\ th \in [Threads -> Thread] /\ OtherTypes
  BY TypeParts DEF IdInv, Threads
<1>i. Held /\ Agrees /\ Paid
  BY DEF IdInv
<1>c. Ctl' = Ctl /\ UNCHANGED <<known, forgets, crashes, registers>>
  BY <1>t DEF Heartbeat, HbRead, HbAnswered, HbOk, HbLost, HbFails, Clear, ClearCheck,
     ClearUnlink, ClearRaises, ClearForget, Goes, Ctl, Threads
<1>n. registers \in Nat /\ forgets \in Nat /\ crashes \in Nat /\ mem \in Ids \cup {NoId}
      /\ file \in Ids \cup {NoId} /\ NoId \notin Ids
  BY <1>t, IdentityBounds, IdAssumption DEF OtherTypes, MaybeId
<1> USE DEF Held, Agrees, Paid, Owed, One, HbClears, CtlRegisters, FileRefused, MemSoon,
            Refused, Clearing
<1>1. CASE HbRead
  <2>1. Hb'.pc = "call" /\ Hb'.eid = mem /\ UNCHANGED <<mem, file>> /\ Hb.pc = "idle" /\ mem # NoId
    BY <1>1, <1>t DEF HbRead, Hb, Idle, At
  <2> QED BY <1>c, <1>i, <1>n, <2>1
<1>2. CASE HbAnswered
  <2>1. /\ Hb'.pc = IF Hb.eid \in known THEN "ok" ELSE "check"
        /\ UNCHANGED <<mem, file>> /\ Hb.pc = "call"
    BY <1>2, <1>t, GoesThread, Points DEF HbAnswered, Hb, At
  <2> QED BY <1>c, <1>i, <1>n, <2>1
<1>3. CASE HbOk
  <2>1. Hb'.pc = "idle" /\ UNCHANGED <<mem, file>> /\ Hb.pc = "ok"
    BY <1>3, <1>t, GoesThread, Points DEF HbOk, Hb, At
  <2> QED BY <1>c, <1>i, <1>n, <2>1
<1>4. CASE HbLost
  <2>1. Hb'.pc = "idle" /\ UNCHANGED <<mem, file>> /\ Hb.pc = "lost"
    BY <1>4, <1>t, GoesThread, Points DEF HbLost, Hb, At
  <2> QED BY <1>c, <1>i, <1>n, <2>1
<1>5. CASE HbFails
  <2>1. /\ Hb'.pc \in {"call", "lost"} /\ Hb'.eid = Hb.eid
        /\ UNCHANGED <<mem, file>> /\ Hb.pc = "call"
    BY <1>5, <1>t DEF HbFails, Hb, At, Thread
  <2> QED BY <1>c, <1>i, <1>n, <2>1
<1>6. CASE ClearCheck("heartbeat")
  <2>1. /\ Hb'.pc = IF file = NoId THEN "forget" ELSE "unlink"
        /\ UNCHANGED <<mem, file>> /\ Hb.pc = "check"
    BY <1>6, <1>t, GoesThread, Points DEF ClearCheck, Hb, At
  <2> QED BY <1>c, <1>i, <1>n, <2>1
<1>7. CASE ClearUnlink("heartbeat")
  <2>1. Hb'.pc = "forget" /\ UNCHANGED mem /\ file' = NoId /\ Hb.pc = "unlink"
    BY <1>7, <1>t, GoesThread, Points DEF ClearUnlink, Hb, At
  <2> QED BY <1>c, <1>i, <1>n, <2>1
<1>8. CASE ClearRaises("heartbeat")
  <2>1. /\ Hb'.pc \in {"dead", "idle"} /\ UNCHANGED <<mem, file>> /\ Hb.pc = "unlink"
        /\ file = NoId
    BY <1>8, <1>t, GoesThread, Points DEF ClearRaises, Hb, At
  <2> QED BY <1>c, <1>i, <1>n, <2>1
<1>9. CASE ClearForget("heartbeat")
  <2>1. Hb'.pc = "idle" /\ mem' = NoId /\ UNCHANGED file /\ Hb.pc = "forget"
    BY <1>9, <1>t, GoesThread, Points DEF ClearForget, Hb, At
  <2> QED BY <1>c, <1>i, <1>n, <2>1
<1> QED
  BY <1>1, <1>2, <1>3, <1>4, <1>5, <1>6, <1>7, <1>8, <1>9 DEF Heartbeat, Clear

\* The control loop keeps the invariant.
LEMMA ControlKeeps ==
  ASSUME IdInv, Control \/ ControlFails
  PROVE  Held' /\ Agrees' /\ Paid'
<1>t. "control" \in Threads /\ th \in [Threads -> Thread] /\ OtherTypes
  BY TypeParts DEF IdInv, Threads
<1>i. Held /\ Agrees /\ Paid
  BY DEF IdInv
<1>c. Hb' = Hb /\ UNCHANGED <<forgets, crashes>>
  BY <1>t DEF Control, ControlFails, Tick, Register, Store, Save, Confirm, Confirmed, ReadId,
     Pull, Clear, ClearCheck, ClearUnlink, ClearRaises, ClearForget, Goes, Hb, Threads
<1>n. registers \in Nat /\ forgets \in Nat /\ crashes \in Nat /\ mem \in Ids \cup {NoId}
      /\ file \in Ids \cup {NoId} /\ NoId \notin Ids
  BY <1>t, IdentityBounds, IdAssumption DEF OtherTypes, MaybeId
<1> USE DEF Held, Agrees, Paid, Owed, One, HbClears, CtlRegisters, FileRefused, MemSoon,
            Refused, Clearing
<1>1. CASE Tick
  <2>1. /\ Ctl'.pc = IF mem = NoId THEN "register" ELSE "read"
        /\ UNCHANGED <<mem, file, known, registers>> /\ Ctl.pc = "idle"
    BY <1>1, <1>t DEF Tick, Ctl, Idle, At
  <2> QED BY <1>c, <1>i, <1>n, <2>1
<1>2. CASE Register
  <2>1. PICK id \in Ids :
           /\ known' = known \cup {id} /\ registers' = registers + 1
           /\ Ctl'.pc = "store" /\ Ctl'.eid = id
           /\ UNCHANGED <<mem, file>> /\ Ctl.pc = "register"
    BY <1>2, <1>t DEF Register, Ctl, At, Thread
  <2> QED BY <1>c, <1>i, <1>n, <2>1
<1>3. CASE Store
  <2>1. /\ mem' = Ctl.eid /\ UNCHANGED <<file, known, registers>>
        /\ Ctl'.pc = "save" /\ Ctl'.eid = Ctl.eid /\ Ctl.pc = "store"
    BY <1>3, <1>t, GoesThread, Points DEF Store, Ctl, At
  <2> QED BY <1>c, <1>i, <1>n, <2>1
<1>4. CASE Save
  <2>1. /\ file' = Ctl.eid /\ UNCHANGED <<mem, known, registers>>
        /\ Ctl'.pc = "confirm" /\ Ctl'.eid = Ctl.eid /\ Ctl.pc = "save"
    BY <1>4, <1>t, GoesThread, Points DEF Save, Ctl, At
  <2> QED BY <1>c, <1>i, <1>n, <2>1
<1>5. CASE Confirm
  <2>1. /\ UNCHANGED <<mem, file, known, registers>>
        /\ Ctl'.pc = IF Ctl.eid \in known THEN "confirmed" ELSE "check"
        /\ Ctl'.eid = Ctl.eid /\ Ctl.pc = "confirm"
    BY <1>5, <1>t, GoesThread, Points DEF Confirm, Ctl, At
  <2> QED BY <1>c, <1>i, <1>n, <2>1
<1>6. CASE Confirmed
  <2>1. UNCHANGED <<mem, file, known, registers>> /\ Ctl'.pc = "read" /\ Ctl.pc = "confirmed"
    BY <1>6, <1>t, GoesThread, Points DEF Confirmed, Ctl, At
  <2> QED BY <1>c, <1>i, <1>n, <2>1
<1>7. CASE ReadId
  <2>1. /\ UNCHANGED <<mem, file, known, registers>> /\ Ctl.pc = "read"
        /\ \/ mem = NoId /\ Ctl'.pc = "idle"
           \/ mem # NoId /\ Ctl'.pc = "pull" /\ Ctl'.eid = mem
    BY <1>7, <1>t DEF ReadId, Ctl, Idle, At
  <2> QED BY <1>c, <1>i, <1>n, <2>1
<1>8. CASE Pull
  <2>1. /\ UNCHANGED <<mem, file, known, registers>> /\ Ctl.pc = "pull"
        /\ \/ Ctl.eid \in known /\ Ctl'.pc = "idle"
           \/ Ctl.eid \notin known /\ Ctl'.pc = "check"
    BY <1>8, <1>t DEF Pull, Ctl, Idle, At, Thread
  <2> QED BY <1>c, <1>i, <1>n, <2>1
<1>9. CASE ControlFails
  <2>1. /\ UNCHANGED <<mem, file, registers>> /\ known \subseteq known'
        /\ \/ Ctl.pc \in {"register", "pull"} /\ Ctl'.pc = "idle"
           \/ Ctl.pc = "confirm" /\ Ctl'.pc = "read"
    BY <1>9, <1>t, GoesThread, Points DEF ControlFails, Ctl, At
  <2> QED BY <1>c, <1>i, <1>n, <2>1
<1>10. CASE ClearCheck("control")
  <2>1. /\ Ctl'.pc = IF file = NoId THEN "forget" ELSE "unlink"
        /\ UNCHANGED <<mem, file, known, registers>> /\ Ctl.pc = "check"
    BY <1>10, <1>t, GoesThread, Points DEF ClearCheck, Ctl, At
  <2> QED BY <1>c, <1>i, <1>n, <2>1
<1>11. CASE ClearUnlink("control")
  <2>1. /\ Ctl'.pc = "forget" /\ UNCHANGED <<mem, known, registers>> /\ file' = NoId
        /\ Ctl.pc = "unlink"
    BY <1>11, <1>t, GoesThread, Points DEF ClearUnlink, Ctl, At
  <2> QED BY <1>c, <1>i, <1>n, <2>1
<1>12. CASE ClearRaises("control")
  <2>1. /\ Ctl'.pc \in {"dead", "idle"} /\ UNCHANGED <<mem, file, known, registers>>
        /\ Ctl.pc = "unlink" /\ file = NoId
    BY <1>12, <1>t, GoesThread, Points DEF ClearRaises, Ctl, At
  <2> QED BY <1>c, <1>i, <1>n, <2>1
<1>13. CASE ClearForget("control")
  <2>1. /\ Ctl'.pc \in {"read", "idle"} /\ mem' = NoId /\ UNCHANGED <<file, known, registers>>
        /\ Ctl.pc = "forget"
    BY <1>13, <1>t, GoesThread, Points DEF ClearForget, Ctl, At
  <2> QED BY <1>c, <1>i, <1>n, <2>1
<1> QED
  BY <1>1, <1>2, <1>3, <1>4, <1>5, <1>6, <1>7, <1>8, <1>9, <1>10, <1>11, <1>12, <1>13
     DEF Control, Clear

\* At the start one registration is owed, or two when the file's id is refused.
LEMMA IdInvInit == Init => IdInv
<1> SUFFICES ASSUME Init PROVE IdInv
  OBVIOUS
<1>1. TypeOK
  BY TypesInit
<1>2. Hb.pc = "idle" /\ Ctl.pc = "idle"
  BY DEF Init, Hb, Ctl, Idle
<1>3. Held /\ Agrees
  BY <1>2 DEF Held, Agrees, Init
<1>4. Paid
  BY <1>2, IdAssumption DEF Init, Paid, Owed, One, HbClears, CtlRegisters, FileRefused,
     MemSoon, Refused, Clearing
<1> QED BY <1>1, <1>3, <1>4 DEF IdInv

\* A forget makes one id refused, for which two of the three may be owed that were
\* not; a restart owes two at most, and one was owed before.
LEMMA EnvironmentKeeps ==
  ASSUME IdInv, BrainForgets \/ Restart
  PROVE  Held' /\ Agrees' /\ Paid'
<1>i. Held /\ Agrees /\ Paid
  BY DEF IdInv
<1>n. registers \in Nat /\ forgets \in Nat /\ crashes \in Nat /\ mem \in Ids \cup {NoId}
      /\ file \in Ids \cup {NoId} /\ NoId \notin Ids /\ known \subseteq Ids
  BY IdentityBounds, IdAssumption DEF IdInv, TypeOK, MaybeId
<1> USE DEF Held, Agrees, Paid, Owed, One, HbClears, CtlRegisters, FileRefused, MemSoon,
            Refused, Clearing
<1>1. CASE BrainForgets
  <2>1. PICK id \in known : known' = known \ {id}
    BY <1>1 DEF BrainForgets
  <2>2. /\ UNCHANGED <<mem, file, registers, crashes>> /\ forgets' = forgets + 1
        /\ Hb' = Hb /\ Ctl' = Ctl
    BY <1>1 DEF BrainForgets, Hb, Ctl
  <2> QED BY <1>i, <1>n, <2>1, <2>2
<1>2. CASE Restart
  <2>1. /\ UNCHANGED <<file, registers, known, forgets>> /\ crashes' = crashes + 1
        /\ mem' = file /\ Hb'.pc = "idle" /\ Ctl'.pc = "idle"
    BY <1>2 DEF Restart, Hb, Ctl, Idle
  <2> QED BY <1>i, <1>n, <2>1
<1> QED BY <1>1, <1>2

\* Every step keeps the invariant.
LEMMA IdInvStep == IdInv /\ [Next]_vars => IdInv'
<1> SUFFICES ASSUME IdInv, [Next]_vars PROVE IdInv'
  OBVIOUS
<1>1. TypeOK'
  BY TypesStep DEF IdInv
<1>2. CASE Voice \/ ChildExits \/ UNCHANGED vars
  <2>1. UNCHANGED <<mem, file, th, known, registers, forgets, crashes>>
    BY <1>2 DEF Voice, VoiceReads, VoiceSpawns, VoiceEnds, ChildExits, vars
  <2> QED
    BY <1>1, <2>1 DEF IdInv, Held, Agrees, Paid, Owed, HbClears, CtlRegisters, FileRefused,
       MemSoon, Refused, Hb, Ctl
<1> QED
  BY <1>1, <1>2, HeartbeatKeeps, ControlKeeps, EnvironmentKeeps DEF IdInv, Next

\* The invariant holds in every behaviour.
LEMMA IdInvariant == Spec => []IdInv
<1> QED BY IdInvInit, IdInvStep, PTL DEF Spec

\* With both threads at rest the id in memory is the one a restart would find, however
\* the two have cleared it under each other's hands (_clear_edge_id), for any number of
\* forgets, failed calls and restarts.
THEOREM FileAndMemoryAgree == Spec => []FileAgrees
<1>1. IdInv => FileAgrees
  BY DEF IdInv, Agrees, FileAgrees, Hb, Ctl
<1> QED BY <1>1, IdInvariant, PTL

\* The threads do not chase each other: two registrations for each forget and for the
\* start, and one for each restart, are all there ever are.
THEOREM RegistrationsAreBounded == Spec => []RegistrationsBounded
<1>1. IdInv => RegistrationsBounded
  <2>1. IdInv => registers \in Nat /\ forgets \in Nat /\ crashes \in Nat
    BY IdentityBounds DEF IdInv, TypeOK
  <2> QED BY <2>1 DEF IdInv, Paid, Owed, One, RegistrationsBounded
<1> QED BY <1>1, IdInvariant, PTL
=============================================================================
