---------------------------- MODULE EdgeIdentity ----------------------------
(***************************************************************************)
(* The identity of the edge and those who share it.                        *)
(*                                                                         *)
(* Brain gives the edge an id (register) and may forget it, after which it *)
(* refuses every call made under it (401).  The id is in memory (_edge_id) *)
(* and in edge_id.json; two threads of the agent use it, clear it when they*)
(* are refused, and do not wait for each other:                            *)
(*   - the heartbeat thread (EdgeAgent._heartbeat_loop);                   *)
(*   - the control loop, which registers again when there is no id, and    *)
(*     pulls intents under it (EdgeAgent._control_tick, run).              *)
(* The id that a heartbeat was accepted for is kept apart; under that id a *)
(* third thread, the voice supervisor, runs mac_voice as a child process.  *)
(*                                                                         *)
(* A call is answered in one step and its answer acted on in another.  What*)
(* else a tick of the control loop does is not this module's matter.       *)
(***************************************************************************)
EXTENDS Naturals

CONSTANTS
    Ids,         \* the ids Brain may give
    NoId,        \* none: None in memory, no file, no child
    Attempts,    \* _HEARTBEAT_MAX_ATTEMPTS
    MaxForgets,  \* how often Brain forgets an id
    MaxFaults,   \* calls that fail, and children that die
    MaxCrashes   \* restarts of the process

ASSUME IdAssumption == NoId \notin Ids /\ Ids # {}
ASSUME IdentityBounds ==
    Attempts \in Nat \ {0} /\ MaxForgets \in Nat /\ MaxFaults \in Nat /\ MaxCrashes \in Nat

VARIABLES
    mem,      \* EdgeAgent._edge_id
    file,     \* edge_id.json
    ok,       \* EdgeAgent._heartbeat_ok_edge_id
    th,       \* the two threads: where each is, and the id its call is about
    voice,    \* the supervisor: where it is, and the id it spawned mac_voice for
    child,    \* the id mac_voice runs under, NoId when it does not run
    known,    \* the ids Brain knows
    registers, forgets, faults, crashes

vars == <<mem, file, ok, th, voice, child, known, registers, forgets, faults, crashes>>

MaybeId == Ids \cup {NoId}

Up == th["control"].pc # "dead"

At(t, pc) == Up /\ th[t].pc = pc

Idle == [pc |-> "idle", eid |-> NoId, try |-> 0, fatal |-> FALSE]

Goes(t, pc) == th' = [th EXCEPT ![t].pc = pc]

-----------------------------------------------------------------------------
(* Clearing the id (_clear_edge_id): is there a file, remove it, forget.   *)
(* Another thread may remove the file in between; then unlink raises.      *)

ClearCheck(t) ==
    /\ At(t, "check")
    /\ Goes(t, IF file = NoId THEN "forget" ELSE "unlink")
    /\ UNCHANGED <<mem, file, ok, voice, child, known, registers, forgets, faults, crashes>>

ClearUnlink(t) ==
    /\ At(t, "unlink") /\ file # NoId
    /\ file' = NoId
    /\ Goes(t, "forget")
    /\ UNCHANGED <<mem, ok, voice, child, known, registers, forgets, faults, crashes>>

\* FileNotFoundError.  Both loops log it and go on, except where the control loop
\* is already handling the refusal of its own call: there it leaves run.
ClearRaises(t) ==
    /\ At(t, "unlink") /\ file = NoId
    /\ Goes(t, IF th[t].fatal THEN "dead" ELSE "idle")
    /\ UNCHANGED <<mem, file, ok, voice, child, known, registers, forgets, faults, crashes>>

ClearForget(t) ==
    /\ At(t, "forget")
    /\ mem' = NoId /\ ok' = NoId
    /\ Goes(t, IF t = "control" /\ ~th[t].fatal THEN "read" ELSE "idle")
    /\ UNCHANGED <<file, voice, child, known, registers, forgets, faults, crashes>>

Clear(t) == ClearCheck(t) \/ ClearUnlink(t) \/ ClearRaises(t) \/ ClearForget(t)

-----------------------------------------------------------------------------
(* The heartbeat thread.                                                   *)

HbRead ==
    /\ At("heartbeat", "idle") /\ mem # NoId
    /\ th' = [th EXCEPT !["heartbeat"] = [Idle EXCEPT !.pc = "call", !.eid = mem, !.try = 1]]
    /\ UNCHANGED <<mem, file, ok, voice, child, known, registers, forgets, faults, crashes>>

HbAnswered ==
    /\ At("heartbeat", "call")
    /\ Goes("heartbeat", IF th["heartbeat"].eid \in known THEN "ok" ELSE "check")
    /\ UNCHANGED <<mem, file, ok, voice, child, known, registers, forgets, faults, crashes>>

\* Mutant: one attempt too many.
HbFailsAgain ==
    /\ At("heartbeat", "call") /\ faults < MaxFaults
    /\ faults' = faults + 1
    /\ th' = IF th["heartbeat"].try <= Attempts
             THEN [th EXCEPT !["heartbeat"].try = @ + 1]
             ELSE [th EXCEPT !["heartbeat"].pc = "lost"]
    /\ UNCHANGED <<mem, file, ok, voice, child, known, registers, forgets, crashes>>

HbFails ==
    /\ At("heartbeat", "call") /\ faults < MaxFaults
    /\ faults' = faults + 1
    /\ th' = IF th["heartbeat"].try < Attempts
             THEN [th EXCEPT !["heartbeat"].try = @ + 1]
             ELSE [th EXCEPT !["heartbeat"].pc = "lost"]
    /\ UNCHANGED <<mem, file, ok, voice, child, known, registers, forgets, crashes>>

\* Mutant: only a registration tells the supervisor.
HbOkUntold ==
    /\ At("heartbeat", "ok")
    /\ Goes("heartbeat", "idle")
    /\ UNCHANGED <<mem, file, ok, voice, child, known, registers, forgets, faults, crashes>>

HbOk ==
    /\ At("heartbeat", "ok")
    /\ ok' = th["heartbeat"].eid
    /\ Goes("heartbeat", "idle")
    /\ UNCHANGED <<mem, file, voice, child, known, registers, forgets, faults, crashes>>

HbLost ==
    /\ At("heartbeat", "lost")
    /\ ok' = NoId
    /\ Goes("heartbeat", "idle")
    /\ UNCHANGED <<mem, file, voice, child, known, registers, forgets, faults, crashes>>

Heartbeat == HbRead \/ HbAnswered \/ HbOk \/ HbLost \/ Clear("heartbeat")

-----------------------------------------------------------------------------
(* The control loop.                                                       *)

\* Mutant: every tick registers.
TickRegisters ==
    /\ At("control", "idle")
    /\ th' = [th EXCEPT !["control"] = [Idle EXCEPT !.pc = "register"]]
    /\ UNCHANGED <<mem, file, ok, voice, child, known, registers, forgets, faults, crashes>>

Tick ==
    /\ At("control", "idle")
    /\ th' = [th EXCEPT !["control"] =
                 [Idle EXCEPT !.pc = IF mem = NoId THEN "register" ELSE "read"]]
    /\ UNCHANGED <<mem, file, ok, voice, child, known, registers, forgets, faults, crashes>>

Register ==
    /\ At("control", "register")
    /\ registers' = registers + 1
    /\ \E id \in Ids :
          /\ known' = known \cup {id}
          /\ th' = [th EXCEPT !["control"].pc = "store", !["control"].eid = id]
    /\ UNCHANGED <<mem, file, ok, voice, child, forgets, faults, crashes>>

Store ==
    /\ At("control", "store")
    /\ mem' = th["control"].eid
    /\ Goes("control", "save")
    /\ UNCHANGED <<file, ok, voice, child, known, registers, forgets, faults, crashes>>

\* Mutant: a file that is there is kept.
SaveOnce ==
    /\ At("control", "save")
    /\ file' = IF file = NoId THEN th["control"].eid ELSE file
    /\ Goes("control", "confirm")
    /\ UNCHANGED <<mem, ok, voice, child, known, registers, forgets, faults, crashes>>

Save ==
    /\ At("control", "save")
    /\ file' = th["control"].eid
    /\ Goes("control", "confirm")
    /\ UNCHANGED <<mem, ok, voice, child, known, registers, forgets, faults, crashes>>

\* The heartbeat that ends a registration.
Confirm ==
    /\ At("control", "confirm")
    /\ Goes("control", IF th["control"].eid \in known THEN "confirmed" ELSE "check")
    /\ UNCHANGED <<mem, file, ok, voice, child, known, registers, forgets, faults, crashes>>

Confirmed ==
    /\ At("control", "confirmed")
    /\ ok' = th["control"].eid
    /\ Goes("control", "read")
    /\ UNCHANGED <<mem, file, voice, child, known, registers, forgets, faults, crashes>>

\* The id is read a second time; without one the tick ends.
ReadId ==
    /\ At("control", "read")
    /\ th' = [th EXCEPT !["control"] =
                 IF mem = NoId THEN Idle ELSE [Idle EXCEPT !.pc = "pull", !.eid = mem]]
    /\ UNCHANGED <<mem, file, ok, voice, child, known, registers, forgets, faults, crashes>>

Pull ==
    /\ At("control", "pull")
    /\ th' = [th EXCEPT !["control"] =
                 IF @.eid \in known THEN Idle ELSE [@ EXCEPT !.pc = "check", !.fatal = TRUE]]
    /\ UNCHANGED <<mem, file, ok, voice, child, known, registers, forgets, faults, crashes>>

\* A call that gets no answer.  A registration may have reached Brain.
ControlFails ==
    /\ faults < MaxFaults
    /\ faults' = faults + 1
    /\ \/ At("control", "register")
          /\ (known' = known \/ \E id \in Ids : known' = known \cup {id})
          /\ Goes("control", "idle")
       \/ At("control", "confirm") /\ known' = known /\ Goes("control", "read")
       \/ At("control", "pull") /\ known' = known /\ Goes("control", "idle")
    /\ UNCHANGED <<mem, file, ok, voice, child, registers, forgets, crashes>>

Control ==
    \/ Tick \/ Register \/ Store \/ Save \/ Confirm \/ Confirmed \/ ReadId \/ Pull
    \/ Clear("control")

-----------------------------------------------------------------------------
(* The voice supervisor (VoiceSupervisor._loop).                           *)

VoiceReads ==
    /\ Up /\ voice.pc = "wait" /\ ok # NoId
    /\ voice' = [pc |-> "spawn", eid |-> ok]
    /\ UNCHANGED <<mem, file, ok, th, child, known, registers, forgets, faults, crashes>>

VoiceSpawns ==
    /\ Up /\ voice.pc = "spawn"
    /\ child' = voice.eid
    /\ voice' = [voice EXCEPT !.pc = "watch"]
    /\ UNCHANGED <<mem, file, ok, th, known, registers, forgets, faults, crashes>>

\* Mutant: another id is as good as the one it was spawned for.
VoiceEndsWithoutId ==
    /\ Up /\ voice.pc = "watch" /\ (child = NoId \/ ok = NoId)
    /\ child' = NoId
    /\ voice' = [voice EXCEPT !.pc = "wait"]
    /\ UNCHANGED <<mem, file, ok, th, known, registers, forgets, faults, crashes>>

\* mac_voice has exited, or the id is another one.
VoiceEnds ==
    /\ Up /\ voice.pc = "watch" /\ (child = NoId \/ ok # voice.eid)
    /\ child' = NoId
    /\ voice' = [voice EXCEPT !.pc = "wait"]
    /\ UNCHANGED <<mem, file, ok, th, known, registers, forgets, faults, crashes>>

ChildExits ==
    /\ child # NoId /\ faults < MaxFaults
    /\ faults' = faults + 1
    /\ child' = NoId
    /\ UNCHANGED <<mem, file, ok, th, voice, known, registers, forgets, crashes>>

Voice == VoiceReads \/ VoiceSpawns \/ VoiceEnds

-----------------------------------------------------------------------------
(* Brain forgets, and the process is started again.                        *)

BrainForgets ==
    /\ forgets < MaxForgets
    /\ forgets' = forgets + 1
    /\ \E id \in known : known' = known \ {id}
    /\ UNCHANGED <<mem, file, ok, th, voice, child, registers, faults, crashes>>

Restart ==
    /\ crashes < MaxCrashes
    /\ crashes' = crashes + 1
    /\ mem' = file /\ ok' = NoId
    /\ th' = [t \in {"heartbeat", "control"} |-> Idle]
    /\ voice' = [pc |-> "wait", eid |-> NoId] /\ child' = NoId
    /\ UNCHANGED <<file, known, registers, forgets, faults>>

-----------------------------------------------------------------------------

\* The process starts without an id, or with one from before that Brain may know.
Init ==
    /\ file \in MaybeId /\ mem = file /\ ok = NoId
    /\ th = [t \in {"heartbeat", "control"} |-> Idle]
    /\ voice = [pc |-> "wait", eid |-> NoId] /\ child = NoId
    /\ known \in SUBSET Ids
    /\ registers = 0 /\ forgets = 0 /\ faults = 0 /\ crashes = 0

Next ==
    \/ Heartbeat \/ HbFails \/ Control \/ ControlFails \/ Voice \/ ChildExits
    \/ BrainForgets \/ Restart

Spec == Init /\ [][Next]_vars

\* Each of the three threads goes on; calls end, as the clients have time-outs.
FairSpec == Spec /\ WF_vars(Heartbeat) /\ WF_vars(Control) /\ WF_vars(Voice)

-----------------------------------------------------------------------------
(* Properties.                                                             *)

ThreadPC == {"idle", "call", "ok", "lost", "check", "unlink", "forget", "register", "store",
             "save", "confirm", "confirmed", "read", "pull", "dead"}

\* Every variable keeps the shape the code gives it; no heartbeat is tried too often.
TypeOK ==
    /\ mem \in MaybeId /\ file \in MaybeId /\ ok \in MaybeId /\ child \in MaybeId
    /\ th \in [{"heartbeat", "control"} ->
                  [pc : ThreadPC, eid : MaybeId, try : 0..Attempts, fatal : BOOLEAN]]
    /\ voice \in [pc : {"wait", "spawn", "watch"}, eid : MaybeId]
    /\ known \subseteq Ids
    /\ registers \in Nat
    /\ forgets \in 0..MaxForgets /\ faults \in 0..MaxFaults /\ crashes \in 0..MaxCrashes

\* A refusal that comes late may clear the id that has replaced the refused one, but
\* the threads do not go on chasing each other: for every id that Brain did not know at
\* the start or has forgotten there are two registrations at most, and a restart in the
\* middle of one costs one more.
RegistrationsBounded == registers <= 2 + 2 * forgets + crashes

\* With both threads at rest, the id in memory is the one a restart would find.
FileAgrees ==
    th["heartbeat"].pc = "idle" /\ th["control"].pc = "idle" /\ mem # NoId => file = mem

\* In the end everybody shares one id that Brain knows: memory, file, the id last
\* accepted, and mac_voice.
Settles ==
    <>[](\/ ~Up
         \/ mem \in known /\ file = mem /\ ok = mem /\ child = mem)

\* mac_voice does not go on under another id than the one last accepted.
VoiceFollows == child # NoId /\ child # ok ~> child = NoId \/ child = ok \/ ~Up

\* Being refused does not end the agent: the control loop goes on to register.
ControlSurvives == Up

=============================================================================
