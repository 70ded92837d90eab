----------------------------- MODULE Television -----------------------------
(***************************************************************************)
(* The television (xiaomi_tv_display.py): a worker that is to show         *)
(* something first finds the renderer - where it was last time, by         *)
(* multicast, or after waking it - and then sends it each picture in two   *)
(* calls. Leases move, the set goes to sleep, and another worker may be    *)
(* showing something too.                                                  *)
(***************************************************************************)
EXTENDS Naturals, FiniteSets

CONSTANTS
    Casters,      \* worker threads
    Addrs,        \* addresses of the house's network
    MaxFrames,    \* pictures of a slideshow
    MaxCasts,     \* bound on the steps begun
    MaxChanges    \* bound on what happens to the set and the network

VARIABLES
    byHost,       \* MAC_EDGE_XIAOMI_TV_HOST without a name: 0 if not given
    lease,        \* per address, who has it: the set, a namesake of it, or another device
    asleep,       \* the set does not answer
    location,     \* the cache file: 0 or the address it names
    mac,          \* it names the set's MAC too
    cast,         \* per worker: its step
    moved,        \* history: workers whose renderer changed address since they found it
    astray,       \* history: workers that sent a picture where it was not meant to go
    casts, changes

vars == <<byHost, lease, asleep, location, mac, cast, moved, astray, casts, changes>>

Nowhere == 0
Off == [at |-> "idle", target |-> Nowhere, found |-> {}, mac |-> FALSE, frames |-> 0]

Answers(a) == lease[a] = "tv" => ~asleep

\* _renderer_matches: by address alone, else by name, which is a word in the name a device
\* gives itself; a neighbour's set, or a loudspeaker of the same maker, may have it too.
Matches(a) == IF byHost # Nowhere THEN a = byHost ELSE lease[a] \in {"tv", "namesake"}

\* fetch and parse_device_description of a location that may have gone.
Verified(a) == Answers(a) /\ Matches(a)
FromCacheUnread(a) == Answers(a)

FromCache(a) == Verified(a)

At(w, at) == cast' = [cast EXCEPT ![w].at = at]
Found(w, a) == [cast EXCEPT ![w].at = "setting", ![w].target = a, ![w].found = {}]
World == <<byHost, lease, asleep>>

-----------------------------------------------------------------------------
(* Discovery.                                                              *)

\* play_photo, play_audio, play_slideshow: the media itself was fetched first.
BeginCast(w, n) ==
    /\ cast[w].at \in {"idle", "ok", "failed"} /\ casts < MaxCasts
    /\ cast' = [cast EXCEPT ![w] = [Off EXCEPT !.at = "recalling", !.frames = n]]
    /\ moved' = moved \ {w} /\ astray' = astray \ {w} /\ casts' = casts + 1
    /\ UNCHANGED <<World, location, mac, changes>>

\* The location that worked last time; one that no longer does is dropped, MAC and all.
Recall(w) ==
    /\ cast[w].at = "recalling"
    /\ IF location # Nowhere /\ FromCache(location)
       THEN cast' = Found(w, location) /\ UNCHANGED <<location, mac>>
       ELSE /\ cast' = [cast EXCEPT ![w].at = "searching", ![w].mac = mac]
            /\ location' = Nowhere /\ mac' = FALSE
    /\ moved' = moved \ {w} /\ UNCHANGED <<World, astray, casts, changes>>

\* Some of the devices answer one of the rounds.
Search(w) ==
    /\ cast[w].at = "searching"
    /\ \E seen \in SUBSET {a \in Addrs : Answers(a)} :
          cast' = IF seen # {} THEN [cast EXCEPT ![w].at = "choosing", ![w].found = seen]
                  ELSE IF cast[w].mac THEN [cast EXCEPT ![w].at = "waking"]
                  ELSE [cast EXCEPT ![w].at = "failed"]
    /\ UNCHANGED <<World, location, mac, moved, astray, casts, changes>>

\* _send_wol; the set has three seconds to answer, and one more round.
Wake(w) ==
    /\ cast[w].at = "waking" /\ asleep' \in {asleep, FALSE}
    /\ cast' = [cast EXCEPT ![w].at = "searching", ![w].mac = FALSE]
    /\ UNCHANGED <<byHost, lease, location, mac, moved, astray, casts, changes>>

Choose(w) ==
    /\ cast[w].at = "choosing"
    /\ LET right == {a \in cast[w].found : Verified(a)}
       IN IF right = {} THEN At(w, "failed") /\ UNCHANGED <<location, mac>>
          ELSE \E a \in right, learned \in BOOLEAN :
                  cast' = Found(w, a) /\ location' = a /\ mac' = learned
    /\ moved' = moved \ {w} /\ UNCHANGED <<World, astray, casts, changes>>

-----------------------------------------------------------------------------
(* _play_uri and the slideshow's loop.                                     *)

SetUri(w) ==
    /\ cast[w].at = "setting"
    /\ IF Answers(cast[w].target)
       THEN /\ At(w, "playing")
            /\ astray' = IF Matches(cast[w].target) THEN astray ELSE astray \union {w}
       ELSE At(w, "failed") /\ UNCHANGED astray
    /\ UNCHANGED <<World, location, mac, moved, casts, changes>>

Play(w) ==
    /\ cast[w].at = "playing"
    /\ cast' = [cast EXCEPT ![w].at = IF ~Answers(cast[w].target) THEN "failed"
                                      ELSE IF cast[w].frames > 1 THEN "setting" ELSE "ok",
                            ![w].frames = @ - 1]
    /\ UNCHANGED <<World, location, mac, moved, astray, casts, changes>>

\* control_audio: pause, resume or stop; 701 means nothing was playing.
Control(w) ==
    /\ cast[w].at = "setting" /\ cast[w].frames = 0
    /\ At(w, IF Answers(cast[w].target) THEN "ok" ELSE "failed")
    /\ UNCHANGED <<World, location, mac, moved, astray, casts, changes>>

-----------------------------------------------------------------------------
(* The set and the network.                                                *)

Change == changes < MaxChanges /\ changes' = changes + 1

\* Two devices exchange their addresses.
Moves ==
    /\ Change
    /\ \E a, b \in Addrs : lease[a] # lease[b] /\ lease' = [lease EXCEPT ![a] = lease[b], ![b] = lease[a]]
    /\ moved' = Casters /\ UNCHANGED <<byHost, asleep, location, mac, cast, astray, casts>>

Sleeps ==
    /\ Change /\ asleep' = ~asleep
    /\ UNCHANGED <<byHost, lease, location, mac, cast, moved, astray, casts>>

-----------------------------------------------------------------------------

Init ==
    /\ byHost \in {Nowhere} \union Addrs
    /\ \E tv \in Addrs : \E alike \in SUBSET (Addrs \ {tv}) :
          lease = [a \in Addrs |-> IF a = tv THEN "tv" ELSE IF a \in alike THEN "namesake" ELSE "other"]
    /\ asleep = FALSE /\ location = Nowhere /\ mac = FALSE
    /\ cast = [w \in Casters |-> Off] /\ moved = {} /\ astray = {} /\ casts = 0 /\ changes = 0

Next ==
    \/ \E w \in Casters :
          \/ \E n \in 0..MaxFrames : BeginCast(w, n)
          \/ Recall(w) \/ Search(w) \/ Wake(w) \/ Choose(w) \/ Control(w)
          \/ cast[w].frames > 0 /\ (SetUri(w) \/ Play(w))
    \/ Moves \/ Sleeps

-----------------------------------------------------------------------------

\* Types of the variables.
TypeOK ==
    /\ byHost \in {Nowhere} \union Addrs /\ lease \in [Addrs -> {"tv", "namesake", "other"}]
    /\ location \in {Nowhere} \union Addrs
    /\ cast \in [Casters -> [at : {"idle", "recalling", "searching", "waking", "choosing", "setting",
                                   "playing", "ok", "failed"},
                             target : {Nowhere} \union Addrs, found : SUBSET Addrs, mac : BOOLEAN,
                             frames : 0..MaxFrames]]
    /\ moved \subseteq Casters /\ astray \subseteq Casters

\* Wherever the set was last time, the family's pictures go to a device that does not
\* answer to the set's name, or is not at the address it was given, only if addresses
\* changed hands after the worker found the one it sends to. (A device that answers to
\* the same name is taken for the set: _name_matches looks for a word in the name, and the
\* first that has it is chosen.)
RightScreen == astray \subseteq moved
=============================================================================
