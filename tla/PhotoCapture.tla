---------------------------- MODULE PhotoCapture ----------------------------
(***************************************************************************)
(* A photo of the GoPro: the Mac leaves its Wi-Fi for the camera's, takes  *)
(* and downloads the picture into the inbox and goes back; a later step    *)
(* uploads it to Brain (gopro_camera.py, wifi_switch.py, capture/store.py, *)
(* asset_upload.py). A call that timed out goes on in its pool worker, so  *)
(* that two may run.                                                       *)
(***************************************************************************)
EXTENDS Naturals, FiniteSets

CONSTANTS
    Takers,       \* pool workers
    Captures,     \* capture ids
    Dests,        \* "img_server" and "cloud", which both go to Brain
    MaxMishaps    \* bound: macOS changes the network, the Runtime restarts

VARIABLES
    taker,        \* per worker: where it is, and what it holds
    wifi,         \* "home", "camera" or "none"
    adrift,       \* history: the last restore failed, or macOS or a restart undid it
    picture,      \* per capture: its jpeg, "none", "torn" or "whole"
    sidecar,      \* per capture: is there one, and its uploaded_dests
    held,         \* captures of which Brain holds an asset
    mishaps       \* bound

vars == <<taker, wifi, adrift, picture, sidecar, held, mishaps>>

Idle == [pc |-> "ready"]
At(w, pc) == taker[w].pc = pc
Goes(w, pc) == taker' = [taker EXCEPT ![w].pc = pc]
Ends(w) == taker' = [taker EXCEPT ![w] = Idle]

SameNet == UNCHANGED <<wifi, adrift>>
SameInbox == UNCHANGED <<picture, sidecar>>

Kept == {c \in Captures : sidecar[c].kept}

-----------------------------------------------------------------------------
(* camera.capture                                                          *)

\* snapshot(): the network the Mac is on now.
Snapshot(w) ==
    /\ At(w, "ready") /\ \E c \in Captures : picture[c] = "none"
    /\ taker' = [taker EXCEPT ![w] = [pc |-> "join"]]
    /\ SameNet /\ SameInbox /\ UNCHANGED <<held, mishaps>>

\* _join_gopro: a camera that is not in range ends the capture.
Join(w) ==
    /\ At(w, "join")
    /\ \/ wifi' = "camera" /\ Goes(w, "shutter")
       \/ wifi # "camera" /\ UNCHANGED wifi /\ Goes(w, "finally")
    /\ UNCHANGED adrift /\ SameInbox /\ UNCHANGED <<held, mishaps>>

\* wait_camera_reachable and the shutter, and then the list of the camera's files and
\* the newest still; every request needs the camera's network.
Shutter(w) ==
    /\ At(w, "shutter")
    /\ \/ wifi = "camera" /\ Goes(w, "download")
       \/ Goes(w, "finally")
    /\ SameNet /\ SameInbox /\ UNCHANGED <<held, mishaps>>

Download(w) ==
    /\ At(w, "download")
    /\ \/ /\ wifi = "camera"
          /\ \E c \in Captures :
               /\ picture[c] = "none"
               /\ picture' = [picture EXCEPT ![c] = "torn"]
               /\ taker' = [taker EXCEPT ![w] = [pc |-> "put", cap |-> c]]
       \/ Goes(w, "finally") /\ UNCHANGED picture
    /\ SameNet /\ UNCHANGED <<sidecar, held, mishaps>>

\* Mutant: the sidecar first, and then the picture.
PutSidecarFirst(w) ==
    /\ At(w, "put")
    /\ LET c == taker[w].cap
       IN  \/ /\ ~sidecar[c].kept /\ sidecar' = [sidecar EXCEPT ![c].kept = TRUE]
              /\ UNCHANGED <<picture, taker>>
           \/ /\ sidecar[c].kept /\ picture' = [picture EXCEPT ![c] = "whole"]
              /\ UNCHANGED sidecar /\ Goes(w, "restore")
    /\ SameNet /\ UNCHANGED <<held, mishaps>>

\* put: the jpeg is written, and then its sidecar.
Put(w) ==
    /\ At(w, "put")
    /\ LET c == taker[w].cap
       IN  \/ /\ picture[c] = "torn" /\ picture' = [picture EXCEPT ![c] = "whole"]
              /\ UNCHANGED <<sidecar, taker>>
           \/ /\ picture[c] = "whole" /\ sidecar' = [sidecar EXCEPT ![c].kept = TRUE]
              /\ UNCHANGED picture /\ Goes(w, "restore")
    /\ SameNet /\ UNCHANGED <<held, mishaps>>

\* _restore_home: it is home, joins it (again when macOS bounces within the hold), or
\* gives up after the second try.
ComesHome == wifi' = "home" /\ adrift' = FALSE
StaysAway == wifi # "home" /\ wifi' \in {wifi, "none"} /\ adrift' = TRUE

Restore(w) ==
    /\ At(w, "restore")
    /\ (ComesHome \/ StaysAway) /\ Goes(w, "finally")
    /\ SameInbox /\ UNCHANGED <<held, mishaps>>

\* Mutant: only a capture that got its picture restores the network.
RestoreAgainOnSuccess(w) ==
    /\ At(w, "finally")
    /\ SameNet /\ Ends(w)
    /\ SameInbox /\ UNCHANGED <<held, mishaps>>

\* The finally clause: once more, whatever happened; a failure is only logged.
RestoreAgain(w) ==
    /\ At(w, "finally")
    /\ (ComesHome \/ StaysAway) /\ Ends(w)
    /\ SameInbox /\ UNCHANGED <<held, mishaps>>

-----------------------------------------------------------------------------
(* asset.upload                                                            *)

Pending(d) == {c \in Kept : d \notin sidecar[c].dests}

\* The capture of an earlier step, or else the only one that is pending.
BeginUpload(w) ==
    /\ At(w, "ready")
    /\ \E d \in Dests, c \in Kept :
         taker' = [taker EXCEPT ![w] = [pc |-> "upload", cap |-> c, dest |-> d]]
    /\ SameNet /\ SameInbox /\ UNCHANGED <<held, mishaps>>

BeginUploadPending(w) ==
    /\ At(w, "ready")
    /\ \E d \in Dests :
         /\ Cardinality(Pending(d)) = 1
         /\ \E c \in Pending(d) :
              taker' = [taker EXCEPT ![w] = [pc |-> "upload", cap |-> c, dest |-> d]]
    /\ SameNet /\ SameInbox /\ UNCHANGED <<held, mishaps>>

\* Mutant: the upload's failure is taken for its answer.
UploadAnyway(w) ==
    /\ At(w, "upload")
    /\ \/ wifi = "home" /\ held' = held \cup {taker[w].cap}
       \/ UNCHANGED held
    /\ Goes(w, "mark")
    /\ SameNet /\ SameInbox /\ UNCHANGED mishaps

\* The request reaches Brain or not, and so does its answer; what is not answered is
\* not marked.
Upload(w) ==
    /\ At(w, "upload")
    /\ \/ wifi = "home" /\ held' = held \cup {taker[w].cap} /\ (Goes(w, "mark") \/ Ends(w))
       \/ UNCHANGED held /\ Ends(w)
    /\ SameNet /\ SameInbox /\ UNCHANGED mishaps

\* mark_uploaded reads the sidecar and writes it back with one more destination.
ReadSidecar(w) ==
    /\ At(w, "mark")
    /\ taker' = [taker EXCEPT ![w] = [pc |-> "write", cap |-> @.cap,
                                      dests |-> sidecar[@.cap].dests \cup {@.dest}]]
    /\ SameNet /\ SameInbox /\ UNCHANGED <<held, mishaps>>

WriteSidecar(w) ==
    /\ At(w, "write")
    /\ sidecar' = [sidecar EXCEPT ![taker[w].cap].dests = taker[w].dests]
    /\ Ends(w)
    /\ SameNet /\ UNCHANGED <<picture, held, mishaps>>

-----------------------------------------------------------------------------
(* What else happens to the Mac.                                           *)

AutoJoin ==
    /\ mishaps < MaxMishaps /\ mishaps' = mishaps + 1
    /\ wifi' \in {"home", "camera", "none"} \ {wifi}
    /\ adrift' = (wifi' # "home")
    /\ UNCHANGED taker /\ SameInbox /\ UNCHANGED held

Restart ==
    /\ mishaps < MaxMishaps /\ mishaps' = mishaps + 1
    /\ taker' = [w \in Takers |-> Idle]
    /\ adrift' = (wifi # "home")
    /\ UNCHANGED wifi /\ SameInbox /\ UNCHANGED held

Init ==
    /\ taker = [w \in Takers |-> Idle]
    /\ wifi = "home" /\ adrift = FALSE
    /\ picture = [c \in Captures |-> "none"]
    /\ sidecar = [c \in Captures |-> [kept |-> FALSE, dests |-> {}]]
    /\ held = {} /\ mishaps = 0

Next ==
    \/ \E w \in Takers :
         \/ Snapshot(w) \/ Join(w) \/ Shutter(w) \/ Download(w) \/ Put(w)
         \/ Restore(w) \/ RestoreAgain(w)
         \/ BeginUpload(w) \/ BeginUploadPending(w) \/ Upload(w)
         \/ ReadSidecar(w) \/ WriteSidecar(w)
    \/ AutoJoin \/ Restart

-----------------------------------------------------------------------------
\* Types of the variables.
TypeOK ==
    /\ \A w \in Takers : taker[w].pc \in {"ready", "join", "shutter", "download", "put",
                                         "restore", "finally", "upload", "mark", "write"}
    /\ wifi \in {"home", "camera", "none"} /\ adrift \in BOOLEAN
    /\ picture \in [Captures -> {"none", "torn", "whole"}]
    /\ sidecar \in [Captures -> [kept : BOOLEAN, dests : SUBSET Dests]] /\ held \subseteq Captures

\* When no capture runs and the last one did not fail to come home, the Mac is on its
\* own Wi-Fi: a camera that is off, a shutter or a download that fails, and another
\* capture in between leave it there too (the finally clause of capture_photo_pipeline,
\* with MAC_EDGE_HOME_WIFI_SSID set).
HomeAgain ==
    (\A w \in Takers : taker[w].pc \notin {"join", "shutter", "download", "put", "restore", "finally"})
        => wifi = "home" \/ adrift

\* A capture marked as uploaded is in Brain, whatever a lost answer, a restart or a
\* second upload did (upload_from_params marks after the answer).
MarkedIsHeld == \A c \in Captures : sidecar[c].dests # {} => c \in held

\* What is uploaded is a whole picture: a restart in the middle of put leaves nothing
\* that unique_pending finds (the sidecar is written last).
UploadsWhole == \A w \in Takers : At(w, "upload") => picture[taker[w].cap] = "whole"
=============================================================================
