----------------------------- MODULE DirSource -----------------------------
(***************************************************************************)
(* The directory source (internal/driver/dirsource): a watcher sends the   *)
(* paths of new pictures, a listener starts a goroutine for each that reads*)
(* it five seconds later into one half of a double buffer, and Next hands  *)
(* out frames that point to the other half; the pipeline copies them later.*)
(* The pipeline starts the source for a session and stops it when the      *)
(* frames of the session are done (module SessionManager), and starts it   *)
(* again: the goroutines that wait live on.                                *)
(***************************************************************************)
EXTENDS Integers, Sequences, FiniteSets

CONSTANTS
    Pictures,       \* the files
    NoPicture,      \* an empty path, or an empty half
    Torn,           \* what is being written, or neither one picture nor another
    Reads,          \* bound: calls of readImage
    Frames,         \* bound: frames taken
    MaxSessions     \* bound: times the source is started

ASSUME DirAssumption ==
    /\ {NoPicture, Torn} \cap Pictures = {} /\ NoPicture # Torn
    /\ IsFiniteSet(Reads)

VARIABLES
    state,          \* of the source: "stopped", "seeding" (in Start), "running", "draining"
    sessions, seed, \* times it was started; the call of readImage Start has made
    fsOpen,         \* the library sends events
    wpc, event,     \* Watcher.watch: "none", "select", "send", and the path it sends
    updates,        \* Watcher.Updates
    listening, latestFile,
    rpc, path, imgIndex,    \* the calls of readImage
    images, currentImage, features,
    frame,
    lapped          \* two calls of readImage have overlapped, or one and Stop

srcVars == <<state, sessions, seed>>
watchVars == <<fsOpen, wpc, event>>
listenVars == <<listening, latestFile>>
readVars == <<rpc, path, imgIndex>>
imgVars == <<images, currentImage, features, lapped>>
vars == <<srcVars, watchVars, updates, listenVars, readVars, imgVars, frame>>

NoFrame == [at |-> "none", src |-> 0, features |-> NoPicture, copy |-> NoPicture, reads |-> 0]

Init ==
    /\ state = "stopped" /\ sessions = 0 /\ seed \in Reads
    /\ fsOpen = FALSE /\ wpc = "none" /\ event = NoPicture
    /\ updates = <<>> /\ listening = FALSE /\ latestFile = NoPicture
    /\ rpc = [r \in Reads |-> "none"] /\ path = [r \in Reads |-> NoPicture]
    /\ imgIndex = [r \in Reads |-> 0]
    /\ images = [h \in {0, 1} |-> NoPicture] /\ currentImage = 0 /\ features = NoPicture
    /\ lapped = FALSE
    /\ frame = [f \in Frames |-> NoFrame]
---------------------------------------------------------------------------
(* The watcher and the listener.                                           *)

\* An event of the library for a file; folders lead to no update.
FileEvent ==
    /\ wpc = "select" /\ fsOpen
    /\ event' \in Pictures /\ wpc' = "send"
    /\ UNCHANGED <<srcVars, fsOpen, updates, listenVars, readVars, imgVars, frame>>

SendUpdate ==
    /\ wpc = "send" /\ updates = <<>>
    /\ updates' = <<event>> /\ wpc' = "select" /\ event' = NoPicture
    /\ UNCHANGED <<srcVars, fsOpen, listenVars, readVars, imgVars, frame>>

\* The library has closed its channels: the watcher closes Updates.
WatcherEnds ==
    /\ wpc = "select" /\ ~fsOpen
    /\ wpc' = "none"
    /\ UNCHANGED <<srcVars, fsOpen, event, updates, listenVars, readVars, imgVars, frame>>

\* A call of readImage, by Start or in a goroutine.
Begins(r, at, p) ==
    /\ rpc[r] = "none"
    /\ rpc' = [rpc EXCEPT ![r] = at]
    /\ path' = [path EXCEPT ![r] = p]
    /\ UNCHANGED imgIndex

\* The listener passes over the file it took last, and files that are gone.
Listens ==
    /\ listening /\ updates # <<>>
    /\ updates' = <<>>
    /\ \/ /\ Head(updates) # latestFile
          /\ \E r \in Reads : Begins(r, "delay", Head(updates))
          /\ latestFile' = Head(updates)
       \/ UNCHANGED <<readVars, latestFile>>
    /\ UNCHANGED <<srcVars, watchVars, listening, imgVars, frame>>

ListenerEnds ==
    /\ listening /\ updates = <<>> /\ wpc = "none"
    /\ listening' = FALSE
    /\ UNCHANGED <<srcVars, watchVars, updates, latestFile, readVars, imgVars, frame>>
---------------------------------------------------------------------------
(* readImage.                                                              *)

Reading == {r \in Reads : rpc[r] \in {"open", "write", "swap"}}

\* Mutant: the half that is shown.
CurrentHalf == currentImage

OtherHalf == 1 - currentImage

\* A frame that is not copied yet sees one more call.
SeenByFrames == [f \in Frames |->
    IF frame[f].at \in {"taken", "copying"} THEN [frame[f] EXCEPT !.reads = @ + 1] ELSE frame[f]]

\* It chooses the half to write without the mutex.
Chooses(r) ==
    /\ rpc[r] = "delay"
    /\ rpc' = [rpc EXCEPT ![r] = "open"]
    /\ imgIndex' = [imgIndex EXCEPT ![r] = OtherHalf]
    /\ lapped' = (lapped \/ Reading # {})
    /\ frame' = SeenByFrames
    /\ UNCHANGED <<srcVars, watchVars, updates, listenVars, path, images, currentImage, features>>

\* ReadFile writes in place, and a frame that is being copied from there gets both.
Writes(r) ==
    /\ rpc[r] = "open"
    /\ rpc' = [rpc EXCEPT ![r] = "write"]
    /\ images' = [images EXCEPT ![imgIndex[r]] = Torn]
    /\ frame' = [f \in Frames |->
         IF frame[f].at = "copying" /\ frame[f].src = imgIndex[r]
           THEN [frame[f] EXCEPT !.copy = Torn] ELSE frame[f]]
    /\ UNCHANGED <<srcVars, watchVars, updates, listenVars, path, imgIndex, currentImage,
                   features, lapped>>

Written(r) ==
    /\ rpc[r] = "write"
    /\ rpc' = [rpc EXCEPT ![r] = "swap"]
    /\ \E c \in {path[r]} \union (IF lapped THEN {Torn} ELSE {}) :
         images' = [images EXCEPT ![imgIndex[r]] = c]
    /\ UNCHANGED <<srcVars, watchVars, updates, listenVars, path, imgIndex, currentImage,
                   features, lapped, frame>>

\* The file cannot be opened, or is no picture, or ends too soon.
ReadFails(r) ==
    /\ rpc[r] \in {"open", "write"}
    /\ rpc' = [rpc EXCEPT ![r] = "over"]
    /\ UNCHANGED <<srcVars, watchVars, updates, listenVars, path, imgIndex, imgVars, frame>>

Swaps(r) ==
    /\ rpc[r] = "swap"
    /\ rpc' = [rpc EXCEPT ![r] = "over"]
    /\ currentImage' = imgIndex[r] /\ features' = path[r]
    /\ UNCHANGED <<srcVars, watchVars, updates, listenVars, path, imgIndex, images, lapped, frame>>
---------------------------------------------------------------------------
(* Start, Next, Compress and Stop.                                         *)

\* Start reads the newest picture itself, while others may come.  A listener of the session
\* before that is still there has nothing more to take: its channel is closed and empty.
Start ==
    /\ state = "stopped" /\ sessions < MaxSessions
    /\ sessions' = sessions + 1
    /\ fsOpen' = TRUE /\ wpc' = "select" /\ listening' = TRUE /\ latestFile' = NoPicture
    /\ state' = "seeding"
    /\ \E r \in Reads, p \in Pictures : Begins(r, "delay", p) /\ seed' = r
    /\ UNCHANGED <<event, updates, imgVars, frame>>

Started ==
    /\ state = "seeding" /\ rpc[seed] = "over"
    /\ state' = "running"
    /\ UNCHANGED <<sessions, seed, watchVars, updates, listenVars, readVars, imgVars, frame>>

\* Next passes over a half that is empty.
SrcNext(f) ==
    /\ state = "running" /\ frame[f].at = "none"
    /\ images[currentImage] # NoPicture
    /\ frame' = [frame EXCEPT ![f] = [at |-> "taken", src |-> currentImage, features |-> features,
                                      copy |-> NoPicture, reads |-> Cardinality(Reading)]]
    /\ UNCHANGED <<srcVars, watchVars, updates, listenVars, readVars, imgVars>>

\* Compress copies the half the frame points to.
CopyBegins(f) ==
    /\ frame[f].at = "taken"
    /\ frame' = [frame EXCEPT ![f].at = "copying", ![f].copy = images[frame[f].src]]
    /\ UNCHANGED <<srcVars, watchVars, updates, listenVars, readVars, imgVars>>

CopyEnds(f) ==
    /\ frame[f].at = "copying"
    /\ frame' = [frame EXCEPT ![f].at = "copied"]
    /\ UNCHANGED <<srcVars, watchVars, updates, listenVars, readVars, imgVars>>

\* The pipeline drops a frame that finds its slot stuck.
Dropped(f) ==
    /\ frame[f].at = "taken"
    /\ frame' = [frame EXCEPT ![f].at = "dropped"]
    /\ UNCHANGED <<srcVars, watchVars, updates, listenVars, readVars, imgVars>>

\* The pipeline has joined the session: no frame is on its way.
Stop ==
    /\ state = "running" /\ \A f \in Frames : frame[f].at \notin {"taken", "copying"}
    /\ state' = "draining" /\ fsOpen' = FALSE
    /\ UNCHANGED <<sessions, seed, wpc, event, updates, listenVars, readVars, imgVars, frame>>

Drains ==
    /\ state = "draining" /\ updates # <<>>
    /\ updates' = <<>>
    /\ UNCHANGED <<srcVars, watchVars, listenVars, readVars, imgVars, frame>>

\* Updates is closed and empty: the images are freed, also under a read.
Stopped ==
    /\ state = "draining" /\ updates = <<>> /\ wpc = "none"
    /\ state' = "stopped"
    /\ images' = [h \in {0, 1} |-> NoPicture]
    /\ lapped' = (lapped \/ Reading # {})
    /\ UNCHANGED <<sessions, seed, watchVars, updates, listenVars, readVars, currentImage,
                   features, frame>>

Next ==
    \/ FileEvent \/ SendUpdate \/ WatcherEnds \/ Listens \/ ListenerEnds
    \/ Start \/ Started \/ Stop \/ Drains \/ Stopped
    \/ \E r \in Reads : Chooses(r) \/ Writes(r) \/ Written(r) \/ ReadFails(r) \/ Swaps(r)
    \/ \E f \in Frames : SrcNext(f) \/ CopyBegins(f) \/ CopyEnds(f) \/ Dropped(f)

Spec == Init /\ [][Next]_vars
---------------------------------------------------------------------------
\* A frame that is copied is one picture, the one its features are of, if the calls of
\* readImage did not overlap each other or Stop, and fewer than two of them chose a half to
\* write while it waited in the pipeline: the first of them writes the other half, and the
\* double buffer has no third.  Nothing in the code keeps a second one away.
FrameIntact ==
    \A f \in Frames :
        frame[f].at = "copied" /\ frame[f].reads < 2 /\ ~lapped => frame[f].copy = frame[f].features
===========================================================================
