------------------------------ MODULE Service ------------------------------
(***************************************************************************)
(* The service (cmd/driver/media.go, alertusb.go; backend/folder.go): one  *)
(* goroutine asks the server which folder to watch, watchMedia starts a    *)
(* watcher for every answer that is new and cancels the one before, another*)
(* watches the USB camera, another waits for the first upload of the day.  *)
(*                                                                         *)
(* The server and the camera are external: the server changes the folder,  *)
(* fails to answer; the camera comes and goes.  A FileWatch is what module *)
(* FileWatcher shows it to be: Watch runs until it fails or is cancelled,  *)
(* and then returns, unless an upload of its own keeps it.                 *)
(***************************************************************************)
EXTENDS Integers, Sequences

CONSTANTS
    Folders,        \* values of local_path
    NoFolder,       \* the empty one, lastFolder at first
    ChanCap,        \* capacity of folderChan
    MaxChanges,     \* bound: changes of the folder in the server
    MaxOutages      \* bound: times the camera comes back

ASSUME ServiceAssumption ==
    /\ NoFolder \in Folders
    /\ ChanCap \in Nat \ {0} /\ MaxChanges \in Nat /\ MaxOutages \in Nat \ {0}

Watchers == 1 .. MaxChanges + 1

VARIABLES
    ctxDone,                    \* Stop has cancelled the context of Run
    folder, changes,            \* server: the folder of the camera
    ppc, got, lastFolder,       \* WatchFolder
    folderChan,
    latest,                     \* watchers started so far
    watched,                    \* the folder of each
    wpc, err, timing,           \* its goroutine, the error of Watch, the aux goroutine
    cancelled,                  \* watchers whose context watchMedia has cancelled
    usbOver, usbDetected, usbMissing, usbID,    \* monitorUSB
    calls,                      \* proxy calls of monitorUSB, in order
    pending,                    \* the goroutines of the proxy, counted by its wg
    recording                   \* the goroutine of the 24 hours: "waits", "alerts", "over"

pollVars == <<ppc, got, lastFolder>>
watchVars == <<latest, watched, wpc, err, timing, cancelled>>
usbVars == <<usbOver, usbDetected, usbMissing, usbID, calls, pending>>
serverVars == <<folder, changes>>
vars == <<ctxDone, serverVars, pollVars, folderChan, watchVars, usbVars, recording>>

Init ==
    /\ ctxDone = FALSE
    /\ folder \in Folders /\ changes = 0
    /\ ppc = "ask" /\ got = NoFolder /\ lastFolder = NoFolder
    /\ folderChan = <<>>
    /\ latest = 0 /\ watched = [w \in Watchers |-> NoFolder]
    /\ wpc = [w \in Watchers |-> "none"] /\ err = [w \in Watchers |-> "none"]
    /\ timing = {} /\ cancelled = {}
    /\ usbOver = FALSE /\ usbDetected = FALSE /\ usbMissing = FALSE /\ usbID = 1
    /\ calls = <<>> /\ pending = 0
    /\ recording = "waits"
---------------------------------------------------------------------------
(* WatchFolder.                                                            *)

\* A request is sent only if its context lives; else the poll fails, and is made again:
\* once cancelled here, WatchFolder never leaves "ask".
PollAsks ==
    /\ ppc = "ask" /\ ~ctxDone
    /\ ppc' = "answer"
    /\ UNCHANGED <<ctxDone, serverVars, got, lastFolder, folderChan, watchVars, usbVars, recording>>

PollOk ==
    /\ ppc = "answer"
    /\ got' = folder
    /\ ppc' = IF folder # lastFolder THEN "send" ELSE "wait"
    /\ UNCHANGED <<ctxDone, serverVars, lastFolder, folderChan, watchVars, usbVars, recording>>

PollFails ==
    /\ ppc = "answer"
    /\ ppc' = "ask"
    /\ UNCHANGED <<ctxDone, serverVars, got, lastFolder, folderChan, watchVars, usbVars, recording>>

PollSends ==
    /\ ppc = "send" /\ Len(folderChan) < ChanCap
    /\ folderChan' = Append(folderChan, got)
    /\ lastFolder' = got
    /\ ppc' = "wait"
    /\ UNCHANGED <<ctxDone, serverVars, got, watchVars, usbVars, recording>>

PollTimer ==
    /\ ppc = "wait"
    /\ ppc' = "ask"
    /\ UNCHANGED <<ctxDone, serverVars, got, lastFolder, folderChan, watchVars, usbVars, recording>>

PollEnds ==
    /\ ppc \in {"send", "wait"} /\ ctxDone
    /\ ppc' = "over"
    /\ UNCHANGED <<ctxDone, serverVars, got, lastFolder, folderChan, watchVars, usbVars, recording>>
---------------------------------------------------------------------------
(* watchMedia: the loop over folderChan, and a goroutine per folder.       *)

\* Mutant: the context of a watcher has no parent.
CancelledAlone(w) == w \in cancelled

Cancelled(w) == ctxDone \/ w \in cancelled

\* Mutant: cancelPrevWatcher is called after it has been replaced.
NewCancelled == cancelled \union {latest + 1}

PrevCancelled == IF latest = 0 THEN cancelled ELSE cancelled \union {latest}

FolderUpdate ==
    /\ folderChan # <<>> /\ latest + 1 \in Watchers
    /\ folderChan' = Tail(folderChan)
    /\ cancelled' = PrevCancelled
    /\ latest' = latest + 1
    /\ watched' = [watched EXCEPT ![latest + 1] = Head(folderChan)]
    /\ wpc' = [wpc EXCEPT ![latest + 1] = "watch"]
    /\ timing' = timing \union {latest + 1}
    /\ UNCHANGED <<ctxDone, serverVars, pollVars, err, usbVars, recording>>

\* Watch returns an error: the folder is not there, the history cannot be read; or the
\* library has failed, and its error may be joined with the context.Canceled of dispatch.
WatchFails(w) ==
    /\ wpc[w] = "watch"
    /\ wpc' = [wpc EXCEPT ![w] = "join"]
    /\ \E e \in {"plain", "canceled"} : err' = [err EXCEPT ![w] = e]
    /\ UNCHANGED <<ctxDone, serverVars, pollVars, folderChan, latest, watched, timing, cancelled,
                   usbVars, recording>>

WatchCancelled(w) ==
    /\ wpc[w] = "watch" /\ Cancelled(w)
    /\ wpc' = [wpc EXCEPT ![w] = "join"]
    /\ err' = [err EXCEPT ![w] = "canceled"]
    /\ UNCHANGED <<ctxDone, serverVars, pollVars, folderChan, latest, watched, timing, cancelled,
                   usbVars, recording>>

\* Cancelled or failed, Watch waits for an upload that does not end.
WatchStuck(w) ==
    /\ wpc[w] = "watch"
    /\ wpc' = [wpc EXCEPT ![w] = "stuck"]
    /\ UNCHANGED <<ctxDone, serverVars, pollVars, folderChan, latest, watched, err, timing,
                   cancelled, usbVars, recording>>

\* The aux goroutine ends when the context is cancelled or after 30 seconds.  It cannot
\* take its third case: stop is closed by the function that is waiting for it.  So
\* alertTriggered is always FALSE, and watchMedia neither sends nor clears an alert.
AuxEnds(w) ==
    /\ w \in timing
    /\ timing' = timing \ {w}
    /\ UNCHANGED <<ctxDone, serverVars, pollVars, folderChan, latest, watched, wpc, err,
                   cancelled, usbVars, recording>>

\* Mutant: every error is permanent.
PermanentAlways(w) == TRUE

PermanentIfCancel(w) == err[w] = "canceled" \/ Cancelled(w)

\* The operation of backoff.Retry returns, once the aux goroutine has ended.
WatchJoined(w) ==
    /\ wpc[w] = "join" /\ w \notin timing
    /\ wpc' = [wpc EXCEPT ![w] = IF PermanentIfCancel(w) THEN "ended" ELSE "backoff"]
    /\ UNCHANGED <<ctxDone, serverVars, pollVars, folderChan, latest, watched, err, timing,
                   cancelled, usbVars, recording>>

Retry(w) ==
    /\ wpc[w] = "backoff"
    /\ \/ /\ wpc' = [wpc EXCEPT ![w] = "watch"]
          /\ err' = [err EXCEPT ![w] = "none"]
          /\ timing' = timing \union {w}
       \/ /\ Cancelled(w)
          /\ wpc' = [wpc EXCEPT ![w] = "ended"]
          /\ UNCHANGED <<err, timing>>
    /\ UNCHANGED <<ctxDone, serverVars, pollVars, folderChan, latest, watched, cancelled,
                   usbVars, recording>>
---------------------------------------------------------------------------
(* monitorUSB, the 24 hours, and the goroutines of the proxy.              *)

ProxyCall(what, id) == [what |-> what, id |-> id]

UsbLost ==
    /\ usbDetected \/ ~usbMissing
    /\ calls' = Append(calls, ProxyCall("send", usbID))
    /\ pending' = pending + 1
    /\ usbDetected' = FALSE /\ usbMissing' = TRUE
    /\ UNCHANGED usbID

UsbFound ==
    /\ usbMissing /\ usbID <= MaxOutages
    /\ calls' = Append(calls, ProxyCall("clear", usbID))
    /\ pending' = pending + 1
    /\ usbDetected' = TRUE /\ usbMissing' = FALSE /\ usbID' = usbID + 1

UsbThere ==
    /\ ~usbMissing /\ usbDetected' = TRUE
    /\ UNCHANGED <<usbMissing, usbID, calls, pending>>

\* Every minute there is a camera, or there is none: an error counts as none.
UsbTick ==
    /\ ~usbOver
    /\ UsbLost \/ UsbFound \/ UsbThere
    /\ UNCHANGED <<ctxDone, serverVars, pollVars, folderChan, watchVars, usbOver, recording>>

UsbEnds ==
    /\ ~usbOver /\ ctxDone
    /\ usbOver' = TRUE
    /\ UNCHANGED <<ctxDone, serverVars, pollVars, folderChan, watchVars, usbDetected,
                   usbMissing, usbID, calls, pending, recording>>

\* A first upload, or the end of the service: in either case nothing is expected any more.
RecordingEnds ==
    /\ recording = "waits"
    /\ ctxDone \/ \E w \in Watchers : wpc[w] = "watch"
    /\ recording' = "over"
    /\ UNCHANGED <<ctxDone, serverVars, pollVars, folderChan, watchVars, usbVars>>

RecordingAlert ==
    /\ recording = "waits"
    /\ recording' = "over"
    /\ pending' = pending + 1
    /\ UNCHANGED <<ctxDone, serverVars, pollVars, folderChan, watchVars, usbOver,
                   usbDetected, usbMissing, usbID, calls>>

CallEnds ==
    /\ pending > 0 /\ pending' = pending - 1
    /\ UNCHANGED <<ctxDone, serverVars, pollVars, folderChan, watchVars, usbOver,
                   usbDetected, usbMissing, usbID, calls, recording>>
---------------------------------------------------------------------------
Stop ==
    /\ ~ctxDone
    /\ ctxDone' = TRUE
    /\ UNCHANGED <<serverVars, pollVars, folderChan, watchVars, usbVars, recording>>

FolderChanges ==
    /\ changes < MaxChanges
    /\ changes' = changes + 1
    /\ folder' \in Folders \ {folder}
    /\ UNCHANGED <<ctxDone, pollVars, folderChan, watchVars, usbVars, recording>>

Poll == PollAsks \/ PollOk \/ PollFails \/ PollSends \/ PollTimer \/ PollEnds
Watch(w) == WatchCancelled(w) \/ WatchStuck(w) \/ WatchJoined(w) \/ Retry(w)

Next ==
    \/ Poll \/ FolderUpdate
    \/ \E w \in Watchers : Watch(w) \/ AuxEnds(w) \/ WatchFails(w)
    \/ UsbTick \/ UsbEnds \/ RecordingEnds \/ RecordingAlert \/ CallEnds
    \/ Stop \/ FolderChanges

Spec == Init /\ [][Next]_vars

(***************************************************************************)
(* Goroutines run, timers fire, a request of WatchFolder ends (the HTTP    *)
(* client has a timeout), and a watcher that is cancelled returns or stays.*)
(* An alert ends once the context is cancelled: before, the login it waits *)
(* for may be tried for ever (module Backend).  Nothing is assumed of the  *)
(* server, and Watch need not fail.                                        *)
(***************************************************************************)
Fairness ==
    /\ WF_vars(Poll) /\ WF_vars(FolderUpdate)
    /\ \A w \in Watchers :
        /\ WF_vars(WatchJoined(w) \/ Retry(w) \/ (Cancelled(w) /\ Watch(w)))
        /\ WF_vars(AuxEnds(w))
    /\ WF_vars(UsbEnds) /\ WF_vars(ctxDone /\ (RecordingEnds \/ CallEnds))

LiveSpec == Spec /\ Fairness
---------------------------------------------------------------------------
TypeOK ==
    /\ ctxDone \in BOOLEAN /\ folder \in Folders /\ changes \in 0 .. MaxChanges
    /\ ppc \in {"ask", "answer", "send", "wait", "over"}
    /\ got \in Folders /\ lastFolder \in Folders
    /\ folderChan \in Seq(Folders) /\ Len(folderChan) <= ChanCap
    /\ latest \in 0 .. MaxChanges + 1 /\ cancelled = 1 .. latest - 1
    /\ watched \in [Watchers -> Folders]
    /\ wpc \in [Watchers -> {"none", "watch", "join", "backoff", "stuck", "ended"}]
    /\ err \in [Watchers -> {"none", "plain", "canceled"}]
    /\ \A w \in Watchers : wpc[w] = "none" <=> w > latest
    /\ timing \subseteq 1 .. latest
    /\ usbOver \in BOOLEAN
    /\ usbDetected \in BOOLEAN /\ usbMissing \in BOOLEAN /\ usbID \in 1 .. MaxOutages + 1
    /\ pending \in 0 .. Len(calls) + 1
    /\ recording \in {"waits", "over"}

\* monitorUSB calls SendAlert once for each loss of the camera and ClearAlert once before the
\* next, which has another id.  That is all it does: each call runs in a goroutine of its own
\* (media.go:45), so that the server may see them in another order, and ClearAlert clears
\* nothing (alert.go:98: the method of a value looks for what it has just fetched in a copy).
CallsAlternate ==
    /\ calls = [i \in 1 .. Len(calls) |->
                    ProxyCall(IF i % 2 = 1 THEN "send" ELSE "clear", (i + 1) \div 2)]
    /\ usbMissing <=> Len(calls) % 2 = 1

Gone(w) == wpc[w] \in {"none", "ended", "stuck"}

\* Once the service is stopped its goroutines end, whatever they were doing and whichever
\* folders were still in the channel; but WatchFolder may ask for ever, a watcher may be
\* kept by an upload, and the loop of watchMedia waits on folderChan, which nobody closes.
ServiceWindsDown ==
    ctxDone ~> /\ ppc \in {"ask", "over"} /\ folderChan = <<>> /\ timing = {}
               /\ \A w \in Watchers : Gone(w)
               /\ usbOver /\ recording = "over" /\ pending = 0

NewestOnly ==
    /\ folder = IF latest = 0 THEN NoFolder ELSE watched[latest]
    /\ \A w \in 1 .. latest - 1 : Gone(w)

\* What the loop of the newest watcher does: Watch runs, and is called again, but for the two
\* ways in which it ends although nobody has cancelled it: an upload keeps Watch from returning
\* (WatchReturns in FileWatcher), or a failure passes for a cancellation (WatchIsRetried).
NewestTried ==
    \/ latest = 0
    \/ wpc[latest] \in {"watch", "stuck"}
    \/ wpc[latest] = "ended" /\ err[latest] = "canceled"

\* When the server has stopped changing the folder and keeps answering, the newest watcher
\* is that of this folder from some time on, the watchers of earlier answers are gone, and
\* Watch is called again after an error that is no cancellation, however polls, updates and
\* failures interleave.
NewestFolderIsWatched ==
    []<>(ppc = "wait") => <>[]NewestOnly /\ []<>NewestTried

\* "Keep trying to watch until the folder name changes" (media.go:150): after every error
\* Watch is called again, unless the watcher has been cancelled.
WatchIsRetried ==
    \A w \in Watchers : wpc[w] = "join" ~> wpc[w] = "watch" \/ Cancelled(w)
===========================================================================
