---------------------------- MODULE FileWatcher ----------------------------
(***************************************************************************)
(* internal/driver/watcher: a FileWatch reports the changes of the files   *)
(* of a folder, waits until each of them is quiet, uploads it, and keeps a *)
(* history of what has been uploaded, in memory and on disk.               *)
(*                                                                         *)
(*   disk -> osEvents -+                                                   *)
(*                     +-> merge -> events -> dispatch -> channel -> upload *)
(*   disk -> scanned --+                         ^                    |    *)
(*                                               +------- tasks ------+    *)
(*                                                                         *)
(* dispatch alone reads and writes the history.  It starts one goroutine   *)
(* for every channel it creates, so an element of Uploads stands for both. *)
(* Time is the time of modification stat reports, rounded to seconds; the  *)
(* timers of upload, scan and Remap may fire at any moment.                *)
(***************************************************************************)
EXTENDS Integers, Sequences, FiniteSets

CONSTANTS
    Files,          \* the paths watched, none of them denied or of another type
    Uploads,        \* bound: goroutines of fileTask.upload alive at a time
    EventsSize,     \* capacity of the channel events of Watch
    TaskSize,       \* capacity of the channel tasks of dispatch
    Expiration,     \* age at which Remap may remove an uploaded file
    MaxPending,     \* bound: changes of a file that wait to be delivered
    Times,          \* bound: the times at which something happens
    MaxCrash,       \* bound: times the process dies
    NoUpload, NoEvent

ASSUME WatcherAssumption ==
    /\ IsFiniteSet(Uploads) /\ NoUpload \notin Uploads
    /\ EventsSize \in Nat \ {0} /\ TaskSize \in Nat \ {0}
    /\ Expiration \in Nat \ {0}
    /\ MaxPending \in Nat /\ MaxCrash \in Nat
    /\ Times \subseteq Nat \ {0} /\ Times # {}

VARIABLES
    clock,          \* the time, in seconds
    exists, mtime,  \* of each file: it is there, when it was modified last
    sentTime,       \* the latest time of modification that was uploaded
    saved,          \* the history file: Uploaded of each path, 0 if it is zero
    crashes,
    watching,       \* Watch is running
    cancelled,      \* its failContext has been cancelled
    osEvents,       \* the changes of each file the library has not delivered yet
    scanned,        \* files whose synthetic event is on its way to merge
    mergePc, held,  \* the goroutine of merge, the event it is sending
    events,         \* the channel it sends to; closed when mergePc = "off"
    dispPc,         \* the goroutine of dispatch
    tasks,          \* the channel on which uploads report
    uploaded, chan, \* FileHistory.history: Uploaded and Events of each path
    upc, upath,     \* fileTask.upload: where each goroutine is, t.Path
    uup, utime,     \* t.Uploaded, modtime
    isOpen, queued  \* its channel t.Events: open, and the number of events in it

diskVars == <<clock, exists, mtime>>
histVars == <<uploaded, chan>>
mergeVars == <<osEvents, scanned, mergePc, held>>
upVars == <<upc, upath, uup, utime>>
chanVars == <<isOpen, queued>>
vars == <<diskVars, sentTime, saved, crashes, watching, cancelled, mergeVars,
          events, dispPc, tasks, histVars, upVars, chanVars>>

\* fsnotify's operations; dispatch treats Rename as it treats Write, and Chmod is
\* ignored.  Once screened, Create is like them too.
Ops == {"Create", "Write", "Remove"}
Event == [file : Files, op : {"Write", "Remove"}]

\* The values of fileTask.Uploaded: zero, or a second after the time of the file.
Uploaded == {0} \union {t + 1 : t \in Times}

\* A fileTask on its way back to dispatch.
Report == [file : Files, uploaded : Uploaded]

Idle == [g \in Uploads |-> "free"]
Closed == [g \in Uploads |-> FALSE]
AllZero == [g \in Uploads |-> 0]
Zero == [f \in Files |-> 0]
NoChan == [f \in Files |-> NoUpload]
---------------------------------------------------------------------------
Init ==
    /\ clock \in Times /\ \A t \in Times : clock <= t
    /\ exists = [f \in Files |-> FALSE] /\ mtime = Zero
    /\ sentTime = Zero /\ saved = Zero /\ crashes = 0
    /\ watching = FALSE /\ cancelled = FALSE
    /\ osEvents = [f \in Files |-> <<>>] /\ scanned = {}
    /\ mergePc = "off" /\ held = NoEvent /\ events = <<>>
    /\ dispPc = "off" /\ tasks = <<>>
    /\ uploaded = Zero /\ chan = NoChan
    /\ upc = Idle /\ upath \in [Uploads -> Files]
    /\ uup = AllZero /\ utime = AllZero
    /\ isOpen = Closed /\ queued = AllZero
---------------------------------------------------------------------------
(* The files, and the notification library.                                *)

\* The library may report a change, but for those made before Watch calls watcher.Add,
\* when its goroutines run already, and after a call that fails.
Notified(f, op) ==
    {osEvents} \union IF watching THEN {[osEvents EXCEPT ![f] = Append(@, op)]} ELSE {}

\* The file appears, or is written to.
Change(f) ==
    /\ Len(osEvents[f]) < MaxPending
    /\ exists' = [exists EXCEPT ![f] = TRUE]
    /\ mtime' = [mtime EXCEPT ![f] = clock]
    /\ osEvents' \in Notified(f, IF exists[f] THEN "Write" ELSE "Create")
    /\ UNCHANGED <<clock, sentTime, saved, crashes, watching, cancelled, scanned,
                   mergePc, held, events, dispPc, tasks, histVars, upVars, chanVars>>

\* The file is removed, or gets another name.
Vanish(f) ==
    /\ exists[f] /\ Len(osEvents[f]) < MaxPending
    /\ exists' = [exists EXCEPT ![f] = FALSE]
    /\ mtime' = [mtime EXCEPT ![f] = 0]
    /\ \E op \in {"Remove", "Write"} : osEvents' \in Notified(f, op)
    /\ UNCHANGED <<clock, sentTime, saved, crashes, watching, cancelled, scanned,
                   mergePc, held, events, dispPc, tasks, histVars, upVars,
                   chanVars>>

Tick ==
    /\ clock' \in {t \in Times : t > clock}
    /\ UNCHANGED <<exists, mtime, sentTime, saved, crashes, watching,
                   cancelled, mergeVars, events, dispPc, tasks, histVars, upVars,
                   chanVars>>
---------------------------------------------------------------------------
(* Watch.                                                                  *)

\* Mutant: Load does not look whether the file is there.
LoadedAll == saved

\* FileHistory.Load skips the files that no longer exist.
Loaded == [f \in Files |-> IF exists[f] THEN saved[f] ELSE 0]

WatchStart ==
    /\ ~watching
    /\ watching' = TRUE
    /\ uploaded' = Loaded /\ chan' = NoChan
    /\ mergePc' = "run" /\ dispPc' = "run"
    /\ UNCHANGED <<diskVars, sentTime, saved, crashes, cancelled, osEvents, scanned,
                   held, events, tasks, upVars, chanVars>>

\* The caller cancels the context, the library reports an error, or watcher.Add fails.
WatchCancel ==
    /\ watching /\ ~cancelled
    /\ cancelled' = TRUE
    /\ UNCHANGED <<diskVars, sentTime, saved, crashes, watching, mergeVars, events,
                   dispPc, tasks, histVars, upVars, chanVars>>

\* Every goroutine is done.  Cleanup closes the channels of the history.
WatchReturn ==
    /\ watching /\ mergePc = "off" /\ dispPc = "off"
    /\ watching' = FALSE /\ cancelled' = FALSE
    /\ isOpen' = [g \in Uploads |-> isOpen[g] /\ \A f \in Files : chan[f] # g]
    /\ uploaded' = Zero /\ chan' = NoChan
    /\ osEvents' = [f \in Files |-> <<>>] /\ scanned' = {} /\ events' = <<>>
    /\ UNCHANGED <<diskVars, sentTime, saved, crashes, mergePc, held, dispPc, tasks,
                   upVars, queued>>

\* The process dies: the files, the history file and the server remain.
Crash ==
    /\ watching /\ crashes < MaxCrash
    /\ crashes' = crashes + 1
    /\ watching' = FALSE /\ cancelled' = FALSE
    /\ osEvents' = [f \in Files |-> <<>>] /\ scanned' = {}
    /\ mergePc' = "off" /\ held' = NoEvent /\ events' = <<>>
    /\ dispPc' = "off" /\ tasks' = <<>>
    /\ uploaded' = Zero /\ chan' = NoChan
    /\ upc' = Idle /\ isOpen' = Closed /\ queued' = AllZero
    /\ uup' = AllZero /\ utime' = AllZero
    /\ UNCHANGED <<diskVars, sentTime, saved, upath>>
---------------------------------------------------------------------------
(* The goroutines of scan and merge.                                       *)

\* Mutant: the folder is scanned only as long as nothing has been uploaded.
ScanOnce(fs) == IF uploaded = Zero THEN fs ELSE {}

\* Every file found is reported as created.
Found(fs) == fs

Scan ==
    /\ watching /\ ~cancelled /\ scanned = {}
    /\ scanned' = Found({f \in Files : exists[f]})
    /\ UNCHANGED <<diskVars, sentTime, saved, crashes, watching, cancelled,
                   osEvents, mergePc, held, events, dispPc, tasks, histVars, upVars,
                   chanVars>>

\* The screener drops the creation of a file that is no longer there.
Screened(f, op) ==
    IF op = "Create" /\ ~exists[f] THEN NoEvent
    ELSE [file |-> f, op |-> IF op = "Remove" THEN "Remove" ELSE "Write"]

MergeNotified(f) ==
    /\ mergePc = "run" /\ held = NoEvent /\ osEvents[f] # <<>>
    /\ osEvents' = [osEvents EXCEPT ![f] = Tail(@)]
    /\ held' = Screened(f, Head(osEvents[f]))
    /\ UNCHANGED <<diskVars, sentTime, saved, crashes, watching, cancelled,
                   scanned, mergePc, events, dispPc, tasks, histVars, upVars, chanVars>>

MergeScanned(f) ==
    /\ mergePc = "run" /\ held = NoEvent /\ f \in scanned
    /\ scanned' = scanned \ {f}
    /\ held' = Screened(f, "Create")
    /\ UNCHANGED <<diskVars, sentTime, saved, crashes, watching, cancelled,
                   osEvents, mergePc, events, dispPc, tasks, histVars, upVars, chanVars>>

\* Sending does not look at the context.
MergeSend ==
    /\ held # NoEvent /\ Len(events) < EventsSize
    /\ events' = Append(events, held) /\ held' = NoEvent
    /\ UNCHANGED <<diskVars, sentTime, saved, crashes, watching, cancelled,
                   osEvents, scanned, mergePc, dispPc, tasks, histVars, upVars, chanVars>>

\* Mutant: merge does not look at the context at all.
MergeNeverStops == FALSE /\ UNCHANGED vars

MergeStop ==
    /\ mergePc = "run" /\ held = NoEvent /\ cancelled
    /\ mergePc' = "off"
    /\ UNCHANGED <<diskVars, sentTime, saved, crashes, watching, cancelled,
                   osEvents, scanned, held, events, dispPc, tasks, histVars, upVars,
                   chanVars>>
---------------------------------------------------------------------------
(* dispatch.                                                               *)

\* close(task.Events) for the paths fs, if they have a channel.
CloseOf(fs) == [g \in Uploads |-> isOpen[g] /\ \A f \in fs : chan[f] # g]

\* Mutant: the closed channel stays in the history.
KeptChan(f) == chan

\* task.Events = nil.
Forgotten(f) == [chan EXCEPT ![f] = NoUpload]

\* Mutant: the channel is forgotten without being closed.
NotClosed(f) == isOpen

ClosedFor(f) == CloseOf({f})

\* What Save may leave in the history file: all of the history.  It does not look at the
\* errors of write, Flush and Close: then the lines that were not written are missing.
Written(lost) == [f \in Files |-> IF f \in lost THEN 0 ELSE uploaded'[f]]

\* CompleteTask, and Save, which may fail, and change nothing.  The channel it closes is
\* the one that the history has for the path.
DispatchTask ==
    LET t == Head(tasks) IN
    /\ dispPc = "run" /\ tasks # <<>>
    /\ tasks' = Tail(tasks)
    /\ isOpen' = ClosedFor(t.file) /\ chan' = Forgotten(t.file)
    /\ uploaded' = IF t.uploaded = 0 THEN uploaded
                   ELSE [uploaded EXCEPT ![t.file] = t.uploaded]
    /\ saved' = saved \/ \E lost \in SUBSET Files : saved' = Written(lost)
    /\ UNCHANGED <<diskVars, sentTime, crashes, watching, cancelled, mergeVars,
                   events, dispPc, upVars, queued>>

\* RemoveTask.
DispatchRemove ==
    LET f == Head(events).file IN
    /\ dispPc = "run" /\ events # <<>> /\ Head(events).op = "Remove"
    /\ events' = Tail(events)
    /\ isOpen' = ClosedFor(f) /\ chan' = Forgotten(f)
    /\ uploaded' = [uploaded EXCEPT ![f] = 0]
    /\ UNCHANGED <<diskVars, sentTime, saved, crashes, watching, cancelled,
                   mergeVars, dispPc, tasks, upVars, queued>>

Changed == dispPc = "run" /\ events # <<>> /\ Head(events).op # "Remove"

\* Mutant: the event is queued in any case.
Overfilled(n) == n + 1

\* The channel holds one event; a second one is dropped.
Filled(n) == 1

\* CreateTask finds the channel of the path.
DispatchKnown ==
    LET f == Head(events).file IN
    /\ Changed /\ chan[f] # NoUpload
    /\ events' = Tail(events)
    /\ queued' = [queued EXCEPT ![chan[f]] = Filled(@)]
    /\ UNCHANGED <<diskVars, sentTime, saved, crashes, watching, cancelled,
                   mergeVars, dispPc, tasks, histVars, upVars, isOpen>>

\* CreateTask makes the channel: start the goroutine, with the event in it.
DispatchNew(g) ==
    LET f == Head(events).file IN
    /\ Changed /\ chan[f] = NoUpload /\ upc[g] = "free"
    /\ events' = Tail(events)
    /\ chan' = [chan EXCEPT ![f] = g]
    /\ isOpen' = [isOpen EXCEPT ![g] = TRUE]
    /\ queued' = [queued EXCEPT ![g] = 1]
    /\ upc' = [upc EXCEPT ![g] = "monitor"]
    /\ upath' = [upath EXCEPT ![g] = f]
    /\ uup' = [uup EXCEPT ![g] = uploaded[f]]
    /\ UNCHANGED <<diskVars, sentTime, saved, crashes, watching, cancelled,
                   mergeVars, dispPc, tasks, uploaded, utime>>

Expired(f) == uploaded[f] # 0 /\ clock - uploaded[f] > Expiration

\* FileHistory.Remap removes the expired files, unless os.Remove fails, and
\* forgets those that are gone.
DispatchRemap ==
    /\ dispPc = "run" /\ \E f \in Files : Expired(f)
    /\ \E gone \in SUBSET {f \in Files : Expired(f)} :
        /\ \A f \in Files : Expired(f) /\ ~exists[f] => f \in gone
        /\ exists' = [f \in Files |-> exists[f] /\ f \notin gone]
        /\ mtime' = [f \in Files |-> IF f \in gone THEN 0 ELSE mtime[f]]
        /\ \E seen \in SUBSET {f \in gone : exists[f]} :
            osEvents' = [f \in Files |-> IF f \in seen THEN Append(osEvents[f], "Remove")
                                         ELSE osEvents[f]]
        /\ isOpen' = CloseOf(gone)
        /\ chan' = [f \in Files |-> IF f \in gone THEN NoUpload ELSE chan[f]]
        /\ uploaded' = [f \in Files |-> IF f \in gone THEN 0 ELSE uploaded[f]]
    /\ UNCHANGED <<clock, sentTime, saved, crashes, watching,
                   cancelled, scanned, mergePc, held, events, dispPc, tasks, upVars,
                   queued>>

\* The context is cancelled, or the channel of events closed and drained: dispatch
\* stops reading its channels and waits for the uploads.
DispatchLeave ==
    /\ dispPc = "run"
    /\ cancelled \/ (mergePc = "off" /\ events = <<>>)
    /\ dispPc' = "wait"
    /\ UNCHANGED <<diskVars, sentTime, saved, crashes, watching, cancelled,
                   mergeVars, events, tasks, histVars, upVars, chanVars>>

\* Every upload is over: discard their reports, and cancel the context.
DispatchReturn ==
    /\ dispPc = "wait" /\ upc = Idle
    /\ dispPc' = "off" /\ tasks' = <<>> /\ cancelled' = TRUE
    /\ UNCHANGED <<diskVars, sentTime, saved, crashes, watching, mergeVars, events,
                   histVars, upVars, chanVars>>

Dispatch ==
    \/ DispatchTask \/ DispatchRemove \/ DispatchKnown
    \/ \E g \in Uploads : DispatchNew(g)
    \/ DispatchLeave \/ DispatchReturn
---------------------------------------------------------------------------
(* fileTask.upload.                                                        *)

\* An event resets the inactivity timer.
UploadEvent(g) ==
    /\ upc[g] = "monitor" /\ queued[g] = 1
    /\ queued' = [queued EXCEPT ![g] = 0]
    /\ UNCHANGED <<diskVars, sentTime, saved, crashes, watching, cancelled,
                   mergeVars, events, dispPc, tasks, histVars, upVars, isOpen>>

\* The channel is closed and empty: "the file has been removed".
UploadQuit(g) ==
    /\ upc[g] = "monitor" /\ queued[g] = 0 /\ ~isOpen[g]
    /\ upc' = [upc EXCEPT ![g] = "report"]
    /\ UNCHANGED <<diskVars, sentTime, saved, crashes, watching, cancelled,
                   mergeVars, events, dispPc, tasks, histVars, upath, uup, utime,
                   chanVars>>

\* "Check if the file has been modified since the last upload."
Modified(f, t) == mtime[f] > t

\* The timer expires: look at the file.
UploadTrigger(g) ==
    LET f == upath[g]
        modified == exists[f] /\ Modified(f, uup[g])
    IN
    /\ upc[g] = "monitor"
    /\ upc' = [upc EXCEPT ![g] = IF modified THEN "upload" ELSE "report"]
    /\ utime' = [utime EXCEPT ![g] = IF modified THEN mtime[f] ELSE @]
    /\ UNCHANGED <<diskVars, sentTime, saved, crashes, watching, cancelled,
                   mergeVars, events, dispPc, tasks, histVars, upath, uup, chanVars>>

\* Server.Upload sends what is in the file now.  A request that is under way when the
\* context is cancelled may still succeed.
UploadOk(g) ==
    LET f == upath[g] IN
    /\ upc[g] = "upload" /\ exists[f]
    /\ sentTime' = [sentTime EXCEPT ![f] = IF utime[g] > @ THEN utime[g] ELSE @]
    /\ uup' = [uup EXCEPT ![g] = utime[g] + 1]
    /\ utime' = [utime EXCEPT ![g] = 0]
    /\ upc' = [upc EXCEPT ![g] = "report"]
    /\ UNCHANGED <<diskVars, saved, crashes, watching, cancelled, mergeVars, events,
                   dispPc, tasks, histVars, upath, chanVars>>

\* Mutant: the time is taken before the result of the upload is looked at.
TimedAnyway(g) == utime[g] + 1

\* A failed upload reports the time of the upload before.
TimeKept(g) == uup[g]

UploadFail(g) ==
    /\ upc[g] = "upload"
    /\ uup' = [uup EXCEPT ![g] = TimeKept(g)]
    /\ utime' = [utime EXCEPT ![g] = 0]
    /\ upc' = [upc EXCEPT ![g] = "report"]
    /\ UNCHANGED <<diskVars, sentTime, saved, crashes, watching, cancelled,
                   mergeVars, events, dispPc, tasks, histVars, upath, chanVars>>

UploadReport(g) ==
    /\ upc[g] = "report" /\ Len(tasks) < TaskSize
    /\ tasks' = Append(tasks, [file |-> upath[g], uploaded |-> uup[g]])
    /\ upc' = [upc EXCEPT ![g] = "drain"]
    /\ uup' = [uup EXCEPT ![g] = 0]
    /\ UNCHANGED <<diskVars, sentTime, saved, crashes, watching, cancelled,
                   mergeVars, events, dispPc, histVars, upath, utime, chanVars>>

\* Exhaust the channel ...
UploadDrain(g) ==
    /\ upc[g] = "drain" /\ queued[g] = 1
    /\ queued' = [queued EXCEPT ![g] = 0]
    /\ UNCHANGED <<diskVars, sentTime, saved, crashes, watching, cancelled,
                   mergeVars, events, dispPc, tasks, histVars, upVars, isOpen>>

\* ... until it is closed.
UploadEnd(g) ==
    /\ upc[g] = "drain" /\ queued[g] = 0 /\ ~isOpen[g]
    /\ upc' = [upc EXCEPT ![g] = "free"]
    /\ UNCHANGED <<diskVars, sentTime, saved, crashes, watching, cancelled,
                   mergeVars, events, dispPc, tasks, histVars, upath, uup, utime,
                   chanVars>>

Upload(g) ==
    \/ UploadEvent(g) \/ UploadQuit(g) \/ UploadTrigger(g) \/ UploadOk(g)
    \/ UploadFail(g) \/ UploadReport(g) \/ UploadDrain(g) \/ UploadEnd(g)
---------------------------------------------------------------------------
Merge ==
    \/ \E f \in Files : MergeNotified(f) \/ MergeScanned(f)
    \/ MergeSend \/ MergeStop

Next ==
    \/ \E f \in Files : Change(f) \/ Vanish(f)
    \/ Tick
    \/ WatchStart \/ WatchCancel \/ WatchReturn \/ Crash
    \/ Scan \/ Merge \/ Dispatch \/ DispatchRemap
    \/ \E g \in Uploads : Upload(g)

Spec == Init /\ [][Next]_vars

(***************************************************************************)
(* Goroutines run; the timers of scan and upload fire again and again, and *)
(* that of upload (minutes) sooner than that of scan (hours); select does  *)
(* not ignore a channel for ever; the server accepts a file that is sent   *)
(* to it often enough.  Nothing obliges the files to change, Watch to be   *)
(* called, the context to be cancelled or Remap to remove anything.        *)
(***************************************************************************)
Fairness ==
    /\ WF_vars(WatchReturn)
    /\ WF_vars(Scan) /\ WF_vars(Merge)
    /\ WF_vars(DispatchTask) /\ WF_vars(DispatchLeave) /\ WF_vars(DispatchReturn)
    /\ WF_vars(DispatchRemove \/ DispatchKnown \/ \E g \in Uploads : DispatchNew(g))
    /\ \A g \in Uploads : WF_vars(Upload(g)) /\ WF_vars(UploadTrigger(g))
    /\ \A f \in Files : SF_vars(\E g \in Uploads : upath[g] = f /\ UploadOk(g))

LiveSpec == Spec /\ Fairness
---------------------------------------------------------------------------
(* Properties.                                                             *)

\* Every variable has its type.
TypeOK ==
    /\ clock \in Times
    /\ exists \in [Files -> BOOLEAN] /\ mtime \in [Files -> Times \union {0}]
    /\ sentTime \in [Files -> Times \union {0}]
    /\ saved \in [Files -> Uploaded] /\ crashes \in 0 .. MaxCrash
    /\ watching \in BOOLEAN /\ cancelled \in BOOLEAN
    /\ osEvents \in [Files -> Seq(Ops)] /\ scanned \subseteq Files
    /\ mergePc \in {"off", "run"} /\ held \in Event \union {NoEvent}
    /\ events \in Seq(Event) /\ dispPc \in {"off", "run", "wait"}
    /\ tasks \in Seq(Report)
    /\ uploaded \in [Files -> Uploaded]
    /\ chan \in [Files -> Uploads \union {NoUpload}]
    /\ upc \in [Uploads -> {"free", "monitor", "upload", "report", "drain"}]
    /\ upath \in [Uploads -> Files]
    /\ uup \in [Uploads -> Uploaded] /\ utime \in [Uploads -> Times \union {0}]
    /\ isOpen \in [Uploads -> BOOLEAN] /\ queued \in [Uploads -> 0 .. 1]

\* dispatch never sends on a closed channel or closes one twice, which would panic,
\* and never on that of another file or of an upload that is over.
HistoryChannelsOpen ==
    \A f \in Files : chan[f] # NoUpload =>
        isOpen[chan[f]] /\ upath[chan[f]] = f /\ upc[chan[f]] # "free"

\* "avoid leaking goroutines" (fileHistory.go:99): a goroutine that waits for its
\* channel to be closed is still in the history, where somebody can close it.
OpenChannelsKnown == \A g \in Uploads : isOpen[g] => chan[upath[g]] = g

\* The history, in memory and on disk, never records an upload that did not happen:
\* that change would not be uploaded again after a restart.
HistoryWasSent ==
    \A f \in Files :
        /\ uploaded[f] # 0 => uploaded[f] <= sentTime[f] + 1
        /\ saved[f] # 0 => saved[f] <= sentTime[f] + 1

FS == INSTANCE FileSync WITH
        running <- watching, disk <- mtime, server <- sentTime,
        memory <- uploaded, journal <- saved

\* The watcher keeps the folder and the server as FileSync says, whatever events are
\* lost, doubled or overtaken: the server's versions only advance and were on the disk,
\* the service takes note of none before the server has it, writes down nothing but
\* what it knows, and starts again from that, less the files that are gone.
ImplementsFileSync == FS!Spec

\* Nothing is on its way: no event, no report, no upload.
Settled ==
    /\ watching /\ held = NoEvent /\ events = <<>> /\ tasks = <<>> /\ upc = Idle
    /\ scanned = {} /\ \A f \in Files : osEvents[f] = <<>>

\* No change is lost: in spite of changes the library does not report, failed uploads,
\* reports and history files, full channels, closed ones, changes during an upload and
\* a Watch that returned and was called again, the last version of a file is uploaded, unless it is
\* less than two seconds younger than a version that was (the resolution of the
\* history, fileTask.go:169).  It takes a watcher that is not cancelled for ever, and
\* that comes to rest again and again: a scan takes place every two hours, and files
\* are quiet for longer than monitorFor now and then.
LastChangeIsSent ==
    <>[](~cancelled) /\ []<>Settled =>
        \A f \in Files : []<>(~exists[f] \/ mtime[f] <= sentTime[f] + 1)

\* The goroutines that outlive a cancellation for ever: an upload whose channel
\* nobody closes any more, or whose report nobody takes; merge with an event for a
\* channel that is full and that nobody reads.
LeftBehind ==
    /\ dispPc \in {"wait", "off"}
    /\ \/ held # NoEvent /\ Len(events) = EventsSize
       \/ \E g \in Uploads : upc[g] = "drain" /\ isOpen[g]
       \/ \E g \in Uploads : upc[g] = "report" /\ Len(tasks) = TaskSize

\* A Watch that is cancelled does not stay so for ever, but returns, unless one of those
\* is left behind.
WatchReturnsUnlessLeft == []<>(~cancelled \/ LeftBehind)

\* "Watch the folder": the function returns once its context is cancelled
\* (fileWatch.go:216), and "Cleanup must be called on termination"
\* (fileHistory.go:232), where it would close the channels.
WatchReturns == cancelled ~> ~watching
===========================================================================
