------------------------- MODULE FileWatcherProofs -------------------------
(***************************************************************************)
(* Theorems about FileWatcher, for any number of files, uploads, changes,  *)
(* crashes and times.                                                      *)
(***************************************************************************)
EXTENDS FileWatcher, TLAPS

\* Who uploads does so because the file has a time later than the last upload.
UploadTimed == \A g \in Uploads : upc[g] = "upload" => utime[g] \in Times

TypeInv == TypeOK /\ UploadTimed

\* The times, in the form the arithmetic below uses.
LEMMA TimesType ==
    /\ \A t \in Times : t \in Nat /\ t > 0 /\ t + 1 \in Uploaded
    /\ \A u \in Uploaded : u \in Nat /\ (u # 0 => u > 1)
    /\ 0 \in Uploaded
    /\ EventsSize \in Nat /\ MaxCrash \in Nat
  BY WatcherAssumption DEF Uploaded

\* The initial state has its type.
LEMMA TypeInit == Init => TypeInv
  <1>. SUFFICES ASSUME Init PROVE TypeInv
    OBVIOUS
  <1>1. <<>> \in Seq(Ops) /\ <<>> \in Seq(Event) /\ <<>> \in Seq(Report)
    OBVIOUS
  <1>2. TypeOK
    <2>1. /\ clock \in Times /\ exists \in [Files -> BOOLEAN] /\ mtime \in [Files -> Times \union {0}]
          /\ sentTime \in [Files -> Times \union {0}] /\ saved \in [Files -> Uploaded]
      BY TimesType DEF Init, Zero
    <2>2. /\ osEvents \in [Files -> Seq(Ops)] /\ scanned \subseteq Files
          /\ held \in Event \union {NoEvent} /\ events \in Seq(Event) /\ tasks \in Seq(Report)
      BY <1>1 DEF Init
    <2>3. /\ uploaded \in [Files -> Uploaded] /\ chan \in [Files -> Uploads \union {NoUpload}]
          /\ upc \in [Uploads -> {"free", "monitor", "upload", "report", "drain"}]
      BY TimesType DEF Init, Zero, NoChan, Idle
    <2>4. /\ uup \in [Uploads -> Uploaded] /\ utime \in [Uploads -> Times \union {0}]
          /\ isOpen \in [Uploads -> BOOLEAN] /\ queued \in [Uploads -> 0 .. 1]
      BY TimesType DEF Init, Closed, AllZero
    <2>6. crashes \in 0 .. MaxCrash
      BY TimesType DEF Init
    <2>5. /\ watching \in BOOLEAN /\ cancelled \in BOOLEAN
          /\ mergePc \in {"off", "run"} /\ dispPc \in {"off", "run", "wait"}
          /\ upath \in [Uploads -> Files]
      BY DEF Init
    <2>. QED
      BY <2>1, <2>2, <2>3, <2>4, <2>5, <2>6 DEF TypeOK
  <1>3. UploadTimed
    BY DEF Init, UploadTimed, Idle
  <1>. QED
    BY <1>2, <1>3 DEF TypeInv

\* What the library has to deliver are operations.
LEMMA NotifiedType ==
    ASSUME TypeOK, NEW f \in Files, NEW op \in Ops, osEvents' \in Notified(f, op)
    PROVE  osEvents' \in [Files -> Seq(Ops)]
  <1>1. osEvents \in [Files -> Seq(Ops)]
    BY DEF TypeOK
  <1>2. osEvents[f] \in Seq(Ops)
    BY <1>1
  <1>3. Append(osEvents[f], op) \in Seq(Ops)
    BY <1>2
  <1>4. \/ osEvents' = osEvents
        \/ osEvents' = [osEvents EXCEPT ![f] = Append(@, op)]
    BY DEF Notified
  <1>. QED
    BY <1>1, <1>3, <1>4

\* The steps of the files, of Watch, of scan and of merge keep it.
LEMMA TypeFront ==
    ASSUME TypeInv,
           \/ \E f \in Files : Change(f) \/ Vanish(f)
           \/ Tick \/ WatchStart \/ WatchCancel \/ WatchReturn \/ Crash
           \/ Scan \/ Merge
    PROVE  TypeInv'
  <1>. USE TimesType DEF TypeInv, TypeOK, UploadTimed, diskVars, histVars, mergeVars,
                         upVars, chanVars
  <1>1. ASSUME NEW f \in Files, Change(f) PROVE TypeInv'
    <2>1. osEvents' \in [Files -> Seq(Ops)]
      BY <1>1, NotifiedType DEF Change, Ops
    <2>. QED
      BY <1>1, <2>1 DEF Change
  <1>2. ASSUME NEW f \in Files, Vanish(f) PROVE TypeInv'
    <2>1. osEvents' \in [Files -> Seq(Ops)]
      BY <1>2, NotifiedType DEF Vanish, Ops
    <2>. QED
      BY <1>2, <2>1 DEF Vanish
  <1>3. CASE Tick
    BY <1>3 DEF Tick
  <1>4. CASE WatchStart
    BY <1>4 DEF WatchStart, Loaded, NoChan
  <1>5. CASE WatchCancel
    BY <1>5 DEF WatchCancel
  <1>0. <<>> \in Seq(Ops) /\ <<>> \in Seq(Event) /\ <<>> \in Seq(Report)
    OBVIOUS
  <1>6. CASE WatchReturn
    BY <1>0, <1>6 DEF WatchReturn, Zero, NoChan
  <1>7. CASE Crash
    <2>1. /\ crashes' \in 0 .. MaxCrash /\ osEvents' \in [Files -> Seq(Ops)]
          /\ events' \in Seq(Event) /\ tasks' \in Seq(Report)
      BY <1>0, <1>7 DEF Crash
    <2>2. /\ uploaded' \in [Files -> Uploaded] /\ chan' \in [Files -> Uploads \union {NoUpload}]
          /\ upc' \in [Uploads -> {"free", "monitor", "upload", "report", "drain"}]
          /\ UploadTimed'
      BY <1>7 DEF Crash, Zero, NoChan, Idle
    <2>3. /\ uup' \in [Uploads -> Uploaded] /\ utime' \in [Uploads -> Times \union {0}]
          /\ isOpen' \in [Uploads -> BOOLEAN] /\ queued' \in [Uploads -> 0 .. 1]
      BY <1>7 DEF Crash, Closed, AllZero
    <2>. QED
      BY <1>7, <2>1, <2>2, <2>3 DEF Crash
  <1>8. CASE Scan
    BY <1>8 DEF Scan, Found
  <1>9. ASSUME NEW f \in Files, MergeNotified(f) PROVE TypeInv'
    BY <1>9 DEF MergeNotified, Screened, Event
  <1>10. ASSUME NEW f \in Files, MergeScanned(f) PROVE TypeInv'
    BY <1>10 DEF MergeScanned, Screened, Event
  <1>11. CASE MergeSend
    BY <1>11 DEF MergeSend
  <1>12. CASE MergeStop
    BY <1>12 DEF MergeStop
  <1>. QED
    BY <1>1, <1>2, <1>3, <1>4, <1>5, <1>6, <1>7, <1>8, <1>9, <1>10, <1>11, <1>12 DEF Merge

\* What dispatch takes from its channels.
LEMMA Taken ==
    ASSUME TypeOK
    PROVE  /\ events # <<>> => Head(events).file \in Files /\ Tail(events) \in Seq(Event)
           /\ tasks # <<>> => /\ Head(tasks).file \in Files
                              /\ Head(tasks).uploaded \in Uploaded
                              /\ Tail(tasks) \in Seq(Report)
  <1>1. events # <<>> => Head(events) \in Event /\ Tail(events) \in Seq(Event)
    BY DEF TypeOK
  <1>2. tasks # <<>> => Head(tasks) \in Report /\ Tail(tasks) \in Seq(Report)
    BY DEF TypeOK
  <1>. QED
    BY <1>1, <1>2 DEF Event, Report

\* The steps of dispatch keep it.
LEMMA TypeDispatch == TypeInv /\ (Dispatch \/ DispatchRemap) => TypeInv'
  <1>. SUFFICES ASSUME TypeInv, Dispatch \/ DispatchRemap PROVE TypeInv'
    OBVIOUS
  <1>. USE TimesType DEF TypeInv, TypeOK, UploadTimed, diskVars, histVars, mergeVars,
                         upVars, chanVars
  <1>1. CASE DispatchTask
    <2>1. uploaded' \in [Files -> Uploaded]
      BY <1>1, Taken DEF DispatchTask
    <2>2. saved' \in [Files -> Uploaded]
      BY <1>1, <2>1 DEF DispatchTask, Written
    <2>. QED
      BY <1>1, <2>1, <2>2, Taken DEF DispatchTask, ClosedFor, CloseOf, Forgotten
  <1>2. CASE DispatchRemove
    BY <1>2, Taken DEF DispatchRemove, ClosedFor, CloseOf, Forgotten
  <1>3. CASE DispatchKnown
    <2>1. events' \in Seq(Event) /\ chan[Head(events).file] \in Uploads
      BY <1>3, Taken DEF DispatchKnown, Changed
    <2>2. queued' \in [Uploads -> 0 .. 1]
      BY <1>3, <2>1 DEF DispatchKnown, Filled
    <2>. QED
      BY <1>3, <2>1, <2>2 DEF DispatchKnown
  <1>4. ASSUME NEW g \in Uploads, DispatchNew(g) PROVE TypeInv'
    <2>1. events' \in Seq(Event) /\ Head(events).file \in Files
      BY <1>4, Taken DEF DispatchNew, Changed
    <2>2. /\ chan' \in [Files -> Uploads \union {NoUpload}]
          /\ isOpen' \in [Uploads -> BOOLEAN] /\ queued' \in [Uploads -> 0 .. 1]
      BY <1>4, <2>1 DEF DispatchNew
    <2>3. /\ upc' \in [Uploads -> {"free", "monitor", "upload", "report", "drain"}]
          /\ upath' \in [Uploads -> Files] /\ uup' \in [Uploads -> Uploaded]
          /\ UploadTimed'
      BY <1>4, <2>1 DEF DispatchNew
    <2>. QED
      BY <1>4, <2>1, <2>2, <2>3 DEF DispatchNew
  <1>5. CASE DispatchRemap
    BY <1>5 DEF DispatchRemap, CloseOf, Ops
  <1>6. CASE DispatchLeave
    BY <1>6 DEF DispatchLeave
  <1>7. CASE DispatchReturn
    BY <1>7 DEF DispatchReturn
  <1>. QED
    BY <1>1, <1>2, <1>3, <1>4, <1>5, <1>6, <1>7 DEF Dispatch

\* The steps of an upload keep it.
LEMMA TypeUpload == ASSUME TypeInv, NEW g \in Uploads, Upload(g) PROVE TypeInv'
  <1>. USE TimesType DEF TypeInv, TypeOK, UploadTimed, diskVars, histVars, mergeVars,
                         upVars, chanVars
  <1>1. CASE UploadEvent(g)
    BY <1>1 DEF UploadEvent
  <1>2. CASE UploadQuit(g)
    BY <1>2 DEF UploadQuit
  <1>3. CASE UploadTrigger(g)
    BY <1>3 DEF UploadTrigger, Modified
  <1>4. CASE UploadOk(g)
    BY <1>4 DEF UploadOk
  <1>5. CASE UploadFail(g)
    BY <1>5 DEF UploadFail, TimeKept
  <1>6. CASE UploadReport(g)
    BY <1>6 DEF UploadReport, Report
  <1>7. CASE UploadDrain(g)
    BY <1>7 DEF UploadDrain
  <1>8. CASE UploadEnd(g)
    BY <1>8 DEF UploadEnd
  <1>. QED
    BY <1>1, <1>2, <1>3, <1>4, <1>5, <1>6, <1>7, <1>8 DEF Upload

\* Every step keeps the type.
LEMMA TypeStep == TypeInv /\ [Next]_vars => TypeInv'
  <1>1. TypeInv /\ UNCHANGED vars => TypeInv'
    BY DEF TypeInv, TypeOK, UploadTimed, vars, diskVars, histVars, mergeVars, upVars, chanVars
  <1>. QED
    BY <1>1, TypeFront, TypeDispatch, TypeUpload DEF Next

\* The variables of the watcher keep their types: FileHistory, the channels and the
\* goroutines of fileTask.upload.
THEOREM TypeCorrect == Spec => []TypeOK
  <1>1. TypeInv => TypeOK
    BY DEF TypeInv
  <1>. QED
    BY <1>1, TypeInit, TypeStep, PTL DEF Spec
---------------------------------------------------------------------------
\* What the history has of a watcher that does not run.
NothingWatched == ~watching => chan = NoChan

ChanInv == HistoryChannelsOpen /\ OpenChannelsKnown /\ NothingWatched

\* Closing the channels of some paths and forgetting them keeps the others right.
LEMMA Closing ==
    ASSUME TypeOK, ChanInv, NEW fs \in SUBSET Files,
           isOpen' = CloseOf(fs),
           chan' = [f \in Files |-> IF f \in fs THEN NoUpload ELSE chan[f]],
           UNCHANGED <<upc, upath, watching>>, watching
    PROVE  ChanInv'
  <1>1. \A f \in Files : chan'[f] # NoUpload => f \notin fs /\ chan'[f] = chan[f]
    OBVIOUS
  <1>2. ASSUME NEW f \in Files, chan'[f] # NoUpload
        PROVE  isOpen'[chan'[f]] /\ upath'[chan'[f]] = f /\ upc'[chan'[f]] # "free"
    <2>1. f \notin fs /\ chan[f] # NoUpload /\ chan'[f] = chan[f] /\ chan[f] \in Uploads
      BY <1>1, <1>2 DEF TypeOK
    <2>2. isOpen[chan[f]] /\ upath[chan[f]] = f /\ upc[chan[f]] # "free"
      BY <2>1 DEF ChanInv, HistoryChannelsOpen
    <2>3. ASSUME NEW e \in fs PROVE chan[e] # chan[f]
      <3>1. chan[e] # NoUpload => upath[chan[e]] = e
        BY DEF ChanInv, HistoryChannelsOpen
      <3>. QED
        BY <2>1, <2>2, <3>1
    <2>. QED
      BY <2>1, <2>2, <2>3 DEF CloseOf
  <1>3. ASSUME NEW g \in Uploads, isOpen'[g] PROVE chan'[upath'[g]] = g
    <2>1. isOpen[g] /\ \A f \in fs : chan[f] # g
      BY <1>3 DEF CloseOf
    <2>2. chan[upath[g]] = g /\ upath[g] \in Files
      BY <2>1 DEF ChanInv, OpenChannelsKnown, TypeOK
    <2>. QED
      BY <2>1, <2>2
  <1>. QED
    BY <1>2, <1>3 DEF ChanInv, HistoryChannelsOpen, OpenChannelsKnown, NothingWatched

\* A watcher of which any goroutine runs is watching.
Running == dispPc = "run" => watching

\* The initial state has the invariant.
LEMMA ChanInit == Init => ChanInv /\ Running
  BY DEF Init, ChanInv, HistoryChannelsOpen, OpenChannelsKnown, NothingWatched, NoChan,
         Closed, Running

\* Every step keeps it.
LEMMA ChanStep == TypeInv /\ TypeInv' /\ ChanInv /\ Running /\ [Next]_vars => ChanInv' /\ Running'
  <1>. SUFFICES ASSUME TypeInv, TypeInv', ChanInv, Running, [Next]_vars PROVE ChanInv' /\ Running'
    OBVIOUS
  <1>. USE DEF TypeInv, diskVars, histVars, mergeVars, upVars, chanVars
  <1>1. ASSUME UNCHANGED <<isOpen, chan, upath, watching, upc, dispPc>> PROVE ChanInv' /\ Running'
    BY <1>1 DEF TypeOK, ChanInv, HistoryChannelsOpen, OpenChannelsKnown, NothingWatched, NoChan, Running
  <1>2. ASSUME NEW f \in Files, Change(f) \/ Vanish(f) PROVE ChanInv' /\ Running'
    BY <1>1, <1>2 DEF Change, Vanish
  <1>3. CASE Tick \/ WatchCancel \/ Scan \/ Merge
    BY <1>1, <1>3 DEF Tick, WatchCancel, Scan, Merge, MergeNotified, MergeScanned, MergeSend, MergeStop
  <1>4. CASE WatchStart
    BY <1>4 DEF WatchStart, TypeOK, ChanInv, HistoryChannelsOpen, OpenChannelsKnown,
                NothingWatched, NoChan, Running
  <1>5. CASE WatchReturn
    <2>1. \A g \in Uploads : isOpen[g] => chan[upath[g]] = g /\ upath[g] \in Files
      BY DEF ChanInv, OpenChannelsKnown, TypeOK
    <2>2. \A g \in Uploads : ~isOpen'[g]
      BY <1>5, <2>1 DEF WatchReturn
    <2>. QED
      BY <1>5, <2>2 DEF WatchReturn, ChanInv, HistoryChannelsOpen, OpenChannelsKnown,
                        NothingWatched, NoChan, Running
  <1>6. CASE Crash
    BY <1>6 DEF Crash, ChanInv, HistoryChannelsOpen, OpenChannelsKnown, NothingWatched,
                NoChan, Closed, Running
  <1>7. ASSUME NEW f \in Files, watching, isOpen' = ClosedFor(f), chan' = Forgotten(f),
               UNCHANGED <<upc, upath, watching, dispPc>>
        PROVE  ChanInv' /\ Running'
    <2>1. chan' = [e \in Files |-> IF e \in {f} THEN NoUpload ELSE chan[e]]
      BY <1>7 DEF Forgotten, TypeOK
    <2>2. isOpen' = CloseOf({f})
      BY <1>7 DEF ClosedFor
    <2>3. ChanInv'
      BY <1>7, <2>1, <2>2, Closing
    <2>. QED
      BY <1>7, <2>3 DEF Running
  <1>8. CASE DispatchTask
    BY <1>7, <1>8, Taken DEF DispatchTask, Running
  <1>9. CASE DispatchRemove
    BY <1>7, <1>9, Taken DEF DispatchRemove, Running
  <1>10. CASE DispatchKnown
    BY <1>1, <1>10 DEF DispatchKnown
  <1>11. ASSUME NEW g \in Uploads, DispatchNew(g) PROVE ChanInv' /\ Running'
    <2>. DEFINE f == Head(events).file
    <2>1. f \in Files /\ chan[f] = NoUpload /\ upc[g] = "free" /\ watching
      BY <1>11, Taken DEF DispatchNew, Changed, Running
    <2>2. /\ chan' = [chan EXCEPT ![f] = g] /\ isOpen' = [isOpen EXCEPT ![g] = TRUE]
          /\ upc' = [upc EXCEPT ![g] = "monitor"] /\ upath' = [upath EXCEPT ![g] = f]
          /\ UNCHANGED <<watching, dispPc>>
      BY <1>11 DEF DispatchNew
    <2>. HIDE DEF f
    <2>3. \A e \in Files : chan[e] # g
      BY <2>1, WatcherAssumption DEF ChanInv, HistoryChannelsOpen
    <2>4. HistoryChannelsOpen'
      BY <2>1, <2>2, <2>3 DEF ChanInv, HistoryChannelsOpen, TypeOK
    <2>5. OpenChannelsKnown'
      BY <2>1, <2>2, <2>3, WatcherAssumption DEF ChanInv, OpenChannelsKnown, TypeOK
    <2>. QED
      BY <2>1, <2>2, <2>4, <2>5 DEF ChanInv, NothingWatched, Running
  <1>12. CASE DispatchRemap
    <2>1. PICK gone \in SUBSET {f \in Files : Expired(f)} :
            /\ isOpen' = CloseOf(gone)
            /\ chan' = [f \in Files |-> IF f \in gone THEN NoUpload ELSE chan[f]]
      BY <1>12 DEF DispatchRemap
    <2>2. UNCHANGED <<upc, upath, watching, dispPc>> /\ watching
      BY <1>12 DEF DispatchRemap, Running
    <2>3. ChanInv'
      BY <2>1, <2>2, Closing
    <2>. QED
      BY <2>2, <2>3 DEF Running
  <1>13. CASE DispatchLeave \/ DispatchReturn
    BY <1>13 DEF DispatchLeave, DispatchReturn, TypeOK, ChanInv, HistoryChannelsOpen,
                 OpenChannelsKnown, NothingWatched, NoChan, Running
  <1>14. ASSUME NEW g \in Uploads, Upload(g) PROVE ChanInv' /\ Running'
    <2>1. /\ UNCHANGED <<isOpen, chan, upath, watching, dispPc>>
          /\ \A h \in Uploads : upc'[h] = "free" => upc[h] = "free" \/ ~isOpen[h]
      BY <1>14 DEF Upload, UploadEvent, UploadQuit, UploadTrigger, UploadOk, UploadFail,
                   UploadReport, UploadDrain, UploadEnd, TypeOK
    <2>. QED
      BY <2>1 DEF TypeOK, ChanInv, HistoryChannelsOpen, OpenChannelsKnown, NothingWatched,
                  NoChan, Running
  <1>15. CASE UNCHANGED vars
    BY <1>1, <1>15 DEF vars
  <1>. QED
    BY <1>2, <1>3, <1>4, <1>5, <1>6, <1>8, <1>9, <1>10, <1>11, <1>12, <1>13, <1>14, <1>15
       DEF Next, Dispatch

\* dispatch never sends on a closed channel, closes one twice or uses that of an upload
\* that is over, and no open channel is lost from the history, however removals,
\* completions, expiry, crashes and restarts interleave.
THEOREM ChannelsAreKnown == Spec => [](HistoryChannelsOpen /\ OpenChannelsKnown)
  <1>1. ChanInv => HistoryChannelsOpen /\ OpenChannelsKnown
    BY DEF ChanInv
  <1>. QED
    BY <1>1, TypeInit, TypeStep, ChanInit, ChanStep, PTL DEF Spec
---------------------------------------------------------------------------
\* t, if it is not zero, is a second after a time of f that has been uploaded.
WasSent(t, f) == t # 0 => t <= sentTime[f] + 1

SentInv ==
    /\ \A f \in Files : WasSent(uploaded[f], f) /\ WasSent(saved[f], f)
    /\ \A g \in Uploads : WasSent(uup[g], upath[g])
    /\ \A i \in DOMAIN tasks : WasSent(tasks[i].uploaded, tasks[i].file)

\* What the server has been sent does not grow less.
Grows == \A f \in Files : sentTime[f] <= sentTime'[f]

\* Every step but the end of an upload leaves it alone.
LEMMA SentGrows == TypeInv /\ [Next]_vars => Grows
  <1>. SUFFICES ASSUME TypeInv, [Next]_vars PROVE Grows
    OBVIOUS
  <1>1. sentTime \in [Files -> Nat]
    BY TimesType DEF TypeInv, TypeOK
  <1>2. ASSUME UNCHANGED sentTime PROVE Grows
    BY <1>1, <1>2 DEF Grows
  <1>3. ASSUME NEW g \in Uploads, UploadOk(g) PROVE Grows
    <2>1. utime[g] \in Nat
      BY TimesType DEF TypeInv, TypeOK
    <2>. QED
      BY <1>1, <1>3, <2>1 DEF UploadOk, Grows
  <1>4. CASE \/ \E f \in Files : Change(f) \/ Vanish(f)
             \/ Tick \/ WatchStart \/ WatchCancel \/ WatchReturn \/ Crash \/ Scan
    BY <1>2, <1>4 DEF Change, Vanish, Tick, WatchStart, WatchCancel, WatchReturn, Crash, Scan
  <1>5. CASE Merge
    BY <1>2, <1>5 DEF Merge, MergeNotified, MergeScanned, MergeSend, MergeStop
  <1>6. CASE Dispatch \/ DispatchRemap
    BY <1>2, <1>6 DEF Dispatch, DispatchTask, DispatchRemove, DispatchKnown, DispatchNew,
                      DispatchLeave, DispatchReturn, DispatchRemap
  <1>7. ASSUME NEW g \in Uploads, Upload(g) PROVE Grows
    BY <1>2, <1>3, <1>7 DEF Upload, UploadEvent, UploadQuit, UploadTrigger, UploadFail,
                            UploadReport, UploadDrain, UploadEnd
  <1>8. CASE UNCHANGED vars
    BY <1>2, <1>8 DEF vars
  <1>. QED
    BY <1>4, <1>5, <1>6, <1>7, <1>8 DEF Next

\* A time that was sent remains so.
LEMMA StaySent ==
    ASSUME TypeInv, TypeInv', Grows, NEW f \in Files, NEW t \in Uploaded, WasSent(t, f)
    PROVE  WasSent(t, f)'
  <1>1. sentTime[f] \in Nat /\ sentTime'[f] \in Nat /\ t \in Nat
    BY TimesType DEF TypeInv, TypeOK
  <1>2. sentTime[f] <= sentTime'[f]
    BY DEF Grows
  <1>. QED
    BY <1>1, <1>2 DEF WasSent

\* What the history, an upload or a report says stays right as long as it says it.
LEMMA KeptSent ==
    ASSUME TypeInv, TypeInv', Grows, SentInv
    PROVE  /\ \A f \in Files : WasSent(uploaded[f], f)' \/ uploaded'[f] # uploaded[f]
           /\ \A f \in Files : WasSent(saved[f], f)' \/ saved'[f] # saved[f]
           /\ \A g \in Uploads : \/ WasSent(uup[g], upath[g])'
                                 \/ uup'[g] # uup[g] \/ upath'[g] # upath[g]
           /\ tasks' = tasks => \A i \in DOMAIN tasks' : WasSent(tasks[i].uploaded, tasks[i].file)'
  <1>1. ASSUME NEW f \in Files, uploaded'[f] = uploaded[f] PROVE WasSent(uploaded[f], f)'
    BY <1>1, StaySent DEF SentInv, TypeInv, TypeOK, WasSent
  <1>2. ASSUME NEW f \in Files, saved'[f] = saved[f] PROVE WasSent(saved[f], f)'
    BY <1>2, StaySent DEF SentInv, TypeInv, TypeOK, WasSent
  <1>3. ASSUME NEW g \in Uploads, uup'[g] = uup[g], upath'[g] = upath[g]
        PROVE  WasSent(uup[g], upath[g])'
    BY <1>3, StaySent DEF SentInv, TypeInv, TypeOK, WasSent
  <1>4. ASSUME tasks' = tasks, NEW i \in DOMAIN tasks PROVE WasSent(tasks[i].uploaded, tasks[i].file)'
    <2>1. tasks[i] \in Report
      BY <1>4 DEF TypeInv, TypeOK
    <2>2. WasSent(tasks[i].uploaded, tasks[i].file)
      BY <1>4 DEF SentInv
    <2>. QED
      BY <1>4, <2>1, <2>2, StaySent DEF Report, WasSent
  <1>. QED
    BY <1>1, <1>2, <1>3, <1>4

\* Zero says nothing.
LEMMA ZeroSent == \A f \in Files : WasSent(0, f)
  BY DEF WasSent

\* The initial state: nothing has been said.
LEMMA SentInit == Init => SentInv
  BY DEF Init, SentInv, WasSent, Zero, AllZero

\* Steps that leave the history, the uploads and the reports alone.
LEMMA SentSame ==
    ASSUME TypeInv, TypeInv', Grows, SentInv, UNCHANGED <<uploaded, saved, uup, upath, tasks>>
    PROVE  SentInv'
  BY KeptSent DEF SentInv

\* Every step keeps the invariant.
LEMMA SentStep == TypeInv /\ TypeInv' /\ SentInv /\ [Next]_vars => SentInv'
  <1>. SUFFICES ASSUME TypeInv, TypeInv', SentInv, [Next]_vars PROVE SentInv'
    OBVIOUS
  <1>0. Grows
    BY SentGrows
  <1>. USE <1>0 DEF histVars, upVars
  <1>1. CASE \/ \E f \in Files : Change(f) \/ Vanish(f)
             \/ Tick \/ WatchCancel \/ Scan \/ Merge \/ DispatchKnown \/ DispatchLeave
             \/ UNCHANGED vars
    <2>1. UNCHANGED <<uploaded, saved, uup, upath, tasks>>
      BY <1>1 DEF Change, Vanish, Tick, WatchCancel, Scan, Merge, MergeNotified, MergeScanned,
                  MergeSend, MergeStop, DispatchKnown, DispatchLeave, vars
    <2>. QED
      BY <2>1, SentSame
  <1>2. CASE WatchStart
    <2>1. UNCHANGED <<saved, uup, upath, tasks>>
      BY <1>2 DEF WatchStart
    <2>2. \A f \in Files : uploaded'[f] = 0 \/ uploaded'[f] = saved'[f]
      BY <1>2 DEF WatchStart, Loaded
    <2>3. \A f \in Files : WasSent(saved[f], f)'
      BY <2>1, KeptSent
    <2>4. \A f \in Files : WasSent(uploaded[f], f)'
      BY <2>2, <2>3 DEF WasSent
    <2>. QED
      BY <2>1, <2>3, <2>4, KeptSent DEF SentInv
  <1>3. CASE WatchReturn
    <2>1. UNCHANGED <<saved, uup, upath, tasks>> /\ uploaded' = Zero
      BY <1>3 DEF WatchReturn
    <2>2. \A f \in Files : WasSent(uploaded[f], f)'
      BY <2>1 DEF WasSent, Zero
    <2>. QED
      BY <2>1, <2>2, KeptSent DEF SentInv
  <1>4. CASE Crash
    <2>1. /\ UNCHANGED <<saved, upath>> /\ uploaded' = Zero /\ uup' = AllZero
          /\ tasks' = <<>>
      BY <1>4 DEF Crash
    <2>2. /\ \A f \in Files : WasSent(uploaded[f], f)'
          /\ \A g \in Uploads : WasSent(uup[g], upath[g])'
          /\ \A i \in DOMAIN tasks' : WasSent(tasks[i].uploaded, tasks[i].file)'
      BY <2>1 DEF WasSent, Zero, AllZero
    <2>. QED
      BY <2>1, <2>2, KeptSent DEF SentInv
  <1>5. CASE DispatchTask
    <2>. DEFINE t == Head(tasks)
    <2>1. /\ UNCHANGED <<uup, upath, sentTime>> /\ tasks # <<>> /\ tasks' = Tail(tasks)
          /\ uploaded' = IF t.uploaded = 0 THEN uploaded ELSE [uploaded EXCEPT ![t.file] = t.uploaded]
          /\ saved' = saved \/ \A f \in Files : saved'[f] \in {0, uploaded'[f]}
      BY <1>5 DEF DispatchTask, Written
    <2>2. tasks \in Seq(Report) /\ t = tasks[1] /\ 1 \in DOMAIN tasks /\ t.file \in Files
      BY <2>1, Taken DEF TypeInv, TypeOK
    <2>3. WasSent(t.uploaded, t.file)
      BY <2>2 DEF SentInv
    <2>4. \A f \in Files : WasSent(uploaded'[f], f)
      BY <2>1, <2>2, <2>3 DEF SentInv, TypeInv, TypeOK
    <2>5. \A f \in Files : WasSent(saved'[f], f)
      BY <2>1, <2>4 DEF SentInv, WasSent
    <2>6. \A i \in DOMAIN tasks' : i + 1 \in DOMAIN tasks /\ tasks'[i] = tasks[i + 1]
      BY <2>1, <2>2
    <2>7. \A i \in DOMAIN tasks' : WasSent(tasks'[i].uploaded, tasks'[i].file)
      BY <2>6 DEF SentInv
    <2>. QED
      BY <2>1, <2>4, <2>5, <2>7 DEF SentInv, WasSent
  <1>6. CASE DispatchRemove
    <2>1. /\ UNCHANGED <<saved, uup, upath, tasks>>
          /\ uploaded' = [uploaded EXCEPT ![Head(events).file] = 0]
      BY <1>6 DEF DispatchRemove
    <2>2. \A f \in Files : uploaded'[f] = 0 \/ uploaded'[f] = uploaded[f]
      BY <2>1 DEF TypeInv, TypeOK
    <2>3. \A f \in Files : WasSent(uploaded[f], f)'
      BY <2>2, KeptSent DEF WasSent
    <2>. QED
      BY <2>1, <2>3, KeptSent DEF SentInv
  <1>7. ASSUME NEW g \in Uploads, DispatchNew(g) PROVE SentInv'
    <2>. DEFINE f == Head(events).file
    <2>1. /\ UNCHANGED <<uploaded, saved, tasks, sentTime>> /\ f \in Files
          /\ upath' = [upath EXCEPT ![g] = f] /\ uup' = [uup EXCEPT ![g] = uploaded[f]]
      BY <1>7, Taken DEF DispatchNew, Changed, TypeInv
    <2>. HIDE DEF f
    <2>2. \A h \in Uploads : WasSent(uup'[h], upath'[h])
      BY <2>1 DEF SentInv, TypeInv, TypeOK
    <2>. QED
      BY <2>1, <2>2 DEF SentInv, WasSent
  <1>8. CASE DispatchRemap
    <2>1. UNCHANGED <<saved, uup, upath, tasks>>
      BY <1>8 DEF DispatchRemap
    <2>2. \A f \in Files : uploaded'[f] = 0 \/ uploaded'[f] = uploaded[f]
      BY <1>8 DEF DispatchRemap
    <2>3. \A f \in Files : WasSent(uploaded[f], f)'
      BY <2>2, KeptSent DEF WasSent
    <2>. QED
      BY <2>1, <2>3, KeptSent DEF SentInv
  <1>9. CASE DispatchReturn
    <2>1. UNCHANGED <<uploaded, saved, uup, upath>> /\ tasks' = <<>>
      BY <1>9 DEF DispatchReturn
    <2>. QED
      BY <2>1, KeptSent DEF SentInv
  <1>10. ASSUME NEW g \in Uploads, Upload(g) PROVE SentInv'
    <2>1. CASE UploadEvent(g) \/ UploadQuit(g) \/ UploadTrigger(g) \/ UploadDrain(g) \/ UploadEnd(g)
      <3>1. UNCHANGED <<uploaded, saved, uup, upath, tasks>>
        BY <2>1 DEF UploadEvent, UploadQuit, UploadTrigger, UploadDrain, UploadEnd
      <3>. QED
        BY <3>1, SentSame
    <2>2. CASE UploadOk(g)
      <3>1. UNCHANGED <<uploaded, saved, upath, tasks>> /\ uup' = [uup EXCEPT ![g] = utime[g] + 1]
        BY <2>2 DEF UploadOk
      <3>2. utime[g] \in Nat /\ sentTime[upath[g]] \in Nat /\ upath[g] \in Files
        BY TimesType DEF TypeInv, TypeOK
      <3>3. utime[g] <= sentTime'[upath[g]]
        BY <2>2, <3>2 DEF UploadOk, TypeInv, TypeOK
      <3>4. \A h \in Uploads : WasSent(uup[h], upath[h])'
        <4>1. WasSent(uup[g], upath[g])'
          <5>1. uup'[g] = utime[g] + 1 /\ upath'[g] = upath[g]
            BY <3>1 DEF TypeInv, TypeOK
          <5>2. sentTime'[upath[g]] \in Nat
            BY <2>2, <3>2 DEF UploadOk, TypeInv, TypeOK
          <5>3. utime[g] + 1 <= sentTime'[upath[g]] + 1
            BY <3>2, <3>3, <5>2
          <5>. QED
            BY <5>1, <5>3 DEF WasSent
        <4>2. \A h \in Uploads \ {g} : uup'[h] = uup[h] /\ upath'[h] = upath[h]
          BY <3>1 DEF TypeInv, TypeOK
        <4>. QED
          BY <4>1, <4>2, KeptSent
      <3>. QED
        BY <3>1, <3>4, KeptSent DEF SentInv
    <2>3. CASE UploadFail(g)
      <3>1. UNCHANGED <<uploaded, saved, uup, upath, tasks>>
        BY <2>3 DEF UploadFail, TimeKept, TypeInv, TypeOK
      <3>. QED
        BY <3>1, SentSame
    <2>4. CASE UploadReport(g)
      <3>. DEFINE r == [file |-> upath[g], uploaded |-> uup[g]]
      <3>1. /\ UNCHANGED <<uploaded, saved, upath, sentTime>>
            /\ uup' = [uup EXCEPT ![g] = 0] /\ tasks' = Append(tasks, r)
        BY <2>4 DEF UploadReport
      <3>2. \A i \in DOMAIN tasks' : tasks'[i] = r \/ (i \in DOMAIN tasks /\ tasks'[i] = tasks[i])
        BY <3>1 DEF TypeInv, TypeOK
      <3>3. \A i \in DOMAIN tasks' : WasSent(tasks'[i].uploaded, tasks'[i].file)
        BY <3>2 DEF SentInv
      <3>4. \A h \in Uploads : WasSent(uup'[h], upath'[h])
        BY <3>1 DEF SentInv, WasSent, TypeInv, TypeOK
      <3>. QED
        BY <3>1, <3>3, <3>4 DEF SentInv, WasSent
    <2>. QED
      BY <1>10, <2>1, <2>2, <2>3, <2>4 DEF Upload
  <1>. QED
    BY <1>1, <1>2, <1>3, <1>4, <1>5, <1>6, <1>7, <1>8, <1>9, <1>10 DEF Next, Dispatch

\* Neither the history nor the history file records an upload that did not happen,
\* through failed uploads and saves, removals, crashes and restarts.
THEOREM HistoryIsTrue == Spec => []HistoryWasSent
  <1>1. SentInv => HistoryWasSent
    BY DEF SentInv, HistoryWasSent, WasSent
  <1>. QED
    BY <1>1, TypeInit, TypeStep, SentInit, SentStep, PTL DEF Spec
---------------------------------------------------------------------------
\* What Remap removes from the disk the server has had in some version; that it is the last
\* one nothing ensures.
RemovedWereSent ==
    [][\A f \in Files : DispatchRemap /\ exists[f] /\ ~exists'[f] => sentTime[f] # 0]_vars

\* The service deletes no file of which nothing was ever uploaded, however old its history
\* file is and whatever crashed: Remap goes by the history, and that is true (SentInv).
THEOREM RemapKeepsUnsent == Spec => RemovedWereSent
  <1>1. ASSUME TypeInv, SentInv, DispatchRemap, NEW f \in Files, exists[f], ~exists'[f]
        PROVE  sentTime[f] # 0
    <2>1. uploaded[f] # 0
      BY <1>1 DEF DispatchRemap, Expired
    <2>2. uploaded[f] \in Nat /\ uploaded[f] > 1 /\ sentTime[f] \in Nat
      BY <1>1, <2>1, TimesType DEF TypeInv, TypeOK
    <2>. QED
      BY <1>1, <2>1, <2>2 DEF SentInv, WasSent
  <1>2. TypeInv /\ SentInv /\ [Next]_vars
          => [\A f \in Files : DispatchRemap /\ exists[f] /\ ~exists'[f] => sentTime[f] # 0]_vars
    BY <1>1
  <1>. QED
    BY <1>2, TypeInit, TypeStep, SentInit, SentStep, PTL DEF Spec, RemovedWereSent
---------------------------------------------------------------------------
\* The file an upload is about to send is, if it is there, at least as new as when the
\* upload looked at it: files and clock only move forward.
DiskInv ==
    /\ \A f \in Files : (exists[f] <=> mtime[f] # 0) /\ mtime[f] <= clock
    /\ \A g \in Uploads :
        /\ utime[g] <= clock
        /\ upc[g] = "upload" /\ exists[upath[g]] => utime[g] <= mtime[upath[g]]

\* The types the arithmetic needs.
LEMMA DiskType ==
    ASSUME TypeInv
    PROVE  /\ clock \in Nat /\ clock # 0
           /\ \A f \in Files : mtime[f] \in Nat /\ sentTime[f] \in Nat
           /\ \A g \in Uploads : utime[g] \in Nat /\ upath[g] \in Files /\ uup[g] \in Nat
  BY TimesType DEF TypeInv, TypeOK

\* The initial state: there is no file.
LEMMA DiskInit == Init => DiskInv
  BY TimesType DEF Init, DiskInv, Zero, AllZero, Idle

\* Every step keeps it.
LEMMA DiskStep == TypeInv /\ TypeInv' /\ DiskInv /\ [Next]_vars => DiskInv'
  <1>. SUFFICES ASSUME TypeInv, TypeInv', DiskInv, [Next]_vars PROVE DiskInv'
    OBVIOUS
  <1>. USE DiskType DEF DiskInv, diskVars, upVars
  <1>1. ASSUME UNCHANGED <<diskVars, upVars>> PROVE DiskInv'
    BY <1>1
  <1>2. ASSUME NEW f \in Files, Change(f) PROVE DiskInv'
    BY <1>2 DEF Change, TypeInv, TypeOK
  <1>3. ASSUME NEW f \in Files, Vanish(f) PROVE DiskInv'
    BY <1>3 DEF Vanish, TypeInv, TypeOK
  <1>4. CASE Tick
    <2>1. clock' \in Nat /\ clock' > clock /\ UNCHANGED <<exists, mtime, upVars>>
      BY <1>4, TimesType DEF Tick
    <2>. QED
      BY <2>1
  <1>5. CASE WatchStart \/ WatchCancel \/ WatchReturn \/ Scan \/ Merge
    BY <1>1, <1>5 DEF WatchStart, WatchCancel, WatchReturn, Scan, Merge, MergeNotified,
                      MergeScanned, MergeSend, MergeStop
  <1>6. CASE Crash
    BY <1>6 DEF Crash, Idle, AllZero
  <1>7. CASE DispatchTask \/ DispatchRemove \/ DispatchKnown \/ DispatchLeave \/ DispatchReturn
    BY <1>1, <1>7 DEF DispatchTask, DispatchRemove, DispatchKnown, DispatchLeave, DispatchReturn
  <1>8. ASSUME NEW g \in Uploads, DispatchNew(g) PROVE DiskInv'
    BY <1>8 DEF DispatchNew, TypeInv, TypeOK
  <1>9. CASE DispatchRemap
    <2>1. PICK gone \in SUBSET Files :
            /\ exists' = [f \in Files |-> exists[f] /\ f \notin gone]
            /\ mtime' = [f \in Files |-> IF f \in gone THEN 0 ELSE mtime[f]]
      BY <1>9 DEF DispatchRemap
    <2>2. UNCHANGED <<clock, upVars>>
      BY <1>9 DEF DispatchRemap
    <2>3. \A f \in Files : (exists'[f] <=> mtime'[f] # 0) /\ mtime'[f] <= clock'
      <3>1. \A f \in gone : ~exists'[f] /\ mtime'[f] = 0
        BY <2>1
      <3>2. \A f \in Files \ gone : (exists'[f] <=> exists[f]) /\ mtime'[f] = mtime[f]
        BY <2>1
      <3>3. \A f \in gone : 0 <= clock'
        BY <2>2
      <3>. QED
        BY <2>2, <3>1, <3>2, <3>3
    <2>4. \A f \in Files : exists'[f] => mtime'[f] = mtime[f] /\ exists[f]
      BY <2>1
    <2>. QED
      BY <2>2, <2>3, <2>4
  <1>10. ASSUME NEW g \in Uploads, UploadTrigger(g) PROVE DiskInv'
    BY <1>10 DEF UploadTrigger, TypeInv, TypeOK
  <1>11. ASSUME NEW g \in Uploads, UploadOk(g) \/ UploadFail(g) PROVE DiskInv'
    <2>1. /\ UNCHANGED <<diskVars, upath>>
          /\ utime' = [utime EXCEPT ![g] = 0] /\ upc' = [upc EXCEPT ![g] = "report"]
      BY <1>11 DEF UploadOk, UploadFail
    <2>2. \A h \in Uploads : \/ upc'[h] = upc[h] /\ utime'[h] = utime[h]
                             \/ upc'[h] = "report" /\ utime'[h] = 0
      BY <2>1 DEF TypeInv, TypeOK
    <2>. QED
      BY <2>1, <2>2
  <1>12. ASSUME NEW g \in Uploads, UploadEvent(g) \/ UploadQuit(g) \/ UploadReport(g)
                                   \/ UploadDrain(g) \/ UploadEnd(g)
         PROVE  DiskInv'
    BY <1>12 DEF UploadEvent, UploadQuit, UploadReport, UploadDrain, UploadEnd, TypeInv, TypeOK
  <1>13. CASE UNCHANGED vars
    BY <1>1, <1>13 DEF vars
  <1>. QED
    BY <1>2, <1>3, <1>4, <1>5, <1>6, <1>7, <1>8, <1>9, <1>10, <1>11, <1>12, <1>13
       DEF Next, Dispatch, Upload

\* What FileSync starts from is what the watcher starts from.
LEMMA SyncInit == Init => FS!Init
  BY DEF Init, FS!Init, FS!Nothing, Zero

\* Every step of the watcher is one of FileSync, or changes nothing FileSync speaks of.
LEMMA SyncStep ==
    TypeInv /\ TypeInv' /\ SentInv /\ DiskInv /\ Running /\ [Next]_vars => [FS!Next]_FS!vars
  <1>. SUFFICES ASSUME TypeInv, TypeInv', SentInv, DiskInv, Running, [Next]_vars
                PROVE  FS!Next \/ UNCHANGED FS!vars
    OBVIOUS
  <1>. USE DEF diskVars, histVars
  <1>1. ASSUME UNCHANGED <<watching, mtime, sentTime, uploaded, saved>> PROVE UNCHANGED FS!vars
    BY <1>1 DEF FS!vars
  <1>2. ASSUME NEW f \in Files, Change(f) \/ Vanish(f) PROVE FS!Next
    <2>1. /\ mtime' \in [Files -> Nat] /\ \A g \in Files \ {f} : mtime'[g] = mtime[g]
          /\ UNCHANGED <<watching, sentTime, uploaded, saved>>
      <3>1. \/ mtime' = [mtime EXCEPT ![f] = clock] \/ mtime' = [mtime EXCEPT ![f] = 0]
        BY <1>2 DEF Change, Vanish
      <3>2. mtime \in [Files -> Nat]
        BY TimesType DEF TypeInv, TypeOK
      <3>3. mtime' \in [Files -> Nat] /\ \A g \in Files \ {f} : mtime'[g] = mtime[g]
        BY <3>1, <3>2, DiskType
      <3>. QED
        BY <1>2, <3>3 DEF Change, Vanish
    <2>. QED
      BY <2>1 DEF FS!Next, FS!Edit
  <1>3. CASE WatchStart
    <2>1. \A f \in Files : exists[f] <=> mtime[f] # 0
      BY DEF DiskInv
    <2>2. uploaded' = FS!Without({f \in Files : mtime[f] = 0}, saved)
      BY <1>3, <2>1 DEF WatchStart, Loaded, FS!Without
    <2>. QED
      BY <1>3, <2>2 DEF WatchStart, FS!Next, FS!Start
  <1>4. CASE WatchReturn \/ Crash
    BY <1>4 DEF WatchReturn, Crash, Zero, FS!Next, FS!Stop, FS!Nothing
  <1>5. CASE Tick \/ WatchCancel \/ Scan \/ Merge \/ DispatchKnown \/ DispatchLeave \/ DispatchReturn
    BY <1>1, <1>5 DEF Tick, WatchCancel, Scan, Merge, MergeNotified, MergeScanned, MergeSend,
                      MergeStop, DispatchKnown, DispatchLeave, DispatchReturn
  <1>6. CASE DispatchTask
    <2>. DEFINE t == Head(tasks)
    <2>1. /\ watching /\ UNCHANGED <<watching, mtime, sentTime>> /\ tasks # <<>>
          /\ uploaded' = IF t.uploaded = 0 THEN uploaded ELSE [uploaded EXCEPT ![t.file] = t.uploaded]
          /\ saved' = saved \/ \E lost \in SUBSET Files : saved' = FS!Without(lost, uploaded')
      BY <1>6 DEF DispatchTask, Written, FS!Without, Running
    <2>2. /\ t = tasks[1] /\ 1 \in DOMAIN tasks /\ t.file \in Files
          /\ t.uploaded \in Nat /\ (t.uploaded # 0 => t.uploaded > 1)
      <3>1. t.file \in Files /\ t.uploaded \in Uploaded
        BY <2>1, Taken DEF TypeInv
      <3>2. t = tasks[1] /\ 1 \in DOMAIN tasks
        BY <2>1 DEF TypeInv, TypeOK
      <3>. QED
        BY <3>1, <3>2, TimesType
    <2>3. t.uploaded # 0 => /\ t.uploaded - 1 \in 1 .. sentTime[t.file]
                            /\ t.uploaded = (t.uploaded - 1) + 1
      BY <2>2, DiskType DEF SentInv, WasSent
    <2>4. uploaded' = uploaded \/ FS!Learn(t.file)
      <3>1. CASE t.uploaded = 0
        BY <2>1, <3>1
      <3>2. CASE t.uploaded # 0
        <4>1. uploaded' = [uploaded EXCEPT ![t.file] = (t.uploaded - 1) + 1]
          BY <2>1, <2>3, <3>2
        <4>. QED
          BY <2>3, <3>2, <4>1 DEF FS!Learn
      <3>. QED
        BY <3>1, <3>2
    <2>. QED
      BY <2>1, <2>2, <2>4 DEF FS!Next, FS!Record
  <1>7. CASE DispatchRemove
    <2>1. /\ watching /\ UNCHANGED <<watching, mtime, sentTime, saved>> /\ Head(events).file \in Files
          /\ uploaded' = [uploaded EXCEPT ![Head(events).file] = 0]
      BY <1>7, Taken DEF DispatchRemove, Running, TypeInv
    <2>. QED
      BY <2>1 DEF FS!Next, FS!Forget
  <1>8. ASSUME NEW g \in Uploads, DispatchNew(g) PROVE UNCHANGED FS!vars
    BY <1>1, <1>8 DEF DispatchNew
  <1>9. CASE DispatchRemap
    <2>1. PICK gone \in SUBSET {f \in Files : Expired(f)} :
            /\ mtime' = [f \in Files |-> IF f \in gone THEN 0 ELSE mtime[f]]
            /\ uploaded' = [f \in Files |-> IF f \in gone THEN 0 ELSE uploaded[f]]
      BY <1>9 DEF DispatchRemap
    <2>2. watching /\ UNCHANGED <<watching, sentTime, saved>>
      BY <1>9 DEF DispatchRemap, Running
    <2>3. gone \in SUBSET Files /\ \A f \in gone : uploaded[f] # 0
      BY DEF Expired
    <2>. QED
      BY <2>1, <2>2, <2>3 DEF FS!Next, FS!Expire, FS!Without
  <1>10. ASSUME NEW g \in Uploads, UploadOk(g) PROVE FS!Next \/ UNCHANGED FS!vars
    <2>. DEFINE f == upath[g]
    <2>1. /\ UNCHANGED <<watching, mtime, uploaded, saved>> /\ f \in Files
          /\ sentTime' = [sentTime EXCEPT ![f] = IF utime[g] > @ THEN utime[g] ELSE @]
      BY <1>10, DiskType DEF UploadOk
    <2>2. utime[g] \in Nat /\ sentTime[f] \in Nat /\ mtime[f] \in Nat /\ utime[g] <= mtime[f]
      BY <1>10, DiskType DEF UploadOk, DiskInv
    <2>3. CASE utime[g] > sentTime[f]
      <3>1. utime[g] \in sentTime[f] + 1 .. mtime[f] /\ sentTime' = [sentTime EXCEPT ![f] = utime[g]]
        BY <2>1, <2>2, <2>3
      <3>. QED
        BY <2>1, <3>1 DEF FS!Next, FS!Accept
    <2>4. CASE ~(utime[g] > sentTime[f])
      <3>1. sentTime' = sentTime
        BY <2>1, <2>4 DEF TypeInv, TypeOK
      <3>. QED
        BY <1>1, <2>1, <3>1
    <2>. QED
      BY <2>3, <2>4
  <1>11. ASSUME NEW g \in Uploads, Upload(g), ~UploadOk(g) PROVE UNCHANGED FS!vars
    BY <1>1, <1>11 DEF Upload, UploadEvent, UploadQuit, UploadTrigger, UploadFail, UploadReport,
                       UploadDrain, UploadEnd
  <1>12. CASE UNCHANGED vars
    BY <1>1, <1>12 DEF vars
  <1>. QED
    BY <1>2, <1>3, <1>4, <1>5, <1>6, <1>7, <1>8, <1>9, <1>10, <1>11, <1>12 DEF Next, Dispatch

\* The watcher implements FileSync: through lost and doubled events, failed uploads and
\* saves, expiry, cancellations, crashes and restarts, the server's versions only advance
\* and were on the disk, and the service knows of none the server has not got.
THEOREM WatcherImplementsFileSync == Spec => ImplementsFileSync
  <1>. QED
    BY TypeInit, TypeStep, ChanInit, ChanStep, SentInit, SentStep, DiskInit, DiskStep,
       SyncInit, SyncStep, PTL DEF Spec, ImplementsFileSync, FS!Spec
---------------------------------------------------------------------------
(* What LeftBehind speaks of is not late but lost: once dispatch does not  *)
(* read its channels any more, nobody closes the channel of an upload,     *)
(* makes room for its report or for an event of merge.                     *)

LeftUpload(g) ==
    /\ dispPc = "wait"
    /\ \/ upc[g] = "drain" /\ isOpen[g]
       \/ upc[g] = "report" /\ Len(tasks) = TaskSize
LeftMerge == watching /\ dispPc # "run" /\ held # NoEvent /\ Len(events) = EventsSize

\* Only the end of the process frees such a goroutine.
LeftForGood ==
    [][/\ \A g \in Uploads : LeftUpload(g) => LeftUpload(g)' \/ Crash
       /\ LeftMerge => LeftMerge' \/ Crash]_vars

\* Who waits or holds an event belongs to a Watch that has not returned.
HeldByWatch == (dispPc = "wait" => watching) /\ (held # NoEvent => mergePc = "run")

\* merge and dispatch end before Watch returns.
LEMMA HeldStep == TypeOK /\ Running /\ HeldByWatch /\ [Next]_vars => HeldByWatch'
  <1>. SUFFICES ASSUME TypeOK, Running, HeldByWatch, [Next]_vars PROVE HeldByWatch'
    OBVIOUS
  <1>. USE DEF HeldByWatch, histVars, mergeVars, upVars, chanVars
  <1>1. CASE \/ \E f \in Files : Change(f) \/ Vanish(f)
             \/ Tick \/ WatchCancel \/ Scan \/ UNCHANGED vars
    BY <1>1 DEF Change, Vanish, Tick, WatchCancel, Scan, vars
  <1>2. CASE WatchStart \/ WatchReturn \/ Crash
    BY <1>2 DEF WatchStart, WatchReturn, Crash
  <1>3. CASE Merge
    BY <1>3 DEF Merge, MergeNotified, MergeScanned, MergeSend, MergeStop
  <1>4. CASE Dispatch \/ DispatchRemap
    BY <1>4 DEF Dispatch, DispatchTask, DispatchRemove, DispatchKnown, DispatchNew, DispatchRemap,
                DispatchLeave, DispatchReturn, Running
  <1>5. ASSUME NEW g \in Uploads, Upload(g) PROVE HeldByWatch'
    BY <1>5 DEF Upload, UploadEvent, UploadQuit, UploadTrigger, UploadOk, UploadFail,
                UploadReport, UploadDrain, UploadEnd
  <1>. QED
    BY <1>1, <1>2, <1>3, <1>4, <1>5 DEF Next

\* A full channel takes nothing.
LEMMA Full == ~(TaskSize < TaskSize) /\ ~(EventsSize < EventsSize)
  BY WatcherAssumption

\* A goroutine that dispatch has left behind stays behind: Watch, which waits for it, never
\* returns, and the finding WatchReturns is not a matter of time.
THEOREM LeftBehindForGood == Spec => LeftForGood
  <1>1. ASSUME TypeOK, HeldByWatch, Next, ~Crash, NEW g \in Uploads, LeftUpload(g)
        PROVE  LeftUpload(g)'
    <2>. USE <1>1 DEF LeftUpload, HeldByWatch, diskVars, histVars, mergeVars, upVars, chanVars
    <2>t. /\ DOMAIN upc = Uploads /\ DOMAIN isOpen = Uploads /\ upc[g] # "free"
      BY DEF TypeOK
    <2>1. CASE \/ \E f \in Files : Change(f) \/ Vanish(f)
               \/ Tick \/ WatchCancel \/ Scan
      BY <2>1 DEF Change, Vanish, Tick, WatchCancel, Scan
    <2>2. ~(WatchStart \/ WatchReturn)
      BY DEF WatchStart, WatchReturn
    <2>3. CASE Merge
      BY <2>3 DEF Merge, MergeNotified, MergeScanned, MergeSend, MergeStop
    <2>4. ~(Dispatch \/ DispatchRemap)
      BY <2>t DEF Dispatch, DispatchTask, DispatchRemove, DispatchKnown, DispatchNew, Changed,
         DispatchRemap, DispatchLeave, DispatchReturn, Idle
    <2>5. ASSUME NEW h \in Uploads, Upload(h), h # g PROVE LeftUpload(g)'
      <3>1. upc'[g] = upc[g] /\ isOpen' = isOpen /\ dispPc' = dispPc
        BY <2>t, <2>5 DEF Upload, UploadEvent, UploadQuit, UploadTrigger, UploadOk, UploadFail,
           UploadReport, UploadDrain, UploadEnd
      <3>2. Len(tasks) = TaskSize => tasks' = tasks
        <4>1. tasks' = tasks \/ Len(tasks) < TaskSize
          BY <2>5 DEF Upload, UploadEvent, UploadQuit, UploadTrigger, UploadOk, UploadFail,
             UploadReport, UploadDrain, UploadEnd
        <4>. QED
          BY <4>1, Full
      <3>. QED
        BY <3>1, <3>2
    <2>6. CASE Upload(g)
      <3>1. ~UploadReport(g)
        BY Full DEF UploadReport
      <3>. QED
        BY <2>t, <2>6, <3>1 DEF Upload, UploadEvent, UploadQuit, UploadTrigger, UploadOk, UploadFail,
           UploadDrain, UploadEnd
    <2>. QED
      BY <2>1, <2>2, <2>3, <2>4, <2>5, <2>6 DEF Next
  <1>2. ASSUME TypeOK, HeldByWatch, Next, ~Crash, LeftMerge
        PROVE  LeftMerge'
    <2>. USE <1>2 DEF LeftMerge, HeldByWatch, diskVars, histVars, mergeVars, upVars, chanVars
    <2>1. CASE \/ \E f \in Files : Change(f) \/ Vanish(f)
               \/ Tick \/ WatchCancel \/ Scan
      BY <2>1 DEF Change, Vanish, Tick, WatchCancel, Scan
    <2>2. ~(WatchStart \/ WatchReturn \/ Merge)
      BY Full DEF WatchStart, WatchReturn, Merge, MergeNotified, MergeScanned, MergeSend, MergeStop
    <2>3. CASE Dispatch \/ DispatchRemap
      BY <2>3 DEF Dispatch, DispatchTask, DispatchRemove, DispatchKnown, DispatchNew, Changed,
         DispatchRemap, DispatchLeave, DispatchReturn
    <2>4. ASSUME NEW h \in Uploads, Upload(h) PROVE LeftMerge'
      BY <2>4 DEF Upload, UploadEvent, UploadQuit, UploadTrigger, UploadOk, UploadFail,
         UploadReport, UploadDrain, UploadEnd
    <2>. QED
      BY <2>1, <2>2, <2>3, <2>4 DEF Next
  <1>3. TypeInv /\ HeldByWatch /\ [Next]_vars
          => [/\ \A g \in Uploads : LeftUpload(g) => LeftUpload(g)' \/ Crash
              /\ LeftMerge => LeftMerge' \/ Crash]_vars
    BY <1>1, <1>2 DEF TypeInv
  <1>4. Init => HeldByWatch
    BY DEF Init, HeldByWatch
  <1>5. TypeInv => TypeOK
    BY DEF TypeInv
  <1>. QED
    BY <1>3, <1>4, <1>5, HeldStep, TypeInit, TypeStep, ChanInit, ChanStep, PTL DEF Spec, LeftForGood
---------------------------------------------------------------------------
(* And there are no other waits.  Once dispatch has left its loop, every   *)
(* goroutine of a cancelled Watch is over, can go on, or is left behind.   *)

\* The guards of the steps of upload g, and of those of merge when cancelled.
UploadGoesOn(g) ==
    \/ upc[g] \in {"monitor", "upload"}
    \/ upc[g] = "report" /\ Len(tasks) < TaskSize
    \/ upc[g] = "drain" /\ (queued[g] = 1 \/ ~isOpen[g])
MergeGoesOn == held = NoEvent \/ Len(events) < EventsSize

NobodyElseWaits ==
    cancelled /\ watching /\ dispPc # "run" =>
        /\ \A g \in Uploads : upc[g] = "free" \/ UploadGoesOn(g) \/ LeftUpload(g)
        /\ mergePc = "off" \/ MergeGoesOn \/ LeftMerge
        /\ dispPc = "off" => upc = Idle

\* No channel holds more than it can, and dispatch returns after the uploads.
WithinBounds ==
    /\ Len(events) <= EventsSize /\ Len(tasks) <= TaskSize
    /\ dispPc = "off" => upc = Idle

\* Senders look for room; only dispatch begins an upload.
LEMMA BoundsStep == TypeOK /\ WithinBounds /\ [Next]_vars => WithinBounds'
  <1>. SUFFICES ASSUME TypeOK, WithinBounds, [Next]_vars PROVE WithinBounds'
    OBVIOUS
  <1>. USE DEF WithinBounds, histVars, mergeVars, upVars, chanVars
  <1>t. /\ events \in Seq(Event) /\ tasks \in Seq(Report)
        /\ EventsSize \in Nat /\ TaskSize \in Nat
    BY WatcherAssumption DEF TypeOK
  <1>0. /\ Len(<<>>) = 0
        /\ events # <<>> => Len(Tail(events)) <= EventsSize
        /\ tasks # <<>> => Len(Tail(tasks)) <= TaskSize
    BY <1>t
  <1>1. CASE \/ \E f \in Files : Change(f) \/ Vanish(f)
             \/ Tick \/ WatchStart \/ WatchCancel \/ Scan \/ UNCHANGED vars
    BY <1>1 DEF Change, Vanish, Tick, WatchStart, WatchCancel, Scan, vars
  <1>2. CASE WatchReturn \/ Crash
    BY <1>0, <1>t, <1>2 DEF WatchReturn, Crash
  <1>3. CASE MergeSend
    <2>1. Len(events) < EventsSize /\ events' = Append(events, held)
          /\ UNCHANGED <<tasks, dispPc, upc>>
      BY <1>3 DEF MergeSend
    <2>2. held \in Event
      BY <1>3 DEF MergeSend, TypeOK
    <2>3. Len(events') = Len(events) + 1 /\ Len(events) \in Nat
      BY <1>t, <2>1, <2>2
    <2>. QED
      BY <1>t, <2>1, <2>3
  <1>4. CASE Merge /\ ~MergeSend
    BY <1>4 DEF Merge, MergeNotified, MergeScanned, MergeStop
  <1>5. CASE Dispatch \/ DispatchRemap
    BY <1>0, <1>t, <1>5 DEF Dispatch, DispatchTask, DispatchRemove, DispatchKnown, DispatchNew,
       Changed, DispatchRemap, DispatchLeave, DispatchReturn
  <1>6. ASSUME NEW g \in Uploads, UploadReport(g) PROVE WithinBounds'
    <2>. DEFINE r == [file |-> upath[g], uploaded |-> uup[g]]
    <2>1. Len(tasks) < TaskSize /\ tasks' = Append(tasks, r) /\ UNCHANGED <<events, dispPc>>
          /\ dispPc # "off"
      BY <1>6 DEF UploadReport, Idle
    <2>2. r \in Report
      BY DEF TypeOK, Report
    <2>3. Len(tasks') = Len(tasks) + 1 /\ Len(tasks) \in Nat
      <3>. HIDE DEF r
      <3>. QED
        BY <1>t, <2>1, <2>2
    <2>. QED
      BY <1>t, <2>1, <2>3
  <1>7. ASSUME NEW g \in Uploads, Upload(g), ~UploadReport(g) PROVE WithinBounds'
    BY <1>7 DEF Upload, UploadEvent, UploadQuit, UploadTrigger, UploadOk, UploadFail, UploadDrain,
       UploadEnd, Idle, TypeOK
  <1>. QED
    BY <1>1, <1>2, <1>3, <1>4, <1>5, <1>6, <1>7 DEF Next

\* LeftBehind names every wait that keeps a cancelled Watch from returning, for any number
\* of files and uploads and any capacities.
THEOREM NothingElseIsLeft == Spec => []NobodyElseWaits
  <1>1. TypeOK /\ WithinBounds => NobodyElseWaits
    <2>. SUFFICES ASSUME TypeOK, WithinBounds, watching, dispPc # "run"
                  PROVE  /\ \A g \in Uploads : upc[g] = "free" \/ UploadGoesOn(g) \/ LeftUpload(g)
                         /\ MergeGoesOn \/ LeftMerge
      BY DEF NobodyElseWaits, WithinBounds
    <2>t. Len(events) \in Nat /\ Len(tasks) \in Nat /\ EventsSize \in Nat /\ TaskSize \in Nat
      BY WatcherAssumption DEF TypeOK
    <2>1. ASSUME NEW g \in Uploads PROVE upc[g] = "free" \/ UploadGoesOn(g) \/ LeftUpload(g)
      <3>1. upc[g] = "free" \/ dispPc = "wait"
        BY DEF WithinBounds, TypeOK, Idle
      <3>2. upc[g] \in {"free", "monitor", "upload", "report", "drain"}
            /\ (Len(tasks) < TaskSize \/ Len(tasks) = TaskSize)
        BY <2>t DEF TypeOK, WithinBounds
      <3>. QED
        BY <3>1, <3>2 DEF UploadGoesOn, LeftUpload
    <2>2. MergeGoesOn \/ LeftMerge
      BY <2>t DEF MergeGoesOn, LeftMerge, WithinBounds
    <2>. QED
      BY <2>1, <2>2
  <1>2. Init => WithinBounds
    BY WatcherAssumption DEF Init, WithinBounds
  <1>3. TypeInv => TypeOK
    BY DEF TypeInv
  <1>. QED
    BY <1>1, <1>2, <1>3, BoundsStep, TypeInit, TypeStep, PTL DEF Spec
===========================================================================
