# A verification of the ASI camera service

The repository is a Go service that runs beside a weather or sky camera (a ZWO
ASI camera). It compresses raw frames to JPEG and serves them to browsers, it
watches folders and uploads their files to a media server, and it raises and
clears alerts there. This directory holds TLA+ models of its concurrent core,
the TLC runs that check them on small instances, and TLAPS proofs about them for
instances of any size.

Line references are to files under `src/`; `pool.go` is
`internal/driver/jpeg/pool.go`, `info.go` is `internal/driver/camera/info.go`.

## 1. Inventory

### Frame pipeline (`internal/driver/jpeg/pool.go`, `source.go`)

*State.* A `Pool` of raw images that circulate through the channel `freeList`; a
`jpegPool` of compressed images (`slots`) that never circulate, a `status` and a
`number` per slot, a mutex and a condition variable; a `Farm` of workers fed by
the channel `tasks`; per session `currentFrame` and `pendingFrames`.

*Operations.* `Pool.stream` (take an image, ask the source for a frame, send it),
`Pipeline.session` (number the frames, push them to the farm, end),
`Farm.run` (hold a slot, wait until nobody reads it, compress, release, give the
image back), `Session.Next` / `JpegFrame.Done` (get and give back a frame),
`Session.Join`, `Pool.watchdog`, `Pool.Free`.

*Interaction.* Channels between stream, session and workers; the mutex and the
condition variable between workers and readers; one `WaitGroup` per slot between
the readers of a frame and the worker that wants to overwrite it; a context that
cancels the session.

*Hard.* A slot is chosen by `number % poolSize`, so a slow client, a slow worker
and the numbering meet in the same slot; the wait for readers has a timer; the
end of a session is announced without the lock; raw images come back over five
different paths; slots outlive sessions.

*Correct when:* no raw image is lost or shared, by the watchdog and `Free`
neither; a client is never sent an image that is being rewritten; `Next` misses
no release and never hands out an old frame in place of one of its own session; a
cancelled session
drains; a session that has been joined has left nothing behind, so that what it
used can be freed.

### Session manager and handlers (`jpeg/manager.go`, `jpeg/handler.go`, `mjpeg/handler.go`)

*State.* The current session, the number of users, the flag `cancelled`, a mutex
and its condition variable; the loop of each HTTP handler, and for a stream the
goroutine that asks for frames and the channel `frames` between the two.

*Operations.* `Acquire`, `Done`, `Join`; of the handler of a picture `Next`, send, `Done`;
of a stream `Next` and the channel in one goroutine, send and `Done` in the other.

*Interaction.* The first user starts the source and a session, the last one
cancels and joins it *with the mutex held* and then stops the source.

*Hard.* A stream asks for frame n + 1, and may hold it, while it is still sending frame
n; it must not leave before both goroutines are through.

*Correct when:* the source's `Next` is called only between `Start` and `Stop`;
the session is cancelled only when everybody has left it; `Done` and `Join`
return.

### Camera handle (`internal/driver/camera/info.go`, `metrics.go`)

*State.* `isOpen`, `lastOpen`, the count `waiting`, the channels `join` and `done`.

*Operations.* `Open`, `Done`, `ForceClose`, `Join`, the goroutine `autoClose`.
`Monitor` in `metrics.go` is a user that opens, reads and closes periodically.

*Hard.* Four parties may bring the count to zero; an idle close that fails is
retried later, maybe with users; `Join` closes the camera under its users.

*Correct when:* `done` is closed once and after everybody has left; the idle
closer spares users and does close an idle camera; `isOpen` is never true for a
camera the library has closed; `Join` returns; the list of controls that
`camera.c` allocates is walked within its bounds and freed once, although the
camera may be closed between any two calls that build it.

### File watcher (`internal/driver/watcher`)

*State.* A history of the files seen in a folder, one task and one channel of
capacity one per file, the history file on disk, upload goroutines.

*Operations.* `Watch`, `scan`, `merge`, `screen`, `dispatch`, `upload`,
`CreateTask`, `CompleteTask`, `RemoveTask`, `Load`, `Save`, `Cleanup`.

*Hard.* A file that is removed and created again while it is uploaded; a change
that finds the channel full; a crash between an upload and the save; shutdown,
where `dispatch` waits for goroutines that wait for `Cleanup`.

*Correct when:* every change is eventually uploaded, by one upload at a time per
file; a restart repeats uploads at most; shutdown ends.

### Backend client (`internal/driver/backend`)

*State.* The goroutine of `WatchAuth` with the last token, the channel of queries
to it, a reply channel per query; a channel of concurrency tokens; the body of
each request, of a file a pipe fed by a goroutine.

*Operations.* `WatchAuth`, `getAuth`, `Do` (ask once more after 401), `sendResource`
(POST, then PUT after a conflict, tries with a backoff), `Media`, `SendAlert`,
`ClearAlert`, `WatchFolder`.

*Hard.* Repeating a request whose body has been consumed; a token that several
calls renew at once; a client that leaves before its reply; losing the answer to
a request the server has obeyed; loops that continue after a cancellation.

*Correct when:* what `Media` reports as sent is stored, metadata and file; a
refused request is repeated only with a newer token; no concurrency token is
lost and every call returns; every loop ends when its context does.

### Service (`cmd/driver`)

*State.* The channel of folders, a watcher per folder with its context and its
backoff, the state of the USB monitor, a `WaitGroup` over every goroutine.

*Operations.* `watchMedia` starts the pollers and, for each new folder, a watcher
that it restarts with a backoff; `monitorUSB` sends and clears alerts; `Stop`
cancels.

*Hard.* Folders that change while a watcher fails, retries or is stuck; which
errors are permanent; the order of cancellations and waits at shutdown.

*Correct when:* the newest folder is watched, and only it; a failing watcher is
tried again; each loss of the camera is one alert; a stop ends every goroutine.

### Directory source, fake source, FIFO (`dirsource`, `fakesource`, `fifo`)

`dirsource` shows the newest file of a directory as a camera: a watcher, a
double buffer of compressed data, a decompressor. `fakesource` draws a number.
`fifo` is a queue over a ring. *Hard:* delayed reads that race each other and
`Stop`. *Correct when:* a half of the double buffer that a frame refers to is not
rewritten before the frame is copied.

### Not core

FFI bindings (`jpeg/jpeg.go`, `camera/api.go`, but for the list of controls),
configuration, logging, the debug client, and the vendored headers, libraries,
documents and samples. The program is Go. Its only C is `camera.c` and `camera.h`,
77 lines; the other C files, 4547 lines in `src/include`, declare two libraries
whose code is not here (half of them are macros and structures of libjpeg that
nothing calls). Models of this program are therefore models of its Go code, and
`camera.c` with the declarations it rests on is all of the C that is modelled.

## 2. Modules

| module | what it is |
|---|---|
| `JpegPipeline` | the frame pipeline, its sessions and the readers of its frames |
| `RawPool` | `EXTENDS JpegPipeline`: the watchdog of the raw images, and the shutdown of pipeline, farm and pool |
| `FrameGroup` | `EXTENDS JpegPipeline`: the `WaitGroup` of each slot and the goroutines in it |
| `SessionManager` | `EXTENDS JpegPipeline`: the manager and the handlers over the same pipeline |
| `CameraHandle` | the camera handle, its users, the idle closer, `Join` |
| `CameraMonitor` | `EXTENDS CameraHandle`: the Monitor as one of its users, down to the list of controls built in C |
| `FileSync` | what a watched folder promises, without events, timers, queues |
| `FileWatcher` | a watched folder: events, history, uploads, crashes, shutdown; implements `FileSync` |
| `Backend` | calls of `Server.Media` over one token and one server |
| `Service` | folder polling, a watcher per folder, the USB monitor, the stop of the service |
| `DirSource` | the directory source: delayed reads over a double buffer, frames that point into it |
| `MC...` | the instance of a module for TLC: which constants are interchangeable |
| `...Proofs` | its theorems and their proofs (section 5) |

How they compose: `SessionManager` restricts the pipeline's actions to what the
manager does, and the pipeline's own `Spec` is the abstract user it implements;
`CameraMonitor` adds a user to the handle in the same way. `DirSource` is a source
as `SessionManager` shows the pipeline to treat one: started, asked, and stopped
once no frame is on its way. `Service` has a watcher per folder, of which it
knows what `FileWatcher` shows: `Watch` returns when it fails or is cancelled,
unless an upload of its own keeps it. `Backend` gives `FileWatcher` its meaning of
"accepted": `SuccessIsStored` is what an upload that returns no error stands for.

### `JpegPipeline`

One action is what a goroutine does between two points where another one can see
or disturb it. The variables keep the names of the code; the ones that do not
occur there are program counters (`streamPc`, `sessPc`, `wpc`, `rpc`), the item
a goroutine holds (`streamBuf`, `sessTask`, `wtask`), and three observations:

* `gen`, the index of the session. The code does not count sessions;
* `content`, which frame of which session the compressed image of a slot holds,
  or `Torn` while it is being written or when it never was;
* `rarg`, the frame number a reader asked `Next` for.

| code | actions |
|---|---|
| `Pool.stream` | `StreamAcquire`, `StreamQuit`, `StreamDeliver`, `StreamFail` |
| `Pipeline.session` | `StartSession`, `SessionRecv`, `SessionPush`, `SessionStop`, `SessionNotify` |
| `Session.Join` | `JoinSession` |
| `Farm.run`, with `jpegPool.hold` and `release` and `JpegFrame.available` inlined | `WorkerTake`, `Hold` (`WorkerHold` or `WorkerBusy`), `WorkerAvail` or `WorkerStuck`, `WorkerCompress`, `WorkerRelease`, `WorkerReturn`, `WorkerDone` |
| `Session.Next` | `CallNext`, `NextNil`, `NextFrame`, `NextPark`, `NextWait` |
| the handler of a picture, and the goroutine of a stream that calls `Next` | `ReaderLeave`, `ReaderSkip`, `ReaderHands` |
| the loop of a stream that sends, or exhausts `frames` | `SendDone` |

Some choices a reader of the code may ask about:

* *The mutex of `jpegPool` is not a variable.* Every critical section is one
  action, except that of `Next` between looking at the slot and registering with
  the condition variable. A reader there is at `"parking"`, and `Locked` says so.
  That split is what distinguishes `release`, which takes the lock, from the end
  of a session, which does not.
* *The end of a session is two actions*, `SessionStop` (store 0) and
  `SessionNotify` (broadcast), because neither takes the lock.
* *A handler holds up to two frames*: one that `Next` has given it (`rpc` is `"reading"`,
  its number `rnum`) and, in a stream, one that the loop sends (`sending`). `frames` has no
  buffer, so handing a frame over is one action of both goroutines (`ReaderHands`), and it
  waits until the loop has done with the frame before. `Streams` are the handlers of
  `mjpeg/handler.go`, the other readers send one picture. That the client has gone
  (`keepAlive`) is looked at only beside a Ready frame, so `ReaderLeave` of a stream
  needs one, and is always possible then.
* *The `WaitGroup` of a slot is the set of its readers* (`ReadersOf`). What
  happens inside a `WaitGroup` is in `FrameGroup`. Behaviours are those before
  the panic after ten seconds of a stuck slot.
* *Losing to a timer is always possible* (`WorkerStuck`).
* *A slow client is a reader that stays at `"reading"` or `sending`.* No fairness is
  assumed for it, in any module.
* *`StreamFail` needs no `cancelled`*: a source may fail at any moment, and so it
  also stands for a source that ends.

### `RawPool`

| code | actions |
|---|---|
| `Pool.watchdog` | `WatchdogTake`, `WatchdogReturn`, `WatchdogGone` |
| `Pipeline.Join` and `jpegPool.Join` | `PipelineJoin` |
| `Farm.Stop` | `FarmStop` |
| `Pool.Free` | `FreeCall`, `FreeTake`, `FreeClose` |
| `stream`, finding `freeList` closed | `StreamClosed` |

The order of `Pipeline.Join` and `Farm.Stop` is that of the demonstration in
`cmd/driver/test.go`; `Free` may be called at any time, which is more than any
caller does. No session starts once `Join` has been called (`pool.go:439`).

### `FrameGroup`

`waiter` is where a goroutine is in `WaitGroup.Wait`: not begun, parked, woken but
not yet running, or gone; `mine` is the goroutine a worker listens to in
`available`. Goroutines are taken from a set and used again when they have ended.
The pipeline's actions that concern a group are strengthened (`GroupHold`,
`GroupAvail`, `GroupStuck`, `GroupDone`), the rest are taken as they are
(`Elsewhere`).

### `SessionManager`

Adds the manager's variables and, for each handler, where it is relative to
`Acquire` and `Done`. Its steps are the pipeline's actions, constrained by what
the manager and the handlers do, so it is the composition of the two. `Done` of
the last user is two actions, `DoneLast` (cancel) and `DoneJoined` (the session
has been joined: stop the source, forget the session, broadcast), with the mutex
held between them; `MutexFree` says whether it is.

`JpegPipeline!Spec` doubles as the abstract specification here: its session
actions describe *any* user that runs one session at a time, reads only in a
session, and cancels only when no handler is in `Next` or holds a frame (`Out`).
`UsesPipelineAsMeant` says that the manager with its handlers implements it. It is not
so by construction: `DoneLast` looks at the number of users, not at the readers, and
what makes the two agree is that a handler ends its loop only when its goroutine has
closed `frames` and everything that came through it is done with (`LoopOver`). The refinement mapping is the identity
on the pipeline's variables: the manager's variables are hidden.

### `CameraHandle`

Every method runs under one mutex, so each is one action. `hwOpen` is the state
of the camera in the ASI library, which each call may refuse to change;
`doneClosed` counts how often `done` has been closed, since closing it twice
panics. Time is the Boolean `recent`: whether the idle time has not yet passed.

### `CameraMonitor`

The loop of `Monitor` is `MonitorOpens`, `MonitorReads`, `MonitorDone`, `MonitorEnds`.
`ASIGetControlCaps` is unfolded into the calls of the library that
`wrap_ASIGetControlCaps` makes (`CapsCount`, `CapsMalloc`, `CapsFill`, `CapsReturn`) and
the loop of `asiGetControlCaps` over the list (`CapsWalk`, `CapsFree`), since none of
them holds the mutex of the handle. `next` and `filled` are the memory, `blocks`
counts what is allocated. The library answers as `ASICamera2.h` says: a camera
that is not open refuses, and one that is open may refuse too. `CapsErrno` is a
property of cgo: when the C function leaves `errno` set, the caller is given an
error beside the list, and `asiGetControlCaps` then returns without freeing it
(`api.go:514`). `ListsFreedButErrno` counts that leak and shows there is no other.

### `FileWatcher`

| code | actions |
|---|---|
| the files, `fsnotify` | `Change`, `Vanish`, `Tick` (external) |
| `FileWatch.Watch`, with `Load` and `Cleanup` | `WatchStart`, `WatchCancel`, `WatchReturn`; `Crash` |
| `scan` and its timer | `Scan` |
| `merge`, `screen` | `MergeNotified`, `MergeScanned`, `MergeSend`, `MergeStop` |
| `dispatch` | `DispatchTask` (`CompleteTask`, `Save`), `DispatchRemove` (`RemoveTask`), `DispatchKnown` and `DispatchNew` (`CreateTask`), `DispatchRemap` (`Remap`), `DispatchLeave`, `DispatchReturn` |
| `fileTask.upload`, `triggered` | `UploadEvent`, `UploadQuit`, `UploadTrigger`, `UploadOk`, `UploadFail`, `UploadReport`, `UploadDrain`, `UploadEnd` |

`FileHistory.history` is two functions of the path, `uploaded` and `chan`; it
belongs to `dispatch`, so each of its operations is one action. `dispatch` starts
one goroutine with every channel it makes, so an element of `Uploads` is both: the
goroutine (`upc`, and `upath`, `uup`, which are its copy of the task) and the
channel (`isOpen`, `queued`, which holds one event at most).

* *What survives a crash* is `exists` and `mtime` (the disk), `saved` (the history
  file), and `sentTime`, an observation: the latest version of a file the server
  has accepted. `sentTime` carries the time the uploader read before it uploaded,
  as the server may get a later version than that but not an earlier one.
* *Time* is in seconds because the code rounds times of modification to seconds
  and records the version it uploaded as a second later (`fileTask.go:185`).
* *Timers fire when they like*, those of `upload`, `scan` and `Remap` too. So a
  property holds for every value of `monitorFor` and for a file that is still
  being written when it is uploaded.
* *Events of different files may overtake each other* on their way to `merge`;
  events of one file may not.
* *A scan* reads the folder at once and waits until `merge` has taken all it found.
* *`Save` may fail*, and then leaves the file as it was, since it writes another one and
  renames it. *Or it may save in part* (`Written`): it does not look at the errors of
  `write`, `Flush` and `Close`, so when the disk is full the file it renames misses
  entries. The last line of such a file may also be cut in its path. `Load` drops it
  unless the rest names something that exists; the model assumes that this is no other
  watched file, that is, that no watched file's path is a prefix of another's.
* *The library may miss a change* (`Notified`): those made before `Watch` has called
  `watcher.Add`, which comes after its goroutines have started, and those of a folder for
  which that call fails. What makes up for them is the scan.

### `FileSync`

The abstract watcher has five variables: the files, what the server has, what the
service remembers and what it would remember after a restart, and whether it
runs. Its steps are what a user may be told about the program: the server gets
versions no older than it had and no newer than the file (`Accept`), the service
takes note of no version later than the server's, each as one second more, and writes down
all or some of what it remembers (`Record`), removes nothing it has
not uploaded (`Expire`), forgets by itself only files that are gone (`Forget`,
`Stop`), and comes back with what it had written down (`Start`). `FS` in
`FileWatcher` is the refinement mapping: `disk` is `exists` and `mtime`, `server` is
`sentTime`, `memory` and `journal` are the history and its file.

### `Backend`

| code | actions |
|---|---|
| `WatchAuth`, `httpAuth` | `AuthTake`, `LoginOk`, `LoginCancelled`, `AuthReply`, `AuthEnd` |
| `Media` | `MediaToken`, `MediaStat`; `Succeeds` and `Returns` inside the others |
| `getAuth` | `AskAuth`, `AskCancelled`, `GetReply` |
| `Do`, `sendResource` | `SendOk`, `SendRefused`, `SendConflict`, `SendFails`; `TryFails`, `PutInstead` inside them |
| the server, the callers | `Expire`, `CancelMedia`, `CancelService` |

`concurrency` is the configured number of tokens, any number up to `MaxConcurrency`.
A request is a record: which part it sends, by which method, which try it is, its
token, and whether its body is `"whole"` or has been `"read"` by an attempt that was
refused. The server stores a part only from a whole body. A body of the metadata
that is sent again is empty and is rejected. A body of a file that is sent again
is a pipe that is at its end, or that `httpFileRequest.Close` has set to nil when the
transport was done with it: the request fails, or `Read` panics (`crashed`),
depending on when the transport closes it. The server
may obey a request and lose the answer (`SendFails`), so a part may be stored
twice.

### `Service`

| code | actions |
|---|---|
| `WatchFolder`, `httpFolder` | `PollAsks`, `PollOk`, `PollFails`, `PollSends`, `PollTimer`, `PollEnds` |
| the loop of `watchMedia` | `FolderUpdate` |
| the goroutine per folder, `Watch`, `backoff.Retry` | `WatchFails`, `WatchCancelled`, `WatchStuck`, `AuxEnds`, `WatchJoined`, `Retry` |
| `monitorUSB` | `UsbTick` (`UsbLost`, `UsbFound`, `UsbThere`), `UsbEnds` |
| the 24 hours | `RecordingEnds`, `RecordingAlert` |
| the goroutines of the proxy | `CallEnds` |
| `Stop`, the server | `Stop`, `FolderChanges` |

What the code does and the model therefore shows, and a reader may not expect:

* `folderChan` is closed by a deferred call of the function that ranges over it, so
  `watchMedia`, and `Run`, never return; the process ends because the service
  manager ends it. `ServiceWindsDown` says that everything else ends.
* Once its context is cancelled during a poll, `WatchFolder` polls for ever
  (`folder.go:102`): it spins.
* `stop` is closed by the function that waits for its only listener: the alert
  `watch_folder` is never sent, a `Watch` that fails at once takes thirty seconds
  to be tried again, and the backoff is always reset.
* An error of the library that comes joined with the `context.Canceled` of
  `dispatch` counts as a cancellation (`auth.go:66`), so that watcher is not started
  again (finding 4). Which error is joined with which depends on a race between the
  goroutine of the errors and `dispatch`. `NewestTried` names this way out.
* The 24 hours are waited for once: after the first upload nobody waits any
  more, although `media.go:126` says "expect up to 24 more hours".
* The watcher of the previous folder is cancelled and not waited for. A folder
  that changes to another and back has two watchers over one history file for a
  while.
* An empty folder is a folder like any other to `watchMedia`; `filepath.Abs` makes
  it the working directory. `lastFolder` starts empty, so it takes a change from
  another folder to get there.

### `DirSource`

| code | actions |
|---|---|
| `Watcher.watch` | `FileEvent`, `SendUpdate`, `WatcherEnds` |
| the listener and its goroutines | `Listens`, `ListenerEnds` |
| `readImage`, `ReadFile` | `Chooses`, `Writes`, `Written`, `ReadFails`, `Swaps` |
| `Start`, `Next`, `Stop` | `Start`, `Started`; `SrcNext`; `Stop`, `Drains`, `Stopped` |
| `frame.Compress`, `Image.Copy` | `CopyBegins`, `CopyEnds`, `Dropped` |

`readImage` reads `currentImage` without the mutex, writes the other half in place
without it, and takes it to swap. `lapped` remembers that two calls have
overlapped, or one and `Stop`, which frees the halves and the decompressor under
it (a call that uses the freed decompressor may also crash, which ends the
behaviour). `frame.reads` counts the calls that have chosen a half since the frame
was taken. Reads begin five seconds after their event, so events five seconds
apart that each take longer to read, or a slow pipeline and two pictures, are
enough to leave what `FrameIntact` promises.

## 3. Runs

| run | instance | what it shows |
|---|---|---|
| `pipeline_lapped` | 2 images, 2 workers, 5 slots, 6 frames, watchdog, `Free` at any time | no raw image is lost, shared or used after it is freed; the shutdown finds the slots quiet; a busy slot has a worker |
| `session_manager` | a stream and a picture, sessions of 4 and of 1 frame, 1 image, 1 worker, 3 slots, fair | frames stay intact while they are sent, `Next` misses no release, the refinement, the session drains and its images return, the source is asked only while started, `Done` and `Join` return |
| `camera_handle` | 2 users and the Monitor, 2 controls, 1 leak, fair | the count, the idle closer, `Join`; the list of controls; the Monitor ends |
| `watcher_uploads` | 1 file, 2 uploads, a crash | channels are open while they are in the history and forgotten when closed; the history is true; the watcher implements `FileSync`, also after a crash |
| `watcher_history` | 1 file, 1 upload, two times, fair | the watcher implements `FileSync`; the last version of a file is uploaded; what alone can keep `Watch` from returning |
| `backend` | 2 calls, 1 or 2 concurrency tokens, 2 tries, 2 logins, 1 query waiting, fair | what is reported as sent is stored; a refused request gets a newer token; calls return |
| `service` | 3 folders, one of them empty, 1 change, 1 update waiting, 1 outage of the camera, fair | the newest folder is watched; a stop winds down |
| `dir_source` | 2 pictures, 3 reads, 1 frame, 2 sessions | a frame is copied whole, unless reads overlap or two overtake it |
| `pipeline_end_unnoticed` | 1 reader, fair | *violation*: a reader sleeps through the end of its session |
| `group_reuse` | 1 image, 1 worker, 3 slots, 4 frames, 1 reader, 3 goroutines | *violation*: a goroutine that `available` left behind finds the group in use again |
| `watcher_shutdown` | 1 file, 1 upload, fair | *violation*: `Watch` does not return when it is cancelled |
| `watch_not_retried` | 2 folders, one of them empty, fair | *violation*: `Watch` is not called again after an error of the library |

### Properties of the passing runs

* `RawImageHasOneHolder`: exactly one of the free list, the stream, its channel, the
  session, the task channel, the workers, the watchdog and the freed images holds
  each raw image. Five paths give an image back; one lost image makes the watchdog
  panic (`pool.go:162`) and `Free` wait for ever, one too many makes a send meet a
  closed channel.
* `FreedSlotsAreQuiet`: after `Pipeline.Join` nobody reads or writes the compressed
  images it has freed, although it waits for readers only: it relies on
  `Session.Join` to have waited for frames in channels and workers.
* `BusySlotHasWorker`: `pool.go:285` says that a slot which `hold` finds busy "should
  not happen", `pool.go:245` and `425` that the pool is large enough to prevent it. It
  is not (frames are recycled while one worker is slow), and the frame is
  dropped; what this property says is that the mark is never left behind, so
  that slots are not dropped for ever.
* `ReadyFrameIntact`: the image a handler is sending is whole and is the frame it
  was given, however long the handler takes, and so is the one its goroutine holds to
  be sent next; workers may have *held* the slot for a later frame, but must not have
  written to it.
* `FinishedFrameWakes`: the step that finishes the frame a reader waits for also
  wakes the reader, and never falls between its look and its registration.
* `CancelledIsJoined`, `FarmReturnsImage`: a cancelled session drains and an image
  comes back although clients may never finish with their frames.
* `NextOnlyWhileStarted`: the promise of `manager.go:21`, kept although the
  goroutine that calls the source is not the one that stops it.
* `UsesPipelineAsMeant`, `DoneReturns`, `JoinReturns`: see section 2.
* `DoneClosedOnceAtEnd`, `OpenIsReal`, `IdleCloserSparesUsers`,
  `IdleCameraIsClosed`: the camera's list above. `JoinReturnsUnlessReopened`: `Open` is
  refused only when nobody is counted (`info.go:60`), so while a user is left
  another may reopen a camera `Join` has closed, and `Join` then waits for ever;
  the property says that nothing else keeps it.
* `WalkStaysInList`, `ListsFreedButErrno`: the boundary between C and Go, when
  the camera is closed between any two calls. `MonitorReturns`: in whichever part of
  its round a cancellation or the end of the camera finds it.
* `HistoryChannelsOpen`, `OpenChannelsKnown`: together they say that the channel of
  a path in the history is that of a live upload of this path, and that every open
  channel is there. A send or a second `close` would panic; a channel nobody can
  find any more would leave its goroutine waiting.
* `HistoryWasSent`: the history never claims a version the server has not got, in
  memory or on disk, whatever fails; such a version would never be uploaded.
* `ImplementsFileSync`: beyond that, the history changes only as `FileSync` allows:
  nothing is forgotten while the watcher runs but with its file, nothing is removed
  that was not uploaded, and a restart finds what was saved, or what was written of it.
  The run with a crash is `watcher_uploads`, the one with several times `watcher_history`.
* `LastChangeIsSent`: a change may not be reported, find the channel full, be taken by an upload that
  has already read the file, be drained by one that is ending, be lost to a
  restart, be cancelled by the report of an older upload of the same path
  (`CompleteTask` closes the channel the history has now, `fileHistory.go:260`) or be
  taken for part of a version already sent; periodic scans and the comparison with
  the history make up for all of these, to the resolution of the history
  (`fileTask.go:169`): a change less than two seconds after the uploaded version
  counts as uploaded. The property is about watchers that are not cancelled for
  good, and that come to rest again and again (`Settled`).
* `WatchReturnsUnlessLeft`: `LeftBehind` names the waits that keep a cancelled
  `Watch` from returning (finding 3); there is no other. Each needs that `dispatch` has left
  its loop, and for a send that the channel is full, so none of them is a delay
  (`LeftBehindForGood`).
* `SuccessIsStored`: the metadata may be repeated, conflict, become a PUT, be refused
  and be repeated with an empty body, its answer may be lost; and so the file. The
  watcher records the upload when no error comes back, and never repeats it.
* `RenewedIsNewer`: several calls find their token refused, ask `WatchAuth` for a
  fresh one, and each gets one that was issued after its own was refused, whatever
  the order of their queries and of the replies to clients that have left.
* `MediaReturns`: also when it has to wait for the concurrency token of another call, for
  which it does not look at its context (`media.go:79`), and however its requests end. Only
  a login that is tried for ever keeps it, as it keeps everybody; and a behaviour in which
  the process panics is excepted. That happens: `auth.go:239` sends an upload again that was
  refused, and the transport may then read a file body that has been closed
  (section 2, `Backend`).
* `ServiceWindsDown`: a stop in any state of polls, watchers, retries and alerts ends every
  goroutine but three that it names (section 2, `Service`): the polling loop that spins, the
  range over `folderChan`, and a watcher whose `Watch` does not return. That these do not
  end is not refuted by it.
* `NewestFolderIsWatched`: the watcher of the newest folder is alone at last and calls
  `Watch` again and again, unless it does not return or its error passes for a
  cancellation. Those two ways out are findings 3 and 4.
* `FrameIntact`: with two halves, one call of `readImage` cannot disturb a frame that
  waits in the pipeline and two can; the property says that one cannot, across
  failing reads, sessions and frames that are dropped.

### Bounds

`MaxFrame` bounds the frames of a session, `MaxLater` those of a session after the first,
`MaxSession` the sessions; they are guards of `StreamDeliver` and `StartSession`. Beyond
the bound a source can only fail, which the code allows anyway.

* `pipeline_lapped`: frames 1 and 6 share a slot of five. With two workers, one
  can keep frame 1 while the other does 2 to 5 and then meets frame 6: the drop
  path `WorkerBusy` fires. Fewer frames or a single worker do not reach it.
  The jpegPool has the smallest size the code's comment allows.
* `session_manager`: frame 4 reuses the slot of frame 1, so a handler can be slow
  over a whole lap, ask for a frame that has gone by, or share a slot with the
  other. A stream can hold two frames, of slots that are reused in turn. Two handlers make
  one wake-up insufficient, and the last user different from the others; the one that
  sends a picture may come back. The second session, of one frame, finds the slots the
  first has left, and its numbers in them; the source is stopped and started again. More
  frames in it take longer than a run should; what the run shows of safety is proved for
  any number of both.
* `camera_handle`: the count, with `autoClose`, ranges over 0 to 4. A list of two
  controls has a first and a last entry that differ, and can be left half-built.
  `MaxLeaks` bounds the lists that an `errno` leaks: Monitor asks again until it has
  one.
* `watcher_uploads`: two uploads of one path are what makes channels of the past
  and of the present meet: one ends while the other begins. Files share nothing
  but the queues, so one is enough; queues of capacity one are full often.
  `MaxPending` bounds the notifications of a file that wait.
* `watcher_history`: the times 1 and 4 are further apart than the resolution of the
  history and than `Expiration`, so versions differ and files expire. With one
  upload `dispatch` may have to wait for its end before it starts another, which
  the code would do beside it; `watcher_uploads` has that case. The last time
  recurs for ever, so files may change, vanish and come back without end.

* `group_reuse`: a frame that is stuck, a reader of it, and a second call of `Next` by
  the same reader while the goroutine is not yet running.
* `backend`: two calls make tokens stale for each other; with two tries one can fail
  and be repeated, and the last can fail; two logins give one token that expires and
  one that replaces it. A queue of one query is full often (the code has sixteen).
  With one concurrency token the second call waits for the first, with two they
  meet at `WatchAuth`; the run has both.
* `watch_not_retried`: the folder the server has first is enough.
* `service`: one change after the first answer makes two watchers, one cancelled by
  the other; the three folders include the empty one, first or second. `MaxChanges`
  bounds what the server does, not the polls, failures and retries. One outage makes
  a loss, a discovery and a second loss.
* `dir_source`: three reads are what a frame can be overtaken by with one left; two
  of them can overlap, and one can be left from the session before.

`CHECK_DEADLOCK FALSE` everywhere: the system may stop. A source may be silent for
ever, handlers need not come, bounds are used up, and a joined camera has
nothing more to do. What must not stop is stated as a liveness property.

### Fairness

* Each goroutine that can run does: the Go scheduler does not starve goroutines,
  nor does `sync.Mutex`, which after a millisecond hands the lock to the waiter
  that has waited longest. So workers, the session, the stream (where it does not
  depend on its source) and readers inside `Next` are weakly fair. A mutex that
  is taken again and again by others is why `Done` is *strongly* fair in
  `SessionManager`.
* A source returns once its context is cancelled: `WF(cancelled /\ StreamFail)`.
  Nothing else is assumed of sources, not that they ever deliver.
* A reader need never finish with a frame, in `JpegPipeline` and in `SessionManager`: only
  its steps inside `Next` are fair, and what it does once it has called `Done`. So a
  client that takes nothing for ever keeps its handler, and nobody else. (The code gives
  streams a write deadline; no property needs it.)
* In `CameraHandle` the timer fires for ever, and users that opened call `Done`.
  Nobody needs to open the camera or call `Join`.

* In `FileWatcher` goroutines run; the timers of `scan` and `upload` fire again and
  again. The inactivity timer fires although a scan restarts it: it takes minutes,
  a scan comes every two hours. `select` chooses at random among the channels that
  are ready, so none is ignored for ever, `DispatchTask` nor the events. The server
  accepts a file that is sent to it often enough: `UploadOk` is *strongly* fair,
  per file. Nothing obliges files to change, anybody to call or cancel `Watch`, or
  `Remap` to remove anything.

* In `CameraMonitor` Monitor runs, its interval passes and a call of the library
  returns. `MonitorEnds` is *strongly* fair: it competes in a `select` with a timer
  that fires once a round, and `select` chooses at random.
* In `Backend` goroutines run and requests end, since the HTTP client has a timeout.
  Nothing is assumed of the server, not that it ever lets anybody log in, nor of
  the callers. A behaviour in which the process has panicked is over.
* In `Service` the same, and timers fire. `Watch` need not fail, and if it is
  cancelled it returns or stays for ever. `FolderUpdate` is fair, watchers do not hold
  it up. The server need not answer: `NewestFolderIsWatched` is about servers that do
  again and again (`ppc = "wait"` infinitely often).

`group_reuse` checks a safety property, so it needs no fairness; the three liveness
counterexamples are found under the fair specifications.

## 4. Findings

1. **`pipeline_end_unnoticed`** (`pool.go:468`). The end of a session is stored
   and broadcast without the lock. A reader between its load of `currentFrame`
   and its registration with the condition variable misses both; its handler,
   its user count and thus the manager's `Join` wait for ever. It takes a source
   that fails while clients are connected.
2. **`group_reuse`** (`pool.go:227`). When readers do not leave a slot in time, the
   worker gives up and leaves a goroutine in `group.Wait`. "The goroutine will leak if
   there are readers stuck", but the watchdog will panic if the frame is stuck for
   too long, "so this is ok". A leaked goroutine is woken when the reader leaves;
   `Next` hands out frames that are `Stuck`, so the next reader may join the group before
   that goroutine has run, and `sync.WaitGroup` panics: "WaitGroup is reused before
   previous Wait has returned". The frame was stuck for two seconds, not ten.
3. **`watcher_shutdown`** (`fileWatch.go:260`). A cancelled `dispatch` waits for its
   upload goroutines before `Watch` returns. An upload that has reported waits for
   its channel to be closed; the loop that would have completed it has been left,
   and `Cleanup`, which "closes all event channels" (`fileHistory.go:232`), is
   deferred to the return of `Watch`. One upload goroutine that is alive at the
   cancellation is enough. A folder whose library reports an error is watched no
   more; a change of folder leaves the old goroutines; a stop of the service hangs.
4. **`watch_not_retried`** (`auth.go:66`). "Keep trying to watch until the folder name
   changes", says `media.go:150`. When the notification library reports an error, `Watch`
   cancels its own context and returns that error joined with the `context.Canceled` of
   `dispatch`; `PermanentIfCancel` finds the latter, takes it for a cancellation and makes the
   error permanent. Nobody has cancelled the watcher, and it is not tried again.

Two comments the code does not keep to are shown in other ways, and no property is
worded around them:

* `Next` "for this session" (`pool.go:497`): a client may be handed a frame of an earlier
  session. Slots outlive sessions and numbers start again at 1; a frame that is still
  `Ready` under the number asked for is handed out. `OldFramesAreAhead` proves how far that
  goes (section 5).
* "Clear an alert if it exists" (`alert.go:98`): nothing is ever cleared (section 7). The
  calls are made in goroutines of their own (`media.go:45`), so they would not be in order
  either. A unit test shows the first.

## 5. Proofs

All for every value of the constants that the assumptions allow.

*Assumptions.* `PipelineAssumption`: finite, non-empty images and workers,
positive capacities and bounds (`MaxLater` may be zero), and the inequality of `pool.go:425`.
`HandlerAssumption` and `UsersAssumption`: finitely many handlers and users.
`MonitorAssumption`: the Monitor is one of the users. `WatcherAssumption`: positive
capacities and times, finitely many uploads. `BackendAssumption`: positive
capacities and numbers of tries. `DirAssumption`: finitely many calls of `readImage`,
and "no picture" is not a picture. `ServiceAssumption`: positive capacity of the
channel of folders, at least one outage. One theorem has a hypothesis of its own,
`NoWaiter \notin Waiters`: no goroutine is the value that stands for none. It is stated there
because TLC evaluates assumptions only of modules that a passing run extends, and the
only run of `FrameGroup` is the one that finds the panic.

*`JpegPipelineProofs`.*

* `TypeCorrect`. `TypeOK` is not inductive alone: that a worker at `"hold"` has a
  frame, and the session at `"push"` too, is needed where they use its number.
  `TypeInv` adds that (`Carried`).
* `ReadyFramesStayIntact`. The argument is about who owns a slot. A worker from
  `hold` to `release` owns the slot of its frame, and the slot is marked
  `Compressing` (`OwnerMarked`), so no two workers own the same slot
  (`OwnersApart`). A worker that is writing has no readers (`WriterAlone`):
  `available` saw none, and none can come since `Next` passes over a slot that is
  `Compressing`. A slot marked `Ready` and a worker about to mark it so have a
  whole image of the right number (`ReadyIsWhole`, `ResultIsWhole`). `SlotInv` is
  their conjunction with `ReadyFrameIntact`. The inequality on the sizes is not
  used: it is `status`, not the size of the pool, that protects the image.
* `NextMissesNoRelease`. Only `hold` and `release` change a slot's status, both
  need the lock, so a reader at `"parking"` sees no change, and one at
  `"waiting"` is woken by the same step.
* `OldFramesAreAhead`. `Next` "returns a frame that is at or after the given frameNumber for
  this session" (`pool.go:497`). It does not: it compares numbers only, and sessions
  number from 1 over the same slots, so the first clients of a session may be sent a frame of
  the session before. The theorem says how far that goes: only under a number this session
  has not come to, never in place of a frame it has compressed or is compressing. It is in no
  run, since the comment promises more. A frame this session has not come to is on its way: still
  to be numbered, in the channel, with the session, in `tasks`, or with a worker that has
  not held its slot (`NotReached`). Each step that takes it from one place puts
  it in the next (`AheadStep`), so an old frame that a slot shows stays ahead
  until a worker holds the slot for it, and then it is no longer shown
  (`OldAhead`). What a worker marks `Ready` is of this session (`ResultIsNew`), as a
  session begins only when no worker has a frame, which is `QuietInv`:
  `pendingFrames` counts the goroutine of the session, the frame it is pushing, those
  in `tasks` and those with workers (`PendingCounted`), the stream is over before the
  session is (`Drained`), and readers are gone before it is cancelled (`Deserted`).
* `CancelledSessionNeverStuck`, `CancelledSessionEnds`: what `CancelledIsJoined` rests on,
  apart from fairness. `SomebodyMoves` lists the guards of the goroutines of a cancelled
  session: it holds until Join has returned, since workers are stuck only if all are idle
  with nothing in `tasks`, and then `pendingFrames` counts nothing but the goroutine of the
  session. And every step of theirs lessens the natural number `WorkLeft`, in which a frame
  weighs the less the further it has come: 11 with the source, 9 in `frames`, 8 with the
  session, 7 in `tasks`, 6 to 1 with a worker. So whatever the order of their steps Join
  returns after at most `WorkLeft` of them; fairness adds that they are taken.
  `SomebodyMoves` spells the guards out because the prover does not expand `ENABLED`.

*`SessionManagerProofs`.*

* `ManagerImplementsUser` (`MSpec => Spec`). Most steps of the manager are steps
  of the pipeline by definition. The two that are not are `DoneLast`, which must
  find every reader idle and a live session, and a handler's first call of
  `Next`, which must find a session that is not cancelled. Neither looks at the readers or at
  the flag. `MInv` gives both: `users`
  counts the handlers between `Acquire` and `Done` (`UsersCounted`), readers are
  busy only inside that interval, a session exists while there is a user, and it
  is cancelled only while some handler is joining.
* `HandlersSendIntactFrames` carries the three safety properties of the pipeline over to
  the composition, `JoinedSessionsDrain` what is proved of a cancelled session, which is
  what `Done` waits for with the manager's mutex held.
* `NextComesWhileStarted`. The source is started as long as there is a session
  (`StartedWithSession`), and `QuietInv`, which the refinement carries over, has the
  goroutine of the stream ended when there is none.
* `ManagerTypeCorrect`.

*`CameraProofs`.*

* `DoneIsClosedOnce`, `OpenHandlesAreReal`, `IdleCloserLeavesUsers`, `TypeCorrect` follow from
  `CInv`: `waiting` is the number of users, plus one for `autoClose` while it lives
  (`Counted`), and `done` is closed only when that is zero and remains zero, since `Open`
  refuses then (`ClosedAtZero`).
* `LastOneOutCloses`: what `JoinReturnsUnlessReopened` rests on, apart from fairness, and why
  it has an exception, for any number of users. Whoever brings `waiting` to zero
  closes `done`, unless the camera is open (`LastOutCloses`); so when nobody is left either
  Join is woken, or the camera has been opened again after it. And then nothing changes any
  more (`LeftOpenForGood`): `Open` refuses, no user can close the camera, and `autoClose`, which
  could have, has left before (`CloserStays`: not until Join was called). The camera stays open
  and Join waits for ever.
* `MonitoredHandleIsSafe` carries these theorems over to the handle with its Monitor, whose
  steps are by definition `Open` or `Done` of a user or leave the handle alone.
* `WalksStayInLists`, `ListsAreFreed`, for lists of any length. While C fills the
  list, its first entries are linked to the next (`LinkedUpTo`); while Go walks it,
  it is complete and the pointer is that of the entry whose index comes next, which
  is what bounds the walk (`ListInv`). The number of blocks is a conjunct of it, for
  the paths that free the list and the one that cannot.

*`FileWatcherProofs`.*

* `TypeCorrect`, for any number of files and uploads.
* `ChannelsAreKnown`. Neither half is inductive without the other: a path gets a
  new channel only if it has none, and the goroutine chosen for it must not be one
  whose channel is still open, which `OpenChannelsKnown` with `HistoryChannelsOpen`
  gives. `ChanInv` adds that there is no history while nothing is watched
  (`NothingWatched`), so a new `Watch` loses no channel when it loads its own.
* `HistoryIsTrue`. What `HistoryWasSent` says of the history must hold of every
  place it comes from: the copies in the uploads and the reports in `tasks`.
  `SentInv` says so of all of them; `sentTime` never decreases, so a step that only
  moves a value keeps it.
* `WatcherImplementsFileSync`. Step by step, what the detailed watcher does to the
  four places `FileSync` knows of is one of its actions or nothing. Two facts about
  the detailed state are needed: `SentInv`, for what `Record` may note, and `DiskInv`, that
  the file an upload is about to send, if it is still there, is at least as new as
  when the upload looked at it: the clock and the files only move forward, so a
  version that was noted is never one the file has yet to reach.
* `RemapKeepsUnsent`. `Remap` removes no file of which the server never had a version:
  it goes by the history, which is loaded from a file, and `SentInv` holds of both. It is
  not proved, and not true, that the server had the *last* version: `Remap` does not look
  whether the file has changed since.
* `LeftBehindForGood`. What `LeftBehind` excuses in `WatchReturnsUnlessLeft` is not a delay:
  an upload that waits for a channel to be closed, or for room in `tasks`, when `dispatch`
  has left its loop stays there until the process ends, and so does `merge` with an event
  nobody takes. It rests on who else could help: only `dispatch` reads `tasks` and
  `events`, and the channels are closed by it or by `Cleanup`, which comes after it
  (`HeldByWatch`). That is finding 3 for any number of files, uploads and capacities.
* `NothingElseIsLeft`. And `LeftBehind` names every wait. Once `dispatch` has left its loop,
  each upload of a cancelled `Watch` is over, can go on, or is left behind, and so is `merge`
  (`NobodyElseWaits`); before, `dispatch` can leave. It needs the bounds of the channels, and that
  `dispatch` returns after the uploads (`WithinBounds`). Together with `LeftBehindForGood`:
  a cancelled `Watch` has somebody who can go on, or somebody who never will. How long the ones
  that can go on take is not proved: `merge` may take events before it looks at the
  context, which only fairness ends.

*`BackendProofs`.*

* `TypeCorrect`; its counter is that a concurrency token is with the server or with
  a call that has not returned (`TokensCounted`).
* `ReportedIsStored`. A call reports success only from the request for the file,
  and it gets there only when the metadata has been accepted. `StoredInv` says so of
  every place a call can be in; the retries keep the part they send. `ReplyInv` types what
  comes from `WatchAuth`, so that a token does not change the rest of the request.
* `RenewedTokensAreNewer`. Each call has one query under way: in the channel, with
  `WatchAuth`, or answered (`OneQuery`); a call that has left puts no other one there. So the
  reply a call takes is the one to the query it made last. A query for a fresh token is
  answered after a login, and the tokens calls know were issued before it
  (`TokensIssued`), so the answer is newer than the one that was refused, or there is
  none (`RepliesNewer`).
* `MediaNeverStuck`, `MediaEnds`: what `MediaReturns` rests on, apart from fairness.
  While a call has not returned, the guard of a step of some call or of `WatchAuth` holds, unless
  `WatchAuth` is logging in: a call that waits for a reply has its query in the channel or
  with `WatchAuth` (`WaitInv`, the other half of `OneQuery`), a full channel is one `WatchAuth`
  can take from, it leaves only when the context of the service is cancelled, which every waiting
  call looks at, and an exhausted `queue` means that somebody has a token (`TokensCounted`). And
  every step of a call lessens its `CallLeft`, at most `24 * MaxTries + 2`: 12 steps a try
  (POST and PUT, each with the cached token and a fresh one, each asking, waiting and sending),
  for the metadata and for the file. No answer of the server, no cancellation and no other call
  adds to it. Between two steps of calls `WatchAuth` has a bounded number of its own
  (`AttendLeft`). So retries, renewals and the change to PUT cannot chase each other for ever,
  for any number of calls and tries.

*`DirSourceProofs`.* `FramesAreWhole`, for any number of pictures, reads, frames and
sessions. While no two calls of `readImage` have overlapped, the one that runs has
chosen the half that is not shown (`OneRead`), and the half that is shown is whole
(`ShownIsWhole`). A frame that no call has been begun since it was taken has its
picture in the half that is shown; after one call it may be in the other, but then
nobody writes (`HalfOf`); so what it points at is what it was taken with (`FrameKept`).
A source that is stopped has no such frame (`StoppedIsQuiet`), which is what makes
starting it again harmless.

*`PoolProofs`.* About the pipeline with the watchdog and the shutdown, and with the groups.

* `BusySlotsAreBeingFilled`. A worker keeps its frame from `hold` to `release`, which
  ends the mark; with the types this is inductive.
* `FreedPoolIsQuiet`. `QuietInv` again, and that no session starts once the pool has been
  joined (`JoinedForGood`).
* `ImagesHaveOneHolder`. Every step moves at most one image, and is shown to have taken
  it from the only place it was in and to have put it in exactly one (`OnePlace`, `Moved`). For
  that, what has handed its image on must have forgotten it (`EmptyHanded`), no two workers may
  have the same (`WorkersApart`), and none may be twice in a channel (`Distinct`). From one
  place follows the cardinality that the property states.
* `PoolKeepsPipelineSafe`. The theorems of the pipeline hold here too: a step of the
  watchdog, of `Free` or of the shutdown only moves an image in or out of `freeList` or ends
  the stream (`RawSteps`), and no invariant of `JpegPipelineProofs` relates these two to
  anything they could break (`SafeRaw`).
* `AvailableTellsTheTruth`. The `WaitGroup` of a slot is
  abstracted in `JpegPipeline` to the guard `ReadersOf(s) = {}` of `WorkerAvail`. With the
  group and its goroutines unfolded every step is by definition still one of the pipeline,
  and the guard is what the code makes sure of: `available` does not look at the readers but at a
  channel, which a goroutine closes after its `Wait`, maybe much earlier. Nobody can have
  come in between (`WaitMeansFree`), for the slot is marked from `hold` on, and a worker listens to a
  goroutine of its own that waits for its own slot (`WaitersApart`). And a goroutine stays in
  `Wait` only while somebody reads (`ParkedHasReaders`). So the panic of finding 2 is the only
  way in which the abstraction and the `WaitGroup` differ.

*`ServiceProofs`.*

* `CallsDoAlternate`: `monitorUSB` makes one call of `SendAlert` for each loss of the camera and
  one of `ClearAlert` before the next. It says no more than that (`CallsAlternate`), as section 7
  explains, and no run has it. The calls made so far are compared with what the n-th call must be
  (`InTurn`); `AlertsCounted` ties the number of calls to `usbID` and `usbMissing`, so the
  next call is the one whose turn it is.
* `TypeCorrect`. `pending` is bounded because the alert of the 24 hours is sent once, when the
  goroutine that waits for them ends (`PendingSent`).
* `AnswersArriveInOrder`. The folders handed over are those of the watchers followed by those
  in the channel (`HandedOver`): what `WatchFolder` believes it has sent last is the last of
  them, and each differs from the one before. So `FolderUpdate` never replaces a watcher by
  one of the same folder, and none is skipped.
* `AuxGoroutineEndsFirst`. The goroutine that cancels a watcher when it has run for long is
  over before its operation returns, so a retry never meets the one of the try before.

*Model-checked only.* Every liveness property: the prover does not handle
`ENABLED`, hence fairness; what is proved in their place is said above
(`CancelledSessionEnds`, `MediaEnds`, `LastOneOutCloses`,
`LeftBehindForGood`, `NothingElseIsLeft`). Every safety property and every action
property of a passing run is a theorem.

## 6. Plan

What was planned is done; what would come next, in this order:

1. Two watchers over one history file (section 7): `FileWatcher` twice, with one file
   that each overwrites.
2. The whole of `cmd/driver` in one module: `Service` over `Backend` and `FileSync`, each
   as the abstract specification of its part.

## 7. Not modelled

* Several pipelines that share the raw pool and the farm. Only `cmd/driver/test.go`
  wires a pipeline to a source and a server, and it is commented out as a whole:
  no running program uses `jpeg`, `mjpeg`, `dirsource` or the camera handle today.
* What follows a panic: of a watchdog, of a `WaitGroup`, of a body that is read after
  it was closed.
* The inner loop of the MJPEG handler, which asks for the same frame again at once
  if it is not `Ready`: it spins until the frame is replaced. `ReaderSkip` is the
  step; that it keeps a processor busy is not a matter of states.
* Of the file watcher: subfolders, the deny list and the file types, `Chmod`,
  alerts, metrics and `LastUpdate`, `Watch` failing before it starts its goroutines,
  an expiration of zero (`Remap` then does nothing, as it may in the model), and
  goroutines a cancelled `Watch` that never returns leaves to its successor.
* Two watchers over one history file. "Several FileWatches can share the same
  history file", says `fileWatch.go:19`, and a folder that changes from A to B and back
  has two for a while; each writes the whole history it knows, so the last one wins.
  `Service` shows when there are two, `FileWatcher` has one.
* Of the backend: `ClearAlert` asks for the alert, decodes the answer into a copy (its
  `ReadBody` has a value receiver), finds the number empty in the one it has kept, and
  so never sends a `PUT`, although `alert.go:98` says "Clear an alert if it exists". One
  goroutine, one path: a unit test shows it. The contents of resources, the HTTP
  client, its proxy and its tracing are not modelled.
* Of the service: the HTTP server of `Run`, of which only the goroutines of its proxy are in
  `Service`, and the installation as a service.
* Of the directory source: the scan of a folder by its own watcher (only the events
  that come after it started are sources of pictures), the decompressor as such.
* `fifo` is sequential and nothing uses it; `fakesource` draws an image and has no
  state.
* Errors of constructors (`NewPool`, `New`, `camera.New`): they return before
  anything runs concurrently.
* What images contain, formats and sizes; the FFI bindings are what their callers
  make of them: a call that works or fails. The headers in `src/include` declare
  libraries whose code is not here; the camera's calls that `CameraMonitor` rests on
  are modelled from what `ASICamera2.h` says of them.
* Configuration, logging and the debug client have no behaviour the properties
  could tell apart.
