--------------------------- MODULE JpegPipeline ---------------------------
(***************************************************************************)
(* The streaming pipeline of internal/driver/jpeg/pool.go.                 *)
(*                                                                         *)
(*   freeList -> stream -> frames -> session -> tasks -> worker -> slot    *)
(*      ^                                                  |         |     *)
(*      +--------------------------------------------------+      readers  *)
(*                                                                         *)
(* A session reads raw frames from a source into the buffers of the raw    *)
(* pool, numbers them 1, 2, ... and hands them to the farm.  A worker      *)
(* compresses frame n into slot n % JpegPoolSize of the compressed pool,   *)
(* where the readers (the HTTP handlers) find it with Session.Next.        *)
(*                                                                         *)
(* A handler that sends a stream has two goroutines: one asks for the next *)
(* frame while the other is still sending the one before.                  *)
(*                                                                         *)
(* One action stands for what a goroutine does between two points at which *)
(* another goroutine can see or disturb it.  The mutex of jpegPool is held *)
(* across actions only while a reader is between its evaluation of the     *)
(* loop of Next and its registration with the condition variable, so it is *)
(* the state function Locked and not a variable.                           *)
(***************************************************************************)
EXTENDS Integers, Sequences, FiniteSets

CONSTANTS
    Buffers,        \* the raw images of the Pool
    Workers,        \* the compression goroutines of the Farm
    Readers,        \* HTTP handlers that call Session.Next
    Streams,        \* those of mjpeg/handler.go; the others send one picture
    JpegPoolSize,   \* number of slots of the jpegPool
    TaskSize,       \* capacity of the channel Farm.tasks
    MaxFrame,       \* bound: frames a source delivers in one session ...
    MaxLater,       \* ... and in a session that is not the first
    MaxSession,     \* bound: sessions started one after the other
    NoBuffer        \* "no raw image here"

\* pool.go:425 asks for the last conjunct.
ASSUME PipelineAssumption ==
    /\ IsFiniteSet(Buffers) /\ Buffers # {} /\ NoBuffer \notin Buffers
    /\ IsFiniteSet(Workers) /\ Workers # {}
    /\ Streams \subseteq Readers
    /\ TaskSize \in Nat \ {0}
    /\ MaxFrame \in Nat \ {0} /\ MaxLater \in Nat /\ MaxSession \in Nat \ {0}
    /\ JpegPoolSize \in Nat /\ JpegPoolSize > Cardinality(Buffers) + Cardinality(Workers)

VARIABLES
    freeList,       \* images in the channel Pool.freeList
    streamPc,       \* the goroutine of Pool.stream
    streamBuf,      \* the image it took from freeList
    frameNumber,    \* its frame counter
    frames,         \* the channel it returns; closed when streamPc = "off"
    gen,            \* which session this is (the code does not count them)
    sessPc,         \* the goroutine of Pipeline.session
    sessTask,       \* the frame it is pushing to the farm
    cancelled,      \* the context of the session has been cancelled
    currentFrame,   \* Session.currentFrame
    pendingFrames,  \* Session.pendingFrames
    tasks,          \* the channel Farm.tasks
    wpc, wtask, wres,       \* Farm.run: where each worker is, its task, newStatus
    number, status,         \* JpegFrame.number and .status, per slot
    content,        \* what the image of a slot holds: the frame compressed last
    rpc, rarg,      \* where the goroutine of each reader that calls Next is, what it asked for
    rnum, rstat,    \* Next's frameNumber (then the frame held), its status
    sending         \* the frame the loop over `frames` of a stream holds, 0 if none

streamVars == <<streamPc, streamBuf, frameNumber, frames>>
sessVars == <<gen, sessPc, sessTask, cancelled, currentFrame>>
workerVars == <<wpc, wtask, wres>>
slotVars == <<number, status, content>>
readerVars == <<rpc, rarg, rnum, rstat, sending>>
upVars == <<streamVars, sessVars>>
downVars == <<workerVars, slotVars, readerVars>>
pipeVars == <<freeList, upVars, pendingFrames, tasks, workerVars>>
vars == <<freeList, streamVars, sessVars, pendingFrames, tasks, workerVars,
          slotVars, readerVars>>

Status == {"Empty", "Compressing", "Ready", "Failed", "Stuck"}
Slots == 0 .. JpegPoolSize - 1
SlotOf(n) == n % JpegPoolSize

\* A raw frame on its way to a worker.
Frame == [num : 1 .. MaxFrame, buf : Buffers]
NoFrame == [num |-> 0, buf |-> NoBuffer]

\* Images start out with no content; one being written has none either.
Torn == [gen |-> 0, num |-> 0]

Locked == \E r \in Readers : rpc[r] = "parking"

\* Mutant: available does not wait for the readers.
NoReaders(s) == {}

Reads(r, s) == rpc[r] = "reading" /\ SlotOf(rnum[r]) = s
Sends(r, s) == sending[r] # 0 /\ SlotOf(sending[r]) = s

\* JpegFrame.group of a slot is zero when none of its goroutines holds a frame there.
ReadersOf(s) == {r \in Readers : Reads(r, s) \/ Sends(r, s)}

\* The handler is in neither of its goroutines.
Out(r) == rpc[r] = "idle" /\ sending[r] = 0

\* Mutant: Signal for Broadcast wakes one of them.
WokenOne ==
    LET asleep == {r \in Readers : rpc[r] = "waiting"} IN
    IF asleep = {} THEN rpc ELSE [rpc EXCEPT ![CHOOSE r \in asleep : TRUE] = "calling"]

\* sync.Cond.Broadcast: those already registered wake and contend for the lock.
Woken == [r \in Readers |-> IF rpc[r] = "waiting" THEN "calling" ELSE rpc[r]]

\* Sending image b on freeList, whose capacity is the number of images.
Returned(b) == freeList \union {b}

\* Mutants: the task is not counted; its end is not counted.
Uncounted == pendingFrames
Unnotified == pendingFrames

\* pendingFrames.Add(1) and pendingFrames.Done().
PendingAdd == pendingFrames + 1
PendingDone == pendingFrames - 1
---------------------------------------------------------------------------
Init ==
    /\ freeList = Buffers
    /\ streamPc = "off" /\ streamBuf = NoBuffer /\ frameNumber = 1 /\ frames = <<>>
    /\ gen = 0 /\ sessPc = "none" /\ sessTask = NoFrame
    /\ cancelled = FALSE /\ currentFrame = 0 /\ pendingFrames = 0
    /\ tasks = <<>>
    /\ wpc = [w \in Workers |-> "idle"]
    /\ wtask = [w \in Workers |-> NoFrame]
    /\ wres = [w \in Workers |-> "Failed"]
    /\ number = [s \in Slots |-> 0]
    /\ status = [s \in Slots |-> "Empty"]
    /\ content = [s \in Slots |-> Torn]
    /\ rpc = [r \in Readers |-> "idle"]
    /\ rarg = [r \in Readers |-> 1]
    /\ rnum = [r \in Readers |-> 1]
    /\ rstat = [r \in Readers |-> "Empty"]
    /\ sending = [r \in Readers |-> 0]
---------------------------------------------------------------------------
(* Pipeline.session and Session.Join, as SessionManager calls them: one    *)
(* session at a time, cancelled when its last user has left.               *)

StartSession ==
    /\ sessPc = "none" /\ gen < MaxSession
    /\ gen' = gen + 1
    /\ sessPc' = "recv" /\ cancelled' = FALSE
    /\ currentFrame' = 1 /\ pendingFrames' = 1
    /\ streamPc' = "acquire" /\ frameNumber' = 1
    /\ UNCHANGED <<freeList, streamBuf, frames, sessTask, tasks, downVars>>

\* cancelFunc of the session's context.
CancelContext ==
    /\ cancelled' = TRUE
    /\ UNCHANGED <<freeList, streamVars, gen, sessPc, sessTask, currentFrame,
                   pendingFrames, tasks, downVars>>

CancelSession ==
    /\ sessPc # "none" /\ ~cancelled
    /\ \A r \in Readers : Out(r)
    /\ CancelContext

JoinSession ==
    /\ sessPc # "none" /\ cancelled /\ pendingFrames = 0
    /\ sessPc' = "none"
    /\ UNCHANGED <<freeList, streamVars, gen, sessTask, cancelled, currentFrame,
                   pendingFrames, tasks, downVars>>
---------------------------------------------------------------------------
(* The goroutine of Pool.stream.                                           *)

StreamAcquire ==
    /\ streamPc = "acquire"
    /\ \E b \in freeList :
        /\ freeList' = freeList \ {b}
        /\ streamBuf' = b
    /\ streamPc' = "source"
    /\ UNCHANGED <<frameNumber, frames, sessVars, pendingFrames, tasks, downVars>>

\* ctx.Done chosen while waiting for an image.
StreamQuit ==
    /\ streamPc = "acquire" /\ cancelled
    /\ streamPc' = "off"
    /\ UNCHANGED <<freeList, streamBuf, frameNumber, frames, sessVars,
                   pendingFrames, tasks, downVars>>

\* source.Next returned a frame and the channel took it.
StreamDeliver ==
    /\ streamPc = "source" /\ frameNumber <= MaxFrame /\ (gen > 1 => frameNumber <= MaxLater)
    /\ Len(frames) < Cardinality(Buffers)
    /\ frames' = Append(frames, [num |-> frameNumber, buf |-> streamBuf])
    /\ frameNumber' = frameNumber + 1
    /\ streamBuf' = NoBuffer /\ streamPc' = "acquire"
    /\ UNCHANGED <<freeList, sessVars, pendingFrames, tasks, downVars>>

\* source.Next failed, or ctx.Done was chosen instead of sending its frame.
StreamFail ==
    /\ streamPc = "source"
    /\ freeList' = Returned(streamBuf)
    /\ streamBuf' = NoBuffer /\ streamPc' = "off"
    /\ UNCHANGED <<frameNumber, frames, sessVars, pendingFrames, tasks, downVars>>
---------------------------------------------------------------------------
(* The goroutine of Pipeline.session.                                      *)

SessionRecv ==
    /\ sessPc = "recv" /\ frames # <<>>
    /\ sessTask' = Head(frames) /\ frames' = Tail(frames)
    /\ currentFrame' = Head(frames).num
    /\ pendingFrames' = PendingAdd
    /\ sessPc' = "push"
    /\ UNCHANGED <<freeList, streamPc, streamBuf, frameNumber, gen, cancelled,
                   tasks, downVars>>

SessionPush ==
    /\ sessPc = "push" /\ Len(tasks) < TaskSize
    /\ tasks' = Append(tasks, sessTask)
    /\ sessTask' = NoFrame /\ sessPc' = "recv"
    /\ UNCHANGED <<freeList, streamVars, gen, cancelled, currentFrame,
                   pendingFrames, downVars>>

\* The channel is closed and drained: store 0 in currentFrame.  No lock is taken.
SessionStop ==
    /\ sessPc = "recv" /\ frames = <<>> /\ streamPc = "off"
    /\ currentFrame' = 0
    /\ sessPc' = "notify"
    /\ UNCHANGED <<freeList, streamVars, gen, sessTask, cancelled, pendingFrames,
                   tasks, downVars>>

\* Broadcast, again without the lock, and pendingFrames.Done.
SessionNotify ==
    /\ sessPc = "notify"
    /\ rpc' = Woken
    /\ pendingFrames' = PendingDone
    /\ sessPc' = "over"
    /\ UNCHANGED <<freeList, streamVars, gen, sessTask, cancelled, currentFrame,
                   tasks, workerVars, slotVars, rarg, rnum, rstat, sending>>
---------------------------------------------------------------------------
(* Farm.run, one worker.                                                   *)

WorkerTake(w) ==
    /\ wpc[w] = "idle" /\ tasks # <<>>
    /\ wtask' = [wtask EXCEPT ![w] = Head(tasks)]
    /\ tasks' = Tail(tasks)
    /\ wpc' = [wpc EXCEPT ![w] = "hold"]
    /\ UNCHANGED <<freeList, upVars, pendingFrames, wres, slotVars, readerVars>>

\* jpegPool.hold takes the slot for a new frame ...
WorkerHold(w) ==
    LET n == wtask[w].num IN
    /\ number' = [number EXCEPT ![SlotOf(n)] = n]
    /\ status' = [status EXCEPT ![SlotOf(n)] = "Compressing"]
    /\ wpc' = [wpc EXCEPT ![w] = "avail"]
    /\ UNCHANGED <<freeList, upVars, pendingFrames, tasks, wtask, wres, content,
                   readerVars>>

\* ... or returns nil: the frame is dropped ...
WorkerBusy(w) ==
    /\ wpc' = [wpc EXCEPT ![w] = "return"]
    /\ UNCHANGED <<freeList, upVars, pendingFrames, tasks, wtask, wres, slotVars,
                   readerVars>>

\* ... since another worker has it.
SlotBusy(w) == status[SlotOf(wtask[w].num)] = "Compressing"

Hold(w) ==
    /\ wpc[w] = "hold" /\ ~Locked
    /\ IF SlotBusy(w) THEN WorkerBusy(w) ELSE WorkerHold(w)

\* JpegFrame.available: nobody reads the slot, and the image is being written.
WorkerAvail(w) ==
    LET s == SlotOf(wtask[w].num) IN
    /\ wpc[w] = "avail" /\ ReadersOf(s) = {}
    /\ content' = [content EXCEPT ![s] = Torn]
    /\ wpc' = [wpc EXCEPT ![w] = "compress"]
    /\ UNCHANGED <<freeList, upVars, pendingFrames, tasks, wtask, wres, number,
                   status, readerVars>>

\* Mutant: available waits without a timer.
NeverStuck(w) == FALSE

\* Mutant: the slot is not released.
StuckForgets(w) ==
    /\ wpc[w] = "avail"
    /\ wpc' = [wpc EXCEPT ![w] = "return"]
    /\ UNCHANGED <<freeList, upVars, pendingFrames, tasks, wtask, wres, slotVars,
                   readerVars>>

\* JpegFrame.available timed out; the timer may also beat a reader that left.
WorkerStuck(w) ==
    /\ wpc[w] = "avail"
    /\ wres' = [wres EXCEPT ![w] = "Stuck"]
    /\ wpc' = [wpc EXCEPT ![w] = "release"]
    /\ UNCHANGED <<freeList, upVars, pendingFrames, tasks, wtask, slotVars,
                   readerVars>>

\* SrcFrame.Compress returns: the image is complete, or it failed.
WorkerCompress(w) ==
    LET n == wtask[w].num IN
    /\ wpc[w] = "compress"
    /\ \/ /\ content' = [content EXCEPT ![SlotOf(n)] = [gen |-> gen, num |-> n]]
          /\ wres' = [wres EXCEPT ![w] = "Ready"]
       \/ /\ content' = content
          /\ wres' = [wres EXCEPT ![w] = "Failed"]
    /\ wpc' = [wpc EXCEPT ![w] = "release"]
    /\ UNCHANGED <<freeList, upVars, pendingFrames, tasks, wtask, number, status,
                   readerVars>>

\* jpegPool.release: set the status and wake every reader.
WorkerRelease(w) ==
    /\ wpc[w] = "release" /\ ~Locked
    /\ status' = [status EXCEPT ![SlotOf(wtask[w].num)] = wres[w]]
    /\ rpc' = Woken
    /\ wres' = [wres EXCEPT ![w] = "Failed"]
    /\ wpc' = [wpc EXCEPT ![w] = "return"]
    /\ UNCHANGED <<freeList, upVars, pendingFrames, tasks, wtask, number,
                   content, rarg, rnum, rstat, sending>>

\* The deferred function of run: first the raw image ...
WorkerReturn(w) ==
    /\ wpc[w] = "return"
    /\ freeList' = Returned(wtask[w].buf)
    /\ wtask' = [wtask EXCEPT ![w] = NoFrame]
    /\ wpc' = [wpc EXCEPT ![w] = "done"]
    /\ UNCHANGED <<upVars, pendingFrames, tasks, wres, slotVars, readerVars>>

\* ... and then group.Done.
WorkerDone(w) ==
    /\ wpc[w] = "done"
    /\ pendingFrames' = PendingDone
    /\ wpc' = [wpc EXCEPT ![w] = "idle"]
    /\ UNCHANGED <<freeList, upVars, tasks, wtask, wres, slotVars, readerVars>>

Worker(w) ==
    \/ WorkerTake(w) \/ Hold(w) \/ WorkerAvail(w)
    \/ WorkerStuck(w) \/ WorkerCompress(w) \/ WorkerRelease(w)
    \/ WorkerReturn(w) \/ WorkerDone(w)
---------------------------------------------------------------------------
(* Session.Next and the handlers that call it.                             *)

\* Session.Next(1), the first call of a handler.
CallNext(r) ==
    /\ rpc' = [rpc EXCEPT ![r] = "calling"]
    /\ rarg' = [rarg EXCEPT ![r] = 1]
    /\ rnum' = [rnum EXCEPT ![r] = 1]
    /\ UNCHANGED <<pipeVars, slotVars, rstat, sending>>

\* It is made by a handler that holds the session.
ReaderCall(r) ==
    /\ Out(r) /\ sessPc # "none" /\ ~cancelled
    /\ CallNext(r)

\* The session is over: Next returns nil; the picture's handler leaves, the stream's closes
\* `frames`.
NextNil(r) ==
    /\ rpc[r] = "calling" /\ ~Locked
    /\ currentFrame = 0
    /\ rpc' = [rpc EXCEPT ![r] = "idle"]
    /\ rarg' = [rarg EXCEPT ![r] = 1]
    /\ rnum' = [rnum EXCEPT ![r] = 1]
    /\ UNCHANGED <<pipeVars, slotVars, rstat, sending>>

InPool(n) == number[SlotOf(n)] = n
Finished(n) == InPool(n) /\ status[SlotOf(n)] \notin {"Empty", "Compressing"}

\* The frame is in the pool and no longer being compressed: group.Add(1).
NextFrame(r) ==
    /\ rpc[r] = "calling" /\ ~Locked
    /\ currentFrame # 0 /\ Finished(rnum[r])
    /\ rpc' = [rpc EXCEPT ![r] = "reading"]
    /\ rstat' = [rstat EXCEPT ![r] = status[SlotOf(rnum[r])]]
    /\ UNCHANGED <<pipeVars, slotVars, rarg, rnum, sending>>

\* Mutant: an off-by-one.
TwoAhead(n) == IF InPool(n) THEN n
               ELSE IF n > currentFrame THEN currentFrame + 2 ELSE currentFrame

\* The frame Next waits for instead of n: n itself if it is being compressed,
\* otherwise the frame after the current one, or the current one if n is past.
Awaited(n) == IF InPool(n) THEN n
              ELSE IF n > currentFrame THEN currentFrame + 1 ELSE currentFrame

\* Pick the frame to wait for; the lock stays held until NextWait.
NextPark(r) ==
    /\ rpc[r] = "calling" /\ ~Locked
    /\ currentFrame # 0 /\ ~Finished(rnum[r])
    /\ rpc' = [rpc EXCEPT ![r] = "parking"]
    /\ rnum' = [rnum EXCEPT ![r] = Awaited(@)]
    /\ UNCHANGED <<pipeVars, slotVars, rarg, rstat, sending>>

\* sync.Cond.Wait: register, then unlock.
NextWait(r) ==
    /\ rpc[r] = "parking"
    /\ rpc' = [rpc EXCEPT ![r] = "waiting"]
    /\ UNCHANGED <<pipeVars, slotVars, rarg, rnum, rstat, sending>>

\* JpegFrame.Done of the goroutine that called Next, which ends: a picture is sent, or is not
\* Ready; or a stream has a Ready frame and finds keepAlive closed, and closes `frames`.
ReaderLeave(r) ==
    /\ rpc[r] = "reading" /\ (r \in Streams => rstat[r] = "Ready")
    /\ rpc' = [rpc EXCEPT ![r] = "idle"]
    /\ rarg' = [rarg EXCEPT ![r] = 1]
    /\ rnum' = [rnum EXCEPT ![r] = 1]
    /\ rstat' = [rstat EXCEPT ![r] = "Empty"]
    /\ UNCHANGED <<pipeVars, slotVars, sending>>

\* The stream calls Next(n).
AsksFor(r, n) ==
    /\ rpc' = [rpc EXCEPT ![r] = "calling"]
    /\ rarg' = [rarg EXCEPT ![r] = n]
    /\ rnum' = [rnum EXCEPT ![r] = n]
    /\ rstat' = [rstat EXCEPT ![r] = "Empty"]
    /\ UNCHANGED <<pipeVars, slotVars>>

\* A frame that is not Ready is given back, and the same number asked for again.
ReaderSkip(r) ==
    /\ r \in Streams /\ rpc[r] = "reading" /\ rstat[r] # "Ready"
    /\ AsksFor(r, rarg[r])
    /\ UNCHANGED sending

\* `frames <- frame`: the channel has no room, so the loop must have done with the frame
\* before.  It holds this one from now on, while the frame after it is asked for.
ReaderHands(r) ==
    /\ r \in Streams /\ rpc[r] = "reading" /\ rstat[r] = "Ready" /\ sending[r] = 0
    /\ sending' = [sending EXCEPT ![r] = rnum[r]]
    /\ AsksFor(r, rnum[r] + 1)

\* JpegFrame.Done in the loop: the frame is sent, or sending it has failed, or one has
\* failed before and the channel is being exhausted.
SendDone(r) ==
    /\ sending[r] # 0
    /\ sending' = [sending EXCEPT ![r] = 0]
    /\ UNCHANGED <<pipeVars, slotVars, rpc, rarg, rnum, rstat>>

Reader(r) ==
    \/ ReaderCall(r) \/ NextNil(r) \/ NextFrame(r) \/ NextPark(r) \/ NextWait(r)
    \/ ReaderLeave(r) \/ ReaderSkip(r) \/ ReaderHands(r) \/ SendDone(r)

Next ==
    \/ StartSession \/ CancelSession \/ JoinSession
    \/ StreamAcquire \/ StreamQuit \/ StreamDeliver \/ StreamFail
    \/ SessionRecv \/ SessionPush \/ SessionStop \/ SessionNotify
    \/ \E w \in Workers : Worker(w)
    \/ \E r \in Readers : Reader(r)

Spec == Init /\ [][Next]_vars

(***************************************************************************)
(* The Go scheduler runs every goroutine that can run, and Mutex does not  *)
(* starve; timers fire; a source returns from Next once its context is     *)
(* cancelled.  Nothing obliges a source to deliver or fail, a handler to   *)
(* call or to finish with a frame, or anybody to start or stop a session.  *)
(***************************************************************************)
Fairness ==
    /\ WF_vars(StreamAcquire) /\ WF_vars(StreamQuit)
    /\ WF_vars(cancelled /\ StreamFail)
    /\ WF_vars(JoinSession)
    /\ WF_vars(SessionRecv \/ SessionPush \/ SessionStop \/ SessionNotify)
    /\ \A w \in Workers : WF_vars(Worker(w))
    /\ \A r \in Readers :
        WF_vars(NextNil(r) \/ NextFrame(r) \/ NextPark(r) \/ NextWait(r))

LiveSpec == Spec /\ Fairness
---------------------------------------------------------------------------
(* Properties.                                                             *)

\* Every variable has its type.
TypeOK ==
    /\ freeList \subseteq Buffers
    /\ streamPc \in {"off", "acquire", "source"}
    /\ streamBuf \in Buffers \union {NoBuffer}
    /\ frameNumber \in 1 .. MaxFrame + 1
    /\ frames \in Seq(Frame)
    /\ gen \in 0 .. MaxSession
    /\ sessPc \in {"none", "recv", "push", "notify", "over"}
    /\ sessTask \in Frame \union {NoFrame}
    /\ cancelled \in BOOLEAN
    /\ currentFrame \in 0 .. MaxFrame
    /\ pendingFrames \in Int
    /\ tasks \in Seq(Frame)
    /\ wpc \in [Workers -> {"idle", "hold", "avail", "compress", "release", "return", "done"}]
    /\ wtask \in [Workers -> Frame \union {NoFrame}]
    /\ wres \in [Workers -> {"Ready", "Failed", "Stuck"}]
    /\ number \in [Slots -> 0 .. MaxFrame]
    /\ status \in [Slots -> Status]
    /\ content \in [Slots -> [gen : 0 .. MaxSession, num : 0 .. MaxFrame]]
    /\ rpc \in [Readers -> {"idle", "calling", "parking", "waiting", "reading"}]
    /\ rarg \in [Readers -> 1 .. MaxFrame + 1]
    /\ rnum \in [Readers -> 1 .. MaxFrame + 1]
    /\ rstat \in [Readers -> Status]
    /\ sending \in [Readers -> 0 .. MaxFrame]

\* The places that hold raw image b.
Holders(b) ==
    (IF b \in freeList THEN {<<"freeList", 0>>} ELSE {})
    \union (IF b = streamBuf THEN {<<"stream", 0>>} ELSE {})
    \union {<<"frames", i>> : i \in {j \in DOMAIN frames : frames[j].buf = b}}
    \union (IF b = sessTask.buf THEN {<<"session", 0>>} ELSE {})
    \union {<<"tasks", i>> : i \in {j \in DOMAIN tasks : tasks[j].buf = b}}
    \union {<<"worker", w>> : w \in {v \in Workers : wtask[v].buf = b}}

\* The image of a Ready frame that a handler holds, to send it next or sending it, stays
\* whole and stays that frame until Done is called, however late: the slot may be held for
\* a later frame meanwhile, and that one looked at by the same handler, but not written
\* (pool.go:380, "Make sure the frame is not stuck sending somewhere").
ReadyFrameIntact ==
    \A r \in Readers :
        /\ rpc[r] = "reading" /\ rstat[r] = "Ready" => content[SlotOf(rnum[r])].num = rnum[r]
        /\ sending[r] # 0 => content[SlotOf(sending[r])].num = sending[r]

\* The step that finishes the frame a reader waits for wakes that reader, and
\* never falls between its look at the slot and its registration with the
\* condition variable: Next cannot miss jpegPool.release.
FinishedFrameWakes ==
    [][\A r \in Readers :
        /\ rpc[r] \in {"parking", "waiting"} /\ rpc'[r] \in {"parking", "waiting"}
        /\ ~Finished(rnum[r])
        => ~Finished(rnum[r])']_vars

\* This session has not come to frame n yet.
NotReached(n) ==
    \/ n >= frameNumber \/ n = sessTask.num
    \/ \E i \in DOMAIN frames : frames[i].num = n
    \/ \E i \in DOMAIN tasks : tasks[i].num = n
    \/ \E w \in Workers : wpc[w] = "hold" /\ wtask[w].num = n

\* Next does not keep to "the given frameNumber for this session" (pool.go:497): slots
\* outlive sessions, and numbers start again at 1.  What holds is that a frame of an
\* earlier session is handed out only under a number that this session has not come to,
\* never in place of a frame it has compressed or is compressing.
OldFrameOnlyAhead ==
    [][\A r \in Readers :
        /\ rpc[r] = "calling" /\ rpc'[r] = "reading" /\ rstat'[r] = "Ready"
        /\ content[SlotOf(rnum[r])].gen # gen
        => NotReached(rnum[r])]_vars

\* "let all the readers notice" (pool.go:469): once the session has ended, no
\* reader waits for ever.
ReadersNotice ==
    \A r \in Readers : rpc[r] = "waiting" /\ currentFrame = 0 ~> rpc[r] # "waiting"

\* Session.Join returns: a cancelled session drains, whatever its frames are
\* doing, although SessionManager.Done waits for it with its mutex held.
CancelledIsJoined == []<>(cancelled => sessPc = "none")

\* No raw image given to the farm stays there for ever, also when a client never
\* finishes with the slot it is to be compressed into.
FarmReturnsImage ==
    \A b \in Buffers : []<>(\A w \in Workers : wtask[w].buf # b)
===========================================================================
