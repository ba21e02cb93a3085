---------------------------- MODULE PoolProofs ----------------------------
(***************************************************************************)
(* Theorems about the two modules that extend JpegPipeline, RawPool and    *)
(* FrameGroup, for any number of images, workers, readers, slots, frames,  *)
(* sessions and waiting goroutines.                                        *)
(***************************************************************************)
EXTENDS RawPool, FrameGroup, JpegPipelineProofs

\* The watchdog has an image when it is about to put one back, and only then.
PoolType ==
    /\ wdPc \in {"watch", "return", "gone"}
    /\ IF wdPc = "return" THEN wdBuf \in Buffers ELSE wdBuf = NoBuffer
    /\ freed \subseteq Buffers

\* What the watchdog and Free do to the pipeline: they take an image out of freeList or
\* put it back, and the stream ends when freeList is closed.
ListMoves == UNCHANGED <<upVars, pendingFrames, tasks, downVars>> /\ freeList' \subseteq Buffers
StreamEnds ==
    /\ streamPc' = "off"
    /\ UNCHANGED <<freeList, streamBuf, frameNumber, frames, sessVars, pendingFrames, tasks,
                   downVars>>

\* Every step is one of the pipeline, or one of these.
LEMMA RawSteps ==
    TypeInv /\ PoolType /\ [RNext]_rawVars => [Next]_vars \/ ListMoves \/ StreamEnds
  <1>. SUFFICES ASSUME TypeInv, PoolType, [RNext]_rawVars
                PROVE [Next]_vars \/ ListMoves \/ StreamEnds
    OBVIOUS
  <1>1. freeList \subseteq Buffers
    BY DEF TypeInv, TypeOK
  <1>2. CASE PipelineStep
    BY <1>2 DEF PipelineStep
  <1>3. CASE StreamClosed
    BY <1>3 DEF StreamClosed, StreamEnds
  <1>4. CASE WatchdogTake \/ WatchdogReturn \/ FreeTake
    BY <1>1, <1>4 DEF WatchdogTake, WatchdogReturn, FreeTake, ListMoves, Returned, PoolType
  <1>5. CASE WatchdogGone \/ PipelineJoin \/ FarmStop \/ FreeCall \/ FreeClose
             \/ UNCHANGED rawVars
    BY <1>5 DEF WatchdogGone, PipelineJoin, FarmStop, FreeCall, FreeClose, rawVars
  <1>. QED
    BY <1>2, <1>3, <1>4, <1>5 DEF RNext

\* TypeInv of JpegPipelineProofs holds here too ...
LEMMA RTypeInit == RInit => TypeInv /\ PoolType
  BY TypeInit DEF RInit, PoolType

\* ... and what the watchdog and Free have is typed.
LEMMA RTypeStep == TypeInv /\ PoolType /\ [RNext]_rawVars => TypeInv' /\ PoolType'
  <1>. SUFFICES ASSUME TypeInv, PoolType, [RNext]_rawVars PROVE TypeInv' /\ PoolType'
    OBVIOUS
  <1>1. TypeInv'
    <2>1. CASE [Next]_vars
      BY <2>1, TypeStep
    <2>2. CASE ListMoves
      BY <2>2 DEF ListMoves, TypeInv, TypeOK, Carried, upVars, downVars, streamVars, sessVars,
                  workerVars, slotVars, readerVars
    <2>3. CASE StreamEnds
      BY <2>3 DEF StreamEnds, TypeInv, TypeOK, Carried, downVars, sessVars, workerVars, slotVars,
                  readerVars
    <2>. QED
      BY <2>1, <2>2, <2>3, RawSteps
  <1>2. PoolType'
    <2>1. freeList \subseteq Buffers /\ NoBuffer \notin Buffers
      BY PipelineAssumption DEF TypeInv, TypeOK
    <2>. QED
      BY <2>1 DEF PoolType, RNext, rawVars, poolVars, PipelineStep, StreamClosed, WatchdogTake,
                  WatchdogReturn, WatchdogGone, PipelineJoin, FarmStop, FreeCall, FreeTake, FreeClose
  <1>. QED
    BY <1>1, <1>2
---------------------------------------------------------------------------
(* A worker keeps its frame from hold to release, and release is what ends *)
(* the mark of its slot.                                                   *)

\* Only hold and release change a mark, and both are steps of the worker.
LEMMA BusyStep == TypeInv /\ BusySlotHasWorker /\ [Next]_vars => BusySlotHasWorker'
  <1>. SUFFICES ASSUME TypeInv, BusySlotHasWorker, [Next]_vars,
                       NEW s \in Slots, status'[s] = "Compressing"
                PROVE  \E w \in Workers : /\ wpc'[w] \in {"avail", "compress", "release"}
                                          /\ SlotOf(wtask'[w].num) = s
    BY DEF BusySlotHasWorker, SlotOf
  <1>t. /\ status \in [Slots -> Status] /\ DOMAIN wpc = Workers
        /\ wtask \in [Workers -> Frame \union {NoFrame}]
        /\ wres \in [Workers -> {"Ready", "Failed", "Stuck"}]
    BY DEF TypeInv, TypeOK
  <1>1. ASSUME status[s] = "Compressing",
               \A w \in Workers : wpc[w] \in {"avail", "compress", "release"} =>
                   wpc'[w] \in {"avail", "compress", "release"} /\ wtask'[w] = wtask[w]
        PROVE  \E w \in Workers : /\ wpc'[w] \in {"avail", "compress", "release"}
                                  /\ SlotOf(wtask'[w].num) = s
    BY <1>1 DEF BusySlotHasWorker
  <1>2. ASSUME UNCHANGED <<status, workerVars>>
        PROVE  \E w \in Workers : /\ wpc'[w] \in {"avail", "compress", "release"}
                                  /\ SlotOf(wtask'[w].num) = s
    BY <1>1, <1>2 DEF workerVars
  <1>3. CASE \/ StartSession \/ CancelSession \/ JoinSession
             \/ StreamAcquire \/ StreamQuit \/ StreamDeliver \/ StreamFail
             \/ SessionRecv \/ SessionPush \/ SessionStop \/ SessionNotify
    BY <1>2, <1>3 DEF StartSession, CancelSession, CancelContext, JoinSession, StreamAcquire,
         StreamQuit, StreamDeliver, StreamFail, SessionRecv, SessionPush, SessionStop,
         SessionNotify, downVars, slotVars
  <1>4. ASSUME NEW w \in Workers, Worker(w)
        PROVE  \E v \in Workers : /\ wpc'[v] \in {"avail", "compress", "release"}
                                  /\ SlotOf(wtask'[v].num) = s
    <2>1. CASE Hold(w) /\ ~SlotBusy(w)
      <3>1. CASE s = SlotOf(wtask[w].num)
        BY <1>t, <2>1, <3>1 DEF Hold, WorkerHold
      <3>2. CASE s # SlotOf(wtask[w].num)
        BY <1>t, <1>1, <2>1, <3>2 DEF Hold, WorkerHold
      <3>. QED
        BY <3>1, <3>2
    <2>2. CASE WorkerRelease(w)
      <3>1. s # SlotOf(wtask[w].num)
        BY <1>t, <2>2 DEF WorkerRelease
      <3>2. status[s] = "Compressing"
        BY <1>t, <2>2, <3>1 DEF WorkerRelease
      <3>3. PICK v \in Workers : /\ wpc[v] \in {"avail", "compress", "release"}
                                 /\ SlotOf(wtask[v].num) = s
        BY <3>2 DEF BusySlotHasWorker
      <3>4. v # w
        BY <3>1, <3>3
      <3>. QED
        BY <1>t, <2>2, <3>3, <3>4 DEF WorkerRelease
    <2>3. CASE \/ WorkerTake(w) \/ (Hold(w) /\ SlotBusy(w)) \/ WorkerAvail(w) \/ WorkerStuck(w)
               \/ WorkerCompress(w) \/ WorkerReturn(w) \/ WorkerDone(w)
      BY <1>t, <1>1, <2>3 DEF WorkerTake, Hold, WorkerBusy, WorkerAvail, WorkerStuck, WorkerCompress,
           WorkerReturn, WorkerDone, slotVars
    <2>. QED
      BY <1>4, <2>1, <2>2, <2>3 DEF Worker
  <1>5. ASSUME NEW r \in Readers,
               \/ ReaderCall(r) \/ NextNil(r) \/ NextFrame(r) \/ NextPark(r) \/ NextWait(r)
               \/ ReaderLeave(r) \/ ReaderSkip(r) \/ ReaderHands(r) \/ SendDone(r)
        PROVE  \E w \in Workers : /\ wpc'[w] \in {"avail", "compress", "release"}
                                  /\ SlotOf(wtask'[w].num) = s
    BY <1>2, <1>5 DEF ReaderCall, CallNext, NextNil, NextFrame, NextPark, NextWait, ReaderLeave,
         ReaderSkip, ReaderHands, SendDone, AsksFor, pipeVars, slotVars
  <1>6. CASE UNCHANGED vars
    BY <1>2, <1>6 DEF vars, slotVars
  <1>. QED
    BY <1>3, <1>4, <1>5, <1>6 DEF Next, Reader

\* No slot stays marked as being compressed when nobody compresses it.
THEOREM BusySlotsAreBeingFilled == RSpec => []BusySlotHasWorker
  <1>1. RInit => BusySlotHasWorker
    BY DEF RInit, Init, BusySlotHasWorker
  <1>2. TypeInv /\ PoolType /\ BusySlotHasWorker /\ [RNext]_rawVars => BusySlotHasWorker'
    <2>1. TypeInv /\ BusySlotHasWorker /\ [Next]_vars => BusySlotHasWorker'
      BY BusyStep
    <2>2. BusySlotHasWorker /\ (ListMoves \/ StreamEnds) => BusySlotHasWorker'
      BY DEF BusySlotHasWorker, ListMoves, StreamEnds, downVars, workerVars, slotVars, SlotOf
    <2>. QED
      BY <2>1, <2>2, RawSteps
  <1>. QED
    BY <1>1, <1>2, RTypeInit, RTypeStep, PTL DEF RSpec
---------------------------------------------------------------------------
(* When Join has returned nothing runs, and no session comes after Join.   *)

\* The watchdog and Free leave pendingFrames and what it counts alone.
LEMMA QuietRaw == TypeInv /\ PoolType /\ QuietInv /\ [RNext]_rawVars => QuietInv'
  <1>1. QuietInv /\ (ListMoves \/ StreamEnds) => QuietInv'
    <2>. SUFFICES ASSUME QuietInv, ListMoves \/ StreamEnds PROVE QuietInv'
      OBVIOUS
    <2>1. BusyWorkers' = BusyWorkers
      BY DEF ListMoves, StreamEnds, downVars, workerVars, BusyWorkers
    <2>. QED
      BY <2>1 DEF ListMoves, StreamEnds, QuietInv, PendingCounted, SessionShare, Drained, Deserted,
         Out, upVars, streamVars, sessVars, downVars, readerVars
  <1>. QED
    BY <1>1, QuietStep, RawSteps

\* Nobody starts a session when the pool has been joined.
JoinedForGood == shutPc # "up" => sessPc = "none"

\* Users have gone before Join, and none comes afterwards.
LEMMA JoinedStep == JoinedForGood /\ [RNext]_rawVars => JoinedForGood'
  <1>. SUFFICES ASSUME JoinedForGood, [RNext]_rawVars PROVE JoinedForGood'
    OBVIOUS
  <1>. USE DEF JoinedForGood, upVars, downVars, pipeVars
  <1>1. CASE PipelineStep
    <2>1. shutPc' = shutPc /\ (StartSession => shutPc = "up") /\ Next
      BY <1>1 DEF PipelineStep, poolVars
    <2>2. CASE \/ StartSession \/ CancelSession \/ JoinSession
               \/ StreamAcquire \/ StreamQuit \/ StreamDeliver \/ StreamFail
               \/ SessionRecv \/ SessionPush \/ SessionStop \/ SessionNotify
      BY <2>1, <2>2 DEF CancelSession, CancelContext, JoinSession, StreamAcquire, StreamQuit,
         StreamDeliver, StreamFail, SessionRecv, SessionPush, SessionStop, SessionNotify, sessVars
    <2>3. ASSUME NEW w \in Workers, Worker(w) PROVE sessPc' = sessPc
      BY <2>3 DEF Worker, WorkerTake, Hold, WorkerHold, WorkerBusy, WorkerAvail, WorkerStuck,
         WorkerCompress, WorkerRelease, WorkerReturn, WorkerDone, sessVars
    <2>4. ASSUME NEW r \in Readers,
                 \/ ReaderCall(r) \/ NextNil(r) \/ NextFrame(r) \/ NextPark(r) \/ NextWait(r)
                 \/ ReaderLeave(r) \/ ReaderSkip(r) \/ ReaderHands(r) \/ SendDone(r)
          PROVE  sessPc' = sessPc
      BY <2>4 DEF ReaderCall, CallNext, NextNil, NextFrame, NextPark, NextWait, ReaderLeave,
         ReaderSkip, ReaderHands, SendDone, AsksFor, sessVars
    <2>. QED
      BY <2>1, <2>2, <2>3, <2>4 DEF Next, Reader
  <1>2. CASE PipelineJoin \/ FarmStop
    BY <1>2 DEF PipelineJoin, FarmStop, vars, sessVars
  <1>3. CASE \/ StreamClosed \/ WatchdogTake \/ WatchdogReturn \/ WatchdogGone
             \/ FreeCall \/ FreeTake \/ FreeClose \/ UNCHANGED rawVars
    BY <1>3 DEF StreamClosed, WatchdogTake, WatchdogReturn, WatchdogGone, FreeCall, FreeTake,
       FreeClose, vars, rawVars, poolVars, sessVars
  <1>. QED
    BY <1>1, <1>2, <1>3 DEF RNext

\* The compressed images are freed when nobody reads or writes them.
THEOREM FreedPoolIsQuiet == RSpec => []FreedSlotsAreQuiet
  <1>1. RInit => QuietInv /\ JoinedForGood
    BY QuietInit DEF RInit, JoinedForGood
  <1>2. TypeInv /\ QuietInv /\ JoinedForGood => FreedSlotsAreQuiet
    <2>. SUFFICES ASSUME TypeInv, QuietInv, JoinedForGood, shutPc # "up"
                  PROVE  /\ frames = <<>> /\ tasks = <<>> /\ streamPc = "off"
                         /\ \A w \in Workers : wpc[w] = "idle"
                         /\ \A r \in Readers : Out(r)
      BY DEF FreedSlotsAreQuiet
    <2>1. sessPc = "none" /\ pendingFrames = 0
      BY DEF JoinedForGood, QuietInv
    <2>2. Len(tasks) \in Nat /\ Cardinality(BusyWorkers) \in Nat
      BY BusyFinite DEF TypeInv, TypeOK
    <2>3. Len(tasks) = 0 /\ Cardinality(BusyWorkers) = 0
      BY <2>1, <2>2 DEF QuietInv, PendingCounted, SessionShare
    <2>4. BusyWorkers = {}
      BY <2>3, BusyFinite, FS_EmptySet
    <2>5. tasks = <<>>
      BY <2>3 DEF TypeInv, TypeOK
    <2>. QED
      BY <2>1, <2>4, <2>5 DEF QuietInv, Drained, Deserted, Out, BusyWorkers
  <1>. QED
    BY <1>1, <1>2, QuietRaw, JoinedStep, RTypeInit, RTypeStep, PTL DEF RSpec
---------------------------------------------------------------------------
(* What is proved of the pipeline alone still holds.                       *)

\* Neither freeList nor the end of the stream is among what the invariants of
\* JpegPipelineProofs relate.
LEMMA SafeRaw ==
    TypeInv /\ PoolType /\ SlotInv /\ QuietInv /\ OldInv /\ [RNext]_rawVars => SlotInv' /\ OldInv'
  <1>1. SlotInv /\ (ListMoves \/ StreamEnds) => SlotInv'
    BY DEF ListMoves, StreamEnds, downVars, workerVars, slotVars, readerVars, SlotInv, Owning, WSlot, Reads, Sends,
       OwnerMarked, OwnersApart, WriterAlone, ReadyIsWhole, ResultIsWhole, ReadyFrameIntact, SlotOf
  <1>2. OldInv /\ (ListMoves \/ StreamEnds) => OldInv'
    BY DEF ListMoves, StreamEnds, upVars, streamVars, sessVars, downVars, workerVars, slotVars,
       OldInv, Pushed, Numbered, OldAhead, ResultIsNew, NotReached, WSlot, SlotOf
  <1>. QED
    BY <1>1, <1>2, SlotStep, OldStep, RawSteps

\* Frames stay whole, no release is missed, old frames stay ahead and a cancelled session is
\* not stuck, also while the watchdog takes images, Free is called early, and the pools are
\* shut down.
THEOREM PoolKeepsPipelineSafe ==
    RSpec => /\ [](ReadyFrameIntact /\ DrainNeverStuck)
             /\ FinishedFrameWakes /\ OldFrameOnlyAhead
  <1>1. RInit => SlotInv /\ QuietInv /\ OldInv
    BY SlotInit, QuietInit, OldInit DEF RInit
  <1>2. SlotInv => ReadyFrameIntact
    BY DEF SlotInv
  <1>3. TypeInv /\ PoolType /\ SlotInv /\ [RNext]_rawVars
          => [\A r \in Readers :
                /\ rpc[r] \in {"parking", "waiting"} /\ rpc'[r] \in {"parking", "waiting"}
                /\ ~Finished(rnum[r])
                => ~Finished(rnum[r])']_vars
    <2>1. ListMoves \/ StreamEnds => MissesNothing
      BY DEF ListMoves, StreamEnds, downVars, slotVars, readerVars, MissesNothing, Finished, InPool,
         SlotOf
    <2>. QED
      BY <2>1, WakeStep, RawSteps DEF MissesNothing, StillAsleep
  <1>4. TypeInv /\ PoolType /\ OldInv /\ [RNext]_rawVars
          => [\A r \in Readers :
                /\ rpc[r] = "calling" /\ rpc'[r] = "reading" /\ rstat'[r] = "Ready"
                /\ content[SlotOf(rnum[r])].gen # gen
                => NotReached(rnum[r])]_vars
    <2>1. ListMoves \/ StreamEnds => GivenAhead
      BY DEF ListMoves, StreamEnds, downVars, readerVars, GivenAhead
    <2>. QED
      BY <2>1, GivenAheadStep, RawSteps DEF GivenAhead
  <1>. QED
    BY <1>1, <1>2, <1>3, <1>4, QuietGoesOn, RTypeInit, RTypeStep, QuietRaw, SafeRaw, PTL
       DEF RSpec, FinishedFrameWakes, OldFrameOnlyAhead
---------------------------------------------------------------------------
(* Every raw image is in one place: as a step moves one image, it has to   *)
(* be shown where that image was and where it is.                          *)

Holds(s, b) == \E i \in 1 .. Len(s) : s[i].buf = b
Distinct(s) == \A i, j \in 1 .. Len(s) : s[i].buf = s[j].buf => i = j

\* An image is sent to a channel.
LEMMA Appended ==
    ASSUME NEW s \in Seq(Frame), NEW f \in Frame
    PROVE  /\ \A b : Holds(Append(s, f), b) <=> Holds(s, b) \/ b = f.buf
           /\ Distinct(s) /\ ~Holds(s, f.buf) => Distinct(Append(s, f))
  <1>1. Len(Append(s, f)) = Len(s) + 1 /\ Len(s) \in Nat
    OBVIOUS
  <1>2. \A i \in 1 .. Len(s) : Append(s, f)[i] = s[i]
    OBVIOUS
  <1>3. Append(s, f)[Len(s) + 1] = f
    OBVIOUS
  <1>. QED
    BY <1>1, <1>2, <1>3 DEF Holds, Distinct

\* An image is taken from a channel.
LEMMA Removed ==
    ASSUME NEW s \in Seq(Frame), s # <<>>
    PROVE  /\ Head(s) \in Frame /\ Holds(s, Head(s).buf)
           /\ Distinct(s) => /\ \A b : Holds(Tail(s), b) <=> Holds(s, b) /\ b # Head(s).buf
                             /\ Distinct(Tail(s))
  <1>1. Len(s) \in Nat /\ Len(s) >= 1 /\ Len(Tail(s)) = Len(s) - 1
    OBVIOUS
  <1>2. \A i \in 1 .. Len(s) - 1 : Tail(s)[i] = s[i + 1]
    OBVIOUS
  <1>3. Head(s) = s[1] /\ s[1] \in Frame
    BY <1>1
  <1>4. Holds(s, Head(s).buf)
    BY <1>1, <1>3 DEF Holds
  <1>5. ASSUME Distinct(s), NEW b
        PROVE  Holds(Tail(s), b) <=> Holds(s, b) /\ b # Head(s).buf
    <2>1. ASSUME Holds(Tail(s), b) PROVE Holds(s, b) /\ b # Head(s).buf
      <3>1. PICK i \in 1 .. Len(s) - 1 : s[i + 1].buf = b
        BY <1>1, <1>2, <2>1 DEF Holds
      <3>2. i + 1 \in 1 .. Len(s) /\ 1 \in 1 .. Len(s) /\ i + 1 # 1
        BY <1>1
      <3>. QED
        BY <1>3, <1>5, <3>1, <3>2 DEF Holds, Distinct
    <2>2. ASSUME Holds(s, b), b # Head(s).buf PROVE Holds(Tail(s), b)
      <3>1. PICK i \in 1 .. Len(s) : s[i].buf = b
        BY <2>2 DEF Holds
      <3>2. i - 1 \in 1 .. Len(s) - 1 /\ (i - 1) + 1 = i
        BY <1>1, <1>3, <2>2, <3>1
      <3>3. Tail(s)[i - 1] = s[i]
        BY <1>2, <3>2
      <3>. QED
        BY <1>1, <3>1, <3>2, <3>3 DEF Holds
    <2>. QED
      BY <2>1, <2>2
  <1>6. ASSUME Distinct(s) PROVE Distinct(Tail(s))
    <2>. SUFFICES ASSUME NEW i \in 1 .. Len(s) - 1, NEW j \in 1 .. Len(s) - 1,
                         s[i + 1].buf = s[j + 1].buf
                  PROVE  i = j
      BY <1>1, <1>2 DEF Distinct
    <2>1. i + 1 \in 1 .. Len(s) /\ j + 1 \in 1 .. Len(s)
      BY <1>1
    <2>2. i + 1 = j + 1
      BY <1>6, <2>1 DEF Distinct
    <2>. QED
      BY <2>2
  <1>. QED
    BY <1>3, <1>4, <1>5, <1>6

Places == {"free", "stream", "frames", "session", "tasks", "worker", "watchdog", "freed"}

At(k, b) ==
    \/ k = "free" /\ b \in freeList
    \/ k = "stream" /\ b = streamBuf
    \/ k = "frames" /\ Holds(frames, b)
    \/ k = "session" /\ b = sessTask.buf
    \/ k = "tasks" /\ Holds(tasks, b)
    \/ k = "worker" /\ \E w \in Workers : wtask[w].buf = b
    \/ k = "watchdog" /\ b = wdBuf
    \/ k = "freed" /\ b \in freed

OnePlace == \A b \in Buffers : \E k \in Places : \A j \in Places : At(j, b) <=> j = k

\* Two workers never have the same image; whoever need not have one has none.
WorkersApart ==
    \A v, w \in Workers : wtask[v].buf = wtask[w].buf /\ wtask[v].buf \in Buffers => v = w
EmptyHanded ==
    /\ streamPc # "source" => streamBuf = NoBuffer
    /\ sessPc # "push" => sessTask = NoFrame
    /\ \A w \in Workers : wpc[w] \in {"idle", "done"} => wtask[w] = NoFrame

HolderInv == OnePlace /\ Distinct(frames) /\ Distinct(tasks) /\ WorkersApart /\ EmptyHanded

\* An image that moves is in one place, if it is where it has moved to and nowhere else.
LEMMA Moved ==
    ASSUME NEW c, NEW k \in Places, OnePlace, \A j \in Places : At(j, c)' <=> j = k,
           \A b \in Buffers : b # c => \A j \in Places : At(j, b)' <=> At(j, b)
    PROVE  OnePlace'
  <1>. SUFFICES ASSUME NEW b \in Buffers
                PROVE  \E i \in Places : \A j \in Places : At(j, b)' <=> j = i
    BY DEF OnePlace
  <1>1. CASE b = c
    BY <1>1
  <1>2. CASE b # c
    BY <1>2 DEF OnePlace
  <1>. QED
    BY <1>1, <1>2

\* An image that is in one place is in no other.
LEMMA InOnePlace ==
    ASSUME NEW c \in Buffers, NEW k \in Places, OnePlace, At(k, c)
    PROVE  \A j \in Places : At(j, c) <=> j = k
  BY DEF OnePlace

\* All images are in freeList.
LEMMA HolderInit == RInit => HolderInv
  <1>. SUFFICES ASSUME RInit PROVE HolderInv
    OBVIOUS
  <1>1. NoBuffer \notin Buffers /\ NoFrame.buf = NoBuffer
    BY PipelineAssumption DEF NoFrame
  <1>2. \A b : ~Holds(<<>>, b)
    BY DEF Holds
  <1>3. Distinct(<<>>)
    BY DEF Distinct
  <1>4. ASSUME NEW b \in Buffers PROVE \A j \in Places : At(j, b) <=> j = "free"
    BY <1>1, <1>2 DEF RInit, Init, At
  <1>5. OnePlace
    BY <1>4 DEF OnePlace, Places
  <1>. QED
    BY <1>1, <1>3, <1>5 DEF RInit, Init, HolderInv, WorkersApart, EmptyHanded

held == <<freeList, streamBuf, frames, sessTask, tasks, wtask, wdBuf, freed>>

\* The steps that move no image.
LEMMA HolderSame ==
    ASSUME HolderInv, UNCHANGED held, EmptyHanded' PROVE HolderInv'
  BY DEF held, HolderInv, OnePlace, At, WorkersApart

\* The stream and the session.
LEMMA HolderFront ==
    ASSUME TypeInv, PoolType, QuietInv, HolderInv, UNCHANGED poolVars,
           \/ StartSession \/ CancelSession \/ JoinSession
           \/ StreamAcquire \/ StreamQuit \/ StreamDeliver \/ StreamFail
           \/ SessionRecv \/ SessionPush \/ SessionStop \/ SessionNotify
    PROVE  HolderInv'
  <1>. USE DEF upVars, downVars
  <1>t. /\ frames \in Seq(Frame) /\ tasks \in Seq(Frame) /\ frameNumber \in 1 .. MaxFrame + 1
        /\ NoBuffer \notin Buffers /\ NoFrame.buf = NoBuffer
        /\ wdBuf' = wdBuf /\ freed' = freed
    BY PipelineAssumption DEF TypeInv, TypeOK, NoFrame, poolVars
  <1>1. CASE StartSession \/ CancelSession \/ JoinSession \/ StreamQuit \/ SessionStop \/ SessionNotify
    <2>1. UNCHANGED held
      BY <1>t, <1>1 DEF held, StartSession, CancelSession, CancelContext, JoinSession, StreamQuit,
         SessionStop, SessionNotify, streamVars, workerVars, sessVars
    <2>2. CASE StartSession
      <3>1. streamBuf = NoBuffer /\ sessTask = NoFrame
        BY <2>2 DEF StartSession, QuietInv, Drained, HolderInv, EmptyHanded
      <3>2. EmptyHanded'
        BY <2>2, <3>1 DEF StartSession, HolderInv, EmptyHanded, workerVars
      <3>. QED
        BY <2>1, <3>2, HolderSame
    <2>3. CASE CancelSession \/ JoinSession \/ StreamQuit \/ SessionStop \/ SessionNotify
      <3>1. EmptyHanded'
        BY <2>3, JoinedIsOver DEF HolderInv, EmptyHanded, CancelSession, CancelContext, JoinSession, StreamQuit,
           SessionStop, SessionNotify, streamVars, workerVars, sessVars
      <3>. QED
        BY <2>1, <3>1, HolderSame
    <2>. QED
      BY <1>1, <2>2, <2>3
  <1>2. CASE StreamAcquire
    <2>1. PICK c \in freeList : freeList' = freeList \ {c} /\ streamBuf' = c
      BY <1>2 DEF StreamAcquire
    <2>2. UNCHANGED <<frames, sessPc, sessTask, tasks, wpc, wtask>> /\ streamPc' = "source"
      BY <1>2 DEF StreamAcquire, sessVars, workerVars
    <2>3. c \in Buffers /\ streamBuf = NoBuffer
      BY <1>2, <2>1 DEF StreamAcquire, HolderInv, EmptyHanded, TypeInv, TypeOK
    <2>4. \A j \in Places : At(j, c) <=> j = "free"
      BY <2>1, <2>3, InOnePlace DEF HolderInv, At, Places
    <2>5. \A j \in Places : At(j, c)' <=> j = "stream"
      BY <1>t, <2>1, <2>2, <2>4 DEF At, Places
    <2>6. \A b \in Buffers : b # c => \A j \in Places : At(j, b)' <=> At(j, b)
      BY <1>t, <2>1, <2>2, <2>3 DEF At, Places
    <2>7. OnePlace'
      BY <2>5, <2>6, Moved DEF HolderInv, Places
    <2>. QED
      BY <2>2, <2>7 DEF HolderInv, WorkersApart, EmptyHanded
  <1>3. CASE StreamDeliver
    <2>0. PICK c \in Buffers : c = streamBuf
      BY <1>3 DEF StreamDeliver, TypeInv, Carried
    <2>. DEFINE f == [num |-> frameNumber, buf |-> streamBuf]
    <2>1. /\ frames' = Append(frames, f) /\ streamBuf' = NoBuffer /\ streamPc' = "acquire"
          /\ UNCHANGED <<freeList, sessPc, sessTask, tasks, wpc, wtask>>
      BY <1>3 DEF StreamDeliver, sessVars, workerVars
    <2>2. f \in Frame
      BY <1>t, <1>3, <2>0, Bounds DEF StreamDeliver, Frame
    <2>3. \A j \in Places : At(j, c) <=> j = "stream"
      BY <2>0, InOnePlace DEF HolderInv, At, Places
    <2>4. ~Holds(frames, c) /\ f.buf = c
      BY <2>0, <2>3 DEF At, Places
    <2>5. (\A b : Holds(frames', b) <=> Holds(frames, b) \/ b = c) /\ Distinct(frames')
      BY <1>t, <2>0, <2>1, <2>2, <2>4, Appended DEF HolderInv
    <2>. HIDE DEF f
    <2>6. \A j \in Places : At(j, c)' <=> j = "frames"
      BY <1>t, <2>1, <2>3, <2>5 DEF At, Places
    <2>7. \A b \in Buffers : b # c => \A j \in Places : At(j, b)' <=> At(j, b)
      BY <1>t, <2>0, <2>1, <2>5 DEF At, Places
    <2>8. OnePlace'
      BY <2>6, <2>7, Moved DEF HolderInv, Places
    <2>. QED
      BY <2>1, <2>5, <2>8 DEF HolderInv, WorkersApart, EmptyHanded
  <1>4. CASE StreamFail
    <2>0. PICK c \in Buffers : c = streamBuf
      BY <1>4 DEF StreamFail, TypeInv, Carried
    <2>1. /\ freeList' = freeList \union {c} /\ streamBuf' = NoBuffer /\ streamPc' = "off"
          /\ UNCHANGED <<frames, sessPc, sessTask, tasks, wpc, wtask>>
      BY <1>4, <2>0 DEF StreamFail, Returned, sessVars, workerVars
    <2>3. \A j \in Places : At(j, c) <=> j = "stream"
      BY <2>0, InOnePlace DEF HolderInv, At, Places
    <2>4. \A j \in Places : At(j, c)' <=> j = "free"
      BY <1>t, <2>1, <2>3 DEF At, Places
    <2>5. \A b \in Buffers : b # c => \A j \in Places : At(j, b)' <=> At(j, b)
      BY <1>t, <2>0, <2>1 DEF At, Places
    <2>6. OnePlace'
      BY <2>4, <2>5, Moved DEF HolderInv, Places
    <2>. QED
      BY <2>1, <2>6 DEF HolderInv, WorkersApart, EmptyHanded
  <1>5. CASE SessionRecv
    <2>0. frames # <<>> /\ Head(frames) \in Frame
      BY <1>t, <1>5, Removed DEF SessionRecv
    <2>c. PICK c \in Buffers : c = Head(frames).buf
      BY <2>0 DEF Frame
    <2>1. /\ frames # <<>> /\ frames' = Tail(frames) /\ sessTask' = Head(frames) /\ sessPc' = "push"
          /\ UNCHANGED <<freeList, streamPc, streamBuf, tasks, wpc, wtask>> /\ sessTask = NoFrame
      BY <1>5 DEF SessionRecv, workerVars, HolderInv, EmptyHanded
    <2>2. /\ Holds(frames, c) /\ Distinct(frames')
          /\ \A b : Holds(frames', b) <=> Holds(frames, b) /\ b # c
      BY <1>t, <2>c, <2>1, Removed DEF HolderInv
    <2>3. \A j \in Places : At(j, c) <=> j = "frames"
      BY <2>2, InOnePlace DEF HolderInv, At, Places
    <2>4. sessTask'.buf = c
      BY <2>c, <2>1
    <2>5. \A j \in Places : At(j, c)' <=> j = "session"
      BY <1>t, <2>1, <2>2, <2>3, <2>4 DEF At, Places
    <2>6. \A b \in Buffers : b # c => \A j \in Places : At(j, b)' <=> At(j, b)
      BY <1>t, <2>1, <2>2, <2>4 DEF At, Places
    <2>7. OnePlace'
      BY <2>5, <2>6, Moved DEF HolderInv, Places
    <2>. QED
      BY <2>1, <2>2, <2>7 DEF HolderInv, WorkersApart, EmptyHanded
  <1>6. CASE SessionPush
    <2>0. sessTask \in Frame
      BY <1>6 DEF SessionPush, TypeInv, Carried
    <2>c. PICK c \in Buffers : c = sessTask.buf
      BY <2>0 DEF Frame
    <2>1. /\ tasks' = Append(tasks, sessTask) /\ sessTask' = NoFrame /\ sessPc' = "recv"
          /\ UNCHANGED <<freeList, streamPc, streamBuf, frames, wpc, wtask>>
      BY <1>6 DEF SessionPush, streamVars, workerVars
    <2>3. \A j \in Places : At(j, c) <=> j = "session"
      BY <2>c, InOnePlace DEF HolderInv, At, Places
    <2>4. ~Holds(tasks, c)
      BY <2>3 DEF At, Places
    <2>5. (\A b : Holds(tasks', b) <=> Holds(tasks, b) \/ b = c) /\ Distinct(tasks')
      BY <1>t, <2>0, <2>c, <2>1, <2>4, Appended DEF HolderInv
    <2>6. \A j \in Places : At(j, c)' <=> j = "tasks"
      BY <1>t, <2>1, <2>3, <2>5 DEF At, Places
    <2>7. \A b \in Buffers : b # c => \A j \in Places : At(j, b)' <=> At(j, b)
      BY <1>t, <2>c, <2>1, <2>5 DEF At, Places
    <2>8. OnePlace'
      BY <2>6, <2>7, Moved DEF HolderInv, Places
    <2>. QED
      BY <2>1, <2>5, <2>8 DEF HolderInv, WorkersApart, EmptyHanded
  <1>. QED
    BY <1>1, <1>2, <1>3, <1>4, <1>5, <1>6

\* The workers.
LEMMA HolderWorker ==
    ASSUME TypeInv, PoolType, HolderInv, UNCHANGED poolVars, NEW w \in Workers, Worker(w)
    PROVE  HolderInv'
  <1>. USE DEF upVars
  <1>t. /\ tasks \in Seq(Frame) /\ NoBuffer \notin Buffers /\ NoFrame.buf = NoBuffer
        /\ wdBuf' = wdBuf /\ freed' = freed /\ DOMAIN wpc = Workers /\ DOMAIN wtask = Workers
    BY PipelineAssumption DEF TypeInv, TypeOK, NoFrame, poolVars
  <1>1. CASE WorkerTake(w)
    <2>0. tasks # <<>> /\ Head(tasks) \in Frame
      BY <1>t, <1>1, Removed DEF WorkerTake
    <2>c. PICK c \in Buffers : c = Head(tasks).buf
      BY <2>0 DEF Frame
    <2>1. /\ tasks' = Tail(tasks) /\ wtask' = [wtask EXCEPT ![w] = Head(tasks)]
          /\ wpc' = [wpc EXCEPT ![w] = "hold"] /\ wtask[w] = NoFrame
          /\ UNCHANGED <<freeList, streamPc, streamBuf, frames, sessPc, sessTask>>
      BY <1>1 DEF WorkerTake, HolderInv, EmptyHanded, streamVars, sessVars
    <2>2. /\ Holds(tasks, c) /\ Distinct(tasks')
          /\ \A b : Holds(tasks', b) <=> Holds(tasks, b) /\ b # c
      BY <1>t, <2>0, <2>c, <2>1, Removed DEF HolderInv
    <2>3. \A j \in Places : At(j, c) <=> j = "tasks"
      BY <2>2, InOnePlace DEF HolderInv, At, Places
    <2>4. wtask'[w].buf = c /\ \A v \in Workers : v # w => wtask'[v] = wtask[v]
      BY <1>t, <2>c, <2>1
    <2>5. \A j \in Places : At(j, c)' <=> j = "worker"
      BY <1>t, <2>1, <2>2, <2>3, <2>4 DEF At, Places
    <2>6. \A b \in Buffers : b # c => \A j \in Places : At(j, b)' <=> At(j, b)
      BY <1>t, <2>1, <2>2, <2>4 DEF At, Places
    <2>7. OnePlace'
      BY <2>5, <2>6, Moved DEF HolderInv, Places
    <2>8. \A v \in Workers : wtask[v].buf # c
      BY <2>3 DEF At, Places
    <2>9. WorkersApart'
      BY <2>4, <2>8 DEF HolderInv, WorkersApart
    <2>10. EmptyHanded'
      BY <1>t, <2>1 DEF HolderInv, EmptyHanded
    <2>. QED
      BY <2>1, <2>2, <2>7, <2>9, <2>10 DEF HolderInv
  <1>2. CASE WorkerReturn(w)
    <2>0. wtask[w].buf \in Buffers
      BY <1>2 DEF WorkerReturn, TypeInv, Carried, Frame
    <2>c. PICK c \in Buffers : c = wtask[w].buf
      BY <2>0
    <2>1. /\ freeList' = freeList \union {c} /\ wtask' = [wtask EXCEPT ![w] = NoFrame]
          /\ wpc' = [wpc EXCEPT ![w] = "done"]
          /\ UNCHANGED <<tasks, streamPc, streamBuf, frames, sessPc, sessTask>>
      BY <1>2, <2>c DEF WorkerReturn, Returned, streamVars, sessVars
    <2>2. wtask'[w].buf = NoBuffer /\ \A v \in Workers : v # w => wtask'[v] = wtask[v]
      BY <1>t, <2>1
    <2>3. \A j \in Places : At(j, c) <=> j = "worker"
      BY <2>c, InOnePlace DEF HolderInv, At, Places
    <2>4. \A v \in Workers : wtask'[v].buf # c
      BY <1>t, <2>c, <2>2 DEF HolderInv, WorkersApart
    <2>5. \A j \in Places : At(j, c)' <=> j = "free"
      BY <1>t, <2>1, <2>3, <2>4 DEF At, Places
    <2>6. \A b \in Buffers : b # c => \A j \in Places : At(j, b)' <=> At(j, b)
      BY <1>t, <2>c, <2>1, <2>2 DEF At, Places
    <2>7. OnePlace'
      BY <2>5, <2>6, Moved DEF HolderInv, Places
    <2>8. WorkersApart'
      BY <1>t, <2>2 DEF HolderInv, WorkersApart
    <2>9. EmptyHanded'
      BY <1>t, <2>1 DEF HolderInv, EmptyHanded
    <2>. QED
      BY <2>1, <2>7, <2>8, <2>9 DEF HolderInv
  <1>3. CASE \/ Hold(w) \/ WorkerAvail(w) \/ WorkerStuck(w) \/ WorkerCompress(w)
             \/ WorkerRelease(w) \/ WorkerDone(w)
    <2>1. UNCHANGED held
      BY <1>t, <1>3 DEF held, Hold, WorkerHold, WorkerBusy, WorkerAvail, WorkerStuck, WorkerCompress,
         WorkerRelease, WorkerDone, streamVars, sessVars
    <2>2. EmptyHanded'
      BY <1>t, <1>3 DEF HolderInv, EmptyHanded, Hold, WorkerHold, WorkerBusy, WorkerAvail,
         WorkerStuck, WorkerCompress, WorkerRelease, WorkerDone, streamVars, sessVars
    <2>. QED
      BY <2>1, <2>2, HolderSame
  <1>. QED
    BY <1>1, <1>2, <1>3 DEF Worker

\* The watchdog and Free.
LEMMA HolderPool ==
    ASSUME TypeInv, PoolType, HolderInv, WatchdogTake \/ WatchdogReturn \/ FreeTake
    PROVE  HolderInv'
  <1>t. /\ NoBuffer \notin Buffers /\ freeList \subseteq Buffers
        /\ UNCHANGED <<streamPc, streamBuf, frames, sessPc, sessTask, tasks, wpc, wtask>>
    BY PipelineAssumption DEF TypeInv, TypeOK, WatchdogTake, WatchdogReturn, FreeTake, upVars,
       downVars, streamVars, sessVars, workerVars
  <1>1. OnePlace'
    <2>1. CASE WatchdogTake
      <3>1. PICK c \in freeList : freeList' = freeList \ {c} /\ wdBuf' = c
        BY <2>1 DEF WatchdogTake
      <3>2. c \in Buffers /\ wdBuf = NoBuffer /\ freed' = freed
        BY <1>t, <2>1, <3>1 DEF WatchdogTake, PoolType
      <3>3. \A j \in Places : At(j, c) <=> j = "free"
        BY <3>1, <3>2, InOnePlace DEF HolderInv, At, Places
      <3>4. \A j \in Places : At(j, c)' <=> j = "watchdog"
        BY <1>t, <3>1, <3>2, <3>3 DEF At, Places
      <3>5. \A b \in Buffers : b # c => \A j \in Places : At(j, b)' <=> At(j, b)
        BY <1>t, <3>1, <3>2 DEF At, Places
      <3>. QED
        BY <3>4, <3>5, Moved DEF HolderInv, Places
    <2>2. CASE WatchdogReturn
      <3>c. PICK c \in Buffers : c = wdBuf
        BY <2>2 DEF WatchdogReturn, PoolType
      <3>1. freeList' = freeList \union {c} /\ wdBuf' = NoBuffer /\ freed' = freed
        BY <2>2, <3>c DEF WatchdogReturn, Returned
      <3>3. \A j \in Places : At(j, c) <=> j = "watchdog"
        BY <3>c, InOnePlace DEF HolderInv, At, Places
      <3>4. \A j \in Places : At(j, c)' <=> j = "free"
        BY <1>t, <3>1, <3>3 DEF At, Places
      <3>5. \A b \in Buffers : b # c => \A j \in Places : At(j, b)' <=> At(j, b)
        BY <1>t, <3>c, <3>1 DEF At, Places
      <3>. QED
        BY <3>4, <3>5, Moved DEF HolderInv, Places
    <2>3. CASE FreeTake
      <3>1. PICK c \in freeList : freeList' = freeList \ {c} /\ freed' = freed \union {c}
        BY <2>3 DEF FreeTake
      <3>2. c \in Buffers /\ wdBuf' = wdBuf
        BY <1>t, <2>3, <3>1 DEF FreeTake
      <3>3. \A j \in Places : At(j, c) <=> j = "free"
        BY <3>1, <3>2, InOnePlace DEF HolderInv, At, Places
      <3>4. \A j \in Places : At(j, c)' <=> j = "freed"
        BY <1>t, <3>1, <3>2, <3>3 DEF At, Places
      <3>5. \A b \in Buffers : b # c => \A j \in Places : At(j, b)' <=> At(j, b)
        BY <1>t, <3>1, <3>2 DEF At, Places
      <3>. QED
        BY <3>4, <3>5, Moved DEF HolderInv, Places
    <2>. QED
      BY <2>1, <2>2, <2>3
  <1>. QED
    BY <1>t, <1>1 DEF HolderInv, WorkersApart, EmptyHanded

\* Every step moves at most one image.
LEMMA HolderStep ==
    TypeInv /\ PoolType /\ QuietInv /\ HolderInv /\ [RNext]_rawVars => HolderInv'
  <1>. SUFFICES ASSUME TypeInv, PoolType, QuietInv, HolderInv, [RNext]_rawVars PROVE HolderInv'
    OBVIOUS
  <1>1. CASE PipelineStep
    <2>. UNCHANGED poolVars
      BY <1>1 DEF PipelineStep
    <2>1. ASSUME NEW r \in Readers,
                 \/ ReaderCall(r) \/ NextNil(r) \/ NextFrame(r) \/ NextPark(r) \/ NextWait(r)
                 \/ ReaderLeave(r) \/ ReaderSkip(r) \/ ReaderHands(r) \/ SendDone(r)
          PROVE  HolderInv'
      <3>1. UNCHANGED <<held, pipeVars>>
        BY <2>1 DEF ReaderCall, CallNext, NextNil, NextFrame, NextPark, NextWait, ReaderLeave,
           ReaderSkip, ReaderHands, SendDone, AsksFor, held, pipeVars, upVars, streamVars, sessVars, workerVars, poolVars
      <3>2. EmptyHanded'
        BY <3>1 DEF pipeVars, upVars, streamVars, sessVars, workerVars, HolderInv, EmptyHanded
      <3>. QED
        BY <3>1, <3>2, HolderSame
    <2>. QED
      BY <1>1, <2>1, HolderFront, HolderWorker DEF PipelineStep, Next, Reader
  <1>2. CASE WatchdogTake \/ WatchdogReturn \/ FreeTake
    BY <1>2, HolderPool
  <1>3. CASE \/ StreamClosed \/ WatchdogGone \/ PipelineJoin \/ FarmStop \/ FreeCall \/ FreeClose
             \/ UNCHANGED rawVars
    <2>1. UNCHANGED held
      BY <1>3 DEF StreamClosed, WatchdogGone, PipelineJoin, FarmStop, FreeCall, FreeClose, rawVars,
         vars, poolVars, held, streamVars, sessVars, downVars, workerVars
    <2>2. EmptyHanded'
      BY <1>3 DEF StreamClosed, WatchdogGone, PipelineJoin, FarmStop, FreeCall, FreeClose, rawVars,
         vars, HolderInv, EmptyHanded, streamVars, sessVars, downVars, workerVars
    <2>. QED
      BY <2>1, <2>2, HolderSame
  <1>. QED
    BY <1>1, <1>2, <1>3 DEF RNext

\* What one place means for the list of holders.
LEMMA OneHolder == TypeInv /\ HolderInv => RawImageHasOneHolder
  <1>. SUFFICES ASSUME TypeInv, HolderInv, NEW b \in Buffers PROVE Cardinality(RawHolders(b)) = 1
    BY DEF RawImageHasOneHolder
  <1>. DEFINE InFrames == {j \in DOMAIN frames : frames[j].buf = b}
  <1>. DEFINE InTasks == {j \in DOMAIN tasks : tasks[j].buf = b}
  <1>. DEFINE InWorkers == {v \in Workers : wtask[v].buf = b}
  <1>1. PICK k \in Places : \A j \in Places : At(j, b) <=> j = k
    BY DEF HolderInv, OnePlace
  <1>2. /\ b \in freeList <=> k = "free"
        /\ b = streamBuf <=> k = "stream"
        /\ b = sessTask.buf <=> k = "session"
        /\ b = wdBuf <=> k = "watchdog"
        /\ b \in freed <=> k = "freed"
    BY <1>1 DEF At, Places
  <1>3. Holds(frames, b) <=> k = "frames"
    BY <1>1 DEF At, Places
  <1>4. Holds(tasks, b) <=> k = "tasks"
    BY <1>1 DEF At, Places
  <1>5. (\E w \in Workers : wtask[w].buf = b) <=> k = "worker"
    BY <1>1 DEF At, Places
  <1>6. IF k = "frames" THEN \E i : InFrames = {i} ELSE InFrames = {}
    <2>1. DOMAIN frames = 1 .. Len(frames)
      BY DEF TypeInv, TypeOK
    <2>2. ASSUME NEW i \in 1 .. Len(frames), frames[i].buf = b PROVE InFrames = {i}
      BY <2>1, <2>2 DEF HolderInv, Distinct
    <2>. QED
      BY <1>3, <2>1, <2>2 DEF Holds
  <1>7. IF k = "tasks" THEN \E i : InTasks = {i} ELSE InTasks = {}
    <2>1. DOMAIN tasks = 1 .. Len(tasks)
      BY DEF TypeInv, TypeOK
    <2>2. ASSUME NEW i \in 1 .. Len(tasks), tasks[i].buf = b PROVE InTasks = {i}
      BY <2>1, <2>2 DEF HolderInv, Distinct
    <2>. QED
      BY <1>4, <2>1, <2>2 DEF Holds
  <1>8. IF k = "worker" THEN \E w : InWorkers = {w} ELSE InWorkers = {}
    BY <1>5 DEF HolderInv, WorkersApart
  <1>9. RawHolders(b) =
            (IF k = "free" THEN {<<"freeList", 0>>} ELSE {})
            \union (IF k = "stream" THEN {<<"stream", 0>>} ELSE {})
            \union {<<"frames", i>> : i \in InFrames}
            \union (IF k = "session" THEN {<<"session", 0>>} ELSE {})
            \union {<<"tasks", i>> : i \in InTasks}
            \union {<<"worker", w>> : w \in InWorkers}
            \union (IF k = "watchdog" THEN {<<"watchdog", 0>>} ELSE {})
            \union (IF k = "freed" THEN {<<"freed", 0>>} ELSE {})
    BY <1>2 DEF RawHolders, Holders
  <1>. HIDE DEF InFrames, InTasks, InWorkers
  <1>10. \E x : RawHolders(b) = {x}
    <2>1. CASE k = "frames"
      <3>1. PICK i : InFrames = {i}
        BY <1>6, <2>1
      <3>2. RawHolders(b) = {<<"frames", i>>}
        BY <1>7, <1>8, <1>9, <2>1, <3>1
      <3>. QED
        BY <3>2
    <2>2. CASE k = "tasks"
      <3>1. PICK i : InTasks = {i}
        BY <1>7, <2>2
      <3>2. RawHolders(b) = {<<"tasks", i>>}
        BY <1>6, <1>8, <1>9, <2>2, <3>1
      <3>. QED
        BY <3>2
    <2>3. CASE k = "worker"
      <3>1. PICK w : InWorkers = {w}
        BY <1>8, <2>3
      <3>2. RawHolders(b) = {<<"worker", w>>}
        BY <1>6, <1>7, <1>9, <2>3, <3>1
      <3>. QED
        BY <3>2
    <2>4. CASE k \notin {"frames", "tasks", "worker"}
      <3>1. RawHolders(b) = {<<IF k = "free" THEN "freeList" ELSE k, 0>>}
        BY <1>6, <1>7, <1>8, <1>9, <2>4 DEF Places
      <3>. QED
        BY <3>1
    <2>. QED
      BY <2>1, <2>2, <2>3, <2>4
  <1>. QED
    BY <1>10, FS_Singleton

\* No raw image is lost, shared, or used after it was freed.
THEOREM ImagesHaveOneHolder == RSpec => []RawImageHasOneHolder
  <1>1. RInit => QuietInv
    BY QuietInit DEF RInit
  <1>. QED
    BY <1>1, HolderInit, HolderStep, OneHolder, QuietRaw, RTypeInit, RTypeStep, PTL DEF RSpec
---------------------------------------------------------------------------
(* The WaitGroup of a compressed frame.  As long as a worker waits for its *)
(* goroutine the slot is its own, so nobody new is counted in the group.   *)

\* A step of FrameGroup is one of the pipeline, or one of a waiting goroutine that the
\* pipeline does not see.
LEMMA GroupSteps == [GNext]_groupVars => [Next]_vars
  <1>. SUFFICES ASSUME [GNext]_groupVars PROVE [Next]_vars
    OBVIOUS
  <1>1. ASSUME NEW w \in Workers, GroupHold(w) \/ GroupAvail(w) \/ GroupStuck(w) PROVE Next
    BY <1>1 DEF GroupHold, GroupAvail, GroupStuck, Next, Worker
  <1>2. ASSUME NEW r \in Readers, GroupDone(r) PROVE Next
    BY <1>2 DEF GroupDone, Next, Reader
  <1>3. CASE Elsewhere
    BY <1>3 DEF Elsewhere, Next, Worker, Reader
  <1>4. CASE \/ \E w \in Workers : AvailStart(w)
             \/ \E g \in Waiters : WaitStart(g) \/ WaitReturn(g)
             \/ UNCHANGED groupVars
    BY <1>4 DEF AvailStart, WaitStart, WaitReturn, groupVars
  <1>. QED
    BY <1>1, <1>2, <1>3, <1>4 DEF GNext

\* What is proved of the pipeline holds with the groups in it.
LEMMA GroupImplementsPipeline == GSpec => Spec
  <1>1. GInit => Init
    BY DEF GInit
  <1>. QED
    BY <1>1, GroupSteps, PTL DEF GSpec, Spec

\* A worker selects from the channel of a goroutine of its own, which waits in the group of
\* the worker's slot.
WaitersApart ==
    /\ waiter \in [Waiters -> [pc : {"over", "start", "parked", "woken"}, slot : Slots]]
    /\ mine \in [Workers -> Waiters \union {NoWaiter}]
    /\ \A w \in Workers : mine[w] \in Waiters =>
        /\ wpc[w] = "avail"
        /\ waiter[mine[w]].pc # "start" /\ waiter[mine[w]].slot = WSlot(w)
    /\ \A v, w \in Workers : mine[v] = mine[w] /\ mine[v] \in Waiters => v = w

\* When that goroutine has seen the count at zero nobody reads the slot, and nobody will
\* until the worker has released it: the channel it closes tells available the truth,
\* however much later the worker looks.
WaitMeansFree ==
    \A w \in Workers :
        mine[w] \in Waiters /\ waiter[mine[w]].pc # "parked" => ReadersOf(WSlot(w)) = {}

\* A goroutine stays in Wait only as long as somebody reads the slot: Done misses nobody.
ParkedHasReaders == \A g \in Waiters : waiter[g].pc = "parked" => ReadersOf(waiter[g].slot) # {}

GroupInv == WaitersApart /\ WaitMeansFree /\ ParkedHasReaders

\* Nobody waits before the first frame.
LEMMA GroupInit == ASSUME NoWaiter \notin Waiters PROVE GInit => GroupInv
  <1>1. SlotOf(0) \in Slots /\ JpegPoolSize \in Nat
    BY SlotType, PipelineAssumption
  <1>2. 0 \in Slots
    BY <1>1 DEF Slots
  <1>. QED
    BY <1>2 DEF GInit, GroupInv, WaitersApart, WaitMeansFree, ParkedHasReaders

\* The steps that leave the groups alone add a reader at most, and not to a slot that a
\* worker owns.
LEMMA ReadersElsewhere ==
    ASSUME TypeInv, SlotInv, Elsewhere
    PROVE  /\ \A s : ReadersOf(s) \subseteq ReadersOf(s)'
           /\ \A w \in Workers : \A s : Owning(w) /\ s = WSlot(w) => ReadersOf(s)' = ReadersOf(s)
           /\ \A w \in Workers : wpc[w] = "avail" => wpc'[w] = "avail" /\ wtask'[w] = wtask[w]
  <1>. USE DEF ReadersOf, Reads, Sends, Owning, WSlot, upVars, downVars, pipeVars, readerVars, workerVars, slotVars
  <1>t. /\ wpc \in [Workers -> {"idle", "hold", "avail", "compress", "release", "return", "done"}]
        /\ DOMAIN wtask = Workers /\ DOMAIN rpc = Readers /\ DOMAIN rnum = Readers
        /\ DOMAIN sending = Readers /\ \A r \in Readers : rnum[r] # 0
    BY DEF TypeInv, TypeOK
  <1>1. ASSUME UNCHANGED <<rnum, sending, wpc, wtask>>,
               \A r \in Readers : rpc'[r] = "reading" <=> rpc[r] = "reading"
        PROVE  /\ \A s : ReadersOf(s) \subseteq ReadersOf(s)'
               /\ \A w \in Workers : \A s : Owning(w) /\ s = WSlot(w) => ReadersOf(s)' = ReadersOf(s)
               /\ \A w \in Workers : wpc[w] = "avail" => wpc'[w] = "avail" /\ wtask'[w] = wtask[w]
    BY <1>1
  <1>2. CASE \/ StartSession \/ CancelSession \/ JoinSession
             \/ StreamAcquire \/ StreamQuit \/ StreamDeliver \/ StreamFail
             \/ SessionRecv \/ SessionPush \/ SessionStop \/ SessionNotify
    <2>1. UNCHANGED <<rnum, sending, wpc, wtask>>
      BY <1>2 DEF StartSession, CancelSession, CancelContext, JoinSession, StreamAcquire, StreamQuit,
         StreamDeliver, StreamFail, SessionRecv, SessionPush, SessionStop, SessionNotify
    <2>2. rpc' = rpc \/ rpc' = Woken
      BY <1>2 DEF StartSession, CancelSession, CancelContext, JoinSession, StreamAcquire, StreamQuit,
         StreamDeliver, StreamFail, SessionRecv, SessionPush, SessionStop, SessionNotify
    <2>. QED
      BY <1>1, <2>1, <2>2 DEF Woken
  <1>3. ASSUME NEW v \in Workers,
               \/ WorkerTake(v) \/ (Hold(v) /\ SlotBusy(v)) \/ WorkerCompress(v)
               \/ WorkerRelease(v) \/ WorkerReturn(v) \/ WorkerDone(v)
        PROVE  /\ \A s : ReadersOf(s) \subseteq ReadersOf(s)'
               /\ \A w \in Workers : \A s : Owning(w) /\ s = WSlot(w) => ReadersOf(s)' = ReadersOf(s)
               /\ \A w \in Workers : wpc[w] = "avail" => wpc'[w] = "avail" /\ wtask'[w] = wtask[w]
    <2>1. \A w \in Workers : wpc[w] = "avail" => wpc'[w] = "avail" /\ wtask'[w] = wtask[w]
      BY <1>t, <1>3 DEF WorkerTake, Hold, WorkerBusy, WorkerCompress, WorkerRelease, WorkerReturn,
         WorkerDone
    <2>2. UNCHANGED <<rnum, sending>> /\ (rpc' = rpc \/ rpc' = Woken)
      BY <1>3 DEF WorkerTake, Hold, WorkerBusy, WorkerCompress, WorkerRelease, WorkerReturn,
         WorkerDone
    <2>3. \A s : ReadersOf(s)' = ReadersOf(s)
      BY <2>2 DEF Woken
    <2>. QED
      BY <2>1, <2>3
  <1>4. ASSUME NEW r \in Readers, NextFrame(r)
        PROVE  /\ \A s : ReadersOf(s) \subseteq ReadersOf(s)'
               /\ \A w \in Workers : \A s : Owning(w) /\ s = WSlot(w) => ReadersOf(s)' = ReadersOf(s)
               /\ \A w \in Workers : wpc[w] = "avail" => wpc'[w] = "avail" /\ wtask'[w] = wtask[w]
    <2>1. UNCHANGED <<rnum, sending, wpc, wtask>> /\ rpc' = [rpc EXCEPT ![r] = "reading"]
          /\ status[SlotOf(rnum[r])] # "Compressing" /\ rpc[r] = "calling"
      BY <1>4 DEF NextFrame, Finished
    <2>2. \A w \in Workers : Owning(w) => SlotOf(rnum[r]) # WSlot(w)
      BY <2>1 DEF SlotInv, OwnerMarked
    <2>. QED
      BY <1>t, <2>1, <2>2
  <1>5. ASSUME NEW r \in Readers, ReaderCall(r) \/ NextNil(r) \/ NextPark(r) \/ NextWait(r)
        PROVE  /\ \A s : ReadersOf(s) \subseteq ReadersOf(s)'
               /\ \A w \in Workers : \A s : Owning(w) /\ s = WSlot(w) => ReadersOf(s)' = ReadersOf(s)
               /\ \A w \in Workers : wpc[w] = "avail" => wpc'[w] = "avail" /\ wtask'[w] = wtask[w]
    <2>1. /\ rpc[r] # "reading" /\ rpc'[r] # "reading"
          /\ \A q \in Readers \ {r} : rpc'[q] = rpc[q] /\ rnum'[q] = rnum[q]
          /\ UNCHANGED <<sending, wpc, wtask>>
      BY <1>t, <1>5 DEF ReaderCall, Out, CallNext, NextNil, NextPark, NextWait
    <2>2. \A s : ReadersOf(s)' = ReadersOf(s)
      BY <2>1
    <2>. QED
      BY <2>1, <2>2
  <1>6. ASSUME NEW r \in Readers, ReaderHands(r)
        PROVE  /\ \A s : ReadersOf(s) \subseteq ReadersOf(s)'
               /\ \A w \in Workers : \A s : Owning(w) /\ s = WSlot(w) => ReadersOf(s)' = ReadersOf(s)
               /\ \A w \in Workers : wpc[w] = "avail" => wpc'[w] = "avail" /\ wtask'[w] = wtask[w]
    <2>1. /\ rpc[r] = "reading" /\ rpc'[r] # "reading" /\ sending[r] = 0 /\ sending'[r] = rnum[r]
          /\ \A q \in Readers \ {r} :
               rpc'[q] = rpc[q] /\ rnum'[q] = rnum[q] /\ sending'[q] = sending[q]
          /\ UNCHANGED <<wpc, wtask>>
      BY <1>t, <1>6 DEF ReaderHands, AsksFor
    <2>2. \A s : ReadersOf(s)' = ReadersOf(s)
      BY <1>t, <2>1
    <2>. QED
      BY <2>1, <2>2
  <1>. QED
    BY <1>2, <1>3, <1>4, <1>5, <1>6 DEF Elsewhere

\* The steps of the waiting goroutines and of those they wait for.
LEMMA GroupStep ==
    ASSUME NoWaiter \notin Waiters, TypeInv, SlotInv, GroupInv, [GNext]_groupVars
    PROVE  GroupInv'
  <1>. USE DEF GroupInv, WaitersApart
  <1>t. /\ wpc \in [Workers -> {"idle", "hold", "avail", "compress", "release", "return", "done"}]
        /\ DOMAIN wtask = Workers /\ DOMAIN rpc = Readers /\ DOMAIN rnum = Readers
        /\ DOMAIN sending = Readers
        /\ \A w \in Workers : wpc[w] = "avail" => WSlot(w) \in Slots
    <2>1. \A w \in Workers : wpc[w] = "avail" => wtask[w].num \in Nat
      BY DEF SlotInv, OwnerMarked, Owning
    <2>. QED
      BY <2>1, SlotType DEF TypeInv, TypeOK, WSlot
  <1>w. \A s : Waiting(s) = [pc |-> IF ReadersOf(s) = {} THEN "over" ELSE "parked", slot |-> s]
    BY DEF Waiting
  <1>1. ASSUME NEW w \in Workers, GroupHold(w) PROVE GroupInv'
    <2>1. /\ wpc[w] = "hold" /\ wpc' = [wpc EXCEPT ![w] = "avail"]
          /\ UNCHANGED <<waiter, mine, wtask, rpc, rnum, sending>>
      BY <1>1 DEF GroupHold, Hold, WorkerHold, readerVars
    <2>. QED
      BY <1>t, <2>1 DEF WaitMeansFree, ParkedHasReaders, ReadersOf, Reads, Sends, WSlot
  <1>2. ASSUME NEW w \in Workers, AvailStart(w) PROVE GroupInv'
    <2>1. PICK g \in Fresh : /\ waiter' = [waiter EXCEPT ![g] = Waiting(WSlot(w))]
                             /\ mine' = [mine EXCEPT ![w] = g]
      BY <1>2 DEF AvailStart, WSlot
    <2>2. /\ wpc[w] = "avail" /\ UNCHANGED <<wpc, wtask, rpc, rnum, sending>>
          /\ g \in Waiters /\ \A v \in Workers : mine[v] # g
      BY <1>2, <2>1 DEF AvailStart, Fresh, vars, workerVars, readerVars
    <2>3. \A s : ReadersOf(s)' = ReadersOf(s)
      BY <2>2 DEF ReadersOf, Reads, Sends
    <2>4. WSlot(w) \in Slots /\ \A v \in Workers : WSlot(v)' = WSlot(v)
      BY <1>t, <2>2 DEF WSlot
    <2>5. WaitersApart'
      BY <1>t, <1>w, <2>1, <2>2, <2>4
    <2>6. WaitMeansFree'
      BY <1>t, <1>w, <2>1, <2>2, <2>3, <2>4 DEF WaitMeansFree
    <2>7. ParkedHasReaders'
      BY <1>t, <1>w, <2>1, <2>2, <2>3, <2>4 DEF ParkedHasReaders
    <2>. QED
      BY <2>5, <2>6, <2>7
  <1>3. ASSUME NEW g \in Waiters, WaitStart(g) \/ WaitReturn(g) PROVE GroupInv'
    <2>1. /\ UNCHANGED <<mine, wpc, wtask, rpc, rnum, sending>>
          /\ \A s : ReadersOf(s)' = ReadersOf(s)
          /\ \A v \in Workers : WSlot(v)' = WSlot(v)
      BY <1>3 DEF WaitStart, WaitReturn, vars, workerVars, readerVars, ReadersOf, Reads, Sends, WSlot
    <2>2. CASE WaitStart(g)
      <3>1. waiter[g].pc = "start" /\ waiter' = [waiter EXCEPT ![g] = Waiting(waiter[g].slot)]
        BY <2>2 DEF WaitStart
      <3>2. \A v \in Workers : mine[v] # g
        BY <1>t, <3>1
      <3>3. WaitersApart'
        BY <1>w, <2>1, <3>1, <3>2
      <3>4. WaitMeansFree' /\ ParkedHasReaders'
        BY <1>w, <2>1, <3>1, <3>2 DEF WaitMeansFree, ParkedHasReaders
      <3>. QED
        BY <3>3, <3>4
    <2>3. CASE WaitReturn(g)
      <3>1. waiter[g].pc = "woken" /\ waiter' = [waiter EXCEPT ![g].pc = "over"]
        BY <2>3 DEF WaitReturn
      <3>2. WaitersApart'
        BY <2>1, <3>1
      <3>3. WaitMeansFree' /\ ParkedHasReaders'
        BY <2>1, <3>1 DEF WaitMeansFree, ParkedHasReaders
      <3>. QED
        BY <3>2, <3>3
    <2>. QED
      BY <1>3, <2>2, <2>3
  <1>4. ASSUME NEW w \in Workers, GroupAvail(w) \/ GroupStuck(w) PROVE GroupInv'
    <2>1. /\ mine' = [mine EXCEPT ![w] = NoWaiter] /\ mine[w] \in Waiters
          /\ \A v \in Workers \ {w} : wpc'[v] = wpc[v]
          /\ UNCHANGED <<wtask, rpc, rnum, sending>>
      BY <1>t, <1>4 DEF GroupAvail, GroupStuck, WorkerAvail, WorkerStuck, readerVars
    <2>2. \/ waiter' = waiter
          \/ \E g \in Fresh : waiter' = [waiter EXCEPT ![g] = [pc |-> "start", slot |-> WSlot(w)]]
      BY <1>4 DEF GroupAvail, GroupStuck, WSlot
    <2>3. wpc[w] = "avail" /\ WSlot(w) \in Slots
      BY <1>t, <2>1
    <2>4. /\ \A s : ReadersOf(s)' = ReadersOf(s)
          /\ \A v \in Workers : WSlot(v)' = WSlot(v)
      BY <2>1 DEF ReadersOf, Reads, Sends, WSlot
    <2>5. WaitersApart'
      BY <2>1, <2>2, <2>3, <2>4 DEF Fresh
    <2>6. WaitMeansFree'
      BY <2>1, <2>2, <2>3, <2>4 DEF Fresh, WaitMeansFree
    <2>7. ParkedHasReaders'
      <3>1. \A g \in Waiters : waiter'[g].pc = "parked" => waiter'[g] = waiter[g]
        BY <2>2, <2>3 DEF Fresh
      <3>. QED
        BY <2>4, <3>1 DEF ParkedHasReaders
    <2>. QED
      BY <2>5, <2>6, <2>7
  <1>5. ASSUME NEW r \in Readers, GroupDone(r) PROVE GroupInv'
    <2>1. /\ UNCHANGED <<mine, wpc, wtask>> /\ waiter' = Signalled
          /\ \A q \in Readers \ {r} :
               rpc'[q] = rpc[q] /\ rnum'[q] = rnum[q] /\ sending'[q] = sending[q]
          /\ \/ rpc'[r] # "reading" /\ sending'[r] = sending[r]
             \/ rpc'[r] = rpc[r] /\ rnum'[r] = rnum[r] /\ sending'[r] = 0
      BY <1>t, <1>5 DEF GroupDone, ReaderLeave, ReaderSkip, SendDone, AsksFor, pipeVars, workerVars
    <2>2. /\ \A s : ReadersOf(s)' \subseteq ReadersOf(s)
          /\ \A v \in Workers : WSlot(v)' = WSlot(v)
      BY <2>1 DEF ReadersOf, Reads, Sends, WSlot
    <2>3. ASSUME NEW g \in Waiters, NEW s \in Slots, s = waiter[g].slot
          PROVE  /\ waiter'[g].slot = s
                 /\ waiter'[g].pc = IF waiter[g].pc = "parked" /\ ReadersOf(s)' = {}
                                    THEN "woken" ELSE waiter[g].pc
      BY <2>1, <2>3 DEF Signalled, Unused
    <2>4. waiter' \in [Waiters -> [pc : {"over", "start", "parked", "woken"}, slot : Slots]]
      BY <2>1 DEF Signalled
    <2>5. WaitersApart'
      BY <2>1, <2>2, <2>3, <2>4
    <2>6. WaitMeansFree'
      <3>. SUFFICES ASSUME NEW w \in Workers, mine[w] \in Waiters, waiter'[mine[w]].pc # "parked"
                    PROVE  ReadersOf(WSlot(w))' = {}
        BY <2>1 DEF WaitMeansFree
      <3>1. PICK s \in Slots : s = WSlot(w) /\ s = waiter[mine[w]].slot
        OBVIOUS
      <3>2. ReadersOf(s)' = {}
        <4>1. CASE waiter[mine[w]].pc = "parked"
          BY <2>3, <3>1, <4>1
        <4>2. CASE waiter[mine[w]].pc # "parked"
          BY <2>2, <3>1, <4>2 DEF WaitMeansFree
        <4>. QED
          BY <4>1, <4>2
      <3>3. s = WSlot(w)'
        BY <2>2, <3>1
      <3>. QED
        BY <3>2, <3>3 DEF ReadersOf, Reads, Sends
    <2>7. ParkedHasReaders'
      <3>. SUFFICES ASSUME NEW g \in Waiters, waiter'[g].pc = "parked"
                    PROVE  ReadersOf(waiter[g].slot)' # {}
        BY DEF ParkedHasReaders
      <3>1. PICK s \in Slots : s = waiter[g].slot
        OBVIOUS
      <3>2. ReadersOf(s)' # {} /\ s = waiter'[g].slot
        BY <2>3, <3>1
      <3>. QED
        BY <3>2 DEF ReadersOf, Reads, Sends
    <2>. QED
      BY <2>5, <2>6, <2>7
  <1>6. CASE Elsewhere
    <2>1. /\ UNCHANGED <<waiter, mine>>
          /\ \A s : ReadersOf(s) \subseteq ReadersOf(s)'
          /\ \A w \in Workers : wpc[w] = "avail" => wpc'[w] = "avail" /\ WSlot(w)' = WSlot(w)
          /\ \A w \in Workers : \A s : wpc[w] = "avail" /\ s = WSlot(w) => ReadersOf(s)' = ReadersOf(s)
      <3>1. UNCHANGED <<waiter, mine>>
        BY <1>6 DEF Elsewhere
      <3>2. \A w \in Workers : wpc[w] = "avail" => wpc'[w] = "avail" /\ WSlot(w)' = WSlot(w)
        BY <1>6, ReadersElsewhere DEF WSlot
      <3>. QED
        BY <1>6, <3>1, <3>2, ReadersElsewhere DEF Owning
    <2>2. WaitersApart'
      BY <2>1
    <2>3. ParkedHasReaders'
      BY <2>1 DEF ParkedHasReaders
    <2>4. WaitMeansFree'
      <3>. SUFFICES ASSUME NEW w \in Workers, mine[w] \in Waiters, waiter[mine[w]].pc # "parked"
                    PROVE  ReadersOf(WSlot(w))' = {}
        BY <2>1 DEF WaitMeansFree
      <3>1. PICK s : s = WSlot(w)
        OBVIOUS
      <3>2. s = WSlot(w)' /\ ReadersOf(s)' = ReadersOf(s) /\ ReadersOf(s) = {}
        BY <2>1, <3>1 DEF WaitMeansFree
      <3>. QED
        BY <3>2 DEF ReadersOf, Reads, Sends
    <2>. QED
      BY <2>2, <2>3, <2>4
  <1>7. CASE UNCHANGED groupVars
    BY <1>7 DEF groupVars, vars, workerVars, readerVars, WaitMeansFree, ParkedHasReaders, ReadersOf, Reads, Sends, WSlot
  <1>. QED
    BY <1>1, <1>2, <1>3, <1>4, <1>5, <1>6, <1>7 DEF GNext

\* The channel that available reads is closed only when nobody reads the slot, so the guard
\* of WorkerAvail is what the code makes sure of.
THEOREM AvailableTellsTheTruth ==
    ASSUME NoWaiter \notin Waiters
    PROVE  GSpec => [](WaitMeansFree /\ ParkedHasReaders)
  <1>1. GInit => Init
    BY DEF GInit
  <1>2. [GNext]_groupVars => [Next]_vars
    BY GroupSteps
  <1>3. GInit => GroupInv
    BY GroupInit
  <1>4. TypeInv /\ SlotInv /\ GroupInv /\ [GNext]_groupVars => GroupInv'
    BY GroupStep
  <1>5. GroupInv => WaitMeansFree /\ ParkedHasReaders
    BY DEF GroupInv
  <1>. QED
    BY <1>1, <1>2, <1>3, <1>4, <1>5, TypeInit, TypeStep, SlotInit, SlotStep, PTL DEF GSpec
===========================================================================
