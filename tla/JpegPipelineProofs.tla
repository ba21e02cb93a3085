------------------------ MODULE JpegPipelineProofs ------------------------
(***************************************************************************)
(* Theorems about JpegPipeline, for any number of images, workers,         *)
(* readers, slots, frames and sessions.                                    *)
(***************************************************************************)
EXTENDS JpegPipeline, FiniteSetTheorems, TLAPS

\* A frame number always has a slot.
LEMMA SlotType == \A n \in Nat : SlotOf(n) \in Slots
  <1>1. Cardinality(Buffers) \in Nat /\ Cardinality(Workers) \in Nat
    BY PipelineAssumption, FS_CardinalityType
  <1>2. JpegPoolSize \in Nat \ {0}
    BY <1>1, PipelineAssumption
  <1>. QED
    BY <1>2 DEF SlotOf, Slots

\* Whoever is about to pass a raw frame on has one, and a reader is only ever
\* given the number of a frame that was captured.
Carried ==
    /\ streamPc = "source" => streamBuf \in Buffers
    /\ sessPc = "push" => sessTask \in Frame
    /\ \A w \in Workers :
        wpc[w] \in {"hold", "avail", "compress", "release", "return"} => wtask[w] \in Frame
    /\ \A r \in Readers : rpc[r] = "reading" => rnum[r] \in 1 .. MaxFrame

TypeInv == TypeOK /\ Carried

\* The bounds, in the form the arithmetic below uses.
LEMMA Bounds == MaxFrame \in Nat /\ MaxFrame >= 1 /\ MaxSession \in Nat /\ MaxSession >= 1
  BY PipelineAssumption

\* The initial state has its type.
LEMMA TypeInit == Init => TypeInv
  <1>. SUFFICES ASSUME Init PROVE TypeInv
    OBVIOUS
  <1>1. /\ <<>> \in Seq(Frame) /\ Torn \in [gen : 0 .. MaxSession, num : 0 .. MaxFrame]
        /\ "Empty" \in Status
    BY Bounds DEF Torn, Status
  <1>2. /\ 1 \in 1 .. MaxFrame + 1 /\ 0 \in 0 .. MaxFrame /\ 0 \in 0 .. MaxSession
        /\ 0 \in Int
    BY Bounds
  <1>4. TypeOK
    BY <1>1, <1>2 DEF Init, TypeOK
  <1>3. Carried
    BY DEF Init, Carried
  <1>. QED
    BY <1>4, <1>3 DEF TypeInv

\* Every step keeps it.
LEMMA TypeStep == TypeInv /\ [Next]_vars => TypeInv'
  <1>. SUFFICES ASSUME TypeInv, [Next]_vars PROVE TypeInv'
    OBVIOUS
  <1>. USE Bounds DEF TypeInv, TypeOK, Carried, upVars, downVars, pipeVars
  <1>1. CASE StartSession
    <2>1. gen' \in 0 .. MaxSession
      BY <1>1 DEF StartSession
    <2>4. currentFrame' \in 0 .. MaxFrame /\ frameNumber' \in 1 .. MaxFrame + 1 /\ pendingFrames' \in Int
      BY <1>1 DEF StartSession
    <2>5. cancelled' \in BOOLEAN
      BY <1>1 DEF StartSession
    <2>2. TypeOK'
      BY <1>1, <2>1, <2>4, <2>5 DEF StartSession, workerVars, slotVars, readerVars
    <2>3. Carried'
      BY <1>1 DEF StartSession, workerVars, slotVars, readerVars
    <2>. QED
      BY <2>2, <2>3
  <1>2. CASE CancelSession
    BY <1>2 DEF CancelSession, CancelContext, streamVars, workerVars, slotVars, readerVars
  <1>3. CASE JoinSession
    BY <1>3 DEF JoinSession, streamVars, workerVars, slotVars, readerVars
  <1>4. CASE StreamAcquire
    BY <1>4 DEF StreamAcquire, sessVars, workerVars, slotVars, readerVars
  <1>5. CASE StreamQuit
    BY <1>5 DEF StreamQuit, sessVars, workerVars, slotVars, readerVars
  <1>6. CASE StreamDeliver
    BY <1>6 DEF StreamDeliver, Frame, sessVars, workerVars, slotVars, readerVars
  <1>7. CASE StreamFail
    BY <1>7 DEF StreamFail, Frame, Returned, sessVars, workerVars, slotVars, readerVars
  <1>8. CASE SessionRecv
    <2>1. Head(frames) \in Frame /\ Tail(frames) \in Seq(Frame)
      BY <1>8 DEF SessionRecv
    <2>2. Head(frames).num \in 0 .. MaxFrame
      BY <2>1 DEF Frame
    <2>. QED
      BY <1>8, <2>1, <2>2 DEF SessionRecv, PendingAdd, workerVars, slotVars, readerVars
  <1>9. CASE SessionPush
    BY <1>9 DEF SessionPush, streamVars, workerVars, slotVars, readerVars
  <1>10. CASE SessionStop
    BY <1>10 DEF SessionStop, streamVars, workerVars, slotVars, readerVars
  <1>11. CASE SessionNotify
    BY <1>11 DEF SessionNotify, Woken, PendingDone, streamVars, workerVars, slotVars
  <1>12. ASSUME NEW w \in Workers, Worker(w) PROVE TypeInv'
    <2>1. CASE WorkerTake(w)
      BY <2>1 DEF WorkerTake, streamVars, sessVars, slotVars, readerVars
    <2>2. CASE Hold(w) /\ ~SlotBusy(w)
      <3>1. wtask[w].num \in 0 .. MaxFrame
        BY <2>2 DEF Hold, Frame
      <3>. QED
        BY <2>2, <3>1 DEF Hold, WorkerHold, Status, streamVars, sessVars, readerVars
    <2>3. CASE Hold(w) /\ SlotBusy(w)
      BY <2>3 DEF Hold, WorkerBusy, streamVars, sessVars, slotVars, readerVars
    <2>4. CASE WorkerAvail(w)
      <3>1. Torn \in [gen : 0 .. MaxSession, num : 0 .. MaxFrame]
        BY DEF Torn
      <3>. QED
        BY <2>4, <3>1 DEF WorkerAvail, streamVars, sessVars, readerVars
    <2>5. CASE WorkerStuck(w)
      BY <2>5 DEF WorkerStuck, streamVars, sessVars, slotVars, readerVars
    <2>6. CASE WorkerCompress(w)
      <3>1. [gen |-> gen, num |-> wtask[w].num] \in [gen : 0 .. MaxSession, num : 0 .. MaxFrame]
        BY <2>6 DEF WorkerCompress, Frame
      <3>2. content' \in [Slots -> [gen : 0 .. MaxSession, num : 0 .. MaxFrame]]
        BY <2>6, <3>1 DEF WorkerCompress
      <3>3. wres' \in [Workers -> {"Ready", "Failed", "Stuck"}]
        BY <2>6 DEF WorkerCompress
      <3>. QED
        BY <2>6, <3>2, <3>3 DEF WorkerCompress, streamVars, sessVars, readerVars
    <2>7. CASE WorkerRelease(w)
      BY <2>7 DEF WorkerRelease, Woken, Status, streamVars, sessVars
    <2>8. CASE WorkerReturn(w)
      <3>1. wtask[w].buf \in Buffers
        BY <2>8 DEF WorkerReturn, Frame
      <3>. QED
        BY <2>8, <3>1 DEF WorkerReturn, Returned, streamVars, sessVars, slotVars, readerVars
    <2>9. CASE WorkerDone(w)
      BY <2>9 DEF WorkerDone, PendingDone, streamVars, sessVars, slotVars, readerVars
    <2>. QED
      BY <1>12, <2>1, <2>2, <2>3, <2>4, <2>5, <2>6, <2>7, <2>8, <2>9 DEF Worker
  <1>13. ASSUME NEW r \in Readers, ReaderCall(r) PROVE TypeInv'
    BY <1>13 DEF ReaderCall, CallNext, streamVars, sessVars, workerVars, slotVars
  <1>14. ASSUME NEW r \in Readers, NextNil(r) PROVE TypeInv'
    BY <1>14 DEF NextNil, streamVars, sessVars, workerVars, slotVars
  <1>15. ASSUME NEW r \in Readers, NextFrame(r) PROVE TypeInv'
    <2>1. SlotOf(rnum[r]) \in Slots
      BY SlotType
    <2>2. status[SlotOf(rnum[r])] \in Status /\ rnum[r] \in 1 .. MaxFrame
      BY <1>15, <2>1 DEF NextFrame, Finished, InPool
    <2>. QED
      BY <1>15, <2>2 DEF NextFrame, streamVars, sessVars, workerVars, slotVars
  <1>16. ASSUME NEW r \in Readers, NextPark(r) PROVE TypeInv'
    BY <1>16 DEF NextPark, Awaited, streamVars, sessVars, workerVars, slotVars
  <1>17. ASSUME NEW r \in Readers, NextWait(r) PROVE TypeInv'
    BY <1>17 DEF NextWait, streamVars, sessVars, workerVars, slotVars
  <1>18. ASSUME NEW r \in Readers, ReaderLeave(r) PROVE TypeInv'
    BY <1>18 DEF ReaderLeave, Status, streamVars, sessVars, workerVars, slotVars
  <1>19. ASSUME NEW r \in Readers, ReaderSkip(r) \/ ReaderHands(r) \/ SendDone(r) PROVE TypeInv'
    <2>1. ASSUME NEW n \in 1 .. MaxFrame + 1, AsksFor(r, n),
                 sending' \in [Readers -> 0 .. MaxFrame]
          PROVE  TypeInv'
      BY <2>1 DEF AsksFor, Status, streamVars, sessVars, workerVars, slotVars
    <2>2. CASE ReaderSkip(r)
      BY <2>1, <2>2 DEF ReaderSkip
    <2>3. CASE ReaderHands(r)
      <3>1. rnum[r] \in 1 .. MaxFrame /\ rnum[r] + 1 \in 1 .. MaxFrame + 1
        BY <2>3 DEF ReaderHands
      <3>2. AsksFor(r, rnum[r] + 1) /\ sending' = [sending EXCEPT ![r] = rnum[r]]
        BY <2>3 DEF ReaderHands
      <3>3. sending' \in [Readers -> 0 .. MaxFrame]
        BY <3>1, <3>2
      <3>. QED
        BY <2>1, <3>1, <3>2, <3>3
    <2>4. CASE SendDone(r)
      BY <2>4 DEF SendDone, streamVars, sessVars, workerVars, slotVars
    <2>. QED
      BY <1>19, <2>2, <2>3, <2>4
  <1>20. CASE UNCHANGED vars
    BY <1>20 DEF vars, streamVars, sessVars, workerVars, slotVars, readerVars
  <1>. QED
    BY <1>1, <1>2, <1>3, <1>4, <1>5, <1>6, <1>7, <1>8, <1>9, <1>10, <1>11, <1>12, <1>13, <1>14, <1>15, <1>16, <1>17, <1>18, <1>19, <1>20 DEF Next, Reader

\* Type correctness, for every instance.
THEOREM TypeCorrect == Spec => []TypeOK
  <1>1. TypeInv => TypeOK
    BY DEF TypeInv
  <1>. QED
    BY <1>1, TypeInit, TypeStep, PTL DEF Spec
---------------------------------------------------------------------------
(* Between hold and release a worker owns its slot: the status says so,    *)
(* which keeps other workers and new readers out, and from available on    *)
(* the old readers are gone too.  So what a slot that is Ready contains,   *)
(* and what a reader of it was given, is the frame the slot is numbered.   *)

Owning(w) == wpc[w] \in {"avail", "compress", "release"}
WSlot(w) == SlotOf(wtask[w].num)

OwnerMarked ==
    \A w \in Workers : Owning(w) =>
        /\ wtask[w].num \in Nat
        /\ status[WSlot(w)] = "Compressing"
        /\ number[WSlot(w)] = wtask[w].num
OwnersApart ==
    \A v, w \in Workers : v # w /\ Owning(v) /\ Owning(w) => WSlot(v) # WSlot(w)
WriterAlone ==
    \A w \in Workers, r \in Readers :
        wpc[w] = "compress" => ~Reads(r, WSlot(w)) /\ ~Sends(r, WSlot(w))
ReadyIsWhole == \A s \in Slots : status[s] = "Ready" => content[s].num = number[s]
ResultIsWhole ==
    \A w \in Workers :
        wpc[w] = "release" /\ wres[w] = "Ready" => content[WSlot(w)].num = wtask[w].num

SlotInv ==
    /\ OwnerMarked /\ OwnersApart /\ WriterAlone
    /\ ReadyIsWhole /\ ResultIsWhole /\ ReadyFrameIntact

\* Nobody owns a slot initially, and no slot is Ready.
LEMMA SlotInit == Init => SlotInv
  BY DEF Init, SlotInv, Owning, OwnerMarked, OwnersApart, WriterAlone, ReadyIsWhole,
         ResultIsWhole, ReadyFrameIntact

\* Every step keeps the owners apart and what is Ready whole.
LEMMA SlotStep == TypeInv /\ SlotInv /\ [Next]_vars => SlotInv'
  <1>. SUFFICES ASSUME TypeInv, SlotInv, [Next]_vars PROVE SlotInv'
    OBVIOUS
  <1>. USE DEF SlotInv, Owning, WSlot, OwnerMarked, OwnersApart, WriterAlone, ReadyIsWhole,
               ResultIsWhole, ReadyFrameIntact, Reads, Sends, upVars, downVars, pipeVars
  <1>t. /\ wpc \in [Workers -> {"idle", "hold", "avail", "compress", "release", "return", "done"}]
        /\ DOMAIN wtask = Workers /\ DOMAIN wres = Workers
        /\ DOMAIN status = Slots /\ DOMAIN number = Slots /\ DOMAIN content = Slots
        /\ DOMAIN rpc = Readers /\ DOMAIN rnum = Readers /\ DOMAIN rstat = Readers
        /\ DOMAIN sending = Readers
        /\ \A r \in Readers : SlotOf(rnum[r]) \in Slots /\ SlotOf(sending[r]) \in Slots
        /\ \A w \in Workers :
              wpc[w] \in {"hold", "avail", "compress", "release", "return"} =>
                wtask[w].num \in Nat /\ WSlot(w) \in Slots
    <2>1. /\ \A r \in Readers : rnum[r] \in Nat /\ sending[r] \in Nat
          /\ \A w \in Workers :
                wpc[w] \in {"hold", "avail", "compress", "release", "return"} =>
                  wtask[w].num \in Nat
      BY DEF TypeInv, TypeOK, Carried, Frame
    <2>2. /\ wpc \in [Workers -> {"idle", "hold", "avail", "compress", "release", "return", "done"}]
          /\ DOMAIN wtask = Workers /\ DOMAIN wres = Workers
          /\ DOMAIN status = Slots /\ DOMAIN number = Slots /\ DOMAIN content = Slots
          /\ DOMAIN rpc = Readers /\ DOMAIN rnum = Readers /\ DOMAIN rstat = Readers
          /\ DOMAIN sending = Readers
      BY DEF TypeInv, TypeOK
    <2>. QED
      BY <2>1, <2>2, SlotType
  <1>1. ASSUME UNCHANGED <<workerVars, slotVars, rnum, rstat, sending>>,
               \A r \in Readers : rpc'[r] = "reading" => rpc[r] = "reading"
        PROVE SlotInv'
    BY <1>1 DEF workerVars, slotVars
  <1>2. CASE \/ StartSession \/ CancelSession \/ JoinSession
             \/ StreamAcquire \/ StreamQuit \/ StreamDeliver \/ StreamFail
             \/ SessionRecv \/ SessionPush \/ SessionStop \/ SessionNotify
    BY <1>t, <1>1, <1>2 DEF StartSession, CancelSession, CancelContext, JoinSession, StreamAcquire, StreamQuit,
         StreamDeliver, StreamFail, SessionRecv, SessionPush, SessionStop, SessionNotify, Woken,
         readerVars
  <1>3. ASSUME NEW w \in Workers, Worker(w) PROVE SlotInv'
    <2>1. CASE WorkerTake(w)
      BY <1>t, <2>1 DEF WorkerTake, slotVars, readerVars
    <2>2. CASE Hold(w) /\ ~SlotBusy(w)
      BY <1>t, <2>2 DEF Hold, SlotBusy, WorkerHold, readerVars
    <2>3. CASE Hold(w) /\ SlotBusy(w)
      BY <1>t, <2>3 DEF Hold, WorkerBusy, slotVars, readerVars
    <2>4. CASE WorkerAvail(w)
      BY <1>t, <2>4 DEF WorkerAvail, ReadersOf, readerVars
    <2>5. CASE WorkerStuck(w)
      BY <1>t, <2>5 DEF WorkerStuck, slotVars, readerVars
    <2>6. CASE WorkerCompress(w)
      BY <1>t, <2>6 DEF WorkerCompress, readerVars
    <2>7. CASE WorkerRelease(w)
      BY <1>t, <2>7 DEF WorkerRelease, Woken
    <2>8. CASE WorkerReturn(w)
      BY <1>t, <2>8 DEF WorkerReturn, slotVars, readerVars
    <2>9. CASE WorkerDone(w)
      BY <1>t, <2>9 DEF WorkerDone, slotVars, readerVars
    <2>. QED
      BY <1>3, <2>1, <2>2, <2>3, <2>4, <2>5, <2>6, <2>7, <2>8, <2>9 DEF Worker
  <1>4. ASSUME NEW r \in Readers, NextFrame(r) PROVE SlotInv'
    BY <1>t, <1>4 DEF NextFrame, Finished, InPool, workerVars, slotVars
  <1>5. ASSUME NEW r \in Readers,
               \/ ReaderCall(r) \/ NextNil(r) \/ NextPark(r) \/ NextWait(r)
               \/ ReaderLeave(r) \/ ReaderSkip(r) \/ ReaderHands(r) \/ SendDone(r)
        PROVE SlotInv'
    <2>1. CASE \/ ReaderCall(r) \/ NextNil(r) \/ NextPark(r) \/ NextWait(r) \/ ReaderLeave(r)
      BY <1>t, <2>1 DEF ReaderCall, CallNext, NextNil, NextPark, NextWait, ReaderLeave,
         workerVars, slotVars
    <2>2. CASE ReaderSkip(r)
      BY <1>t, <2>2 DEF ReaderSkip, AsksFor, workerVars, slotVars
    <2>3. CASE ReaderHands(r)
      BY <1>t, <2>3 DEF ReaderHands, AsksFor, workerVars, slotVars
    <2>4. CASE SendDone(r)
      BY <1>t, <2>4 DEF SendDone, workerVars, slotVars
    <2>. QED
      BY <1>5, <2>1, <2>2, <2>3, <2>4
  <1>6. CASE UNCHANGED vars
    BY <1>1, <1>6 DEF vars, readerVars
  <1>. QED
    BY <1>2, <1>3, <1>4, <1>5, <1>6 DEF Next, Reader

\* The image a handler sends is whole, and is the frame it was given, until Done.
THEOREM ReadyFramesStayIntact == Spec => []ReadyFrameIntact
  <1>1. SlotInv => ReadyFrameIntact
    BY DEF SlotInv
  <1>. QED
    BY <1>1, TypeInit, TypeStep, SlotInit, SlotStep, PTL DEF Spec
---------------------------------------------------------------------------
(* Only hold and release change what Finished looks at, and both need the  *)
(* lock that a reader keeps until it is registered; release then wakes all *)
(* who are.                                                                *)

StillAsleep(r) ==
    rpc[r] \in {"parking", "waiting"} /\ rpc'[r] \in {"parking", "waiting"}
MissesNothing == \A r \in Readers : StillAsleep(r) /\ ~Finished(rnum[r]) => ~Finished(rnum[r])'

\* No single step finishes a frame behind the back of a reader that waits for it.
LEMMA WakeStep == TypeInv /\ SlotInv /\ [Next]_vars => MissesNothing
  <1>. SUFFICES ASSUME TypeInv, SlotInv, [Next]_vars,
                       NEW r \in Readers, StillAsleep(r), ~Finished(rnum[r])
                PROVE ~Finished(rnum[r])'
    BY DEF MissesNothing
  <1>. USE DEF StillAsleep, Finished, InPool, upVars, downVars, pipeVars
  <1>t. /\ DOMAIN status = Slots /\ DOMAIN number = Slots
        /\ rpc \in [Readers -> {"idle", "calling", "parking", "waiting", "reading"}]
        /\ SlotOf(rnum[r]) \in Slots
    <2>1. rnum[r] \in Nat
      BY DEF TypeInv, TypeOK
    <2>. QED
      BY <2>1, SlotType DEF TypeInv, TypeOK
  <1>1. CASE UNCHANGED <<number, status, rnum>>
    BY <1>1
  <1>2. CASE \/ StartSession \/ CancelSession \/ JoinSession
             \/ StreamAcquire \/ StreamQuit \/ StreamDeliver \/ StreamFail
             \/ SessionRecv \/ SessionPush \/ SessionStop \/ SessionNotify
    BY <1>1, <1>2 DEF StartSession, CancelSession, CancelContext, JoinSession, StreamAcquire, StreamQuit,
         StreamDeliver, StreamFail, SessionRecv, SessionPush, SessionStop, SessionNotify,
         slotVars, readerVars
  <1>3. ASSUME NEW w \in Workers, Worker(w) PROVE ~Finished(rnum[r])'
    <2>1. CASE Hold(w) /\ ~SlotBusy(w)
      BY <1>t, <2>1 DEF Hold, WorkerHold, readerVars
    <2>2. CASE WorkerRelease(w)
      <3>1. rpc[r] # "parking"
        BY <2>2 DEF WorkerRelease, Locked
      <3>. QED
        BY <2>2, <3>1 DEF WorkerRelease, Woken
    <2>3. CASE \/ WorkerTake(w) \/ (Hold(w) /\ SlotBusy(w)) \/ WorkerAvail(w) \/ WorkerStuck(w)
               \/ WorkerCompress(w) \/ WorkerReturn(w) \/ WorkerDone(w)
      BY <1>1, <2>3 DEF WorkerTake, Hold, WorkerBusy, WorkerAvail, WorkerStuck, WorkerCompress,
           WorkerReturn, WorkerDone, slotVars, readerVars
    <2>. QED
      BY <1>3, <2>1, <2>2, <2>3 DEF Worker
  <1>4. ASSUME NEW q \in Readers,
               \/ ReaderCall(q) \/ NextNil(q) \/ NextFrame(q) \/ NextPark(q) \/ NextWait(q)
               \/ ReaderLeave(q) \/ ReaderSkip(q) \/ ReaderHands(q) \/ SendDone(q)
        PROVE ~Finished(rnum[r])'
    <2>1. CASE q = r
      BY <1>t, <1>4, <2>1 DEF ReaderCall, CallNext, NextNil, NextFrame, NextPark, NextWait, ReaderLeave,
           ReaderSkip, ReaderHands, SendDone, AsksFor, slotVars
    <2>2. CASE q # r
      <3>1. rnum'[r] = rnum[r] /\ UNCHANGED <<number, status>>
        BY <1>4, <2>2 DEF ReaderCall, CallNext, NextNil, NextFrame, NextPark, NextWait, ReaderLeave,
             ReaderSkip, ReaderHands, SendDone, AsksFor, slotVars, TypeInv, TypeOK
      <3>. QED
        BY <3>1
    <2>. QED
      BY <2>1, <2>2
  <1>5. CASE UNCHANGED vars
    BY <1>1, <1>5 DEF vars, slotVars, readerVars
  <1>. QED
    BY <1>2, <1>3, <1>4, <1>5 DEF Next, Reader

\* Session.Next cannot miss jpegPool.release.
THEOREM NextMissesNoRelease == Spec => FinishedFrameWakes
  <1>1. TypeInv /\ SlotInv /\ [Next]_vars
          => [\A r \in Readers :
                /\ rpc[r] \in {"parking", "waiting"} /\ rpc'[r] \in {"parking", "waiting"}
                /\ ~Finished(rnum[r])
                => ~Finished(rnum[r])']_vars
    BY WakeStep DEF MissesNothing, StillAsleep
  <1>. QED
    BY <1>1, TypeInit, TypeStep, SlotInit, SlotStep, PTL DEF Spec, FinishedFrameWakes
---------------------------------------------------------------------------
(* pendingFrames counts the goroutine of the session, the frame it is      *)
(* pushing, those in tasks and those of workers: so Join waits for them    *)
(* all, and nothing runs when there is no session.                         *)

BusyWorkers == {w \in Workers : wpc[w] # "idle"}

SessionShare == IF sessPc = "push" THEN 2 ELSE IF sessPc \in {"recv", "notify"} THEN 1 ELSE 0

PendingCounted == pendingFrames = SessionShare + Len(tasks) + Cardinality(BusyWorkers)

Drained == sessPc \in {"notify", "over", "none"} => streamPc = "off" /\ frames = <<>>

Deserted == sessPc = "none" \/ cancelled => \A r \in Readers : Out(r)

QuietInv == PendingCounted /\ Drained /\ Deserted /\ (sessPc = "none" => pendingFrames = 0)

\* BusyWorkers can be counted.
LEMMA BusyFinite == IsFiniteSet(BusyWorkers) /\ Cardinality(BusyWorkers) \in Nat
  BY PipelineAssumption, FS_Subset, FS_CardinalityType DEF BusyWorkers

\* Nothing runs yet.
LEMMA QuietInit == Init => QuietInv
  <1>. SUFFICES ASSUME Init PROVE QuietInv
    OBVIOUS
  <1>1. BusyWorkers = {} /\ Cardinality({}) = 0
    BY FS_EmptySet DEF Init, BusyWorkers
  <1>2. SessionShare = 0 /\ Len(tasks) = 0
    BY DEF Init, SessionShare
  <1>. QED
    BY <1>1, <1>2 DEF Init, QuietInv, PendingCounted, Drained, Deserted, Out

\* Join returns when the goroutine of the session has ended.
LEMMA JoinedIsOver == TypeInv /\ QuietInv /\ JoinSession => sessPc = "over"
  <1>1. TypeInv => /\ Len(tasks) \in Nat /\ Cardinality(BusyWorkers) \in Nat
                   /\ sessPc \in {"none", "recv", "push", "notify", "over"}
    BY BusyFinite DEF TypeInv, TypeOK
  <1>. QED
    BY <1>1 DEF QuietInv, PendingCounted, SessionShare, JoinSession

\* Every step of the pipeline keeps it.
LEMMA QuietStep == TypeInv /\ QuietInv /\ [Next]_vars => QuietInv'
  <1>. SUFFICES ASSUME TypeInv, QuietInv, [Next]_vars PROVE QuietInv'
    OBVIOUS
  <1>t. /\ tasks \in Seq(Frame) /\ Len(tasks) \in Nat /\ pendingFrames \in Int
        /\ sessPc \in {"none", "recv", "push", "notify", "over"}
        /\ DOMAIN wpc = Workers /\ rpc \in [Readers -> {"idle", "calling", "parking", "waiting", "reading"}]
        /\ Cardinality(BusyWorkers) \in Nat
    BY BusyFinite DEF TypeInv, TypeOK
  <1>w. \A r \in Readers : rpc[r] = "idle" => Woken[r] = "idle"
    BY <1>t DEF Woken
  <1>. USE DEF QuietInv, PendingCounted, SessionShare, Drained, Deserted, Out, upVars, downVars
  <1>1. CASE StartSession
    <2>1. BusyWorkers' = BusyWorkers
      BY <1>1 DEF StartSession, BusyWorkers, workerVars
    <2>. QED
      BY <1>t, <1>1, <2>1 DEF StartSession
  <1>2. CASE CancelSession
    <2>1. BusyWorkers' = BusyWorkers
      BY <1>2 DEF CancelSession, CancelContext, BusyWorkers, workerVars
    <2>. QED
      BY <1>t, <1>2, <2>1 DEF CancelSession, CancelContext, streamVars, readerVars
  <1>3. CASE JoinSession
    <2>1. BusyWorkers' = BusyWorkers
      BY <1>3 DEF JoinSession, BusyWorkers, workerVars
    <2>2. sessPc = "over"
      BY <1>3, JoinedIsOver
    <2>. QED
      BY <1>t, <1>3, <2>1, <2>2 DEF JoinSession, streamVars, readerVars
  <1>4. CASE StreamAcquire \/ StreamQuit \/ StreamDeliver \/ StreamFail
    <2>1. BusyWorkers' = BusyWorkers
      BY <1>4 DEF StreamAcquire, StreamQuit, StreamDeliver, StreamFail, BusyWorkers, workerVars
    <2>. QED
      BY <1>t, <1>4, <2>1 DEF StreamAcquire, StreamQuit, StreamDeliver, StreamFail, sessVars,
         readerVars
  <1>5. CASE SessionRecv \/ SessionStop \/ SessionNotify
    <2>1. BusyWorkers' = BusyWorkers
      BY <1>5 DEF SessionRecv, SessionStop, SessionNotify, BusyWorkers, workerVars
    <2>2. CASE SessionRecv
      BY <1>t, <2>1, <2>2 DEF SessionRecv, PendingAdd, readerVars
    <2>3. CASE SessionStop
      BY <1>t, <2>1, <2>3 DEF SessionStop, streamVars, readerVars
    <2>4. CASE SessionNotify
      BY <1>t, <1>w, <2>1, <2>4 DEF SessionNotify, PendingDone, streamVars
    <2>. QED
      BY <1>5, <2>2, <2>3, <2>4
  <1>6. CASE SessionPush
    <2>1. BusyWorkers' = BusyWorkers
      BY <1>6 DEF SessionPush, BusyWorkers, workerVars
    <2>2. Len(tasks') = Len(tasks) + 1
      BY <1>t, <1>6 DEF SessionPush, TypeInv, Carried
    <2>. QED
      BY <1>t, <1>6, <2>1, <2>2 DEF SessionPush, streamVars, readerVars
  <1>7. ASSUME NEW w \in Workers, Worker(w) PROVE QuietInv'
    <2>1. CASE WorkerTake(w)
      <3>1. BusyWorkers' = BusyWorkers \union {w} /\ w \notin BusyWorkers
        BY <1>t, <2>1 DEF WorkerTake, BusyWorkers
      <3>2. Cardinality(BusyWorkers') = Cardinality(BusyWorkers) + 1
        BY <3>1, BusyFinite, FS_AddElement
      <3>3. Len(tasks') = Len(tasks) - 1
        BY <1>t, <2>1 DEF WorkerTake
      <3>4. UNCHANGED <<pendingFrames, sessPc, cancelled, streamPc, frames, rpc, sending>>
        BY <2>1 DEF WorkerTake, streamVars, sessVars, readerVars
      <3>. QED
        BY <1>t, <3>2, <3>3, <3>4
    <2>2. CASE WorkerDone(w)
      <3>1. BusyWorkers' = BusyWorkers \ {w} /\ w \in BusyWorkers
        BY <1>t, <2>2 DEF WorkerDone, BusyWorkers
      <3>2. Cardinality(BusyWorkers') = Cardinality(BusyWorkers) - 1
        BY <3>1, BusyFinite, FS_RemoveElement
      <3>3. Cardinality(BusyWorkers') \in Nat
        BY <3>1, BusyFinite, FS_RemoveElement, FS_CardinalityType
      <3>. QED
        BY <1>t, <2>2, <3>2, <3>3 DEF WorkerDone, PendingDone, streamVars, sessVars, readerVars
    <2>3. CASE \/ Hold(w) \/ WorkerAvail(w) \/ WorkerStuck(w) \/ WorkerCompress(w)
               \/ WorkerRelease(w) \/ WorkerReturn(w)
      <3>1. BusyWorkers' = BusyWorkers
        BY <1>t, <2>3 DEF Hold, WorkerHold, WorkerBusy, WorkerAvail, WorkerStuck, WorkerCompress,
           WorkerRelease, WorkerReturn, BusyWorkers
      <3>2. UNCHANGED <<tasks, pendingFrames, upVars>> /\ sending' = sending /\ (rpc' = rpc \/ rpc' = Woken)
        BY <2>3 DEF Hold, WorkerHold, WorkerBusy, WorkerAvail, WorkerStuck, WorkerCompress,
           WorkerRelease, WorkerReturn, readerVars
      <3>. QED
        BY <1>t, <1>w, <3>1, <3>2 DEF streamVars, sessVars
    <2>. QED
      BY <1>7, <2>1, <2>2, <2>3 DEF Worker
  <1>8. ASSUME NEW r \in Readers,
               \/ ReaderCall(r) \/ NextNil(r) \/ NextFrame(r) \/ NextPark(r) \/ NextWait(r)
               \/ ReaderLeave(r) \/ ReaderSkip(r) \/ ReaderHands(r) \/ SendDone(r)
        PROVE  QuietInv'
    <2>1. BusyWorkers' = BusyWorkers
      BY <1>8 DEF ReaderCall, CallNext, NextNil, NextFrame, NextPark, NextWait, ReaderLeave,
         ReaderSkip, ReaderHands, SendDone, AsksFor, BusyWorkers, pipeVars, workerVars
    <2>2. UNCHANGED <<tasks, pendingFrames, upVars>>
      BY <1>8 DEF ReaderCall, CallNext, NextNil, NextFrame, NextPark, NextWait, ReaderLeave,
         ReaderSkip, ReaderHands, SendDone, AsksFor, pipeVars
    <2>3. Deserted'
      BY <1>t, <1>8, <2>2 DEF ReaderCall, CallNext, NextNil, NextFrame, NextPark, NextWait,
         ReaderLeave, ReaderSkip, ReaderHands, SendDone, AsksFor, sessVars
    <2>. QED
      BY <1>t, <2>1, <2>2, <2>3 DEF streamVars, sessVars
  <1>9. CASE UNCHANGED vars
    <2>1. BusyWorkers' = BusyWorkers
      BY <1>9 DEF vars, BusyWorkers, workerVars
    <2>. QED
      BY <1>9, <2>1 DEF vars, streamVars, sessVars, readerVars
  <1>. QED
    BY <1>1, <1>2, <1>3, <1>4, <1>5, <1>6, <1>7, <1>8, <1>9 DEF Next, Reader

\* Between sessions nothing runs, and the source is asked for nothing.
LEMMA QuietAlways == Spec => [](TypeInv /\ QuietInv)
  BY TypeInit, TypeStep, QuietInit, QuietStep, PTL DEF Spec
---------------------------------------------------------------------------
(* What CancelledIsJoined rests on, apart from fairness: a cancelled       *)
(* session is never stuck, and each of its steps leaves it less to do, so  *)
(* that Join returns however its goroutines are scheduled.                 *)

\* The guards of the actions of a session whose context is cancelled: of the goroutine of
\* stream, which may leave whatever it waits for, of the session's, of the workers, and of
\* Join.  A worker also waits for the lock, for readers and for tasks.
SomebodyMoves ==
    \/ streamPc # "off"
    \/ sessPc = "recv" /\ (frames # <<>> \/ streamPc = "off")
    \/ sessPc = "push" /\ Len(tasks) < TaskSize
    \/ sessPc = "notify"
    \/ \E w \in Workers :
        \/ wpc[w] = "idle" /\ tasks # <<>>
        \/ wpc[w] \in {"hold", "release"} /\ ~Locked
        \/ wpc[w] \in {"avail", "compress", "return", "done"}
    \/ pendingFrames = 0

DrainNeverStuck == cancelled /\ sessPc # "none" => SomebodyMoves

\* Until Join has returned, some goroutine of a cancelled session can go on: a channel that is
\* full, a slot that is held and a raw pool that is empty never stop them all.
LEMMA QuietGoesOn == TypeInv /\ QuietInv => DrainNeverStuck
  <1>1. ASSUME TypeInv, QuietInv, cancelled, sessPc # "none", ~SomebodyMoves PROVE FALSE
    <2>1. /\ tasks \in Seq(Frame) /\ Len(tasks) \in Nat
          /\ sessPc \in {"recv", "push", "notify", "over"}
          /\ wpc \in [Workers -> {"idle", "hold", "avail", "compress", "release", "return", "done"}]
      BY <1>1 DEF TypeInv, TypeOK
    <2>2. ~Locked
      BY <1>1 DEF QuietInv, Deserted, Out, Locked
    <2>3. PICK w \in Workers : TRUE
      BY PipelineAssumption
    <2>4. /\ streamPc = "off" /\ sessPc \in {"push", "over"} /\ pendingFrames # 0
          /\ sessPc = "push" => ~(Len(tasks) < TaskSize)
          /\ \A v \in Workers : wpc[v] = "idle"
          /\ tasks = <<>>
      BY <1>1, <2>1, <2>2, <2>3 DEF SomebodyMoves
    <2>5. Len(tasks) = 0 /\ TaskSize > 0 /\ TaskSize \in Nat
      BY <2>4, PipelineAssumption
    <2>6. Cardinality(BusyWorkers) = 0
      BY <2>4, FS_EmptySet DEF BusyWorkers
    <2>. QED
      BY <1>1, <2>4, <2>5, <2>6 DEF QuietInv, PendingCounted, SessionShare
  <1>. QED
    BY <1>1 DEF DrainNeverStuck

\* So no cancelled session is ever stuck.
THEOREM CancelledSessionNeverStuck == Spec => []DrainNeverStuck
  BY QuietGoesOn, QuietAlways, PTL

\* How far a worker at pc is from being idle again.
Stage(pc) ==
    CASE pc = "hold" -> 6 [] pc = "avail" -> 5 [] pc = "compress" -> 4
      [] pc = "release" -> 3 [] pc = "return" -> 2 [] pc = "done" -> 1
      [] OTHER -> 0
WorkerSteps == {p \in Workers \X (1 .. 6) : p[2] <= Stage(wpc[p[1]])}

StreamLeft ==
    11 * (MaxFrame + 1 - frameNumber)
    + (IF streamPc = "acquire" THEN 2 ELSE IF streamPc = "source" THEN 1 ELSE 0)
SessionLeft ==
    9 * Len(frames) + 7 * Len(tasks)
    + (IF sessPc = "push" THEN 10 ELSE IF sessPc = "recv" THEN 2
       ELSE IF sessPc = "notify" THEN 1 ELSE 0)

\* What a session still has to do.  A frame weighs 11 with the source, 9 in the channel of
\* stream, 8 with the session (which is to receive again: 2), 7 in the channel of tasks and 6
\* with the worker that takes it.
WorkLeft == StreamLeft + SessionLeft + Cardinality(WorkerSteps)

DrainStep == cancelled /\ sessPc # "none" => JoinSession \/ (WorkLeft' < WorkLeft /\ cancelled')
DrainComesToAnEnd == [][DrainStep]_vars

\* There are six of them.
LEMMA SixSteps == IsFiniteSet(1 .. 6) /\ Cardinality(1 .. 6) = 6
  <1>1. ASSUME NEW a \in Int, NEW b \in Int, a <= b
        PROVE  IsFiniteSet(a .. b) /\ Cardinality(a .. b) = b - a + 1
    BY <1>1, FS_Interval
  <1>2. 1 \in Int /\ 6 \in Int /\ 1 <= 6 /\ 6 - 1 + 1 = 6
    OBVIOUS
  <1>. QED
    BY <1>1, <1>2

\* WorkLeft is a natural number, so it cannot decrease for ever.
LEMMA WorkLeftType == TypeInv => WorkLeft \in Nat /\ IsFiniteSet(WorkerSteps)
  <1>. SUFFICES ASSUME TypeInv PROVE WorkLeft \in Nat /\ IsFiniteSet(WorkerSteps)
    OBVIOUS
  <1>1. IsFiniteSet(Workers \X (1 .. 6))
    BY PipelineAssumption, SixSteps, FS_Product
  <1>2. IsFiniteSet(WorkerSteps) /\ Cardinality(WorkerSteps) \in Nat
    BY <1>1, FS_Subset, FS_CardinalityType DEF WorkerSteps
  <1>3. StreamLeft \in Nat
    BY Bounds DEF TypeInv, TypeOK, StreamLeft
  <1>4. Len(frames) \in Nat /\ Len(tasks) \in Nat
    BY DEF TypeInv, TypeOK
  <1>5. SessionLeft \in Nat
    BY <1>4 DEF SessionLeft
  <1>. QED
    BY <1>2, <1>3, <1>5 DEF WorkLeft

\* A worker that goes on has one step less to do, or more.
LEMMA WorkerGoesOn ==
    ASSUME TypeInv, NEW w \in Workers, NEW pc, wpc' = [wpc EXCEPT ![w] = pc],
           Stage(pc) < Stage(wpc[w])
    PROVE  /\ Cardinality(WorkerSteps') < Cardinality(WorkerSteps)
           /\ Cardinality(WorkerSteps') \in Nat
  <1>1. DOMAIN wpc = Workers /\ Stage(pc) \in 0 .. 6 /\ Stage(wpc[w]) \in 1 .. 6
    BY DEF TypeInv, TypeOK, Stage
  <1>2. WorkerSteps' \subseteq WorkerSteps
    BY <1>1 DEF WorkerSteps
  <1>3. <<w, Stage(wpc[w])>> \in WorkerSteps /\ <<w, Stage(wpc[w])>> \notin WorkerSteps'
    BY <1>1 DEF WorkerSteps
  <1>4. IsFiniteSet(WorkerSteps)
    BY WorkLeftType
  <1>5. /\ IsFiniteSet(WorkerSteps') /\ Cardinality(WorkerSteps') <= Cardinality(WorkerSteps)
        /\ Cardinality(WorkerSteps') # Cardinality(WorkerSteps)
    BY <1>2, <1>3, <1>4, FS_Subset
  <1>6. Cardinality(WorkerSteps') \in Nat /\ Cardinality(WorkerSteps) \in Nat
    BY <1>4, <1>5, FS_CardinalityType
  <1>. QED
    BY <1>5, <1>6

\* A worker that takes a task has all six to do.
LEMMA WorkerStarts ==
    ASSUME TypeInv, NEW w \in Workers, wpc' = [wpc EXCEPT ![w] = "hold"], wpc[w] = "idle"
    PROVE  Cardinality(WorkerSteps') = Cardinality(WorkerSteps) + 6
  <1>. DEFINE all == {w} \X (1 .. 6)
  <1>1. DOMAIN wpc = Workers /\ Stage("idle") = 0 /\ Stage("hold") = 6
    BY DEF TypeInv, TypeOK, Stage
  <1>2. ASSUME NEW v \in Workers, NEW k \in 1 .. 6
        PROVE  <<v, k>> \in WorkerSteps' <=> <<v, k>> \in WorkerSteps \/ v = w
    BY <1>1, <1>2 DEF WorkerSteps
  <1>3. WorkerSteps' = WorkerSteps \union all
    BY <1>1, <1>2 DEF WorkerSteps
  <1>4. WorkerSteps \intersect all = {}
    BY <1>1 DEF WorkerSteps
  <1>5. IsFiniteSet(all) /\ Cardinality(all) = 6
    <2>1. IsFiniteSet(1 .. 6) /\ Cardinality(1 .. 6) = 6
      BY SixSteps
    <2>2. IsFiniteSet({w}) /\ Cardinality({w}) = 1
      BY FS_Singleton
    <2>. QED
      BY <2>1, <2>2, FS_Product
  <1>6. IsFiniteSet(WorkerSteps) /\ Cardinality(WorkerSteps) \in Nat
    BY WorkLeftType, FS_CardinalityType
  <1>. HIDE DEF all
  <1>. QED
    BY <1>3, <1>4, <1>5, <1>6, FS_Union, FS_EmptySet

\* Every step of a cancelled session but Join's leaves less of it, and none puts the
\* cancellation off: no handler calls any more, and a frame only ever goes forward.
LEMMA DrainsStep == TypeInv /\ QuietInv /\ Next => DrainStep
  <1>. SUFFICES ASSUME TypeInv, QuietInv, Next, cancelled, sessPc # "none", ~JoinSession
                PROVE  WorkLeft' < WorkLeft /\ cancelled'
    BY DEF DrainStep
  <1>t. /\ frames \in Seq(Frame) /\ tasks \in Seq(Frame)
        /\ Len(frames) \in Nat /\ Len(tasks) \in Nat
        /\ frameNumber \in Nat /\ MaxFrame \in Nat
        /\ DOMAIN wpc = Workers
        /\ Cardinality(WorkerSteps) \in Nat
    BY WorkLeftType, FS_CardinalityType, Bounds DEF TypeInv, TypeOK
  <1>q. \A r \in Readers : rpc[r] = "idle" /\ sending[r] = 0
    BY DEF QuietInv, Deserted, Out
  <1>w. ASSUME wpc' = wpc PROVE Cardinality(WorkerSteps') = Cardinality(WorkerSteps)
    BY <1>w DEF WorkerSteps
  <1>. USE DEF upVars, downVars, streamVars, sessVars, workerVars
  <1>1. CASE StreamAcquire \/ StreamQuit \/ StreamDeliver \/ StreamFail
    <2>1. /\ sessPc' = sessPc /\ tasks' = tasks /\ wpc' = wpc /\ cancelled' = cancelled
      BY <1>1 DEF StreamAcquire, StreamQuit, StreamDeliver, StreamFail
    <2>2. CASE StreamDeliver
      <3>1. Len(frames') = Len(frames) + 1 /\ frameNumber' = frameNumber + 1
            /\ streamPc = "source" /\ streamPc' = "acquire"
        BY <1>t, <2>2 DEF StreamDeliver
      <3>. QED
        BY <1>t, <1>w, <2>1, <3>1 DEF WorkLeft, StreamLeft, SessionLeft
    <2>3. CASE StreamAcquire \/ StreamQuit \/ StreamFail
      <3>1. frames' = frames /\ frameNumber' = frameNumber
            /\ \/ streamPc = "acquire" /\ streamPc' \in {"source", "off"}
               \/ streamPc = "source" /\ streamPc' = "off"
        BY <2>3 DEF StreamAcquire, StreamQuit, StreamFail
      <3>. QED
        BY <1>t, <1>w, <2>1, <3>1 DEF WorkLeft, StreamLeft, SessionLeft
    <2>. QED
      BY <1>1, <2>2, <2>3
  <1>2. CASE SessionRecv \/ SessionPush \/ SessionStop \/ SessionNotify
    <2>1. /\ streamPc' = streamPc /\ frameNumber' = frameNumber /\ wpc' = wpc
          /\ cancelled' = cancelled
      BY <1>2 DEF SessionRecv, SessionPush, SessionStop, SessionNotify
    <2>2. SessionLeft' < SessionLeft /\ SessionLeft \in Nat /\ SessionLeft' \in Int
      <3>1. CASE SessionRecv
        <4>1. Len(frames') = Len(frames) - 1 /\ tasks' = tasks
              /\ sessPc = "recv" /\ sessPc' = "push"
          BY <1>t, <3>1 DEF SessionRecv
        <4>. QED
          BY <1>t, <4>1 DEF SessionLeft
      <3>2. CASE SessionPush
        <4>1. sessTask \in Frame
          BY <3>2 DEF SessionPush, TypeInv, Carried
        <4>2. frames' = frames /\ Len(tasks') = Len(tasks) + 1
              /\ sessPc = "push" /\ sessPc' = "recv"
          BY <1>t, <3>2, <4>1 DEF SessionPush
        <4>. QED
          BY <1>t, <4>2 DEF SessionLeft
      <3>3. CASE SessionStop \/ SessionNotify
        <4>1. frames' = frames /\ tasks' = tasks
              /\ \/ sessPc = "recv" /\ sessPc' = "notify"
                 \/ sessPc = "notify" /\ sessPc' = "over"
          BY <3>3 DEF SessionStop, SessionNotify
        <4>. QED
          BY <1>t, <4>1 DEF SessionLeft
      <3>. QED
        BY <1>2, <3>1, <3>2, <3>3
    <2>3. StreamLeft' = StreamLeft /\ StreamLeft \in Int
      BY <1>t, <2>1 DEF StreamLeft
    <2>. QED
      BY <1>t, <1>w, <2>1, <2>2, <2>3 DEF WorkLeft
  <1>3. ASSUME NEW w \in Workers, Worker(w) PROVE WorkLeft' < WorkLeft /\ cancelled'
    <2>1. /\ UNCHANGED <<streamPc, frameNumber, frames, sessPc, cancelled>>
      BY <1>3 DEF Worker, WorkerTake, Hold, WorkerHold, WorkerBusy, WorkerAvail, WorkerStuck,
         WorkerCompress, WorkerRelease, WorkerReturn, WorkerDone
    <2>2. StreamLeft' = StreamLeft /\ StreamLeft \in Int
      BY <1>t, <2>1 DEF StreamLeft
    <2>3. CASE WorkerTake(w)
      <3>1. Len(tasks') = Len(tasks) - 1
        BY <1>t, <2>3 DEF WorkerTake
      <3>2. Cardinality(WorkerSteps') = Cardinality(WorkerSteps) + 6
        BY <2>3, WorkerStarts DEF WorkerTake
      <3>3. SessionLeft' = SessionLeft - 7 /\ SessionLeft \in Int
        BY <1>t, <2>1, <3>1 DEF SessionLeft
      <3>. QED
        BY <1>t, <2>1, <2>2, <3>2, <3>3 DEF WorkLeft
    <2>4. CASE ~WorkerTake(w)
      <3>1. tasks' = tasks
        BY <1>3, <2>4 DEF Worker, Hold, WorkerHold, WorkerBusy, WorkerAvail, WorkerStuck,
           WorkerCompress, WorkerRelease, WorkerReturn, WorkerDone
      <3>2. ASSUME NEW pc, wpc' = [wpc EXCEPT ![w] = pc], Stage(pc) < Stage(wpc[w])
            PROVE  Cardinality(WorkerSteps') < Cardinality(WorkerSteps) /\ Cardinality(WorkerSteps') \in Nat
        BY <3>2, WorkerGoesOn
      <3>3. Cardinality(WorkerSteps') < Cardinality(WorkerSteps) /\ Cardinality(WorkerSteps') \in Nat
        <4>s. /\ Stage("return") < Stage("hold") /\ Stage("avail") < Stage("hold")
              /\ Stage("compress") < Stage("avail") /\ Stage("release") < Stage("avail")
              /\ Stage("release") < Stage("compress") /\ Stage("return") < Stage("release")
              /\ Stage("done") < Stage("return") /\ Stage("idle") < Stage("done")
          BY DEF Stage
        <4>1. CASE Hold(w) /\ SlotBusy(w)
          <5>1. wpc[w] = "hold" /\ wpc' = [wpc EXCEPT ![w] = "return"]
            BY <4>1 DEF Hold, WorkerBusy
          <5>2. Stage("return") < Stage(wpc[w])
            BY <4>s, <5>1
          <5>. QED
            BY <3>2, <5>1, <5>2
        <4>2. CASE Hold(w) /\ ~SlotBusy(w)
          <5>1. wpc[w] = "hold" /\ wpc' = [wpc EXCEPT ![w] = "avail"]
            BY <4>2 DEF Hold, WorkerHold
          <5>2. Stage("avail") < Stage(wpc[w])
            BY <4>s, <5>1
          <5>. QED
            BY <3>2, <5>1, <5>2
        <4>3. CASE WorkerAvail(w)
          <5>1. wpc[w] = "avail" /\ wpc' = [wpc EXCEPT ![w] = "compress"]
            BY <4>3 DEF WorkerAvail
          <5>2. Stage("compress") < Stage(wpc[w])
            BY <4>s, <5>1
          <5>. QED
            BY <3>2, <5>1, <5>2
        <4>4. CASE WorkerStuck(w)
          <5>1. wpc[w] = "avail" /\ wpc' = [wpc EXCEPT ![w] = "release"]
            BY <4>4 DEF WorkerStuck
          <5>2. Stage("release") < Stage(wpc[w])
            BY <4>s, <5>1
          <5>. QED
            BY <3>2, <5>1, <5>2
        <4>5. CASE WorkerCompress(w)
          <5>1. wpc[w] = "compress" /\ wpc' = [wpc EXCEPT ![w] = "release"]
            BY <4>5 DEF WorkerCompress
          <5>2. Stage("release") < Stage(wpc[w])
            BY <4>s, <5>1
          <5>. QED
            BY <3>2, <5>1, <5>2
        <4>6. CASE WorkerRelease(w)
          <5>1. wpc[w] = "release" /\ wpc' = [wpc EXCEPT ![w] = "return"]
            BY <4>6 DEF WorkerRelease
          <5>2. Stage("return") < Stage(wpc[w])
            BY <4>s, <5>1
          <5>. QED
            BY <3>2, <5>1, <5>2
        <4>7. CASE WorkerReturn(w)
          <5>1. wpc[w] = "return" /\ wpc' = [wpc EXCEPT ![w] = "done"]
            BY <4>7 DEF WorkerReturn
          <5>2. Stage("done") < Stage(wpc[w])
            BY <4>s, <5>1
          <5>. QED
            BY <3>2, <5>1, <5>2
        <4>8. CASE WorkerDone(w)
          <5>1. wpc[w] = "done" /\ wpc' = [wpc EXCEPT ![w] = "idle"]
            BY <4>8 DEF WorkerDone
          <5>2. Stage("idle") < Stage(wpc[w])
            BY <4>s, <5>1
          <5>. QED
            BY <3>2, <5>1, <5>2
        <4>. QED
          BY <1>3, <2>4, <4>1, <4>2, <4>3, <4>4, <4>5, <4>6, <4>7, <4>8 DEF Worker
      <3>4. SessionLeft' = SessionLeft /\ SessionLeft \in Int
        BY <1>t, <2>1, <3>1 DEF SessionLeft
      <3>. QED
        BY <1>t, <2>1, <2>2, <3>3, <3>4 DEF WorkLeft
    <2>. QED
      BY <2>3, <2>4
  <1>4. ~(StartSession \/ CancelSession)
    BY DEF StartSession, CancelSession
  <1>5. ASSUME NEW r \in Readers,
               \/ ReaderCall(r) \/ NextNil(r) \/ NextFrame(r) \/ NextPark(r) \/ NextWait(r)
               \/ ReaderLeave(r) \/ ReaderSkip(r) \/ ReaderHands(r) \/ SendDone(r)
        PROVE  FALSE
    BY <1>q, <1>5 DEF ReaderCall, NextNil, NextFrame, NextPark, NextWait, ReaderLeave,
       ReaderSkip, ReaderHands, SendDone
  <1>. QED
    BY <1>1, <1>2, <1>3, <1>4, <1>5 DEF Next, Reader

\* Join of a cancelled session returns after at most WorkLeft steps of its goroutines.
THEOREM CancelledSessionEnds == Spec => [](WorkLeft \in Nat) /\ DrainComesToAnEnd
  <1>1. TypeInv => WorkLeft \in Nat
    BY WorkLeftType
  <1>2. TypeInv /\ QuietInv /\ [Next]_vars => [DrainStep]_vars
    BY DrainsStep
  <1>. QED
    BY <1>1, <1>2, QuietAlways, PTL DEF Spec, DrainComesToAnEnd
---------------------------------------------------------------------------
(* A frame of an earlier session keeps its slot until this session holds   *)
(* one for that slot.  A frame this session has not come to is on its way, *)
(* and a step that takes it from one place puts it in the next.            *)

Pushed == sessPc # "push" => sessTask.num = 0
Numbered == \A s \in Slots : number[s] # 0 => SlotOf(number[s]) = s
OldAhead ==
    \A s \in Slots :
        status[s] = "Ready" /\ number[s] # 0 /\ content[s].gen # gen => NotReached(number[s])
ResultIsNew ==
    \A w \in Workers : wpc[w] = "release" /\ wres[w] = "Ready" => content[WSlot(w)].gen = gen

OldInv == Pushed /\ Numbered /\ OldAhead /\ ResultIsNew

\* Nothing is Ready.
LEMMA OldInit == Init => OldInv
  BY DEF Init, OldInv, Pushed, NoFrame, Numbered, OldAhead, ResultIsNew

\* Only a worker that holds a slot for frame n has come to it.
LEMMA AheadStep ==
    ASSUME TypeInv, Pushed, [Next]_vars, ~StartSession, NEW n \in Nat, n # 0, NotReached(n),
           \A w \in Workers : Hold(w) => wtask[w].num # n
    PROVE  NotReached(n)'
  <1>. USE DEF NotReached, upVars, downVars, pipeVars
  <1>t. /\ frames \in Seq(Frame) /\ tasks \in Seq(Frame) /\ frameNumber \in Nat
        /\ DOMAIN wpc = Workers /\ DOMAIN wtask = Workers
    BY DEF TypeInv, TypeOK
  <1>d. DOMAIN frames = 1 .. Len(frames) /\ DOMAIN tasks = 1 .. Len(tasks)
    BY <1>t
  <1>1. ASSUME UNCHANGED <<frameNumber, sessTask, frames, tasks>>,
               \A w \in Workers : wpc[w] = "hold" /\ wtask[w].num = n
                                    => wpc'[w] = "hold" /\ wtask'[w] = wtask[w]
        PROVE  NotReached(n)'
    BY <1>1
  <1>2. CASE StreamDeliver
    <2>1. /\ frames' = Append(frames, [num |-> frameNumber, buf |-> streamBuf])
          /\ frameNumber' = frameNumber + 1 /\ UNCHANGED <<sessTask, tasks, wpc, wtask>>
      BY <1>2 DEF StreamDeliver, sessVars, workerVars
    <2>2. /\ Len(frames) \in Nat /\ DOMAIN frames' = 1 .. Len(frames) + 1
          /\ frames'[Len(frames) + 1].num = frameNumber
          /\ \A i \in DOMAIN frames : frames'[i] = frames[i] /\ i \in DOMAIN frames'
      BY <1>t, <2>1
    <2>3. CASE n = frameNumber
      BY <2>2, <2>3
    <2>. QED
      BY <1>t, <2>1, <2>2, <2>3
  <1>3. CASE SessionRecv
    <2>1. /\ sessTask' = Head(frames) /\ frames' = Tail(frames) /\ frames # <<>>
          /\ UNCHANGED <<frameNumber, tasks, wpc, wtask>> /\ sessTask.num = 0
      BY <1>3 DEF SessionRecv, workerVars, Pushed
    <2>2. /\ DOMAIN frames' = 1 .. Len(frames) - 1 /\ Len(frames) \in Nat
          /\ sessTask' = frames[1] /\ \A i \in 1 .. Len(frames) - 1 : frames'[i] = frames[i + 1]
      BY <1>t, <2>1
    <2>3. ASSUME NEW i \in DOMAIN frames, frames[i].num = n PROVE NotReached(n)'
      <3>1. CASE i = 1
        BY <2>2, <2>3, <3>1
      <3>2. CASE i # 1
        <4>1. i - 1 \in DOMAIN frames' /\ frames'[i - 1] = frames[i]
          BY <1>t, <2>2, <3>2
        <4>. QED
          BY <2>3, <4>1
      <3>. QED
        BY <3>1, <3>2
    <2>. QED
      BY <2>1, <2>3
  <1>4. CASE SessionPush
    <2>1. /\ tasks' = Append(tasks, sessTask) /\ UNCHANGED <<frameNumber, frames, wpc, wtask>>
      BY <1>4 DEF SessionPush, streamVars, workerVars
    <2>2. sessTask \in Frame
      BY <1>4 DEF SessionPush, TypeInv, Carried
    <2>3. /\ Len(tasks) + 1 \in DOMAIN tasks' /\ tasks'[Len(tasks) + 1] = sessTask
          /\ \A i \in DOMAIN tasks : tasks'[i] = tasks[i] /\ i \in DOMAIN tasks'
      BY <1>t, <2>1, <2>2
    <2>. QED
      BY <2>1, <2>3
  <1>5. ASSUME NEW w \in Workers, WorkerTake(w) PROVE NotReached(n)'
    <2>1. /\ wtask' = [wtask EXCEPT ![w] = Head(tasks)] /\ wpc' = [wpc EXCEPT ![w] = "hold"]
          /\ wpc[w] = "idle" /\ tasks # <<>> /\ tasks' = Tail(tasks)
          /\ UNCHANGED <<frameNumber, sessTask, frames>>
      BY <1>5 DEF WorkerTake, streamVars, sessVars
    <2>2. /\ DOMAIN tasks' = 1 .. Len(tasks) - 1 /\ Len(tasks) \in Nat
          /\ Head(tasks) = tasks[1] /\ \A i \in 1 .. Len(tasks) - 1 : tasks'[i] = tasks[i + 1]
      BY <1>t, <2>1
    <2>3. wpc'[w] = "hold" /\ wtask'[w] = tasks[1]
      BY <1>t, <2>1, <2>2
    <2>4. ASSUME NEW i \in DOMAIN tasks, tasks[i].num = n PROVE NotReached(n)'
      <3>1. CASE i = 1
        BY <2>3, <2>4, <3>1
      <3>2. CASE i # 1
        <4>1. i - 1 \in DOMAIN tasks' /\ tasks'[i - 1] = tasks[i]
          BY <1>t, <2>2, <3>2
        <4>. QED
          BY <2>4, <4>1
      <3>. QED
        BY <3>1, <3>2
    <2>5. \A v \in Workers : wpc[v] = "hold" => wpc'[v] = "hold" /\ wtask'[v] = wtask[v]
      BY <1>t, <2>1
    <2>. QED
      BY <2>1, <2>4, <2>5
  <1>6. ASSUME NEW w \in Workers,
               \/ Hold(w) \/ WorkerAvail(w) \/ WorkerStuck(w) \/ WorkerCompress(w)
               \/ WorkerRelease(w) \/ WorkerReturn(w) \/ WorkerDone(w)
        PROVE  NotReached(n)'
    <2>1. UNCHANGED <<frameNumber, sessTask, frames, tasks>>
      BY <1>6 DEF Hold, WorkerHold, WorkerBusy, WorkerAvail, WorkerStuck, WorkerCompress,
         WorkerRelease, WorkerReturn, WorkerDone, streamVars, sessVars
    <2>2. \A v \in Workers : v # w => wpc'[v] = wpc[v] /\ wtask'[v] = wtask[v]
      BY <1>t, <1>6 DEF Hold, WorkerHold, WorkerBusy, WorkerAvail, WorkerStuck, WorkerCompress,
         WorkerRelease, WorkerReturn, WorkerDone
    <2>3. ~(wpc[w] = "hold" /\ wtask[w].num = n)
      BY <1>6 DEF WorkerAvail, WorkerStuck, WorkerCompress, WorkerRelease, WorkerReturn, WorkerDone
    <2>. QED
      BY <1>1, <2>1, <2>2, <2>3
  <1>7. CASE CancelSession \/ JoinSession \/ StreamAcquire \/ StreamQuit \/ StreamFail
             \/ SessionStop \/ SessionNotify \/ UNCHANGED vars
    BY <1>1, <1>7 DEF CancelSession, CancelContext, JoinSession, StreamAcquire, StreamQuit,
       StreamFail, SessionStop, SessionNotify, vars, streamVars, sessVars, workerVars
  <1>8. ASSUME NEW r \in Readers,
               \/ ReaderCall(r) \/ NextNil(r) \/ NextFrame(r) \/ NextPark(r) \/ NextWait(r)
               \/ ReaderLeave(r) \/ ReaderSkip(r) \/ ReaderHands(r) \/ SendDone(r)
        PROVE  NotReached(n)'
    BY <1>1, <1>8 DEF ReaderCall, CallNext, NextNil, NextFrame, NextPark, NextWait, ReaderLeave,
       ReaderSkip, ReaderHands, SendDone, AsksFor, streamVars, sessVars, workerVars
  <1>. QED
    BY <1>2, <1>3, <1>4, <1>5, <1>6, <1>7, <1>8 DEF Next, Worker, Reader

\* Every step keeps it; a session starts when no worker has a frame (QuietInv).
LEMMA OldStep == TypeInv /\ SlotInv /\ QuietInv /\ OldInv /\ [Next]_vars => OldInv'
  <1>. SUFFICES ASSUME TypeInv, SlotInv, QuietInv, OldInv, [Next]_vars PROVE OldInv'
    OBVIOUS
  <1>. USE DEF OldInv, upVars, downVars, pipeVars
  <1>t. /\ DOMAIN wpc = Workers /\ DOMAIN wtask = Workers /\ DOMAIN wres = Workers
        /\ DOMAIN status = Slots /\ DOMAIN number = Slots /\ DOMAIN content = Slots
        /\ \A s \in Slots : number[s] \in Nat
        /\ \A w \in Workers : wpc[w] \in {"hold", "avail", "compress", "release"} =>
             wtask[w].num \in Nat /\ WSlot(w) \in Slots
    <2>1. \A w \in Workers : wpc[w] \in {"hold", "avail", "compress", "release"} =>
             wtask[w].num \in Nat /\ WSlot(w) \in Slots
      BY SlotType DEF TypeInv, Carried, Frame, WSlot
    <2>2. \A s \in Slots : number[s] \in Nat
      BY DEF TypeInv, TypeOK
    <2>. QED
      BY <2>1, <2>2 DEF TypeInv, TypeOK
  <1>1. CASE StartSession
    <2>1. \A w \in Workers : wpc[w] = "idle"
      <3>1. Cardinality(BusyWorkers) = 0
        <4>1. Len(tasks) \in Nat
          BY DEF TypeInv, TypeOK
        <4>2. SessionShare = 0 /\ pendingFrames = 0
          BY <1>1 DEF StartSession, SessionShare, QuietInv
        <4>. QED
          BY <4>1, <4>2, BusyFinite DEF QuietInv, PendingCounted
      <3>. QED
        BY <3>1, BusyFinite, FS_EmptySet DEF BusyWorkers
    <2>2. /\ frameNumber' = 1 /\ sessPc' = "recv" /\ sessTask' = sessTask /\ sessPc = "none"
          /\ UNCHANGED <<wpc, wtask, wres, number, status, content>>
      BY <1>1 DEF StartSession, workerVars, slotVars
    <2>3. OldAhead'
      BY <1>t, <2>2 DEF OldAhead, NotReached
    <2>. QED
      BY <2>1, <2>2, <2>3 DEF Pushed, Numbered, ResultIsNew
  <1>. SUFFICES ASSUME ~StartSession PROVE OldInv'
    BY <1>1
  <1>2. gen' = gen /\ Pushed'
    <2>0. CASE JoinSession
      <3>1. sessPc = "over"
        BY <2>0, JoinedIsOver
      <3>. QED
        BY <2>0, <3>1 DEF Pushed, JoinSession
    <2>1. CASE \/ CancelSession \/ StreamAcquire \/ StreamQuit \/ StreamDeliver
               \/ StreamFail \/ SessionRecv \/ SessionPush \/ SessionStop \/ SessionNotify
               \/ UNCHANGED vars
      BY <2>1 DEF Pushed, NoFrame, CancelSession, CancelContext, StreamAcquire,
         StreamQuit, StreamDeliver, StreamFail, SessionRecv, SessionPush, SessionStop,
         SessionNotify, vars, sessVars
    <2>2. ASSUME NEW w \in Workers, Worker(w) PROVE gen' = gen /\ Pushed'
      BY <2>2 DEF Pushed, Worker, WorkerTake, Hold, WorkerHold, WorkerBusy, WorkerAvail,
         WorkerStuck, WorkerCompress, WorkerRelease, WorkerReturn, WorkerDone, sessVars
    <2>3. ASSUME NEW r \in Readers,
                 \/ ReaderCall(r) \/ NextNil(r) \/ NextFrame(r) \/ NextPark(r) \/ NextWait(r)
                 \/ ReaderLeave(r) \/ ReaderSkip(r) \/ ReaderHands(r) \/ SendDone(r)
          PROVE  gen' = gen /\ Pushed'
      BY <2>3 DEF Pushed, ReaderCall, CallNext, NextNil, NextFrame, NextPark, NextWait,
         ReaderLeave, ReaderSkip, ReaderHands, SendDone, AsksFor, sessVars
    <2>. QED
      BY <2>0, <2>1, <2>2, <2>3 DEF Next, Reader
  <1>3. ASSUME NEW s \in Slots, status[s] = "Ready", number[s] # 0, content[s].gen # gen,
               \A w \in Workers : Hold(w) => WSlot(w) # s, number'[s] = number[s]
        PROVE  NotReached(number[s])'
    <2>1. ASSUME NEW n \in Nat, n = number[s] PROVE NotReached(n)'
      <3>1. \A w \in Workers : Hold(w) => wtask[w].num # n
        BY <1>3, <2>1 DEF Numbered, WSlot
      <3>2. NotReached(n)
        BY <1>3, <2>1 DEF OldAhead
      <3>. QED
        BY <1>3, <2>1, <3>1, <3>2, AheadStep
    <2>. QED
      BY <1>t, <1>3, <2>1
  <1>4. ASSUME UNCHANGED <<slotVars, wtask>>, \A w \in Workers : ~Hold(w) \/ SlotBusy(w),
               \A w \in Workers : wpc'[w] = "release" /\ wres'[w] = "Ready" =>
                   wpc[w] = "release" /\ wres[w] = "Ready"
        PROVE  OldInv'
    <2>1. ASSUME NEW s \in Slots, status[s] = "Ready", number[s] # 0, content[s].gen # gen
          PROVE  NotReached(number[s])'
      BY <1>3, <1>4, <2>1 DEF SlotBusy, WSlot, slotVars
    <2>. QED
      BY <1>2, <1>4, <2>1 DEF Numbered, OldAhead, ResultIsNew, WSlot, slotVars
  <1>h. \A w \in Workers : Hold(w) => wpc[w] = "hold" /\ wpc'[w] # "hold"
    BY <1>t DEF Hold, WorkerHold, WorkerBusy
  <1>5. CASE \/ CancelSession \/ JoinSession \/ StreamAcquire \/ StreamQuit \/ StreamDeliver
             \/ StreamFail \/ SessionRecv \/ SessionPush \/ SessionStop \/ SessionNotify
             \/ UNCHANGED vars
    <2>1. UNCHANGED <<slotVars, workerVars>>
      BY <1>5 DEF CancelSession, CancelContext, JoinSession, StreamAcquire, StreamQuit,
         StreamDeliver, StreamFail, SessionRecv, SessionPush, SessionStop, SessionNotify, vars
    <2>. QED
      BY <1>4, <1>h, <2>1 DEF workerVars
  <1>6. ASSUME NEW r \in Readers,
               \/ ReaderCall(r) \/ NextNil(r) \/ NextFrame(r) \/ NextPark(r) \/ NextWait(r)
               \/ ReaderLeave(r) \/ ReaderSkip(r) \/ ReaderHands(r) \/ SendDone(r)
        PROVE  OldInv'
    <2>1. UNCHANGED <<slotVars, workerVars>>
      BY <1>6 DEF ReaderCall, CallNext, NextNil, NextFrame, NextPark, NextWait, ReaderLeave,
         ReaderSkip, ReaderHands, SendDone, AsksFor
    <2>. QED
      BY <1>4, <1>h, <2>1 DEF workerVars
  <1>7. ASSUME NEW w \in Workers, Worker(w) PROVE OldInv'
    <2>a. \A v \in Workers : v # w => ~Hold(v)
      BY <1>t, <1>h, <1>7 DEF Worker, WorkerTake, Hold, WorkerHold, WorkerBusy, WorkerAvail,
         WorkerStuck, WorkerCompress, WorkerRelease, WorkerReturn, WorkerDone
    <2>s. ASSUME UNCHANGED number,
                 \A s \in Slots : status'[s] = "Ready" /\ content'[s].gen # gen =>
                     status[s] = "Ready" /\ content[s].gen # gen,
                 ~Hold(w), ResultIsNew'
          PROVE  OldInv'
      <3>1. ASSUME NEW s \in Slots, status'[s] = "Ready", number'[s] # 0, content'[s].gen # gen
            PROVE  NotReached(number[s])'
        BY <1>3, <2>a, <2>s, <3>1
      <3>. QED
        BY <1>2, <2>s, <3>1 DEF Numbered, OldAhead
    <2>1. CASE WorkerTake(w) \/ WorkerStuck(w) \/ WorkerReturn(w) \/ WorkerDone(w)
      <3>1. UNCHANGED slotVars /\ ~Hold(w)
        BY <1>h, <2>1 DEF WorkerTake, WorkerStuck, WorkerReturn, WorkerDone
      <3>2. \A v \in Workers : wpc'[v] = "release" /\ wres'[v] = "Ready" =>
              wpc[v] = "release" /\ wres[v] = "Ready" /\ wtask'[v] = wtask[v]
        BY <1>t, <2>1 DEF WorkerTake, WorkerStuck, WorkerReturn, WorkerDone
      <3>3. ResultIsNew'
        BY <1>2, <3>1, <3>2 DEF ResultIsNew, WSlot, slotVars
      <3>. QED
        BY <2>s, <3>1, <3>3 DEF slotVars
    <2>2. CASE Hold(w) /\ SlotBusy(w)
      <3>1. UNCHANGED <<slotVars, wtask, wres>> /\ wpc' = [wpc EXCEPT ![w] = "return"]
        BY <2>2 DEF Hold, WorkerBusy
      <3>. QED
        BY <1>t, <1>4, <2>2, <2>a, <3>1
    <2>3. CASE Hold(w) /\ ~SlotBusy(w)
      <3>. DEFINE n == wtask[w].num
      <3>1. /\ number' = [number EXCEPT ![WSlot(w)] = n]
            /\ status' = [status EXCEPT ![WSlot(w)] = "Compressing"]
            /\ wpc' = [wpc EXCEPT ![w] = "avail"] /\ wpc[w] = "hold"
            /\ UNCHANGED <<wtask, wres, content>>
        BY <2>3 DEF Hold, WorkerHold, WSlot
      <3>2. ASSUME NEW s \in Slots, status'[s] = "Ready", number'[s] # 0, content'[s].gen # gen
            PROVE  NotReached(number[s])'
        <4>1. s # WSlot(w) /\ number'[s] = number[s] /\ status[s] = "Ready"
          BY <1>t, <3>1, <3>2
        <4>. QED
          BY <1>3, <2>a, <3>1, <3>2, <4>1
      <3>3. Numbered'
        BY <1>t, <3>1 DEF Numbered, WSlot
      <3>4. ResultIsNew'
        BY <1>t, <1>2, <3>1 DEF ResultIsNew, WSlot
      <3>. QED
        BY <1>2, <3>2, <3>3, <3>4 DEF OldAhead
    <2>4. CASE WorkerAvail(w)
      <3>1. /\ content' = [content EXCEPT ![WSlot(w)] = Torn] /\ wpc[w] = "avail"
            /\ wpc' = [wpc EXCEPT ![w] = "compress"] /\ UNCHANGED <<wtask, wres, number, status>>
        BY <2>4 DEF WorkerAvail, WSlot
      <3>2. status[WSlot(w)] = "Compressing"
        BY <3>1 DEF SlotInv, OwnerMarked, Owning
      <3>3. \A v \in Workers : wpc'[v] = "release" => v # w /\ wpc[v] = "release"
                                                        /\ WSlot(v) # WSlot(w)
        BY <1>t, <3>1 DEF SlotInv, OwnersApart, Owning
      <3>4. ResultIsNew'
        BY <1>t, <1>2, <3>1, <3>3 DEF ResultIsNew, WSlot
      <3>. QED
        BY <1>t, <1>h, <2>s, <3>1, <3>2, <3>4
    <2>5. CASE WorkerCompress(w)
      <3>1. /\ \/ content' = [content EXCEPT ![WSlot(w)] = [gen |-> gen, num |-> wtask[w].num]]
               \/ content' = content /\ wres' = [wres EXCEPT ![w] = "Failed"]
            /\ \A v \in Workers : v # w => wres'[v] = wres[v] /\ wpc'[v] = wpc[v]
            /\ wpc[w] = "compress" /\ UNCHANGED <<wtask, number, status>>
        BY <1>t, <2>5 DEF WorkerCompress, WSlot
      <3>2. status[WSlot(w)] = "Compressing"
        BY <3>1 DEF SlotInv, OwnerMarked, Owning
      <3>3. \A v \in Workers : wpc[v] = "release" => v # w /\ WSlot(v) # WSlot(w)
        BY <3>1 DEF SlotInv, OwnersApart, Owning
      <3>4. ResultIsNew'
        BY <1>t, <1>2, <3>1, <3>3 DEF ResultIsNew, WSlot
      <3>. QED
        BY <1>t, <1>h, <2>s, <3>1, <3>2, <3>4
    <2>6. CASE WorkerRelease(w)
      <3>1. /\ status' = [status EXCEPT ![WSlot(w)] = wres[w]] /\ wpc[w] = "release"
            /\ wres' = [wres EXCEPT ![w] = "Failed"] /\ wpc' = [wpc EXCEPT ![w] = "return"]
            /\ UNCHANGED <<wtask, number, content>>
        BY <2>6 DEF WorkerRelease, WSlot
      <3>2. wres[w] = "Ready" => content[WSlot(w)].gen = gen
        BY <3>1 DEF ResultIsNew
      <3>3. ResultIsNew'
        BY <1>t, <1>2, <3>1 DEF ResultIsNew, WSlot
      <3>. QED
        BY <1>t, <1>h, <2>s, <3>1, <3>2, <3>3
    <2>. QED
      BY <1>7, <2>1, <2>2, <2>3, <2>4, <2>5, <2>6 DEF Worker
  <1>. QED
    BY <1>5, <1>6, <1>7 DEF Next, Reader

\* A reader is given what the slot of its frame shows.
LEMMA GivenStep ==
    ASSUME TypeInv, [Next]_vars, NEW r \in Readers, rpc[r] = "calling", rpc'[r] = "reading"
    PROVE  NextFrame(r)
  <1>t. DOMAIN rpc = Readers /\ \A q \in Readers : rpc[q] \in {"calling", "reading"} => Woken[q] = rpc[q]
    BY DEF TypeInv, TypeOK, Woken
  <1>. USE DEF upVars, downVars, pipeVars
  <1>1. CASE \/ StartSession \/ CancelSession \/ JoinSession \/ StreamAcquire \/ StreamQuit
             \/ StreamDeliver \/ StreamFail \/ SessionRecv \/ SessionPush \/ SessionStop
             \/ SessionNotify \/ UNCHANGED vars
    BY <1>t, <1>1 DEF StartSession, CancelSession, CancelContext, JoinSession, StreamAcquire,
       StreamQuit, StreamDeliver, StreamFail, SessionRecv, SessionPush, SessionStop, SessionNotify,
       vars, readerVars
  <1>2. ASSUME NEW w \in Workers, Worker(w) PROVE FALSE
    BY <1>t, <1>2 DEF Worker, WorkerTake, Hold, WorkerHold, WorkerBusy, WorkerAvail,
       WorkerStuck, WorkerCompress, WorkerRelease, WorkerReturn, WorkerDone, readerVars
  <1>3. ASSUME NEW q \in Readers,
               \/ ReaderCall(q) \/ NextNil(q) \/ NextFrame(q) \/ NextPark(q) \/ NextWait(q)
               \/ ReaderLeave(q) \/ ReaderSkip(q) \/ ReaderHands(q) \/ SendDone(q)
        PROVE  NextFrame(r)
    BY <1>t, <1>3 DEF ReaderCall, CallNext, NextNil, NextFrame, NextPark, NextWait, ReaderLeave,
       ReaderSkip, ReaderHands, SendDone, AsksFor
  <1>. QED
    BY <1>1, <1>2, <1>3 DEF Next, Reader

\* No reader is given an old frame that this session has come to.
GivenAhead ==
    \A r \in Readers :
        /\ rpc[r] = "calling" /\ rpc'[r] = "reading" /\ rstat'[r] = "Ready"
        /\ content[SlotOf(rnum[r])].gen # gen
        => NotReached(rnum[r])

\* What Next looks at in the slot is what OldAhead speaks of.
LEMMA GivenAheadStep == TypeInv /\ OldInv /\ [Next]_vars => GivenAhead
  <1>. SUFFICES ASSUME TypeInv, OldInv, [Next]_vars, NEW r \in Readers,
                       rpc[r] = "calling", rpc'[r] = "reading", rstat'[r] = "Ready",
                       content[SlotOf(rnum[r])].gen # gen
                PROVE  NotReached(rnum[r])
    BY DEF GivenAhead
  <1>1. rnum[r] \in Nat /\ rnum[r] # 0 /\ DOMAIN rstat = Readers
    BY DEF TypeInv, TypeOK
  <1>2. number[SlotOf(rnum[r])] = rnum[r] /\ status[SlotOf(rnum[r])] = "Ready"
    BY <1>1, GivenStep DEF NextFrame, Finished, InPool
  <1>3. SlotOf(rnum[r]) \in Slots
    BY <1>1, SlotType
  <1>. QED
    BY <1>1, <1>2, <1>3 DEF OldInv, OldAhead

\* A frame of an earlier session is only sent under a number this one has not come to.
THEOREM OldFramesAreAhead == Spec => OldFrameOnlyAhead
  <1>1. TypeInv /\ OldInv /\ [Next]_vars
          => [\A r \in Readers :
                /\ rpc[r] = "calling" /\ rpc'[r] = "reading" /\ rstat'[r] = "Ready"
                /\ content[SlotOf(rnum[r])].gen # gen
                => NotReached(rnum[r])]_vars
    BY GivenAheadStep DEF GivenAhead
  <1>. QED
    BY <1>1, TypeInit, TypeStep, SlotInit, SlotStep, QuietInit, QuietStep, OldInit, OldStep, PTL
       DEF Spec, OldFrameOnlyAhead
===========================================================================
