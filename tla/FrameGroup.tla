----------------------------- MODULE FrameGroup -----------------------------
(***************************************************************************)
(* The WaitGroup of a compressed frame (JpegFrame.group in                 *)
(* internal/driver/jpeg/pool.go) inside the pipeline: the goroutines that  *)
(* wait in it, those JpegFrame.available leaves behind when its timer      *)
(* fires, and the ten-second watchdog of a frame that was not stuck        *)
(* before.  JpegPipeline has only the readers in the group.                *)
(*                                                                         *)
(* Behaviours end where the watchdog panics: it may do so when its         *)
(* goroutine has waited for ten seconds.                                   *)
(***************************************************************************)
EXTENDS JpegPipeline

CONSTANTS Waiters, NoWaiter     \* bound: goroutines in group.Wait, used again

VARIABLES
    waiter,     \* per goroutine: where it is in Wait, and in the group of which slot
    mine,       \* the goroutine whose channel a worker selects from, in available
    oldStatus   \* what hold returned to a worker

groupVars == <<vars, waiter, mine, oldStatus>>

GInit ==
    /\ Init
    /\ waiter = [g \in Waiters |-> [pc |-> "over", slot |-> 0]]
    /\ mine = [w \in Workers |-> NoWaiter]
    /\ oldStatus = [w \in Workers |-> "Empty"]

\* A goroutine that has ended, and that no worker waits for, stands for a new one.
Fresh == {g \in Waiters : waiter[g].pc = "over" /\ \A w \in Workers : mine[w] # g}

\* WaitGroup.Wait returns at once if the count is zero.
Waiting(s) == [pc |-> IF ReadersOf(s) = {} THEN "over" ELSE "parked", slot |-> s]
---------------------------------------------------------------------------
GroupHold(w) ==
    /\ Hold(w) /\ ~SlotBusy(w)
    /\ oldStatus' = [oldStatus EXCEPT ![w] = status[SlotOf(wtask[w].num)]]
    /\ UNCHANGED <<waiter, mine>>

\* available starts its goroutine, which is in Wait long before the timer fires.
AvailStart(w) ==
    /\ wpc[w] = "avail" /\ mine[w] = NoWaiter
    /\ \E g \in Fresh :
        /\ waiter' = [waiter EXCEPT ![g] = Waiting(SlotOf(wtask[w].num))]
        /\ mine' = [mine EXCEPT ![w] = g]
    /\ UNCHANGED <<vars, oldStatus>>

\* The goroutine of the watchdog runs, and waits as well.
WaitStart(g) ==
    /\ waiter[g].pc = "start"
    /\ waiter' = [waiter EXCEPT ![g] = Waiting(waiter[g].slot)]
    /\ UNCHANGED <<vars, mine, oldStatus>>

\* A goroutine that has been woken runs, and looks whether the group is still unused.
WaitReturn(g) ==
    /\ waiter[g].pc = "woken"
    /\ waiter' = [waiter EXCEPT ![g].pc = "over"]
    /\ UNCHANGED <<vars, mine, oldStatus>>

GroupAvail(w) ==
    /\ mine[w] \in Waiters /\ waiter[mine[w]].pc = "over"
    /\ WorkerAvail(w)
    /\ mine' = [mine EXCEPT ![w] = NoWaiter]
    /\ UNCHANGED <<waiter, oldStatus>>

\* The timer fires, and select takes it: the goroutine is left behind, unless it has ended
\* by then, and the watchdog started.
GroupStuck(w) ==
    /\ mine[w] \in Waiters
    /\ WorkerStuck(w)
    /\ mine' = [mine EXCEPT ![w] = NoWaiter]
    /\ IF oldStatus[w] = "Stuck" THEN waiter' = waiter
       ELSE \E g \in Fresh :
            waiter' = [waiter EXCEPT ![g] = [pc |-> "start", slot |-> SlotOf(wtask[w].num)]]
    /\ UNCHANGED oldStatus

\* The groups whose count the step leaves at zero.
Unused == {s \in Slots : ReadersOf(s)' = {}}

\* WaitGroup.Done: whoever brings the count to zero wakes all that wait.
Signalled ==
    [g \in Waiters |->
        IF waiter[g].pc = "parked" /\ waiter[g].slot \in Unused
        THEN [waiter[g] EXCEPT !.pc = "woken"] ELSE waiter[g]]

GroupDone(r) ==
    /\ ReaderLeave(r) \/ ReaderSkip(r) \/ SendDone(r)
    /\ waiter' = Signalled
    /\ UNCHANGED <<mine, oldStatus>>

\* The rest of the pipeline does not touch a group, but for Next, which adds a reader.
Elsewhere ==
    /\ \/ StartSession \/ CancelSession \/ JoinSession
       \/ StreamAcquire \/ StreamQuit \/ StreamDeliver \/ StreamFail
       \/ SessionRecv \/ SessionPush \/ SessionStop \/ SessionNotify
       \/ \E w \in Workers : \/ WorkerTake(w) \/ (Hold(w) /\ SlotBusy(w)) \/ WorkerCompress(w)
                             \/ WorkerRelease(w) \/ WorkerReturn(w) \/ WorkerDone(w)
       \/ \E r \in Readers : \/ ReaderCall(r) \/ NextNil(r) \/ NextFrame(r)
                             \/ NextPark(r) \/ NextWait(r) \/ ReaderHands(r)
    /\ UNCHANGED <<waiter, mine, oldStatus>>

GNext ==
    \/ \E w \in Workers : GroupHold(w) \/ AvailStart(w) \/ GroupAvail(w) \/ GroupStuck(w)
    \/ \E g \in Waiters : WaitStart(g) \/ WaitReturn(g)
    \/ \E r \in Readers : GroupDone(r)
    \/ Elsewhere

GSpec == GInit /\ [][GNext]_groupVars
---------------------------------------------------------------------------
\* "The goroutine will leak if there are readers stuck ... so this is ok" (pool.go:227):
\* a goroutine that available has left behind does no harm when it is woken at last.
\* A WaitGroup panics if it is in use again before a woken Wait has returned.
LeakIsHarmless ==
    [][\A g \in Waiters : WaitReturn(g) => ReadersOf(waiter[g].slot) = {}]_groupVars
===========================================================================
