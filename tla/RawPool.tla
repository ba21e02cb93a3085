------------------------------ MODULE RawPool ------------------------------
(***************************************************************************)
(* The rest of the life of the pools of internal/driver/jpeg/pool.go: the  *)
(* watchdog, which takes a raw image out of freeList and puts it back      *)
(* while the pipeline works, and the shutdown, in which Pipeline.Join      *)
(* frees the compressed images, Farm.Stop ends the workers and Pool.Free   *)
(* collects and frees the raw images.                                      *)
(***************************************************************************)
EXTENDS JpegPipeline

VARIABLES
    wdPc, wdBuf,    \* the goroutine of Pool.watchdog, the image it has taken
    freePc,         \* the goroutine that calls Pool.Free
    freed,          \* the raw images it has freed
    shutPc          \* how far the shutdown of pipeline and farm has got

poolVars == <<wdPc, wdBuf, freePc, freed, shutPc>>
rawVars == <<vars, poolVars>>

RInit ==
    /\ Init
    /\ wdPc = "watch" /\ wdBuf = NoBuffer
    /\ freePc = "no" /\ freed = {} /\ shutPc = "up"
---------------------------------------------------------------------------
(* The pipeline.  No session starts once Join has been called.             *)

PipelineStep ==
    /\ Next
    /\ StartSession => shutPc = "up"
    /\ UNCHANGED poolVars

\* A stream that waits for an image finds freeList closed.
StreamClosed ==
    /\ streamPc = "acquire" /\ freePc = "done"
    /\ streamPc' = "off"
    /\ UNCHANGED <<freeList, streamBuf, frameNumber, frames, sessVars,
                   pendingFrames, tasks, downVars, poolVars>>
---------------------------------------------------------------------------
(* Pool.watchdog.                                                          *)

\* It has seen a tick, and one image is there before the next.  If none is, it panics:
\* the behaviours are those before that, and before a tick that beats an image.
WatchdogTake ==
    /\ wdPc = "watch"
    /\ \E b \in freeList : freeList' = freeList \ {b} /\ wdBuf' = b
    /\ wdPc' = "return"
    /\ UNCHANGED <<upVars, pendingFrames, tasks, downVars, freePc, freed, shutPc>>

\* Mutant: the image it has seen is not put back.
WatchdogKeep ==
    /\ wdPc = "return"
    /\ wdBuf' = NoBuffer /\ wdPc' = "watch"
    /\ UNCHANGED <<vars, freePc, freed, shutPc>>

WatchdogReturn ==
    /\ wdPc = "return"
    /\ freeList' = Returned(wdBuf)
    /\ wdBuf' = NoBuffer /\ wdPc' = "watch"
    /\ UNCHANGED <<upVars, pendingFrames, tasks, downVars, freePc, freed, shutPc>>

\* Pool.free is closed, or freeList.
WatchdogGone ==
    /\ wdPc = "watch" /\ freePc # "no"
    /\ wdPc' = "gone"
    /\ UNCHANGED <<vars, wdBuf, freePc, freed, shutPc>>
---------------------------------------------------------------------------
(* The shutdown.                                                           *)

\* Pipeline.Join: "All Sessions must be joined before this".  It waits for the readers
\* of every slot, and frees its image.
PipelineJoin ==
    /\ shutPc = "up" /\ sessPc = "none"
    /\ \A s \in Slots : ReadersOf(s) = {}
    /\ shutPc' = "joined"
    /\ UNCHANGED <<vars, wdPc, wdBuf, freePc, freed>>

\* Farm.Stop closes the channel of tasks, and waits for the workers.
FarmStop ==
    /\ shutPc = "joined" /\ tasks = <<>> /\ \A w \in Workers : wpc[w] = "idle"
    /\ shutPc' = "stopped"
    /\ UNCHANGED <<vars, wdPc, wdBuf, freePc, freed>>

\* Pool.Free waits for nothing but the images.
FreeCall ==
    /\ freePc = "no"
    /\ freePc' = "freeing"
    /\ UNCHANGED <<vars, wdPc, wdBuf, freed, shutPc>>

FreeTake ==
    /\ freePc = "freeing"
    /\ \E b \in freeList : freeList' = freeList \ {b} /\ freed' = freed \union {b}
    /\ UNCHANGED <<upVars, pendingFrames, tasks, downVars, wdPc, wdBuf, freePc, shutPc>>

\* It has received poolSize images: close freeList.
FreeClose ==
    /\ freePc = "freeing" /\ Cardinality(freed) = Cardinality(Buffers)
    /\ freePc' = "done"
    /\ UNCHANGED <<vars, wdPc, wdBuf, freed, shutPc>>
---------------------------------------------------------------------------
RNext ==
    \/ PipelineStep \/ StreamClosed
    \/ WatchdogTake \/ WatchdogReturn \/ WatchdogGone
    \/ PipelineJoin \/ FarmStop
    \/ FreeCall \/ FreeTake \/ FreeClose

RSpec == RInit /\ [][RNext]_rawVars
---------------------------------------------------------------------------
\* The places that hold raw image b, the watchdog and those freed included.
RawHolders(b) ==
    Holders(b) \union (IF b = wdBuf THEN {<<"watchdog", 0>>} ELSE {})
               \union (IF b \in freed THEN {<<"freed", 0>>} ELSE {})

\* No raw image is lost, handed to two owners or used after it was freed, on any path
\* through the stream, the session, the farm and the watchdog, with Free called at any
\* time.  So nobody has an image to send when Free closes freeList (a send would
\* panic, pool.go:175), and Free gets as many as it waits for.
RawImageHasOneHolder == \A b \in Buffers : Cardinality(RawHolders(b)) = 1

\* The compressed images are freed when nobody reads or writes them: the session that
\* was joined has left no frame in a channel or in a worker, although the worker is
\* counted by the session and not by the pool that is freed.
FreedSlotsAreQuiet ==
    shutPc # "up" =>
        /\ frames = <<>> /\ tasks = <<>> /\ streamPc = "off"
        /\ \A w \in Workers : wpc[w] = "idle"
        /\ \A r \in Readers : Out(r)

\* A slot that hold finds busy (pool.go:284) is really being compressed: no way out of
\* run, a stuck or a failed frame included, leaves a slot marked for ever.
BusySlotHasWorker ==
    \A s \in Slots : status[s] = "Compressing" =>
        \E w \in Workers : wpc[w] \in {"avail", "compress", "release"} /\ SlotOf(wtask[w].num) = s
===========================================================================
