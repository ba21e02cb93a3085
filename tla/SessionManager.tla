-------------------------- MODULE SessionManager --------------------------
(***************************************************************************)
(* internal/driver/jpeg/manager.go and the two HTTP handlers that use it   *)
(* (jpeg/handler.go, mjpeg/handler.go), over the pipeline they share.      *)
(*                                                                         *)
(* SessionManager starts the source and a session for the first handler    *)
(* that acquires it, and cancels and joins the session, then stops the     *)
(* source, when the last handler is done.  It does so with its mutex held: *)
(* the end of the last handler is two actions, DoneLast and DoneJoined,    *)
(* and what lies between them is Session.Join waiting for the pipeline.    *)
(***************************************************************************)
EXTENDS JpegPipeline

ASSUME HandlerAssumption == IsFiniteSet(Readers)

VARIABLES
    started,        \* ResumableSource.Start has been called, and not Stop
    users,          \* SessionManager.users
    closed,         \* SessionManager.cancelled
    joinPc,         \* the goroutine that calls SessionManager.Join
    hpc             \* where each handler is

mgrVars == <<started, users, closed, joinPc, hpc>>
allVars == <<vars, mgrVars>>

\* Done keeps the mutex while it waits for the session.
MutexFree == \A h \in Readers : hpc[h] # "joining"

MInit ==
    /\ Init
    /\ started = FALSE /\ users = 0 /\ closed = FALSE
    /\ joinPc = "no"
    /\ hpc = [h \in Readers |-> "out"]
---------------------------------------------------------------------------
(* SessionManager.Acquire: the session exists, or the source starts.  When *)
(* the source fails to start, or the manager is closed, nothing changes.   *)

AcquireRunning(h) ==
    /\ sessPc # "none"
    /\ UNCHANGED <<vars, started>>

AcquireStarting(h) ==
    /\ StartSession
    /\ started' = TRUE

Acquire(h) ==
    /\ hpc[h] = "out" /\ MutexFree /\ ~closed
    /\ AcquireRunning(h) \/ AcquireStarting(h)
    /\ users' = users + 1
    /\ hpc' = [hpc EXCEPT ![h] = "in"]
    /\ UNCHANGED <<closed, joinPc>>
---------------------------------------------------------------------------
(* A handler between Acquire and Done.                                     *)

\* It starts to read frames.
HandlerCalls(h) ==
    /\ hpc[h] = "in"
    /\ CallNext(h)
    /\ hpc' = [hpc EXCEPT ![h] = "next"]
    /\ UNCHANGED <<started, users, closed, joinPc>>

\* Hijacking the connection failed: it leaves without reading.
HandlerGivesUp(h) ==
    /\ h \in Streams /\ hpc[h] = "in"
    /\ hpc' = [hpc EXCEPT ![h] = "leave"]
    /\ UNCHANGED <<vars, started, users, closed, joinPc>>

\* The goroutine that calls Next: of a picture the handler itself.
HandlerFetches(h) ==
    /\ hpc[h] = "next"
    /\ \/ NextNil(h) \/ NextFrame(h) \/ NextPark(h) \/ NextWait(h)
       \/ ReaderLeave(h) \/ ReaderSkip(h) \/ ReaderHands(h)
    /\ UNCHANGED mgrVars

\* The loop over `frames`, which sends them until one fails, and discards them then.
HandlerSends(h) ==
    /\ hpc[h] = "next"
    /\ SendDone(h)
    /\ UNCHANGED mgrVars

\* Mutant: once sending has failed the channel is not exhausted.
LoopLeft(h) == sending[h] = 0

\* The loop ends, or exhausting the channel does, when it is closed and all is done with.
LoopOver(h) == Out(h)

HandlerEnds(h) ==
    /\ hpc[h] = "next" /\ LoopOver(h)
    /\ hpc' = [hpc EXCEPT ![h] = "leave"]
    /\ UNCHANGED <<vars, started, users, closed, joinPc>>
---------------------------------------------------------------------------
(* SessionManager.Done.                                                    *)

LastUser == users - 1 <= 0

DoneNotLast(h) ==
    /\ hpc[h] = "leave" /\ MutexFree /\ ~LastUser
    /\ users' = users - 1
    /\ hpc' = [hpc EXCEPT ![h] = "out"]
    /\ UNCHANGED <<vars, started, closed, joinPc>>

\* Mutant: the source is stopped before the session is joined.
StoppedEarly == FALSE

\* The source goes on until the session is joined.
WhileJoining == started

DoneLast(h) ==
    /\ hpc[h] = "leave" /\ MutexFree /\ LastUser
    /\ users' = users - 1
    /\ CancelContext
    /\ started' = WhileJoining
    /\ hpc' = [hpc EXCEPT ![h] = "joining"]
    /\ UNCHANGED <<closed, joinPc>>

\* Mutant: Done does not broadcast.
NotTold == joinPc

\* The goroutine in Join, after cond.Broadcast.
Told == IF joinPc = "waiting" THEN "woken" ELSE joinPc

\* Session.Join returned: stop the source, forget the session, unlock.
DoneJoined(h) ==
    /\ hpc[h] = "joining"
    /\ JoinSession
    /\ started' = FALSE
    /\ joinPc' = Told
    /\ hpc' = [hpc EXCEPT ![h] = "out"]
    /\ UNCHANGED <<users, closed>>
---------------------------------------------------------------------------
(* SessionManager.Join.  Registration with the condition variable and its  *)
(* Broadcast both happen under the mutex.                                  *)

JoinOrWait == joinPc' = IF users > 0 THEN "waiting" ELSE "done"

JoinCall ==
    /\ joinPc = "no" /\ MutexFree
    /\ closed' = TRUE
    /\ JoinOrWait
    /\ UNCHANGED <<vars, started, users, hpc>>

JoinWake ==
    /\ joinPc = "woken" /\ MutexFree
    /\ JoinOrWait
    /\ UNCHANGED <<vars, started, users, closed, hpc>>
---------------------------------------------------------------------------
Goroutines ==
    \/ StreamAcquire \/ StreamQuit \/ StreamDeliver \/ StreamFail
    \/ SessionRecv \/ SessionPush \/ SessionStop \/ SessionNotify
    \/ \E w \in Workers : Worker(w)

MNext ==
    \/ Goroutines /\ UNCHANGED mgrVars
    \/ \E h \in Readers :
        \/ Acquire(h) \/ HandlerCalls(h) \/ HandlerGivesUp(h) \/ HandlerFetches(h)
        \/ HandlerSends(h) \/ HandlerEnds(h) \/ DoneNotLast(h) \/ DoneLast(h) \/ DoneJoined(h)
    \/ JoinCall \/ JoinWake

MSpec == MInit /\ [][MNext]_allVars

(***************************************************************************)
(* As for the pipeline; and a handler that has called Done goes on.        *)
(* Nothing obliges a handler to come, a client to take the frame it is     *)
(* sent, or anybody to call Join.                                          *)
(***************************************************************************)
MFairness ==
    /\ WF_allVars(StreamAcquire /\ UNCHANGED mgrVars)
    /\ WF_allVars(StreamQuit /\ UNCHANGED mgrVars)
    /\ WF_allVars(cancelled /\ StreamFail /\ UNCHANGED mgrVars)
    /\ WF_allVars(/\ SessionRecv \/ SessionPush \/ SessionStop \/ SessionNotify
                  /\ UNCHANGED mgrVars)
    /\ \A w \in Workers : WF_allVars(Worker(w) /\ UNCHANGED mgrVars)
    /\ \A h \in Readers :
        /\ WF_allVars(/\ NextNil(h) \/ NextFrame(h) \/ NextPark(h) \/ NextWait(h)
                      /\ UNCHANGED mgrVars)
        /\ SF_allVars(DoneNotLast(h) \/ DoneLast(h)) /\ WF_allVars(DoneJoined(h))
    /\ WF_allVars(JoinWake)

MLiveSpec == MSpec /\ MFairness
---------------------------------------------------------------------------
MTypeOK ==
    /\ TypeOK
    /\ started \in BOOLEAN /\ closed \in BOOLEAN
    /\ users \in 0 .. Cardinality(Readers)
    /\ joinPc \in {"no", "waiting", "woken", "done"}
    /\ hpc \in [Readers -> {"out", "in", "next", "leave", "joining"}]

\* "It is guaranteed that `Next` will never be called before `Start` or after
\* `Stop`" (manager.go:21), although the goroutine that calls it is not the one
\* that stops the source.
NextOnlyWhileStarted == streamPc = "source" => started

\* The manager and the handlers keep to what the pipeline needs of them: one
\* session at a time, asked for frames only by those who acquired it, and
\* cancelled only when all of them are out of Next and done with their frames.
\* So they implement the abstract user of JpegPipeline.
UsesPipelineAsMeant == Spec

\* Done returns, although it waits for the session with the mutex held.
DoneReturns == \A h \in Readers : []<>(hpc[h] \notin {"leave", "joining"})

\* Join does not sleep through the end of the last user.
JoinReturns == []<>(joinPc \in {"no", "done"} \/ users > 0)
===========================================================================
