----------------------- MODULE SessionManagerProofs -----------------------
(***************************************************************************)
(* The manager and the handlers use the pipeline as JpegPipeline assumes,  *)
(* for any number of handlers.  With the theorems of JpegPipelineProofs,   *)
(* what is proved of the pipeline then holds of the composed system.       *)
(***************************************************************************)
EXTENDS SessionManager, JpegPipelineProofs

Inside(h) == hpc[h] \in {"in", "next", "leave"}
Insiders == {h \in Readers : Inside(h)}

\* The counter users counts the handlers between Acquire and Done; they have a
\* session that nobody has cancelled, and the one that joins it is alone.
MTypes ==
    /\ hpc \in [Readers -> {"out", "in", "next", "leave", "joining"}]
    /\ rpc \in [Readers -> {"idle", "calling", "parking", "waiting", "reading"}]
    /\ sending \in [Readers -> 0 .. MaxFrame]
UsersCounted == users = Cardinality(Insiders)
OnlyNextReads == \A h \in Readers : hpc[h] # "next" => Out(h)
InsidersHaveSession == Insiders # {} => sessPc # "none" /\ ~cancelled
JoinerAlone ==
    \A g, h \in Readers : hpc[h] = "joining" => ~Inside(g) /\ (hpc[g] = "joining" => g = h)
CancelledByJoiner ==
    sessPc # "none" /\ cancelled => \E h \in Readers : hpc[h] = "joining"

MInv ==
    /\ MTypes /\ UsersCounted /\ OnlyNextReads
    /\ InsidersHaveSession /\ JoinerAlone /\ CancelledByJoiner

\* The handlers between Acquire and Done are finitely many.
LEMMA InsidersFinite == IsFiniteSet(Insiders) /\ Cardinality(Insiders) \in Nat
  BY HandlerAssumption, FS_Subset, FS_CardinalityType DEF Insiders

\* One handler more, one handler less.
LEMMA OneMore ==
    ASSUME NEW h \in Readers, ~Inside(h), UsersCounted,
           Insiders' = Insiders \union {h}, users' = users + 1
    PROVE  UsersCounted'
  BY InsidersFinite, FS_AddElement DEF UsersCounted, Insiders

LEMMA OneLess ==
    ASSUME NEW h \in Readers, Inside(h), UsersCounted,
           Insiders' = Insiders \ {h}, users' = users - 1
    PROVE  UsersCounted'
  BY InsidersFinite, FS_RemoveElement DEF UsersCounted, Insiders

\* The test users <= 0 of Done finds the last handler.
LEMMA LastIsAlone ==
    ASSUME NEW h \in Readers, Inside(h), UsersCounted, LastUser
    PROVE  Insiders = {h}
  <1>1. h \in Insiders
    BY DEF Insiders
  <1>2. Cardinality(Insiders \ {h}) = Cardinality(Insiders) - 1
    BY <1>1, InsidersFinite, FS_RemoveElement
  <1>3. IsFiniteSet(Insiders \ {h}) /\ Cardinality(Insiders \ {h}) \in Nat
    BY InsidersFinite, FS_RemoveElement, FS_CardinalityType
  <1>4. Cardinality(Insiders \ {h}) = 0
    BY <1>2, <1>3, InsidersFinite DEF UsersCounted, LastUser
  <1>5. Insiders \ {h} = {}
    BY <1>3, <1>4, FS_EmptySet
  <1>. QED
    BY <1>1, <1>5

\* Nobody has come yet.
LEMMA MInvInit == MInit => MInv
  <1>. SUFFICES ASSUME MInit PROVE MInv
    OBVIOUS
  <1>1. Insiders = {}
    BY DEF MInit, Insiders, Inside
  <1>2. UsersCounted
    BY <1>1, FS_EmptySet DEF MInit, UsersCounted
  <1>3. 0 \in 0 .. MaxFrame
    BY Bounds
  <1>. QED
    BY <1>1, <1>2, <1>3 DEF MInit, Init, MInv, MTypes, OnlyNextReads, Out, InsidersHaveSession,
       Inside, JoinerAlone, CancelledByJoiner

\* The goroutines of a handler are about when it is in the loop over its frames.
LEMMA MInvStep == TypeInv /\ MInv /\ [MNext]_allVars => MInv'
  <1>. SUFFICES ASSUME TypeInv, MInv, [MNext]_allVars PROVE MInv'
    OBVIOUS
  <1>. USE DEF MInv, Out, mgrVars, upVars, downVars, pipeVars
  <1>1. ASSUME UNCHANGED <<hpc, users, cancelled, sending>>,
               sessPc' = sessPc \/ (sessPc # "none" /\ sessPc' # "none"),
               rpc' = rpc \/ rpc' = Woken
        PROVE MInv'
    <2>1. /\ MTypes' /\ OnlyNextReads'
      BY <1>1 DEF MTypes, OnlyNextReads, Woken
    <2>2. Insiders' = Insiders
      BY <1>1 DEF Insiders, Inside
    <2>. QED
      BY <1>1, <2>1, <2>2 DEF UsersCounted, InsidersHaveSession, JoinerAlone, CancelledByJoiner,
         Inside
  <1>2. CASE Goroutines /\ UNCHANGED mgrVars
    <2>1. CASE \/ StreamAcquire \/ StreamQuit \/ StreamDeliver \/ StreamFail
               \/ SessionRecv \/ SessionPush \/ SessionStop \/ SessionNotify
      BY <1>1, <1>2, <2>1 DEF StreamAcquire, StreamQuit, StreamDeliver, StreamFail, SessionRecv,
         SessionPush, SessionStop, SessionNotify, sessVars, readerVars
    <2>2. ASSUME NEW w \in Workers, Worker(w) PROVE MInv'
      BY <1>1, <1>2, <2>2 DEF Worker, WorkerTake, Hold, WorkerHold, WorkerBusy, WorkerAvail,
         WorkerStuck, WorkerCompress, WorkerRelease, WorkerReturn, WorkerDone, sessVars, readerVars
    <2>. QED
      BY <1>2, <2>1, <2>2 DEF Goroutines
  <1>3. ASSUME NEW h \in Readers, Acquire(h) PROVE MInv'
    <2>1. sessPc' # "none" /\ ~cancelled' /\ UNCHANGED <<rpc, sending>>
      BY <1>3 DEF Acquire, AcquireRunning, AcquireStarting, StartSession, MutexFree, vars,
         sessVars, readerVars, CancelledByJoiner
    <2>2. Insiders' = Insiders \union {h} /\ ~Inside(h)
      BY <1>3 DEF Acquire, Insiders, Inside, MTypes
    <2>3. UsersCounted'
      BY <1>3, <2>2, OneMore DEF Acquire
    <2>. QED
      BY <1>3, <2>1, <2>3 DEF Acquire, MutexFree, MTypes, OnlyNextReads, InsidersHaveSession,
         JoinerAlone, CancelledByJoiner, Inside
  <1>4. ASSUME NEW h \in Readers,
               \/ HandlerCalls(h) \/ HandlerGivesUp(h) \/ HandlerFetches(h)
               \/ HandlerSends(h) \/ HandlerEnds(h)
        PROVE MInv'
    <2>t. rpc[h] = "reading" => rnum[h] \in 0 .. MaxFrame
      BY DEF TypeInv, Carried
    <2>0. 0 \in 0 .. MaxFrame
      BY Bounds
    <2>m. CASE HandlerFetches(h) \/ HandlerSends(h)
      <3>1. MTypes'
        BY <2>t, <2>0, <2>m DEF HandlerFetches, HandlerSends, NextFrame, NextPark, NextWait,
           NextNil, ReaderLeave, ReaderSkip, ReaderHands, AsksFor, SendDone, MTypes
      <3>2. \A g \in Readers : g # h => rpc'[g] = rpc[g] /\ sending'[g] = sending[g]
        BY <2>m DEF HandlerFetches, HandlerSends, NextFrame, NextPark, NextWait, NextNil,
           ReaderLeave, ReaderSkip, ReaderHands, AsksFor, SendDone, MTypes
      <3>3. UNCHANGED <<sessPc, cancelled, users, hpc>> /\ hpc[h] = "next"
        BY <2>m DEF HandlerFetches, HandlerSends, NextFrame, NextPark, NextWait, NextNil,
           ReaderLeave, ReaderSkip, ReaderHands, AsksFor, SendDone, sessVars
      <3>. QED
        BY <3>1, <3>2, <3>3 DEF UsersCounted, Insiders, Inside, OnlyNextReads,
           InsidersHaveSession, JoinerAlone, CancelledByJoiner
    <2>1. CASE HandlerCalls(h) \/ HandlerGivesUp(h) \/ HandlerEnds(h)
      <3>1. /\ UNCHANGED <<sessPc, cancelled, users, sending>>
            /\ \A g \in Readers : g # h => rpc'[g] = rpc[g] /\ hpc'[g] = hpc[g]
            /\ Inside(h) /\ Inside(h)'
            /\ hpc'[h] # "next" => Out(h)'
            /\ MTypes'
        BY <2>1 DEF HandlerCalls, CallNext, HandlerGivesUp, HandlerEnds, LoopOver, Inside, MTypes,
           OnlyNextReads, vars, sessVars, readerVars
      <3>2. Insiders' = Insiders
        BY <3>1 DEF Insiders, Inside
      <3>. QED
        BY <3>1, <3>2 DEF UsersCounted, OnlyNextReads, InsidersHaveSession, JoinerAlone,
           CancelledByJoiner, Inside
    <2>. QED
      BY <1>4, <2>m, <2>1
  <1>5. ASSUME NEW h \in Readers, DoneNotLast(h) PROVE MInv'
    <2>1. Insiders' = Insiders \ {h} /\ Inside(h)
      BY <1>5 DEF DoneNotLast, Insiders, Inside, MTypes
    <2>2. UsersCounted'
      BY <1>5, <2>1, OneLess DEF DoneNotLast
    <2>. QED
      BY <1>5, <2>1, <2>2 DEF DoneNotLast, MutexFree, MTypes, OnlyNextReads, InsidersHaveSession,
         JoinerAlone, CancelledByJoiner, Inside, vars, sessVars, readerVars
  <1>6. ASSUME NEW h \in Readers, DoneLast(h) PROVE MInv'
    <2>1. Insiders' = Insiders \ {h} /\ Inside(h)
      BY <1>6 DEF DoneLast, Insiders, Inside, MTypes
    <2>2. UsersCounted'
      BY <1>6, <2>1, OneLess DEF DoneLast
    <2>3. Insiders' = {}
      BY <1>6, <2>1, LastIsAlone DEF DoneLast
    <2>4. \A g \in Readers : ~Inside(g)'
      BY <2>3 DEF Insiders
    <2>. QED
      BY <1>6, <2>2, <2>3, <2>4 DEF DoneLast, CancelContext, MutexFree, MTypes, OnlyNextReads,
         InsidersHaveSession, JoinerAlone, CancelledByJoiner, readerVars
  <1>7. ASSUME NEW h \in Readers, DoneJoined(h) PROVE MInv'
    <2>1. Insiders' = Insiders
      BY <1>7 DEF DoneJoined, Insiders, Inside, MTypes
    <2>2. Insiders = {}
      BY <1>7 DEF DoneJoined, Insiders, JoinerAlone
    <2>. QED
      BY <1>7, <2>1, <2>2 DEF DoneJoined, JoinSession, MTypes, OnlyNextReads, UsersCounted,
         InsidersHaveSession, JoinerAlone, CancelledByJoiner, Inside, readerVars
  <1>8. CASE JoinCall \/ JoinWake \/ UNCHANGED allVars
    BY <1>1, <1>8 DEF JoinCall, JoinWake, allVars, vars, sessVars, readerVars
  <1>. QED
    BY <1>2, <1>3, <1>4, <1>5, <1>6, <1>7, <1>8 DEF MNext

\* Every step of the composed system is a step that JpegPipeline allows its user.
LEMMA StepsAsMeant == MInv /\ [MNext]_allVars => [Next]_vars
  <1>. SUFFICES ASSUME MInv, [MNext]_allVars PROVE [Next]_vars
    OBVIOUS
  <1>1. CASE Goroutines /\ UNCHANGED mgrVars
    BY <1>1 DEF Goroutines, Next
  <1>. USE DEF Reader
  <1>2. ASSUME NEW h \in Readers, Acquire(h) PROVE [Next]_vars
    BY <1>2 DEF Acquire, AcquireRunning, AcquireStarting, Next
  <1>3. ASSUME NEW h \in Readers, HandlerCalls(h) PROVE [Next]_vars
    <2>1. h \in Insiders /\ Out(h)
      BY <1>3 DEF HandlerCalls, Insiders, Inside, MInv, OnlyNextReads
    <2>. QED
      BY <1>3, <2>1 DEF HandlerCalls, ReaderCall, MInv, InsidersHaveSession, Next
  <1>4. ASSUME NEW h \in Readers,
               \/ HandlerGivesUp(h) \/ HandlerFetches(h) \/ HandlerSends(h) \/ HandlerEnds(h)
               \/ DoneNotLast(h)
        PROVE [Next]_vars
    BY <1>4 DEF HandlerGivesUp, HandlerFetches, HandlerSends, HandlerEnds, DoneNotLast, Next
  <1>5. ASSUME NEW h \in Readers, DoneLast(h) PROVE [Next]_vars
    <2>1. Insiders = {h}
      BY <1>5, LastIsAlone DEF DoneLast, MInv, Inside
    <2>2. \A g \in Readers : Out(g)
      BY <1>5, <2>1 DEF DoneLast, Insiders, Inside, MInv, OnlyNextReads
    <2>. QED
      BY <1>5, <2>1, <2>2 DEF DoneLast, CancelSession, MInv, InsidersHaveSession, Next
  <1>6. ASSUME NEW h \in Readers, DoneJoined(h) PROVE [Next]_vars
    BY <1>6 DEF DoneJoined, Next
  <1>7. CASE JoinCall \/ JoinWake \/ UNCHANGED allVars
    BY <1>7 DEF JoinCall, JoinWake, allVars
  <1>. QED
    BY <1>1, <1>2, <1>3, <1>4, <1>5, <1>6, <1>7 DEF MNext

\* The composed system implements JpegPipeline.
THEOREM ManagerImplementsUser == MSpec => UsesPipelineAsMeant
  <1>1. MInit => Init
    BY DEF MInit
  <1>. QED
    BY <1>1, TypeInit, TypeStep, MInvInit, MInvStep, StepsAsMeant, PTL
       DEF MSpec, Spec, UsesPipelineAsMeant

\* So the frames its handlers send stay intact, they miss no release, and are sent frames of
\* an earlier session only under numbers the session has not come to.
THEOREM HandlersSendIntactFrames ==
    MSpec => []ReadyFrameIntact /\ FinishedFrameWakes /\ OldFrameOnlyAhead
  BY ManagerImplementsUser, ReadyFramesStayIntact, NextMissesNoRelease, OldFramesAreAhead, PTL
     DEF UsesPipelineAsMeant

\* And SessionManager.Done, which holds its mutex while it waits in Join, waits for a session
\* that can go on and has less to do with every step, whatever the other handlers do.
THEOREM JoinedSessionsDrain == MSpec => []DrainNeverStuck /\ [](WorkLeft \in Nat) /\ DrainComesToAnEnd
  BY ManagerImplementsUser, CancelledSessionNeverStuck, CancelledSessionEnds, PTL
     DEF UsesPipelineAsMeant
---------------------------------------------------------------------------
(* The source is started before a session and stopped after its Join, when *)
(* the goroutine that asks it for frames has ended (QuietInv).             *)

StartedWithSession == sessPc # "none" => started

\* A session begins with Start, and Stop comes when it is forgotten.
LEMMA StartedStep == MInv /\ StartedWithSession /\ [MNext]_allVars => StartedWithSession'
  <1>. SUFFICES ASSUME MInv, StartedWithSession, [MNext]_allVars PROVE StartedWithSession'
    OBVIOUS
  <1>. USE DEF StartedWithSession, mgrVars, upVars, downVars, pipeVars
  <1>1. ASSUME started' = started, sessPc' # "none" => sessPc # "none"
        PROVE  StartedWithSession'
    BY <1>1
  <1>2. CASE Goroutines /\ UNCHANGED mgrVars
    <2>1. CASE \/ StreamAcquire \/ StreamQuit \/ StreamDeliver \/ StreamFail
               \/ SessionRecv \/ SessionPush \/ SessionStop \/ SessionNotify
      BY <1>1, <1>2, <2>1 DEF StreamAcquire, StreamQuit, StreamDeliver, StreamFail, SessionRecv,
         SessionPush, SessionStop, SessionNotify, sessVars
    <2>2. ASSUME NEW w \in Workers, Worker(w) PROVE StartedWithSession'
      BY <1>1, <1>2, <2>2 DEF Worker, WorkerTake, Hold, WorkerHold, WorkerBusy, WorkerAvail,
         WorkerStuck, WorkerCompress, WorkerRelease, WorkerReturn, WorkerDone, sessVars
    <2>. QED
      BY <1>2, <2>1, <2>2 DEF Goroutines
  <1>3. ASSUME NEW h \in Readers, Acquire(h) PROVE StartedWithSession'
    BY <1>3 DEF Acquire, AcquireRunning, AcquireStarting, vars, sessVars
  <1>4. ASSUME NEW h \in Readers,
               \/ HandlerCalls(h) \/ HandlerGivesUp(h) \/ HandlerFetches(h) \/ HandlerSends(h)
               \/ HandlerEnds(h) \/ DoneNotLast(h) \/ DoneLast(h)
        PROVE  StartedWithSession'
    BY <1>1, <1>4 DEF HandlerCalls, CallNext, HandlerGivesUp, HandlerFetches, HandlerSends,
       HandlerEnds, NextFrame, NextPark, NextWait, NextNil, ReaderLeave, ReaderSkip, ReaderHands,
       AsksFor, SendDone, DoneNotLast, DoneLast, CancelContext, WhileJoining, vars, sessVars
  <1>5. ASSUME NEW h \in Readers, DoneJoined(h) PROVE StartedWithSession'
    BY <1>5 DEF DoneJoined, JoinSession
  <1>6. CASE JoinCall \/ JoinWake \/ UNCHANGED allVars
    BY <1>1, <1>6 DEF JoinCall, JoinWake, allVars, vars, sessVars
  <1>. QED
    BY <1>2, <1>3, <1>4, <1>5, <1>6 DEF MNext

\* The source is never asked for a frame before Start or after Stop.
THEOREM NextComesWhileStarted == MSpec => []NextOnlyWhileStarted
  <1>1. MInit => StartedWithSession
    BY DEF MInit, Init, StartedWithSession
  <1>2. StartedWithSession /\ QuietInv => NextOnlyWhileStarted
    BY DEF StartedWithSession, QuietInv, Drained, NextOnlyWhileStarted
  <1>. QED
    BY <1>1, <1>2, MInvInit, MInvStep, StartedStep, ManagerImplementsUser, QuietAlways, PTL
       DEF MSpec, UsesPipelineAsMeant

\* Every variable of the composed system has its type.
THEOREM ManagerTypeCorrect == MSpec => []MTypeOK
  <1>1. MInit => started \in BOOLEAN /\ closed \in BOOLEAN /\ joinPc \in {"no", "waiting", "woken", "done"}
    BY DEF MInit
  <1>2. (/\ started \in BOOLEAN /\ closed \in BOOLEAN
         /\ joinPc \in {"no", "waiting", "woken", "done"}) /\ [MNext]_allVars
        => (/\ started \in BOOLEAN /\ closed \in BOOLEAN
            /\ joinPc \in {"no", "waiting", "woken", "done"})'
    BY DEF MNext, mgrVars, allVars, Acquire, AcquireRunning, AcquireStarting, HandlerCalls,
       HandlerGivesUp, HandlerFetches, HandlerSends, HandlerEnds, DoneNotLast, DoneLast, WhileJoining, DoneJoined,
       Told, JoinCall, JoinWake, JoinOrWait
  <1>3. MInv => users \in 0 .. Cardinality(Readers)
    <2>1. Cardinality(Insiders) <= Cardinality(Readers) /\ Cardinality(Readers) \in Nat
      BY HandlerAssumption, FS_Subset, FS_CardinalityType DEF Insiders
    <2>. QED
      BY <2>1, InsidersFinite DEF MInv, UsersCounted
  <1>4. MInv /\ TypeInv /\ started \in BOOLEAN /\ closed \in BOOLEAN
          /\ joinPc \in {"no", "waiting", "woken", "done"} => MTypeOK
    BY <1>3 DEF MInv, MTypes, TypeInv, MTypeOK
  <1>. QED
    BY <1>1, <1>2, <1>4, MInvInit, MInvStep, ManagerImplementsUser, QuietAlways, PTL
       DEF MSpec, UsesPipelineAsMeant
===========================================================================
