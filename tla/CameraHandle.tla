--------------------------- MODULE CameraHandle ---------------------------
(***************************************************************************)
(* The shared camera handle of internal/driver/camera/info.go: users open  *)
(* it and are done with it, a goroutine closes it after inactivity, Join   *)
(* closes it for good.  metrics.go's Monitor is one of the users.          *)
(*                                                                         *)
(* Every method runs under ASICamera.mutex, so each is one action; only    *)
(* Join waits, after it has released the mutex.  The initial state is what *)
(* New leaves behind: open, recently used, autoClose counted in waiting.   *)
(***************************************************************************)
EXTENDS Integers, FiniteSets

CONSTANT Users

ASSUME UsersAssumption == IsFiniteSet(Users)

VARIABLES
    isOpen,     \* ASICamera.isOpen
    recent,     \* lastOpen is not older than the idle time
    waiting,    \* ASICamera.waiting
    closeErr,   \* the last result autoClose got from asiCloseCamera
    using,      \* the users between a successful Open and Done
    autoPc,     \* the goroutine of autoClose
    joinPc,     \* the goroutine that calls Join
    doneClosed, \* how often the channel done has been closed (twice panics)
    hwOpen      \* the ASI library holds the camera open

vars == <<isOpen, recent, waiting, closeErr, using, autoPc, joinPc, doneClosed, hwOpen>>

Init ==
    /\ isOpen = TRUE /\ recent = TRUE /\ hwOpen = TRUE
    /\ waiting = 1 /\ using = {}
    /\ closeErr = "none"
    /\ autoPc = "loop" /\ joinPc = "no" /\ doneClosed = 0
---------------------------------------------------------------------------
\* Mutant: the new user is not counted.
Uncounted == waiting

OneMore == waiting + 1

\* asiOpenCamera, unless the camera counts as open already; it may fail, and
\* then Open does nothing.
Open(u) ==
    /\ u \notin using
    /\ waiting > 0
    /\ isOpen' = TRUE
    /\ hwOpen' = (hwOpen \/ ~isOpen)
    /\ waiting' = OneMore
    /\ recent' = TRUE
    /\ using' = using \union {u}
    /\ UNCHANGED <<closeErr, autoPc, joinPc, doneClosed>>

\* Mutants: the test of the count is missing, or off by one.
ClosedByAll == doneClosed + 1
ClosedByLastButOne == IF waiting - 1 = 1 THEN doneClosed + 1 ELSE doneClosed

\* Whoever brings the count to zero closes the channel.
CloseIfLast == IF waiting - 1 = 0 THEN doneClosed + 1 ELSE doneClosed

\* Done closes it only if the camera has been closed meanwhile.
Done(u) ==
    /\ u \in using
    /\ waiting' = waiting - 1
    /\ using' = using \ {u}
    /\ doneClosed' = IF isOpen THEN doneClosed ELSE CloseIfLast
    /\ UNCHANGED <<isOpen, recent, closeErr, autoPc, joinPc, hwOpen>>

\* Mutant: the library is told, the handle is not.
ForceCloseOnly(u) ==
    /\ u \in using /\ isOpen
    /\ hwOpen' = FALSE
    /\ UNCHANGED <<isOpen, recent, waiting, closeErr, using, autoPc, joinPc, doneClosed>>

\* A user that saw a call fail closes the camera; if that fails too, the handle
\* forgets that the library still has it open.
ForceClose(u) ==
    /\ u \in using /\ isOpen
    /\ isOpen' = FALSE
    /\ hwOpen' \in {FALSE, hwOpen}
    /\ UNCHANGED <<recent, waiting, closeErr, using, autoPc, joinPc, doneClosed>>
---------------------------------------------------------------------------
(* Join.                                                                   *)

JoinCloses ==
    /\ joinPc = "no"
    /\ joinPc' = "waiting"
    /\ isOpen' = FALSE
    /\ hwOpen' = (hwOpen /\ ~isOpen)
    /\ UNCHANGED <<recent, waiting, closeErr, using, autoPc, doneClosed>>

\* asiCloseCamera failed: Join gives up, with the channel join already closed.
JoinFails ==
    /\ joinPc = "no" /\ isOpen
    /\ joinPc' = "failed"
    /\ UNCHANGED <<isOpen, recent, waiting, closeErr, using, autoPc, doneClosed, hwOpen>>

JoinReturns ==
    /\ joinPc = "waiting" /\ doneClosed > 0
    /\ joinPc' = "returned"
    /\ UNCHANGED <<isOpen, recent, waiting, closeErr, using, autoPc, doneClosed, hwOpen>>
---------------------------------------------------------------------------
(* autoClose.                                                              *)

\* Mutants: it does not look for users; it compares the times the wrong way round.
IdleForAll == isOpen /\ ~recent
NotYetIdle == isOpen /\ waiting = 1 /\ recent

\* "If it's just me waiting, close the connection", once idle long enough.
Idle == isOpen /\ waiting = 1 /\ ~recent

\* TIMEOUT and VIDEO_MODE_ACTIVE are "retry"; the other errors are "other".
MustRetry == ~isOpen /\ closeErr = "retry"

\* asiCloseCamera works, or fails and the library keeps the camera open.
CloseResult ==
    \/ closeErr' = "none" /\ hwOpen' = FALSE
    \/ closeErr' \in {"retry", "other"} /\ UNCHANGED hwOpen

\* The idle time has passed.  A first attempt that fails with an error to retry is
\* repeated at once, so one result stands for both calls.
Tick ==
    /\ autoPc = "loop"
    /\ recent' = FALSE
    /\ IF Idle \/ MustRetry
       THEN CloseResult /\ isOpen' = FALSE
       ELSE UNCHANGED <<closeErr, hwOpen, isOpen>>
    /\ UNCHANGED <<waiting, using, autoPc, joinPc, doneClosed>>

\* The channel join is closed.
AutoExit ==
    /\ autoPc = "loop" /\ joinPc # "no"
    /\ autoPc' = "exited"
    /\ waiting' = waiting - 1
    /\ doneClosed' = CloseIfLast
    /\ UNCHANGED <<isOpen, recent, closeErr, using, joinPc, hwOpen>>
---------------------------------------------------------------------------
Next ==
    \/ \E u \in Users : Open(u) \/ Done(u) \/ ForceClose(u)
    \/ JoinCloses \/ JoinFails \/ JoinReturns
    \/ Tick \/ AutoExit

Spec == Init /\ [][Next]_vars

\* The timer fires for ever, the two goroutines run, and users finish.
Fairness ==
    /\ WF_vars(Tick) /\ WF_vars(AutoExit) /\ WF_vars(JoinReturns)
    /\ \A u \in Users : WF_vars(Done(u))

LiveSpec == Spec /\ Fairness
---------------------------------------------------------------------------
TypeOK ==
    /\ isOpen \in BOOLEAN /\ recent \in BOOLEAN /\ hwOpen \in BOOLEAN
    /\ waiting \in Nat
    /\ closeErr \in {"none", "retry", "other"}
    /\ using \subseteq Users
    /\ autoPc \in {"loop", "exited"}
    /\ joinPc \in {"no", "waiting", "failed", "returned"}
    /\ doneClosed \in Nat

\* The channel done is closed at most once, however Done, Join and the end of
\* autoClose interleave (a second close panics), and only when neither a user nor
\* autoClose is left, so that Join does not return before them (info.go:162).
DoneClosedOnceAtEnd ==
    /\ doneClosed <= 1
    /\ doneClosed = 1 => using = {} /\ autoPc = "exited"

\* A handle that counts as open is open in the library: no step of the idle
\* closer, its retries or a forced close leaves a user with a dead handle that the
\* next Open would not reopen.
OpenIsReal == isOpen => hwOpen

\* The idle closer never closes the camera under a user (info.go:177): only a
\* user's own ForceClose and Join do.
IdleCloserSparesUsers ==
    [][Tick /\ using # {} /\ isOpen => isOpen' /\ hwOpen']_vars

\* "autoClose camera after inactivity": a camera nobody uses does not stay open.
IdleCameraIsClosed == <>[](using = {}) => <>[](~isOpen) \/ <>(joinPc # "no")

\* Join returns if nobody opens the camera again after Join has closed it.
JoinReturnsUnlessReopened == joinPc = "waiting" /\ [](~isOpen) ~> joinPc = "returned"
===========================================================================
