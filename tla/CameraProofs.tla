--------------------------- MODULE CameraProofs ---------------------------
(***************************************************************************)
(* Theorems about CameraHandle, for any number of users, and about         *)
(* CameraMonitor, for any number of controls as well.                      *)
(***************************************************************************)
EXTENDS CameraMonitor, FiniteSetTheorems, TLAPS

\* waiting counts the users and the idle closer.
Counted == waiting = Cardinality(using) + (IF autoPc = "loop" THEN 1 ELSE 0)

\* The channel done is closed at most once, and the count stays at zero then.
ClosedAtZero == doneClosed \in {0, 1} /\ (doneClosed = 1 => waiting = 0)

CInv ==
    /\ using \subseteq Users /\ autoPc \in {"loop", "exited"}
    /\ Counted /\ ClosedAtZero

\* Sets of users have a size; one user more or less changes it by one.
LEMMA UsersFinite ==
    ASSUME NEW S \in SUBSET Users
    PROVE  IsFiniteSet(S) /\ Cardinality(S) \in Nat
  BY UsersAssumption, FS_Subset, FS_CardinalityType

LEMMA OneUser ==
    ASSUME NEW S \in SUBSET Users, NEW u \in Users
    PROVE  /\ u \notin S => Cardinality(S \union {u}) = Cardinality(S) + 1
           /\ u \in S => Cardinality(S \ {u}) = Cardinality(S) - 1
  BY UsersFinite, FS_AddElement, FS_RemoveElement

\* As New leaves it.
LEMMA CInvInit == Init => CInv
  BY FS_EmptySet DEF Init, CInv, Counted, ClosedAtZero

LEMMA CInvStep == CInv /\ [Next]_vars => CInv'
  <1>. SUFFICES ASSUME CInv, [Next]_vars PROVE CInv'
    OBVIOUS
  <1>. USE DEF CInv, Counted, ClosedAtZero
  <1>0. Cardinality(using) \in Nat
    BY UsersFinite
  <1>1. ASSUME NEW u \in Users, Open(u) PROVE CInv'
    <2>1. Cardinality(using \union {u}) = Cardinality(using) + 1
      BY <1>1, OneUser DEF Open
    <2>. QED
      BY <1>0, <1>1, <2>1 DEF Open, OneMore
  <1>2. ASSUME NEW u \in Users, Done(u) PROVE CInv'
    <2>1. Cardinality(using \ {u}) = Cardinality(using) - 1
      BY <1>2, OneUser DEF Done
    <2>2. Cardinality(using \ {u}) \in Nat
      BY UsersFinite
    <2>3. waiting' = waiting - 1 /\ using' = using \ {u} /\ autoPc' = autoPc
      BY <1>2 DEF Done
    <2>4. doneClosed' = doneClosed \/ doneClosed' = CloseIfLast
      BY <1>2 DEF Done
    <2>5. waiting # 0
      BY <1>0, <2>1, <2>2
    <2>. QED
      BY <1>0, <2>1, <2>2, <2>3, <2>4, <2>5 DEF CloseIfLast
  <1>3. CASE AutoExit
    BY <1>0, <1>3 DEF AutoExit, CloseIfLast
  <1>4. CASE (\E u \in Users : ForceClose(u)) \/ JoinCloses \/ JoinFails \/ JoinReturns \/ Tick
    BY <1>4 DEF ForceClose, JoinCloses, JoinFails, JoinReturns, Tick
  <1>5. CASE UNCHANGED vars
    BY <1>5 DEF vars
  <1>. QED
    BY <1>1, <1>2, <1>3, <1>4, <1>5 DEF Next

\* The channel done is closed once, by whoever leaves last.
THEOREM DoneIsClosedOnce == Spec => []DoneClosedOnceAtEnd
  <1>1. CInv => DoneClosedOnceAtEnd
    <2>. SUFFICES ASSUME CInv, doneClosed = 1 PROVE using = {} /\ autoPc = "exited"
      BY DEF CInv, ClosedAtZero, DoneClosedOnceAtEnd
    <2>1. Cardinality(using) \in Nat /\ IsFiniteSet(using)
      BY UsersFinite DEF CInv
    <2>2. Cardinality(using) = 0 /\ autoPc = "exited"
      BY <2>1 DEF CInv, Counted, ClosedAtZero
    <2>. QED
      BY <2>1, <2>2, FS_EmptySet
  <1>. QED
    BY <1>1, CInvInit, CInvStep, PTL DEF Spec

\* What the idle closer, its retries and forced closes do to isOpen, they do to the
\* camera first.
THEOREM OpenHandlesAreReal == Spec => []OpenIsReal
  <1>1. Init => OpenIsReal
    BY DEF Init, OpenIsReal
  <1>2. OpenIsReal /\ [Next]_vars => OpenIsReal'
    <2>. SUFFICES ASSUME OpenIsReal, [Next]_vars PROVE OpenIsReal'
      OBVIOUS
    <2>. USE DEF OpenIsReal
    <2>1. ASSUME NEW u \in Users, Open(u) PROVE OpenIsReal'
      <3>1. hwOpen \/ ~isOpen
        OBVIOUS
      <3>2. hwOpen' = (hwOpen \/ ~isOpen)
        BY <2>1 DEF Open
      <3>. QED
        BY <3>1, <3>2, Zenon
    <2>4. ASSUME NEW u \in Users, Done(u) \/ ForceClose(u) PROVE OpenIsReal'
      BY <2>4 DEF Done, ForceClose
    <2>2. CASE JoinCloses \/ JoinFails \/ JoinReturns \/ AutoExit
      BY <2>2 DEF JoinCloses, JoinFails, JoinReturns, AutoExit
    <2>3. CASE Tick
      BY <2>3 DEF Tick
    <2>. QED
      BY <2>1, <2>2, <2>3, <2>4 DEF Next, vars
  <1>. QED
    BY <1>1, <1>2, PTL DEF Spec

\* The idle closer leaves a used camera alone.
THEOREM IdleCloserLeavesUsers == Spec => IdleCloserSparesUsers
  <1>1. CInv /\ [Next]_vars
          => [Tick /\ using # {} /\ isOpen => isOpen' /\ hwOpen']_vars \/ ~OpenIsReal
    <2>. SUFFICES ASSUME CInv, OpenIsReal, Tick, using # {}, isOpen
                  PROVE isOpen' /\ hwOpen'
      OBVIOUS
    <2>1. Cardinality(using) \in Nat /\ Cardinality(using) # 0
      BY UsersFinite, FS_EmptySet DEF CInv
    <2>2. waiting # 1
      BY <2>1 DEF CInv, Counted, Tick
    <2>. QED
      BY <2>2 DEF Tick, Idle, MustRetry, OpenIsReal
  <1>. QED
    BY <1>1, CInvInit, CInvStep, OpenHandlesAreReal, PTL DEF Spec, IdleCloserSparesUsers

\* Every variable of the handle has its type; the counters, because of what they count.
THEOREM TypeCorrect == Spec => []TypeOK
  <1>1. Init => TypeOK
    BY DEF Init, TypeOK
  <1>2. TypeOK /\ CInv /\ CInv' /\ [Next]_vars => TypeOK'
    <2>. SUFFICES ASSUME TypeOK, CInv, CInv', [Next]_vars PROVE TypeOK'
      OBVIOUS
    <2>. USE DEF TypeOK
    <2>1. waiting' \in Nat /\ doneClosed' \in Nat /\ using' \subseteq Users
          /\ autoPc' \in {"loop", "exited"}
      <3>1. Cardinality(using') \in Nat
        BY UsersFinite DEF CInv
      <3>. QED
        BY <3>1 DEF CInv, Counted, ClosedAtZero
    <2>2. ASSUME NEW u \in Users, Open(u) \/ Done(u) \/ ForceClose(u) PROVE TypeOK'
      BY <2>1, <2>2 DEF Open, Done, ForceClose
    <2>3. CASE JoinCloses \/ JoinFails \/ JoinReturns \/ AutoExit
      BY <2>1, <2>3 DEF JoinCloses, JoinFails, JoinReturns, AutoExit
    <2>4. CASE Tick
      BY <2>1, <2>4 DEF Tick, CloseResult
    <2>5. CASE UNCHANGED vars
      BY <2>5 DEF vars
    <2>. QED
      BY <2>2, <2>3, <2>4, <2>5 DEF Next
  <1>. QED
    BY <1>1, <1>2, CInvInit, CInvStep, PTL DEF Spec
---------------------------------------------------------------------------
(* When nobody is left to close the channel done.                          *)

\* Whoever leaves last closes the channel, unless it finds the camera open.
LastOutCloses == waiting = 0 => doneClosed = 1 \/ isOpen

\* Then nobody closes the camera or the channel any more.
LeftOpenForGood == [][waiting = 0 => UNCHANGED <<waiting, isOpen, doneClosed>>]_vars

\* The idle closer stays until Join has been called.
CloserStays == joinPc = "no" => autoPc = "loop"

LeaveInv == CInv /\ CloserStays /\ LastOutCloses

\* With a count of zero there is no user and no idle closer.
LEMMA NobodyCounted == CInv /\ waiting = 0 => using = {} /\ autoPc = "exited"
  <1>. SUFFICES ASSUME CInv, waiting = 0 PROVE using = {} /\ autoPc = "exited"
    OBVIOUS
  <1>1. Cardinality(using) \in Nat /\ IsFiniteSet(using)
    BY UsersFinite DEF CInv
  <1>2. Cardinality(using) = 0 /\ autoPc = "exited"
    BY <1>1 DEF CInv, Counted
  <1>. QED
    BY <1>1, <1>2, FS_EmptySet

\* The idle closer is counted.
LEMMA LeaveInit == Init => LeaveInv
  BY CInvInit DEF Init, LeaveInv, CloserStays, LastOutCloses

\* What is left alone when nobody is counted, and who closes the channel before.
LEMMA LeaveStep ==
    LeaveInv /\ [Next]_vars =>
        LeaveInv' /\ (waiting = 0 => UNCHANGED <<waiting, isOpen, doneClosed>>)
  <1>. SUFFICES ASSUME LeaveInv, [Next]_vars
                PROVE  /\ CloserStays' /\ LastOutCloses'
                       /\ waiting = 0 => UNCHANGED <<waiting, isOpen, doneClosed>>
    BY CInvStep DEF LeaveInv
  <1>. USE DEF LeaveInv, CloserStays, LastOutCloses
  <1>0. /\ waiting \in Nat /\ doneClosed \in {0, 1}
        /\ waiting = 0 => using = {} /\ autoPc = "exited"
        /\ doneClosed = 1 => waiting = 0
    <2>1. Cardinality(using) \in Nat
      BY UsersFinite DEF CInv
    <2>. QED
      BY <2>1, NobodyCounted DEF CInv, Counted, ClosedAtZero
  <1>1. ASSUME NEW u \in Users, Open(u) \/ Done(u) \/ ForceClose(u)
        PROVE  /\ CloserStays' /\ LastOutCloses'
               /\ waiting = 0 => UNCHANGED <<waiting, isOpen, doneClosed>>
    <2>1. CASE Open(u)
      <3>1. waiting' = waiting + 1 /\ waiting > 0 /\ UNCHANGED <<autoPc, joinPc>>
        BY <2>1 DEF Open, OneMore
      <3>2. waiting # 0 /\ waiting' # 0
        BY <1>0, <3>1
      <3>. QED
        BY <3>1, <3>2, Zenon
    <2>2. CASE Done(u)
      BY <1>0, <2>2 DEF Done, CloseIfLast
    <2>3. CASE ForceClose(u)
      BY <1>0, <2>3 DEF ForceClose
    <2>. QED
      BY <1>1, <2>1, <2>2, <2>3
  <1>2. CASE JoinCloses \/ JoinFails \/ JoinReturns
    BY <1>0, <1>2 DEF JoinCloses, JoinFails, JoinReturns
  <1>3. CASE Tick \/ AutoExit
    BY <1>0, <1>3 DEF Tick, AutoExit, CloseIfLast
  <1>4. CASE UNCHANGED vars
    BY <1>0, <1>4 DEF vars
  <1>. QED
    BY <1>1, <1>2, <1>3, <1>4 DEF Next

\* Join waits in vain only for a camera that was opened again after it and found open by
\* whoever left last; and then for ever, with the camera open.
THEOREM LastOneOutCloses == Spec => []LastOutCloses /\ LeftOpenForGood
  <1>1. LeaveInv => LastOutCloses
    BY DEF LeaveInv
  <1>2. LeaveInv /\ [Next]_vars => [waiting = 0 => UNCHANGED <<waiting, isOpen, doneClosed>>]_vars
    BY LeaveStep
  <1>. QED
    BY <1>1, <1>2, LeaveInit, LeaveStep, PTL DEF Spec, LeftOpenForGood
---------------------------------------------------------------------------
(* The Monitor.                                                            *)

\* A step of the Monitor is one that CameraHandle allows a user, or none.
LEMMA MonitorImplementsUser == MonSpec => Spec
  <1>1. MonInit => Init
    BY DEF MonInit
  <1>2. [MonNext]_camVars => [Next]_vars
    <2>. SUFFICES ASSUME [MonNext]_camVars PROVE [Next]_vars
      OBVIOUS
    <2>. Mon \in Users
      BY MonitorAssumption
    <2>1. CASE HandleStep
      BY <2>1 DEF HandleStep, Next
    <2>2. CASE MonitorOpens \/ MonitorDone
      BY <2>2 DEF MonitorOpens, MonitorDone, Next
    <2>3. CASE CancelContext \/ MonitorEnds \/ MonitorReads \/ Caps
      BY <2>3 DEF CancelContext, MonitorEnds, MonitorReads, Caps, CapsCount, CapsMalloc,
                  CapsFill, CapsReturn, CapsErrno, CapsWalk, CapsFree
    <2>4. CASE UNCHANGED camVars
      BY <2>4 DEF camVars, vars
    <2>. QED
      BY <2>1, <2>2, <2>3, <2>4 DEF MonNext, MonitorStep
  <1>. QED
    BY <1>1, <1>2, PTL DEF MonSpec, Spec

\* So the camera's theorems hold with the Monitor among its users.
THEOREM MonitoredHandleIsSafe ==
    MonSpec => /\ [](DoneClosedOnceAtEnd /\ OpenIsReal /\ LastOutCloses)
               /\ IdleCloserSparesUsers /\ LeftOpenForGood
  BY MonitorImplementsUser, DoneIsClosedOnce, OpenHandlesAreReal, IdleCloserLeavesUsers,
     LastOneOutCloses, PTL
---------------------------------------------------------------------------
(* The list.  While C fills it, its first entries are linked; while Go     *)
(* walks it, it is complete, and the pointer is the one of the next entry. *)

ListTypeOK ==
    /\ number \in 0 .. MaxControls /\ filled \in 0 .. MaxControls
    /\ next \in [Entries -> Nat]
    /\ blocks \in Nat /\ leaked \in Nat /\ index \in Nat

LinkedUpTo == \A e \in 1 .. filled : next[e] = Linked(e)

ListInv ==
    /\ ListTypeOK /\ ListsFreedButErrno
    /\ mpc \in {"fill", "walk"} => filled <= number /\ LinkedUpTo
    /\ mpc = "walk" => /\ filled = number /\ index <= number
                       /\ index < number => curr = index + 1

LEMMA ListInvInit == MonInit => ListInv
  BY MonitorAssumption DEF MonInit, ListInv, ListTypeOK, ListsFreedButErrno, NULL, Entries

LEMMA ListInvStep == ListInv /\ [MonNext]_camVars => ListInv'
  <1>. SUFFICES ASSUME ListInv, [MonNext]_camVars PROVE ListInv'
    OBVIOUS
  <1>. USE MonitorAssumption
       DEF ListInv, ListTypeOK, ListsFreedButErrno, LinkedUpTo, Linked, NULL, Entries
  <1>1. CASE HandleStep \/ CancelContext \/ MonitorEnds \/ UNCHANGED camVars
    BY <1>1 DEF HandleStep, CancelContext, MonitorEnds, monVars, listVars, camVars
  <1>2. CASE MonitorOpens \/ MonitorReads \/ MonitorDone
    BY <1>2 DEF MonitorOpens, MonitorReads, MonitorDone, listVars
  <1>3. CASE CapsCount
    BY <1>3 DEF CapsCount, NumOfControls
  <1>4. CASE CapsMalloc
    BY <1>4 DEF CapsMalloc
  <1>5. CASE CapsFill
    <2>1. number' = number /\ leaked' = leaked /\ index' = index /\ filled + 1 \in Entries
      BY <1>5 DEF CapsFill
    <2>2. CASE mpc' = "failed" /\ blocks' = Freed /\ UNCHANGED <<filled, next>>
      BY <1>5, <2>1, <2>2 DEF CapsFill, Freed
    <2>3. CASE /\ filled' = filled + 1 /\ UNCHANGED <<mpc, blocks>>
               /\ next' = [next EXCEPT ![filled + 1] = Linked(filled + 1)]
      <3>1. next' \in [Entries -> Nat]
        BY <2>1, <2>3
      <3>2. LinkedUpTo'
        BY <1>5, <2>1, <2>3 DEF CapsFill
      <3>. QED
        BY <1>5, <2>1, <2>3, <3>1, <3>2 DEF CapsFill
    <2>. QED
      BY <1>5, <2>2, <2>3 DEF CapsFill
  <1>6. CASE CapsReturn
    BY <1>6 DEF CapsReturn, listVars
  <1>7. CASE CapsErrno
    BY <1>7 DEF CapsErrno
  <1>8. CASE CapsWalk
    BY <1>8 DEF CapsWalk, listVars
  <1>9. CASE CapsFree
    BY <1>9 DEF CapsFree, Freed
  <1>. QED
    BY <1>1, <1>2, <1>3, <1>4, <1>5, <1>6, <1>7, <1>8, <1>9 DEF MonNext, MonitorStep, Caps

\* Go stays inside the list C gave it.
THEOREM WalksStayInLists == MonSpec => []WalkStaysInList
  <1>1. ListInv => WalkStaysInList
    BY DEF ListInv, ListTypeOK, ListsFreedButErrno, WalkStaysInList
  <1>. QED
    BY <1>1, ListInvInit, ListInvStep, PTL DEF MonSpec

\* Every list is freed once, but one that comes with an errno.
THEOREM ListsAreFreed == MonSpec => []ListsFreedButErrno
  <1>1. ListInv => ListsFreedButErrno
    BY DEF ListInv
  <1>. QED
    BY <1>1, ListInvInit, ListInvStep, PTL DEF MonSpec
===========================================================================
