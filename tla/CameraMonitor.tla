--------------------------- MODULE CameraMonitor ---------------------------
(***************************************************************************)
(* The periodic reader of a camera (Monitor of                             *)
(* internal/driver/camera/metrics.go) over the handle it shares with other *)
(* users, down to the list of controls that camera.c allocates and fills   *)
(* in C, and that api.go walks and frees in Go.  Neither takes the mutex   *)
(* of the handle, so Join may close the camera between any two calls of    *)
(* the library.                                                            *)
(***************************************************************************)
EXTENDS CameraHandle

CONSTANTS
    Mon,            \* the user that is the Monitor
    MaxControls,    \* bound: controls a camera has
    MaxLeaks,       \* bound: lists leaked
    Refused         \* the library's answer is not ASI_SUCCESS

ASSUME MonitorAssumption ==
    Mon \in Users /\ MaxControls \in Nat /\ MaxLeaks \in Nat /\ Refused \notin Nat

VARIABLES
    ctxDone,    \* the context of Monitor has been cancelled
    mpc,        \* where Monitor is
    supported,  \* the number of supported_metrics, NotAsked if it is nil
    number,     \* wrapper.control_num
    filled,     \* entries of wrapper.alloc that have been filled
    next,       \* their next pointers; 0 is NULL
    blocks,     \* lists allocated and not freed
    leaked,     \* how often cgo has returned an error beside the list
    index, curr \* the loop of asiGetControlCaps (or of Monitor), its pointer

listVars == <<number, filled, next, blocks, leaked>>
monVars == <<ctxDone, mpc, supported, listVars, index, curr>>
camVars == <<vars, monVars>>

NotAsked == -1
Entries == 1 .. MaxControls

\* NULL for malloc and the pointers of the list.
NULL == 0

MonInit ==
    /\ Init
    /\ ctxDone = FALSE /\ mpc = "wait" /\ supported = NotAsked
    /\ number = 0 /\ filled = 0 /\ next = [e \in Entries |-> NULL]
    /\ blocks = 0 /\ leaked = 0
    /\ index = 0 /\ curr = NULL
---------------------------------------------------------------------------
(* What the library may answer (ASICamera2.h): "the camera need be opened   *)
(* at first", and an open one may refuse too, when it has been unplugged.   *)

NumOfControls == IF hwOpen THEN 0 .. MaxControls \union {Refused} ELSE {Refused}
ControlCaps == IF hwOpen THEN {"ASI_SUCCESS", Refused} ELSE {Refused}
ControlValue == IF hwOpen THEN {"ASI_SUCCESS", Refused} ELSE {Refused}
---------------------------------------------------------------------------
(* The loop of Monitor.                                                    *)

HandleStep ==
    /\ \/ \E u \in Users \ {Mon} : Open(u) \/ Done(u) \/ ForceClose(u)
       \/ JoinCloses \/ JoinFails \/ JoinReturns
       \/ Tick \/ AutoExit
    /\ UNCHANGED monVars

CancelContext ==
    /\ ~ctxDone
    /\ ctxDone' = TRUE
    /\ UNCHANGED <<vars, mpc, supported, listVars, index, curr>>

\* Mutant: only the context is looked at.
MonitorEndsCancelled ==
    /\ mpc = "wait" /\ ctxDone
    /\ mpc' = "over"
    /\ UNCHANGED <<vars, ctxDone, supported, listVars, index, curr>>

\* ctx.Done or done; select may choose the timer instead as long as it fires too.
MonitorEnds ==
    /\ mpc = "wait" /\ (ctxDone \/ doneClosed > 0)
    /\ mpc' = "over"
    /\ UNCHANGED <<vars, ctxDone, supported, listVars, index, curr>>

\* The timer: Open succeeds.  When it fails, Monitor waits for the timer again.
MonitorOpens ==
    /\ mpc = "wait"
    /\ Open(Mon)
    /\ mpc' = IF supported = NotAsked THEN "count" ELSE "values"
    /\ index' = 0
    /\ UNCHANGED <<ctxDone, supported, listVars, curr>>

\* A control value is read, or refused; both are noted and the loop goes on.
MonitorReads ==
    /\ mpc = "values" /\ index < supported
    /\ ControlValue # {}
    /\ index' = index + 1
    /\ UNCHANGED <<vars, ctxDone, mpc, supported, listVars, curr>>

\* The deferred Done, after the values or an error.
MonitorDone ==
    /\ mpc = "failed" \/ (mpc = "values" /\ index = supported)
    /\ Done(Mon)
    /\ mpc' = "wait" /\ index' = 0
    /\ UNCHANGED <<ctxDone, supported, listVars, curr>>
---------------------------------------------------------------------------
(* wrap_ASIGetControlCaps.                                                 *)

CapsCount ==
    /\ mpc = "count"
    /\ \E n \in NumOfControls :
        IF n = Refused THEN mpc' = "failed" /\ UNCHANGED number
                       ELSE mpc' = "malloc" /\ number' = n
    /\ UNCHANGED <<vars, ctxDone, supported, filled, next, blocks, leaked, index, curr>>

\* malloc gives a block, or NULL: out of memory, or no bytes wanted.
CapsMalloc ==
    /\ mpc = "malloc"
    /\ \/ mpc' = "fill" /\ blocks' = blocks + 1 /\ filled' = 0
          /\ next' = [e \in Entries |-> NULL]
       \/ mpc' = "failed" /\ UNCHANGED <<blocks, filled, next>>
    /\ UNCHANGED <<vars, ctxDone, supported, number, leaked, index, curr>>

\* Mutant: the last entry but one ends the list.
LinkedShort(e) == IF e < number - 1 THEN e + 1 ELSE NULL

Linked(e) == IF e < number THEN e + 1 ELSE NULL

\* Mutant: the list stays allocated.
FreedNot == blocks

Freed == blocks - 1

\* One turn of the loop: an entry is filled and linked, or the list is freed.
CapsFill ==
    /\ mpc = "fill" /\ filled < number
    /\ \E r \in ControlCaps :
        IF r = Refused
        THEN /\ mpc' = "failed" /\ blocks' = Freed
             /\ UNCHANGED <<filled, next>>
        ELSE /\ filled' = filled + 1
             /\ next' = [next EXCEPT ![filled + 1] = Linked(filled + 1)]
             /\ UNCHANGED <<mpc, blocks>>
    /\ UNCHANGED <<vars, ctxDone, supported, number, leaked, index, curr>>

\* The list is handed to Go.
CapsReturn ==
    /\ mpc = "fill" /\ filled = number
    /\ mpc' = "walk"
    /\ index' = 0 /\ curr' = IF number = 0 THEN NULL ELSE 1
    /\ UNCHANGED <<vars, ctxDone, supported, listVars>>

\* The C function has left errno set: cgo returns an error, and the list with it, which
\* asiGetControlCaps does not free.
CapsErrno ==
    /\ mpc = "fill" /\ filled = number /\ leaked < MaxLeaks
    /\ mpc' = "failed" /\ leaked' = leaked + 1
    /\ UNCHANGED <<vars, ctxDone, supported, number, filled, next, blocks, index, curr>>
---------------------------------------------------------------------------
(* asiGetControlCaps.                                                      *)

CapsWalk ==
    /\ mpc = "walk" /\ index < number
    /\ curr \in Entries
    /\ index' = index + 1
    /\ curr' = next[curr]
    /\ UNCHANGED <<vars, ctxDone, mpc, supported, listVars>>

\* The deferred free; Monitor keeps those it has a metric for.
CapsFree ==
    /\ mpc = "walk" /\ index = number
    /\ blocks' = Freed
    /\ supported' \in 0 .. number
    /\ mpc' = "values" /\ index' = 0
    /\ UNCHANGED <<vars, ctxDone, number, filled, next, leaked, curr>>
---------------------------------------------------------------------------
Caps == CapsCount \/ CapsMalloc \/ CapsFill \/ CapsReturn \/ CapsErrno \/ CapsWalk \/ CapsFree
MonitorStep == MonitorEnds \/ MonitorOpens \/ MonitorReads \/ MonitorDone \/ Caps

MonNext == HandleStep \/ CancelContext \/ MonitorStep

MonSpec == MonInit /\ [][MonNext]_camVars

\* As for the handle; Monitor runs, and its interval passes.
MonFairness ==
    /\ WF_camVars(Tick /\ UNCHANGED monVars) /\ WF_camVars(AutoExit /\ UNCHANGED monVars)
    /\ WF_camVars(JoinReturns /\ UNCHANGED monVars)
    /\ \A u \in Users \ {Mon} : WF_camVars(Done(u) /\ UNCHANGED monVars)
    /\ WF_camVars(MonitorStep) /\ SF_camVars(MonitorEnds)

MonLiveSpec == MonSpec /\ MonFairness
---------------------------------------------------------------------------
\* Go never follows a NULL or dangling pointer, nor reads an entry that C has not
\* filled, whenever the camera is closed under the call: the list is as long as its
\* number says, and still allocated (api.go:522, camera.c:34).
WalkStaysInList ==
    mpc = "walk" =>
        /\ filled = number /\ blocks > leaked
        /\ index < number => curr \in 1 .. filled

\* A list is freed once on every path: a failed count, a failed allocation, a camera
\* closed half-way, a complete list.  Only an errno beside a complete list leaks it.
ListsFreedButErrno ==
    blocks = leaked + (IF mpc \in {"fill", "walk"} THEN 1 ELSE 0)

\* Monitor ends once its context is cancelled, or the camera has been joined and all
\* its users have left, wherever in its round that finds it (metrics.go:101).
MonitorReturns == (ctxDone \/ doneClosed > 0) ~> mpc = "over"
===========================================================================
