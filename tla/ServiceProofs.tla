--------------------------- MODULE ServiceProofs ---------------------------
(***************************************************************************)
(* Theorems about Service, for any number of folders, changes of the       *)
(* folder and outages of the camera.                                       *)
(***************************************************************************)
EXTENDS Service, TLAPS

\* The counter of the alerts follows the calls: two of them for each loss, one as long as
\* the camera is missing.  A camera that has been detected is not missing.
AlertsCounted ==
    /\ calls \in Seq([what : {"send", "clear"}, id : Nat])
    /\ usbDetected \in BOOLEAN /\ usbMissing \in BOOLEAN
    /\ usbDetected => ~usbMissing
    /\ Len(calls) = 2 * (usbID - 1) + (IF usbMissing THEN 1 ELSE 0)
    /\ usbID \in 1 .. MaxOutages + 1

\* The k-th call, as it must be.
NthCall(i) == ProxyCall(IF i % 2 = 1 THEN "send" ELSE "clear", (i + 1) \div 2)
InTurn == \A i \in 1 .. Len(calls) : calls[i] = NthCall(i)

AlertInv == AlertsCounted /\ InTurn

\* Of a step that leaves the camera alone, nothing is to be said.
LEMMA AlertElsewhere ==
    ASSUME AlertInv, UNCHANGED <<usbDetected, usbMissing, usbID, calls>>
    PROVE  AlertInv'
  BY DEF AlertInv, AlertsCounted, InTurn

\* A call appended in its turn leaves those before it as they were.
LEMMA AlertAppended ==
    ASSUME AlertInv, NEW c \in [what : {"send", "clear"}, id : Nat],
           c = NthCall(Len(calls) + 1), calls' = Append(calls, c)
    PROVE  InTurn' /\ Len(calls') = Len(calls) + 1
                   /\ calls' \in Seq([what : {"send", "clear"}, id : Nat])
  <1>. DEFINE R == [what : {"send", "clear"}, id : Nat]
  <1>1. calls \in Seq(R) /\ c \in R
    BY DEF AlertInv, AlertsCounted
  <1>. HIDE DEF R
  <1>2. /\ calls' \in Seq(R) /\ Len(calls') = Len(calls) + 1 /\ Len(calls) \in Nat
        /\ \A i \in 1 .. Len(calls) : calls'[i] = calls[i]
        /\ calls'[Len(calls) + 1] = c
    BY <1>1
  <1>3. ASSUME NEW i \in 1 .. Len(calls) + 1 PROVE calls'[i] = NthCall(i)
    <2>1. CASE i \in 1 .. Len(calls)
      BY <1>2, <2>1 DEF AlertInv, InTurn
    <2>2. CASE i = Len(calls) + 1
      BY <1>2, <2>2
    <2>. QED
      BY <1>2, <2>1, <2>2
  <1>. QED
    BY <1>2, <1>3 DEF InTurn, R

\* The steps of monitorUSB.
LEMMA AlertStep == AlertInv /\ [Next]_vars => AlertInv'
  <1>. SUFFICES ASSUME AlertInv, [Next]_vars PROVE AlertInv'
    OBVIOUS
  <1>0. /\ usbID \in Nat /\ usbID >= 1 /\ Len(calls) \in Nat
        /\ usbMissing \in BOOLEAN /\ usbDetected \in BOOLEAN
    BY ServiceAssumption DEF AlertInv, AlertsCounted
  <1>1. CASE UsbTick /\ UsbLost
    <2>1. ~usbMissing /\ Len(calls) = 2 * (usbID - 1)
      BY <1>1 DEF UsbLost, AlertInv, AlertsCounted
    <2>2. (Len(calls) + 1) % 2 = 1 /\ (Len(calls) + 1 + 1) \div 2 = usbID
      BY <1>0, <2>1
    <2>3. ProxyCall("send", usbID) = NthCall(Len(calls) + 1)
      BY <2>2 DEF NthCall
    <2>4. ProxyCall("send", usbID) \in [what : {"send", "clear"}, id : Nat]
      BY <1>0 DEF ProxyCall
    <2>5. InTurn' /\ Len(calls') = Len(calls) + 1
                  /\ calls' \in Seq([what : {"send", "clear"}, id : Nat])
      BY <1>1, <2>3, <2>4, AlertAppended DEF UsbLost
    <2>. QED
      BY <1>0, <1>1, <2>1, <2>5 DEF UsbLost, AlertInv, AlertsCounted
  <1>2. CASE UsbTick /\ UsbFound
    <2>1. usbMissing /\ Len(calls) = 2 * (usbID - 1) + 1 /\ usbID <= MaxOutages
      BY <1>2 DEF UsbFound, AlertInv, AlertsCounted
    <2>2. (Len(calls) + 1) % 2 = 0 /\ (Len(calls) + 1 + 1) \div 2 = usbID
      BY <1>0, <2>1
    <2>3. ProxyCall("clear", usbID) = NthCall(Len(calls) + 1)
      BY <2>2 DEF NthCall
    <2>4. ProxyCall("clear", usbID) \in [what : {"send", "clear"}, id : Nat]
      BY <1>0 DEF ProxyCall
    <2>5. InTurn' /\ Len(calls') = Len(calls) + 1
                  /\ calls' \in Seq([what : {"send", "clear"}, id : Nat])
      BY <1>2, <2>3, <2>4, AlertAppended DEF UsbFound
    <2>6. usbID' = usbID + 1 /\ usbMissing' = FALSE /\ usbDetected' = TRUE
      BY <1>2 DEF UsbFound
    <2>7. Len(calls') = 2 * (usbID' - 1) /\ usbID' \in 1 .. MaxOutages + 1
      BY <1>0, <2>1, <2>5, <2>6, ServiceAssumption
    <2>8. Len(calls') = 2 * (usbID' - 1) + (IF usbMissing' THEN 1 ELSE 0)
      BY <1>0, <2>6, <2>7
    <2>9. usbDetected' \in BOOLEAN /\ usbMissing' \in BOOLEAN /\ (usbDetected' => ~usbMissing')
      BY <2>6
    <2>10. AlertsCounted'
      BY <2>5, <2>7, <2>8, <2>9, Zenon DEF AlertsCounted
    <2>. QED
      BY <2>5, <2>10 DEF AlertInv
  <1>3. CASE UsbTick /\ UsbThere
    BY <1>3 DEF UsbThere, AlertInv, AlertsCounted, InTurn
  <1>4. CASE Poll \/ FolderUpdate \/ \E w \in Watchers : Watch(w) \/ AuxEnds(w) \/ WatchFails(w)
    BY <1>4, AlertElsewhere
       DEF Poll, PollAsks, PollOk, PollFails, PollSends, PollTimer, PollEnds, FolderUpdate,
           Watch, WatchCancelled, WatchStuck, WatchJoined, Retry, AuxEnds, WatchFails, usbVars
  <1>5. CASE UsbEnds \/ RecordingEnds \/ RecordingAlert \/ CallEnds \/ Stop \/ FolderChanges
    BY <1>5, AlertElsewhere
       DEF UsbEnds, RecordingEnds, RecordingAlert, CallEnds, Stop, FolderChanges, usbVars
  <1>6. CASE UNCHANGED vars
    BY <1>6, AlertElsewhere DEF vars, usbVars
  <1>. QED
    BY <1>1, <1>2, <1>3, <1>4, <1>5, <1>6 DEF Next, UsbTick

\* Before the first tick nothing has been called.
LEMMA AlertInit == Init => AlertInv
  <1>. SUFFICES ASSUME Init PROVE AlertInv
    OBVIOUS
  <1>1. calls = <<>> /\ usbMissing = FALSE /\ usbDetected = FALSE /\ usbID = 1
    BY DEF Init
  <1>2. Len(calls) = 0 /\ calls \in Seq([what : {"send", "clear"}, id : Nat])
    BY <1>1
  <1>3. 1 \in 1 .. MaxOutages + 1
    BY ServiceAssumption
  <1>4. AlertsCounted
    <2>1. Len(calls) = 2 * (usbID - 1) + (IF usbMissing THEN 1 ELSE 0)
      BY <1>1, <1>2
    <2>2. usbDetected \in BOOLEAN /\ usbMissing \in BOOLEAN /\ (usbDetected => ~usbMissing)
      BY <1>1
    <2>. QED
      BY <1>1, <1>2, <1>3, <2>1, <2>2, Zenon DEF AlertsCounted
  <1>5. InTurn
    BY <1>2 DEF InTurn
  <1>. QED
    BY <1>4, <1>5 DEF AlertInv

\* The calls monitorUSB makes for the camera alternate, for any number of outages.
THEOREM CallsDoAlternate == Spec => []CallsAlternate
  <1>1. AlertInv => CallsAlternate
    <2>. SUFFICES ASSUME AlertInv PROVE CallsAlternate
      OBVIOUS
    <2>. DEFINE R == [what : {"send", "clear"}, id : Nat]
    <2>1. calls \in Seq(R)
      BY DEF AlertInv, AlertsCounted
    <2>2. Len(calls) \in Nat /\ calls = [i \in 1 .. Len(calls) |-> calls[i]]
      <3>. HIDE DEF R
      <3>. QED
        BY <2>1
    <2>3. calls = [i \in 1 .. Len(calls) |-> NthCall(i)]
      BY <2>2 DEF AlertInv, InTurn
    <2>4. usbMissing <=> Len(calls) % 2 = 1
      <3>1. usbID \in Nat /\ usbID >= 1 /\ usbMissing \in BOOLEAN
            /\ Len(calls) = 2 * (usbID - 1) + (IF usbMissing THEN 1 ELSE 0)
        BY ServiceAssumption DEF AlertInv, AlertsCounted
      <3>2. CASE usbMissing
        BY <3>1, <3>2
      <3>3. CASE ~usbMissing
        BY <3>1, <3>3
      <3>. QED
        BY <3>2, <3>3
    <2>. QED
      BY <2>3, <2>4 DEF CallsAlternate, NthCall
  <1>. QED
    BY <1>1, AlertInit, AlertStep, PTL DEF Spec
---------------------------------------------------------------------------
\* The alert of the 24 hours is sent once, when the goroutine that waits for them ends.
PendingSent == pending <= Len(calls) + (IF recording = "over" THEN 1 ELSE 0)

ServiceInv == TypeOK /\ PendingSent

\* Watchers are numbered without gaps.
LEMMA WatcherNumbers ==
    ASSUME TypeOK
    PROVE  /\ latest \in Nat /\ Watchers \subseteq Nat
           /\ \A w \in Watchers : wpc[w] # "none" => w \in 1 .. latest
           /\ \A w \in 1 .. latest : w \in Watchers
  BY ServiceAssumption DEF TypeOK, Watchers

LEMMA TypeInit == Init => ServiceInv
  <1>. SUFFICES ASSUME Init PROVE ServiceInv
    OBVIOUS
  <1>. USE ServiceAssumption DEF Init, Watchers
  <1>1. Len(calls) = 0 /\ folderChan \in Seq(Folders) /\ Len(folderChan) = 0
    OBVIOUS
  <1>2. cancelled = 1 .. latest - 1 /\ timing \subseteq 1 .. latest
    OBVIOUS
  <1>3. \A w \in Watchers : wpc[w] = "none" <=> w > latest
    OBVIOUS
  <1>4. /\ usbID \in 1 .. MaxOutages + 1 /\ latest \in 0 .. MaxChanges + 1
        /\ changes \in 0 .. MaxChanges
        /\ pending \in 0 .. Len(calls) + 1 /\ PendingSent
    BY <1>1 DEF PendingSent
  <1>5. folder \in Folders /\ got \in Folders /\ lastFolder \in Folders /\ Len(folderChan) <= ChanCap
    BY <1>1
  <1>. QED
    BY <1>1, <1>2, <1>3, <1>4, <1>5 DEF ServiceInv, TypeOK

\* The goroutine that asks, and the server.
LEMMA TypePoll ==
    ASSUME ServiceInv, Poll \/ Stop \/ FolderChanges
    PROVE  ServiceInv'
  <1>. USE DEF ServiceInv, TypeOK, PendingSent, watchVars, usbVars, serverVars, pollVars
  <1>1. CASE PollAsks \/ PollOk \/ PollFails \/ PollTimer \/ PollEnds
    BY <1>1 DEF PollAsks, PollOk, PollFails, PollTimer, PollEnds
  <1>2. CASE PollSends
    <2>1. folderChan' \in Seq(Folders) /\ Len(folderChan') <= ChanCap
      BY <1>2, ServiceAssumption DEF PollSends
    <2>. QED
      BY <1>2, <2>1 DEF PollSends
  <1>3. CASE Stop
    BY <1>3 DEF Stop
  <1>4. CASE FolderChanges
    <2>1. changes' \in 0 .. MaxChanges /\ folder' \in Folders
      BY <1>4, ServiceAssumption DEF FolderChanges
    <2>. QED
      BY <1>4, <2>1 DEF FolderChanges
  <1>. QED
    BY <1>1, <1>2, <1>3, <1>4 DEF Poll

\* watchMedia: the watcher before is cancelled, a new one begins.
LEMMA TypeUpdate == ASSUME ServiceInv, FolderUpdate PROVE ServiceInv'
  <1>. USE ServiceAssumption DEF FolderUpdate, ServiceInv
  <1>0. latest \in Nat /\ latest + 1 \in Watchers /\ Watchers = 1 .. MaxChanges + 1
    BY DEF TypeOK, Watchers
  <1>1. cancelled' = 1 .. latest' - 1
    <2>1. CASE latest = 0
      BY <2>1 DEF TypeOK, PrevCancelled
    <2>2. CASE latest # 0
      BY <1>0, <2>2 DEF TypeOK, PrevCancelled
    <2>. QED
      BY <2>1, <2>2
  <1>2. /\ folderChan' \in Seq(Folders) /\ Len(folderChan') <= ChanCap
        /\ Head(folderChan) \in Folders
    BY DEF TypeOK
  <1>3. \A w \in Watchers : wpc'[w] = "none" <=> w > latest'
    BY <1>0 DEF TypeOK
  <1>4. timing' \subseteq 1 .. latest' /\ latest' \in 0 .. MaxChanges + 1
    BY <1>0 DEF TypeOK
  <1>5. /\ watched' \in [Watchers -> Folders]
        /\ wpc' \in [Watchers -> {"none", "watch", "join", "backoff", "stuck", "ended"}]
    BY <1>2 DEF TypeOK
  <1>. QED
    BY <1>1, <1>2, <1>3, <1>4, <1>5
       DEF TypeOK, PendingSent, usbVars, serverVars, pollVars

\* The goroutine of a watcher, and the one beside it.
LEMMA TypeWatch ==
    ASSUME ServiceInv, NEW w \in Watchers, Watch(w) \/ AuxEnds(w) \/ WatchFails(w)
    PROVE  ServiceInv'
  <1>. USE DEF ServiceInv
  <1>0. wpc[w] # "none" => w \in 1 .. latest
    BY WatcherNumbers
  <1>1. /\ wpc' \in [Watchers -> {"none", "watch", "join", "backoff", "stuck", "ended"}]
        /\ err' \in [Watchers -> {"none", "plain", "canceled"}]
        /\ \A v \in Watchers : wpc'[v] = "none" <=> wpc[v] = "none"
        /\ timing' \subseteq 1 .. latest
    <2>. USE DEF TypeOK
    <2>1. CASE WatchCancelled(w) \/ WatchStuck(w) \/ WatchFails(w)
      BY <2>1 DEF WatchCancelled, WatchStuck, WatchFails
    <2>2. CASE WatchJoined(w)
      BY <2>2 DEF WatchJoined
    <2>3. CASE Retry(w)
      BY <1>0, <2>3 DEF Retry
    <2>4. CASE AuxEnds(w)
      BY <2>4 DEF AuxEnds
    <2>. QED
      BY <2>1, <2>2, <2>3, <2>4 DEF Watch
  <1>2. UNCHANGED <<ctxDone, folder, changes, ppc, got, lastFolder, folderChan, latest, watched,
                    cancelled, usbVars, recording>>
    BY DEF Watch, WatchCancelled, WatchStuck, WatchFails, WatchJoined, Retry, AuxEnds,
           serverVars, pollVars
  <1>. QED
    BY <1>1, <1>2 DEF TypeOK, PendingSent, usbVars

\* The camera, the 24 hours, the proxy.
LEMMA TypeAlerts ==
    ASSUME ServiceInv, AlertInv, AlertInv',
           UsbTick \/ UsbEnds \/ RecordingEnds \/ RecordingAlert \/ CallEnds
    PROVE  ServiceInv'
  <1>. USE DEF ServiceInv, serverVars, pollVars, watchVars
  <1>0. /\ Len(calls) \in Nat /\ Len(calls') \in Nat /\ pending \in Nat
        /\ usbDetected' \in BOOLEAN /\ usbMissing' \in BOOLEAN
        /\ usbID' \in 1 .. MaxOutages + 1
    <2>1. pending \in Nat
      <3>1. pending \in 0 .. Len(calls) + 1
        BY DEF TypeOK
      <3>. QED
        BY <3>1
    <2>2. Len(calls) \in Nat /\ Len(calls') \in Nat
      <3>. DEFINE R == [what : {"send", "clear"}, id : Nat]
      <3>1. calls \in Seq(R) /\ calls' \in Seq(R)
        BY Zenon DEF AlertInv, AlertsCounted
      <3>. HIDE DEF R
      <3>. QED
        BY <3>1
    <2>. QED
      BY <2>1, <2>2, Zenon DEF AlertInv, AlertsCounted
  <1>1. CASE UsbTick
    <2>1. \/ Len(calls') = Len(calls) + 1 /\ pending' = pending + 1
          \/ Len(calls') = Len(calls) /\ pending' = pending
      <3>. DEFINE R == [what : {"send", "clear"}, id : Nat]
      <3>1. calls \in Seq(R)
        BY DEF AlertInv, AlertsCounted
      <3>2. \A c : calls' = Append(calls, c) => Len(calls') = Len(calls) + 1
        <4>. HIDE DEF R
        <4>. QED
          BY <3>1
      <3>. QED
        BY <1>1, <3>2 DEF UsbTick, UsbLost, UsbFound, UsbThere
    <2>2. recording' = recording
      BY <1>1 DEF UsbTick
    <2>3. pending' \in 0 .. Len(calls') + 1 /\ PendingSent'
      BY <1>0, <2>1, <2>2 DEF PendingSent, TypeOK
    <2>. QED
      BY <1>0, <1>1, <2>3 DEF UsbTick, TypeOK
  <1>2. CASE UsbEnds
    BY <1>2 DEF UsbEnds, TypeOK, PendingSent
  <1>3. CASE RecordingEnds
    <2>1. PendingSent'
      BY <1>0, <1>3 DEF RecordingEnds, usbVars, PendingSent
    <2>. QED
      BY <1>3, <2>1 DEF RecordingEnds, usbVars, TypeOK
  <1>4. CASE RecordingAlert
    <2>1. PendingSent' /\ pending' \in 0 .. Len(calls') + 1
      BY <1>0, <1>4 DEF RecordingAlert, PendingSent
    <2>. QED
      BY <1>4, <2>1 DEF RecordingAlert, TypeOK
  <1>5. CASE CallEnds
    <2>1. PendingSent' /\ pending' \in 0 .. Len(calls') + 1
      BY <1>0, <1>5 DEF CallEnds, PendingSent, TypeOK
    <2>. QED
      BY <1>5, <2>1 DEF CallEnds, TypeOK
  <1>. QED
    BY <1>1, <1>2, <1>3, <1>4, <1>5

\* Every variable of the service has its type: of the watchers, all but the newest are
\* cancelled; what is under way in the proxy are calls that were made.
THEOREM TypeCorrect == Spec => []TypeOK
  <1>1. ServiceInv /\ AlertInv /\ AlertInv' /\ [Next]_vars => ServiceInv'
    <2>. SUFFICES ASSUME ServiceInv, AlertInv, AlertInv', [Next]_vars PROVE ServiceInv'
      OBVIOUS
    <2>1. CASE UNCHANGED vars
      BY <2>1 DEF vars, watchVars, usbVars, serverVars, pollVars, ServiceInv, TypeOK, PendingSent
    <2>. QED
      BY <2>1, TypePoll, TypeUpdate, TypeWatch, TypeAlerts DEF Next
  <1>2. ServiceInv => TypeOK
    BY DEF ServiceInv
  <1>. QED
    BY <1>1, <1>2, TypeInit, AlertInit, AlertStep, PTL DEF Spec
---------------------------------------------------------------------------
\* The i-th folder that is handed to watchMedia, those still in the channel included.
HandedOver(i) ==
    IF i = 0 THEN NoFolder ELSE IF i <= latest THEN watched[i] ELSE folderChan[i - latest]

Handed == latest + Len(folderChan)

\* What WatchFolder takes for the folder it has sent last is the one that the newest watcher
\* has or will have: no answer is lost or overtaken between the two goroutines.  And every
\* folder differs from the one before, so a watcher never replaces one of the same folder.
AnswersInOrder ==
    /\ HandedOver(Handed) = lastFolder
    /\ \A i \in 1 .. Handed : HandedOver(i) # HandedOver(i - 1)

\* An answer that is to be sent is news.
OrderInv == AnswersInOrder /\ (ppc = "send" => got # lastFolder)

\* The aux goroutine of a watcher is over before its operation returns, so a retry never
\* finds the one of the try before.
AuxEndsFirst == \A w \in timing : wpc[w] \in {"watch", "stuck", "join"}

\* Whoever has the folder, the channel or a watcher, it is the same one.
LEMMA HandedSame ==
    ASSUME TypeOK, FolderUpdate
    PROVE  /\ Handed' = Handed
           /\ \A i \in 0 .. Handed : HandedOver(i)' = HandedOver(i)
  <1>1. /\ latest \in Nat /\ latest' = latest + 1 /\ latest + 1 \in Watchers
        /\ watched \in [Watchers -> Folders]
        /\ watched' = [watched EXCEPT ![latest + 1] = Head(folderChan)]
        /\ Watchers = 1 .. MaxChanges + 1 /\ MaxChanges \in Nat
    BY ServiceAssumption DEF TypeOK, FolderUpdate, Watchers
  <1>2. /\ folderChan \in Seq(Folders) /\ folderChan # <<>> /\ folderChan' = Tail(folderChan)
    BY DEF TypeOK, FolderUpdate
  <1>3. /\ Len(folderChan) \in Nat /\ Len(folderChan) > 0
        /\ Len(folderChan') = Len(folderChan) - 1 /\ Head(folderChan) = folderChan[1]
        /\ \A j \in 1 .. Len(folderChan) - 1 : folderChan'[j] = folderChan[j + 1]
    BY <1>2
  <1>4. Handed' = Handed
    BY <1>1, <1>3 DEF Handed
  <1>5. ASSUME NEW i \in 0 .. Handed PROVE HandedOver(i)' = HandedOver(i)
    <2>1. CASE i <= latest
      BY <1>1, <2>1 DEF HandedOver, Handed
    <2>2. CASE i = latest + 1
      BY <1>1, <1>3, <2>2 DEF HandedOver, Handed
    <2>3. CASE i > latest + 1
      <3>1. i - latest' \in 1 .. Len(folderChan) - 1 /\ i - latest' + 1 = i - latest
        BY <1>1, <1>3, <2>3 DEF Handed
      <3>2. folderChan'[i - latest'] = folderChan[i - latest]
        BY <1>3, <3>1
      <3>3. i # 0 /\ ~(i <= latest) /\ ~(i <= latest')
        BY <1>1, <2>3
      <3>. QED
        BY <3>2, <3>3, Zenon DEF HandedOver
    <2>. QED
      BY <1>1, <1>3, <2>1, <2>2, <2>3 DEF Handed
  <1>. QED
    BY <1>4, <1>5

\* The answer that is sent comes after all the others.
LEMMA HandedMore ==
    ASSUME TypeOK, PollSends
    PROVE  /\ Handed \in Nat /\ Handed' = Handed + 1
           /\ \A i \in 0 .. Handed : HandedOver(i)' = HandedOver(i)
           /\ \A i : i = Handed + 1 => HandedOver(i)' = got
  <1>1. latest \in Nat /\ latest' = latest /\ watched' = watched
    BY ServiceAssumption DEF TypeOK, PollSends, watchVars
  <1>2. folderChan \in Seq(Folders) /\ folderChan' = Append(folderChan, got) /\ got \in Folders
    BY DEF TypeOK, PollSends
  <1>3. /\ Len(folderChan) \in Nat /\ Len(folderChan') = Len(folderChan) + 1
        /\ folderChan'[Len(folderChan) + 1] = got
        /\ \A j \in 1 .. Len(folderChan) : folderChan'[j] = folderChan[j]
    BY <1>2
  <1>4. Handed \in Nat /\ Handed' = Handed + 1
    BY <1>1, <1>3 DEF Handed
  <1>5. ASSUME NEW i \in 0 .. Handed PROVE HandedOver(i)' = HandedOver(i)
    <2>1. i > latest => i - latest \in 1 .. Len(folderChan)
      BY <1>1, <1>3 DEF Handed
    <2>. QED
      BY <1>1, <1>3, <2>1 DEF HandedOver
  <1>6. ASSUME NEW i, i = Handed + 1 PROVE HandedOver(i)' = got
    <2>1. ~(i <= latest') /\ i - latest' = Len(folderChan) + 1 /\ i # 0
      BY <1>1, <1>3, <1>6 DEF Handed
    <2>. QED
      BY <1>3, <2>1, Zenon DEF HandedOver
  <1>. QED
    BY <1>4, <1>5, <1>6

\* The answers of the server reach the watchers in their order, none lost and none twice in a
\* row, for any number of changes and any capacity of folderChan.
THEOREM AnswersArriveInOrder == Spec => []AnswersInOrder
  <1>1. Init => OrderInv
    <2>. SUFFICES ASSUME Init PROVE OrderInv
      OBVIOUS
    <2>1. Len(folderChan) = 0 /\ latest = 0 /\ lastFolder = NoFolder /\ ppc = "ask"
      BY DEF Init
    <2>2. Handed = 0
      BY <2>1 DEF Handed
    <2>. QED
      BY <2>1, <2>2 DEF OrderInv, AnswersInOrder, HandedOver
  <1>2. TypeOK /\ OrderInv /\ [Next]_vars => OrderInv'
    <2>. SUFFICES ASSUME TypeOK, OrderInv, [Next]_vars PROVE OrderInv'
      OBVIOUS
    <2>1. CASE PollSends
      <3>1. lastFolder' = got /\ got # lastFolder /\ ppc' = "wait"
        BY <2>1 DEF PollSends, OrderInv
      <3>2. HandedOver(Handed)' = got
        <4>1. PICK i : i = Handed + 1
          OBVIOUS
        <4>2. HandedOver(i)' = got /\ i = Handed'
          BY <2>1, <4>1, HandedMore
        <4>. QED
          BY <4>2 DEF HandedOver
      <3>3. ASSUME NEW i \in 1 .. Handed' PROVE HandedOver(i)' # HandedOver(i - 1)'
        <4>1. CASE i \in 1 .. Handed
          <5>1. i \in 0 .. Handed /\ i - 1 \in 0 .. Handed
            BY <2>1, <4>1, HandedMore
          <5>2. HandedOver(i)' = HandedOver(i) /\ HandedOver(i - 1)' = HandedOver(i - 1)
            BY <2>1, <5>1, HandedMore
          <5>. QED
            BY <4>1, <5>2 DEF OrderInv, AnswersInOrder
        <4>2. CASE i = Handed + 1
          <5>1. i - 1 = Handed /\ Handed \in 0 .. Handed
            BY <2>1, <4>2, HandedMore
          <5>2. HandedOver(i - 1)' = HandedOver(Handed)
            BY <2>1, <5>1, HandedMore
          <5>3. HandedOver(i)' = got
            BY <2>1, <4>2, HandedMore
          <5>. QED
            BY <3>1, <5>2, <5>3 DEF OrderInv, AnswersInOrder
        <4>. QED
          BY <2>1, <4>1, <4>2, HandedMore
      <3>. QED
        BY <3>1, <3>2, <3>3 DEF OrderInv, AnswersInOrder
    <2>2. CASE FolderUpdate
      <3>1. lastFolder' = lastFolder /\ ppc' = ppc /\ got' = got
        BY <2>2 DEF FolderUpdate, pollVars
      <3>2. Handed \in Nat
        BY ServiceAssumption DEF TypeOK, Handed
      <3>3. Handed' = Handed /\ Handed \in 0 .. Handed
        BY <2>2, <3>2, HandedSame
      <3>4. \A i \in 1 .. Handed : i \in 0 .. Handed /\ i - 1 \in 0 .. Handed
        BY <3>2
      <3>. QED
        BY <2>2, <3>1, <3>3, <3>4, HandedSame DEF OrderInv, AnswersInOrder
    <2>3. CASE PollOk
      BY <2>3 DEF PollOk, OrderInv, AnswersInOrder, HandedOver, Handed, watchVars
    <2>4. CASE \/ PollAsks \/ PollFails \/ PollTimer \/ PollEnds
               \/ \E w \in Watchers : Watch(w) \/ AuxEnds(w) \/ WatchFails(w)
               \/ UsbTick \/ UsbEnds \/ RecordingEnds \/ RecordingAlert \/ CallEnds
               \/ Stop \/ FolderChanges \/ UNCHANGED vars
      <3>1. UNCHANGED <<latest, watched, folderChan, lastFolder, got>>
        BY <2>4 DEF PollAsks, PollFails, PollTimer, PollEnds, Watch, WatchCancelled,
                    WatchStuck, WatchFails, WatchJoined, Retry, AuxEnds, UsbTick, UsbEnds,
                    RecordingEnds, RecordingAlert, CallEnds, Stop, FolderChanges, vars,
                    watchVars, pollVars
      <3>2. ppc' = ppc \/ ppc' # "send"
        BY <2>4 DEF PollAsks, PollFails, PollTimer, PollEnds, Watch, WatchCancelled,
                    WatchStuck, WatchFails, WatchJoined, Retry, AuxEnds, UsbTick, UsbEnds,
                    RecordingEnds, RecordingAlert, CallEnds, Stop, FolderChanges, vars,
                    pollVars
      <3>. QED
        BY <3>1, <3>2 DEF OrderInv, AnswersInOrder, HandedOver, Handed
    <2>. QED
      BY <2>1, <2>2, <2>3, <2>4 DEF Next, Poll
  <1>3. OrderInv => AnswersInOrder
    BY DEF OrderInv
  <1>. QED
    BY <1>1, <1>2, <1>3, TypeCorrect, PTL DEF Spec

\* A watcher that is tried again has no goroutine left of the try before.
THEOREM AuxGoroutineEndsFirst == Spec => []AuxEndsFirst
  <1>1. Init => AuxEndsFirst
    BY DEF Init, AuxEndsFirst
  <1>2. TypeOK /\ AuxEndsFirst /\ [Next]_vars => AuxEndsFirst'
    <2>. SUFFICES ASSUME TypeOK, AuxEndsFirst, [Next]_vars PROVE AuxEndsFirst'
      OBVIOUS
    <2>0. timing \subseteq Watchers
      BY WatcherNumbers DEF TypeOK
    <2>1. ASSUME NEW w \in Watchers, Watch(w) \/ AuxEnds(w) \/ WatchFails(w)
          PROVE  AuxEndsFirst'
      <3>1. CASE WatchCancelled(w) \/ WatchStuck(w) \/ WatchFails(w)
        BY <2>0, <3>1 DEF WatchCancelled, WatchStuck, WatchFails, AuxEndsFirst, TypeOK
      <3>2. CASE WatchJoined(w)
        BY <2>0, <3>2 DEF WatchJoined, AuxEndsFirst, TypeOK
      <3>3. CASE Retry(w)
        <4>0. wpc \in [Watchers -> {"none", "watch", "join", "backoff", "stuck", "ended"}]
          BY DEF TypeOK
        <4>1. /\ w \notin timing
              /\ timing' = timing \/ (timing' = timing \union {w} /\ wpc'[w] = "watch")
          <5>1. w \notin timing
            BY <3>3 DEF Retry, AuxEndsFirst
          <5>2. timing' = timing \/ (timing' = timing \union {w} /\ wpc'[w] = "watch")
            BY <3>3, <4>0 DEF Retry
          <5>. QED
            BY <5>1, <5>2
        <4>2. \A v \in Watchers \ {w} : wpc'[v] = wpc[v]
          BY <3>3 DEF Retry, TypeOK
        <4>. QED
          BY <2>0, <4>1, <4>2 DEF AuxEndsFirst
      <3>4. CASE AuxEnds(w)
        BY <3>4 DEF AuxEnds, AuxEndsFirst
      <3>. QED
        BY <2>1, <3>1, <3>2, <3>3, <3>4 DEF Watch
    <2>2. CASE FolderUpdate
      BY <2>0, <2>2 DEF FolderUpdate, AuxEndsFirst, TypeOK
    <2>3. CASE Poll \/ UsbTick \/ UsbEnds \/ RecordingEnds \/ RecordingAlert \/ CallEnds
               \/ Stop \/ FolderChanges \/ UNCHANGED vars
      <3>1. UNCHANGED <<wpc, timing>>
        BY <2>3 DEF Poll, PollAsks, PollOk, PollFails, PollSends, PollTimer, PollEnds, UsbTick,
                    UsbEnds, RecordingEnds, RecordingAlert, CallEnds, Stop, FolderChanges,
                    vars, watchVars
      <3>. QED
        BY <3>1 DEF AuxEndsFirst
    <2>. QED
      BY <2>1, <2>2, <2>3 DEF Next
  <1>. QED
    BY <1>1, <1>2, TypeCorrect, PTL DEF Spec
===========================================================================
