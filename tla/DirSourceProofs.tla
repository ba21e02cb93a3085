-------------------------- MODULE DirSourceProofs --------------------------
(***************************************************************************)
(* Of the directory source it is proved, for any number of pictures, calls *)
(* of readImage, frames and sessions, that a frame is copied whole under   *)
(* the conditions FrameIntact names.                                       *)
(***************************************************************************)
EXTENDS DirSource, FiniteSetTheorems, TLAPS

Content == Pictures \union {NoPicture, Torn}

FrameRecord ==
    [at : {"none", "taken", "copying", "copied", "dropped"}, src : {0, 1},
     features : Content, copy : Content, reads : Nat]

DirType ==
    /\ wpc = "send" => event \in Pictures
    /\ updates \in {<<>>} \union {<<p>> : p \in Pictures}
    /\ rpc \in [Reads -> {"none", "delay", "open", "write", "swap", "over"}]
    /\ path \in [Reads -> Pictures \union {NoPicture}]
    /\ imgIndex \in [Reads -> {0, 1}]
    /\ images \in [{0, 1} -> Content]
    /\ currentImage \in {0, 1} /\ features \in Content
    /\ lapped \in BOOLEAN
    /\ frame \in [Frames -> FrameRecord]

\* A frame that still depends on its half.
Live(f) == frame[f].at \in {"taken", "copying"}

\* The source is stopped when no frame depends on its halves.
StoppedIsQuiet == state # "running" => \A f \in Frames : ~Live(f)

\* One call at a time is in readImage; it writes the half that is not shown, and what it
\* is about to show is the picture it was called with.
OneRead ==
    /\ \A r, s \in Reading : r = s
    /\ \A r \in Reading : imgIndex[r] = 1 - currentImage
    /\ \A r \in Reads : rpc[r] = "swap" => images[imgIndex[r]] = path[r]

\* The half that is shown is empty or the picture its features are of.
ShownIsWhole == images[currentImage] # NoPicture => images[currentImage] = features

\* Where the half of a frame is after no call of readImage, and after one.
HalfOf(f) ==
    /\ frame[f].reads = 0 => Reading = {} /\ frame[f].src = currentImage
    /\ frame[f].reads = 1 => frame[f].src = currentImage \/ Reading = {}

\* A frame that fewer than two calls have seen has the content it was taken with.
FrameKept(f) ==
    frame[f].reads < 2 =>
        /\ Live(f) => HalfOf(f) /\ images[frame[f].src] = frame[f].features
        /\ frame[f].at \in {"copying", "copied"} => frame[f].copy = frame[f].features

DirInv ==
    /\ DirType /\ StoppedIsQuiet
    /\ ~lapped => OneRead /\ ShownIsWhole /\ \A f \in Frames : FrameKept(f)
---------------------------------------------------------------------------
LEMMA DirInit == Init => DirInv
<1> SUFFICES ASSUME Init PROVE DirInv
  OBVIOUS
<1>1. DirType
  BY DEF Init, DirType, NoFrame, FrameRecord, Content
<1>2. \A f \in Frames : frame[f].at = "none"
  BY DEF Init, NoFrame
<1>3. Reading = {}
  BY DEF Init, Reading
<1>4. OneRead /\ ShownIsWhole
  BY <1>3 DEF OneRead, ShownIsWhole, Init
<1> QED
  BY <1>1, <1>2, <1>4 DEF DirInv, StoppedIsQuiet, FrameKept, Live

\* What the invariant speaks of when neither a picture, a call in readImage nor a frame moves.
LEMMA QuietStep ==
  ASSUME DirInv, DirType', StoppedIsQuiet',
         UNCHANGED <<images, currentImage, features, lapped, frame, imgIndex>>,
         Reading' = Reading,
         \A r \in Reads : rpc'[r] = "swap" => rpc[r] = "swap" /\ path'[r] = path[r]
  PROVE  DirInv'
<1> SUFFICES ASSUME ~lapped
             PROVE  OneRead' /\ ShownIsWhole' /\ \A f \in Frames : FrameKept(f)'
  BY DEF DirInv
<1>1. OneRead'
  BY DEF DirInv, OneRead
<1>2. ShownIsWhole'
  BY DEF DirInv, ShownIsWhole
<1>3. \A f \in Frames : FrameKept(f)'
  BY DEF DirInv, FrameKept, Live, HalfOf
<1> QED
  BY <1>1, <1>2, <1>3

\* The number of calls in readImage when a frame is taken.
LEMMA ReadingCount ==
  /\ Cardinality(Reading) \in Nat
  /\ Cardinality(Reading) = 0 <=> Reading = {}
<1>1. IsFiniteSet(Reading)
  BY DirAssumption, FS_Subset DEF Reading
<1> QED
  BY <1>1, FS_CardinalityType, FS_EmptySet
---------------------------------------------------------------------------
LEMMA TypeStep == DirType /\ [Next]_vars => DirType'
<1> SUFFICES ASSUME DirType, [Next]_vars PROVE DirType'
  OBVIOUS
<1> USE DEF DirType, srcVars, watchVars, listenVars, readVars, imgVars, vars
<1>1. CASE FileEvent \/ SendUpdate \/ WatcherEnds \/ ListenerEnds \/ Drains
  BY <1>1 DEF FileEvent, SendUpdate, WatcherEnds, ListenerEnds, Drains
<1>2. CASE Listens
  <2>1. CASE \E r \in Reads : Begins(r, "delay", Head(updates))
    <3>1. PICK r \in Reads : Begins(r, "delay", Head(updates))
      BY <2>1
    <3>2. Head(updates) \in Pictures
      BY <1>2 DEF Listens
    <3> QED
      BY <1>2, <3>1, <3>2 DEF Listens, Begins
  <2>2. CASE UNCHANGED <<readVars, latestFile>>
    BY <1>2, <2>2 DEF Listens
  <2> QED
    BY <1>2, <2>1, <2>2 DEF Listens
<1>3. CASE Start
  <2>1. PICK r \in Reads, p \in Pictures : Begins(r, "delay", p)
    BY <1>3 DEF Start
  <2> QED
    BY <1>3, <2>1 DEF Start, Begins
<1>4. CASE Started \/ Stop
  BY <1>4 DEF Started, Stop
<1>5. CASE Stopped
  BY <1>5 DEF Stopped, Content
<1>6. ASSUME NEW r \in Reads, Chooses(r) PROVE DirType'
  <2>1. frame' \in [Frames -> FrameRecord]
    <3>1. ASSUME NEW f \in Frames PROVE SeenByFrames[f] \in FrameRecord
      <4>1. frame[f] \in FrameRecord
        OBVIOUS
      <4>2. frame[f].reads + 1 \in Nat
        BY <4>1 DEF FrameRecord
      <4>3. [frame[f] EXCEPT !.reads = @ + 1] \in FrameRecord
        BY <4>1, <4>2 DEF FrameRecord
      <4> QED
        BY <4>1, <4>3 DEF SeenByFrames
    <3>2. SeenByFrames \in [Frames -> FrameRecord]
      BY <3>1 DEF SeenByFrames
    <3> QED
      BY <1>6, <3>2 DEF Chooses
  <2>2. OtherHalf \in {0, 1}
    BY DEF OtherHalf
  <2> QED
    BY <1>6, <2>1, <2>2 DEF Chooses
<1>7. ASSUME NEW r \in Reads, Writes(r) PROVE DirType'
  <2>1. frame' \in [Frames -> FrameRecord]
    BY <1>7 DEF Writes, FrameRecord, Content
  <2> QED
    BY <1>7, <2>1 DEF Writes, Content
<1>8. ASSUME NEW r \in Reads, Written(r) PROVE DirType'
  <2>1. images' \in [{0, 1} -> Content]
    BY <1>8 DEF Written, Content
  <2> QED
    BY <1>8, <2>1 DEF Written
<1>9. ASSUME NEW r \in Reads, ReadFails(r) \/ Swaps(r) PROVE DirType'
  BY <1>9 DEF ReadFails, Swaps, Content
<1>10. ASSUME NEW f \in Frames, SrcNext(f) PROVE DirType'
  <2>1. [at |-> "taken", src |-> currentImage, features |-> features, copy |-> NoPicture,
         reads |-> Cardinality(Reading)] \in FrameRecord
    BY ReadingCount DEF FrameRecord, Content
  <2> QED
    BY <1>10, <2>1 DEF SrcNext
<1>11. ASSUME NEW f \in Frames, CopyBegins(f) \/ CopyEnds(f) \/ Dropped(f) PROVE DirType'
  BY <1>11 DEF CopyBegins, CopyEnds, Dropped, FrameRecord
<1>12. CASE UNCHANGED vars
  BY <1>12
<1> QED
  BY <1>1, <1>2, <1>3, <1>4, <1>5, <1>6, <1>7, <1>8, <1>9, <1>10, <1>11, <1>12 DEF Next

\* A source is stopped only when no frame is on its way, and only a running one gives frames.
LEMMA QuietWhenStopped == DirType /\ StoppedIsQuiet /\ [Next]_vars => StoppedIsQuiet'
<1> SUFFICES ASSUME DirType, StoppedIsQuiet, [Next]_vars PROVE StoppedIsQuiet'
  OBVIOUS
<1> USE DEF StoppedIsQuiet, Live, srcVars, watchVars, listenVars, readVars, imgVars, vars
<1>1. CASE FileEvent \/ SendUpdate \/ WatcherEnds \/ Listens \/ ListenerEnds \/ Drains
  BY <1>1 DEF FileEvent, SendUpdate, WatcherEnds, Listens, ListenerEnds, Drains
<1>2. CASE Start \/ Started \/ Stop \/ Stopped
  BY <1>2 DEF Start, Started, Stop, Stopped
<1>3. ASSUME NEW r \in Reads, Chooses(r) PROVE StoppedIsQuiet'
  <2>1. \A f \in Frames : frame'[f].at = frame[f].at
    BY <1>3 DEF Chooses, SeenByFrames, DirType, FrameRecord
  <2> QED
    BY <1>3, <2>1 DEF Chooses
<1>4. ASSUME NEW r \in Reads, Writes(r) PROVE StoppedIsQuiet'
  <2>1. \A f \in Frames : frame'[f].at = frame[f].at
    BY <1>4 DEF Writes, DirType, FrameRecord
  <2> QED
    BY <1>4, <2>1 DEF Writes
<1>5. ASSUME NEW r \in Reads, Written(r) \/ ReadFails(r) \/ Swaps(r) PROVE StoppedIsQuiet'
  BY <1>5 DEF Written, ReadFails, Swaps
<1>6. ASSUME NEW f \in Frames, SrcNext(f) PROVE StoppedIsQuiet'
  BY <1>6 DEF SrcNext
<1>7. ASSUME NEW f \in Frames, CopyBegins(f) \/ CopyEnds(f) \/ Dropped(f)
      PROVE  StoppedIsQuiet'
  BY <1>7 DEF CopyBegins, CopyEnds, Dropped, DirType, FrameRecord
<1>8. CASE UNCHANGED vars
  BY <1>8
<1> QED
  BY <1>1, <1>2, <1>3, <1>4, <1>5, <1>6, <1>7, <1>8 DEF Next
---------------------------------------------------------------------------
(* The steps of readImage, while no two calls have overlapped.             *)

LEMMA ChoosesStep ==
  ASSUME DirInv, DirType', StoppedIsQuiet', NEW r \in Reads, Chooses(r)
  PROVE  DirInv'
<1> SUFFICES ASSUME ~lapped'
             PROVE  OneRead' /\ ShownIsWhole' /\ \A f \in Frames : FrameKept(f)'
  BY DEF DirInv
<1>1. ~lapped /\ Reading = {}
  BY DEF Chooses, DirInv, DirType
<1>2. Reading' = {r}
  BY <1>1 DEF Chooses, Reading, DirInv, DirType
<1>3. OneRead'
  BY <1>1, <1>2 DEF Chooses, OneRead, OtherHalf, DirInv, DirType
<1>4. ShownIsWhole'
  BY <1>1 DEF Chooses, ShownIsWhole, DirInv
<1>5. ASSUME NEW f \in Frames PROVE FrameKept(f)'
  <2>1. FrameKept(f)
    BY <1>1 DEF DirInv
  <2>2. CASE Live(f)
    <3>1. frame'[f] = [frame[f] EXCEPT !.reads = @ + 1]
      BY <2>2 DEF Chooses, SeenByFrames, Live
    <3>2. /\ frame'[f].at = frame[f].at /\ frame'[f].src = frame[f].src
          /\ frame'[f].features = frame[f].features /\ frame'[f].copy = frame[f].copy
          /\ frame'[f].reads = frame[f].reads + 1 /\ frame[f].reads \in Nat
      BY <3>1 DEF DirInv, DirType, FrameRecord
    <3>3. SUFFICES ASSUME frame[f].reads = 0 PROVE FrameKept(f)'
      BY <3>2 DEF FrameKept
    <3>4. frame[f].src = currentImage /\ images[frame[f].src] = frame[f].features
      BY <2>1, <2>2, <3>3 DEF FrameKept, HalfOf
    <3>5. frame[f].at \in {"copying", "copied"} => frame[f].copy = frame[f].features
      BY <2>1, <3>3 DEF FrameKept
    <3> QED
      BY <3>2, <3>3, <3>4, <3>5 DEF FrameKept, HalfOf, Chooses
  <2>3. CASE ~Live(f)
    <3>1. frame'[f] = frame[f]
      BY <2>3 DEF Chooses, SeenByFrames, Live
    <3> QED
      BY <2>1, <2>3, <3>1 DEF FrameKept, Live
  <2> QED
    BY <2>2, <2>3
<1> QED
  BY <1>3, <1>4, <1>5

LEMMA WritesStep ==
  ASSUME DirInv, DirType', StoppedIsQuiet', NEW r \in Reads, Writes(r)
  PROVE  DirInv'
<1> SUFFICES ASSUME ~lapped
             PROVE  OneRead' /\ ShownIsWhole' /\ \A f \in Frames : FrameKept(f)'
  BY DEF DirInv, Writes
<1>1. Reading' = Reading /\ r \in Reading
  BY DEF Writes, Reading, DirInv, DirType
<1>2. /\ \A s \in Reading : s = r
      /\ imgIndex[r] = 1 - currentImage /\ imgIndex[r] # currentImage
  BY <1>1 DEF DirInv, OneRead, DirType
<1>3. OneRead'
  <2>1. \A s \in Reads : rpc'[s] # "swap"
    BY <1>1, <1>2 DEF Writes, Reading, DirInv, DirType
  <2> QED
    BY <1>1, <2>1 DEF OneRead, DirInv, Writes
<1>4. images'[currentImage] = images[currentImage]
  BY <1>2 DEF Writes, DirInv, DirType
<1>5. ShownIsWhole'
  BY <1>4 DEF ShownIsWhole, DirInv, Writes
<1>6. ASSUME NEW f \in Frames PROVE FrameKept(f)'
  <2>1. FrameKept(f)
    BY DEF DirInv
  <2>2. /\ frame'[f].at = frame[f].at /\ frame'[f].src = frame[f].src
        /\ frame'[f].features = frame[f].features /\ frame'[f].reads = frame[f].reads
        /\ frame[f].reads \in Nat
        /\ ~(frame[f].at = "copying" /\ frame[f].src = imgIndex[r]) => frame'[f].copy = frame[f].copy
    BY DEF Writes, DirInv, DirType, FrameRecord
  <2>3. SUFFICES ASSUME frame[f].reads < 2 PROVE FrameKept(f)'
    BY <2>2 DEF FrameKept
  <2>4. CASE Live(f)
    <3>1. frame[f].reads = 1 /\ frame[f].src = currentImage
      BY <1>1, <2>1, <2>2, <2>3, <2>4 DEF FrameKept, HalfOf
    <3> QED
      BY <1>2, <1>4, <2>1, <2>2, <2>3, <3>1 DEF FrameKept, HalfOf, Live, Writes
  <2>5. CASE ~Live(f)
    BY <2>1, <2>2, <2>5 DEF FrameKept, Live
  <2> QED
    BY <2>4, <2>5
<1> QED
  BY <1>3, <1>5, <1>6

LEMMA WrittenStep ==
  ASSUME DirInv, DirType', StoppedIsQuiet', NEW r \in Reads, Written(r)
  PROVE  DirInv'
<1> SUFFICES ASSUME ~lapped
             PROVE  OneRead' /\ ShownIsWhole' /\ \A f \in Frames : FrameKept(f)'
  BY DEF DirInv, Written
<1>1. Reading' = Reading /\ r \in Reading
  BY DEF Written, Reading, DirInv, DirType
<1>2. /\ \A s \in Reading : s = r
      /\ imgIndex[r] = 1 - currentImage /\ imgIndex[r] # currentImage
  BY <1>1 DEF DirInv, OneRead, DirType
<1>3. images' = [images EXCEPT ![imgIndex[r]] = path[r]]
  BY DEF Written
<1>4. images'[currentImage] = images[currentImage] /\ images'[imgIndex[r]] = path[r]
  BY <1>2, <1>3 DEF DirInv, DirType
<1>5. OneRead'
  <2>1. \A s \in Reads : rpc'[s] = "swap" => s = r
    BY <1>1, <1>2 DEF Written, Reading, DirInv, DirType
  <2> QED
    BY <1>1, <1>4, <2>1 DEF OneRead, DirInv, Written
<1>6. ShownIsWhole'
  BY <1>4 DEF ShownIsWhole, DirInv, Written
<1>7. ASSUME NEW f \in Frames PROVE FrameKept(f)'
  <2>1. FrameKept(f) /\ frame[f].reads \in Nat /\ frame' = frame
    BY DEF DirInv, DirType, FrameRecord, Written
  <2>2. frame[f].reads < 2 /\ Live(f) => frame[f].reads = 1 /\ frame[f].src = currentImage
    BY <1>1, <2>1 DEF FrameKept, HalfOf
  <2> QED
    BY <1>4, <2>1, <2>2 DEF FrameKept, HalfOf, Live, Written
<1> QED
  BY <1>5, <1>6, <1>7

LEMMA ReadFailsStep ==
  ASSUME DirInv, DirType', StoppedIsQuiet', NEW r \in Reads, ReadFails(r)
  PROVE  DirInv'
<1> SUFFICES ASSUME ~lapped
             PROVE  OneRead' /\ ShownIsWhole' /\ \A f \in Frames : FrameKept(f)'
  BY DEF DirInv, ReadFails, imgVars
<1>1. Reading' \subseteq Reading
  BY DEF ReadFails, Reading, DirInv, DirType
<1>2. \A s \in Reads : rpc'[s] = "swap" => rpc[s] = "swap"
  BY DEF ReadFails, DirInv, DirType
<1>3. OneRead' /\ ShownIsWhole'
  BY <1>1, <1>2 DEF OneRead, ShownIsWhole, DirInv, ReadFails, imgVars
<1>4. \A f \in Frames : FrameKept(f)'
  BY <1>1 DEF FrameKept, HalfOf, Live, DirInv, ReadFails, imgVars
<1> QED
  BY <1>3, <1>4

LEMMA SwapsStep ==
  ASSUME DirInv, DirType', StoppedIsQuiet', NEW r \in Reads, Swaps(r)
  PROVE  DirInv'
<1> SUFFICES ASSUME ~lapped
             PROVE  OneRead' /\ ShownIsWhole' /\ \A f \in Frames : FrameKept(f)'
  BY DEF DirInv, Swaps
<1>1. r \in Reading /\ \A s \in Reading : s = r
  BY DEF Swaps, Reading, DirInv, OneRead
<1>2. Reading' = {} /\ \A s \in Reads : rpc'[s] # "swap"
  BY <1>1 DEF Swaps, Reading, DirInv, DirType
<1>3. OneRead'
  BY <1>2 DEF OneRead
<1>4. ShownIsWhole'
  BY DEF ShownIsWhole, Swaps, DirInv, OneRead
<1>5. ASSUME NEW f \in Frames PROVE FrameKept(f)'
  <2>1. FrameKept(f) /\ frame' = frame /\ images' = images
    BY DEF DirInv, Swaps
  <2>2. Live(f) => frame[f].reads # 0
    BY <1>1, <2>1 DEF FrameKept, HalfOf
  <2> QED
    BY <1>2, <2>1, <2>2 DEF FrameKept, HalfOf, Live
<1> QED
  BY <1>3, <1>4, <1>5
---------------------------------------------------------------------------
(* Start, Next, Compress and Stop.                                         *)

\* Also when nobody has overlapped, the images are freed when no frame is on its way.
LEMMA StoppedStep ==
  ASSUME DirInv, DirType', StoppedIsQuiet', Stopped
  PROVE  DirInv'
<1> SUFFICES ASSUME ~lapped'
             PROVE  OneRead' /\ ShownIsWhole' /\ \A f \in Frames : FrameKept(f)'
  BY DEF DirInv
<1>1. ~lapped /\ Reading = {} /\ Reading' = {}
  BY DEF Stopped, DirInv, DirType, Reading, readVars
<1>2. OneRead'
  BY <1>1 DEF OneRead, Reading
<1>3. ShownIsWhole'
  BY DEF ShownIsWhole, Stopped, DirInv, DirType
<1>4. ASSUME NEW f \in Frames PROVE FrameKept(f)'
  <2>1. FrameKept(f) /\ ~Live(f) /\ frame' = frame
    BY <1>1 DEF DirInv, StoppedIsQuiet, Stopped
  <2> QED
    BY <2>1 DEF FrameKept, Live
<1> QED
  BY <1>2, <1>3, <1>4

LEMMA SrcNextStep ==
  ASSUME DirInv, DirType', StoppedIsQuiet', NEW g \in Frames, SrcNext(g)
  PROVE  DirInv'
<1> SUFFICES ASSUME ~lapped
             PROVE  OneRead' /\ ShownIsWhole' /\ \A f \in Frames : FrameKept(f)'
  BY DEF DirInv, SrcNext, imgVars
<1>1. Reading' = Reading
  BY DEF SrcNext, Reading, readVars
<1>2. OneRead' /\ ShownIsWhole'
  BY <1>1 DEF OneRead, ShownIsWhole, DirInv, SrcNext, readVars, imgVars
<1>3. ASSUME NEW f \in Frames PROVE FrameKept(f)'
  <2>1. CASE f = g
    <3>1. frame'[f] = [at |-> "taken", src |-> currentImage, features |-> features,
                       copy |-> NoPicture, reads |-> Cardinality(Reading)]
      BY <2>1 DEF SrcNext, DirInv, DirType
    <3>2. images[currentImage] = features
      BY DEF DirInv, ShownIsWhole, SrcNext
    <3>3. UNCHANGED <<images, currentImage>>
      BY DEF SrcNext, imgVars
    <3> QED
      BY <1>1, <3>1, <3>2, <3>3, ReadingCount DEF FrameKept, HalfOf, Live
  <2>2. CASE f # g
    <3>1. frame'[f] = frame[f] /\ FrameKept(f)
      BY <2>2 DEF SrcNext, DirInv, DirType
    <3> QED
      BY <1>1, <3>1 DEF FrameKept, HalfOf, Live, SrcNext, imgVars
  <2> QED
    BY <2>1, <2>2
<1> QED
  BY <1>2, <1>3

LEMMA CopyStep ==
  ASSUME DirInv, DirType', StoppedIsQuiet', NEW g \in Frames,
         CopyBegins(g) \/ CopyEnds(g) \/ Dropped(g)
  PROVE  DirInv'
<1> USE DEF CopyBegins, CopyEnds, Dropped
<1> SUFFICES ASSUME ~lapped
             PROVE  OneRead' /\ ShownIsWhole' /\ \A f \in Frames : FrameKept(f)'
  BY DEF DirInv, imgVars
<1>1. Reading' = Reading /\ UNCHANGED <<images, currentImage>>
  BY DEF Reading, readVars, imgVars
<1>2. OneRead' /\ ShownIsWhole'
  BY <1>1 DEF OneRead, ShownIsWhole, DirInv, readVars, imgVars
<1>3. ASSUME NEW f \in Frames PROVE FrameKept(f)'
  <2>1. FrameKept(f) /\ frame[f] \in FrameRecord
    BY DEF DirInv, DirType
  <2>2. /\ frame'[f].src = frame[f].src /\ frame'[f].features = frame[f].features
        /\ frame'[f].reads = frame[f].reads
    BY DEF DirInv, DirType, FrameRecord
  <2>3. CASE f # g
    <3>1. frame'[f] = frame[f]
      BY <2>3 DEF DirInv, DirType
    <3> QED
      BY <1>1, <2>1, <3>1 DEF FrameKept, HalfOf, Live
  <2>4. CASE f = g /\ CopyBegins(g)
    <3>1. Live(f) /\ frame'[f].copy = images[frame[f].src]
      BY <2>1, <2>4 DEF Live, DirInv, DirType, FrameRecord
    <3> QED
      BY <1>1, <2>1, <2>2, <3>1 DEF FrameKept, HalfOf
  <2>5. CASE f = g /\ CopyEnds(g)
    <3>1. /\ frame[f].at = "copying" /\ frame'[f].at = "copied"
          /\ frame'[f].copy = frame[f].copy
      BY <2>1, <2>5 DEF DirInv, DirType, FrameRecord
    <3> QED
      BY <2>1, <2>2, <3>1 DEF FrameKept, Live
  <2>6. CASE f = g /\ Dropped(g)
    <3>1. frame'[f].at = "dropped"
      BY <2>1, <2>6 DEF DirInv, DirType, FrameRecord
    <3> QED
      BY <3>1 DEF FrameKept, Live
  <2> QED
    BY <2>3, <2>4, <2>5, <2>6
<1> QED
  BY <1>2, <1>3
---------------------------------------------------------------------------
LEMMA DirStep == DirInv /\ [Next]_vars => DirInv'
<1> SUFFICES ASSUME DirInv, [Next]_vars PROVE DirInv'
  OBVIOUS
<1>1. DirType' /\ StoppedIsQuiet'
  BY TypeStep, QuietWhenStopped DEF DirInv
<1> USE DEF srcVars, watchVars, listenVars, readVars, imgVars, vars
<1>2. CASE FileEvent \/ SendUpdate \/ WatcherEnds \/ ListenerEnds \/ Drains \/ Started \/ Stop
           \/ UNCHANGED vars
  <2>1. UNCHANGED <<rpc, path, imgIndex, images, currentImage, features, lapped, frame>>
    BY <1>2 DEF FileEvent, SendUpdate, WatcherEnds, ListenerEnds, Drains, Started, Stop
  <2> QED
    BY <1>1, <2>1, QuietStep DEF Reading
<1>3. CASE Listens \/ Start
  <2>1. UNCHANGED <<imgIndex, images, currentImage, features, lapped, frame>>
    BY <1>3 DEF Listens, Start, Begins
  <2>2. CASE UNCHANGED readVars
    BY <1>1, <2>1, <2>2, QuietStep DEF Reading
  <2>3. CASE \E r \in Reads, p \in Pictures \union {Head(updates)} : Begins(r, "delay", p)
    <3>1. PICK r \in Reads, p \in Pictures \union {Head(updates)} : Begins(r, "delay", p)
      BY <2>3
    <3>2. /\ rpc[r] = "none" /\ rpc' = [rpc EXCEPT ![r] = "delay"]
          /\ path' = [path EXCEPT ![r] = p]
      BY <3>1 DEF Begins
    <3>3. Reading' = Reading
      BY <3>2 DEF Reading, DirInv, DirType
    <3>4. \A s \in Reads : rpc'[s] = "swap" => rpc[s] = "swap" /\ path'[s] = path[s]
      BY <3>2 DEF DirInv, DirType
    <3> QED
      BY <1>1, <2>1, <3>3, <3>4, QuietStep
  <2> QED
    BY <1>3, <2>2, <2>3 DEF Listens, Start
<1>4. CASE Stopped
  BY <1>1, <1>4, StoppedStep
<1>5. ASSUME NEW r \in Reads,
             Chooses(r) \/ Writes(r) \/ Written(r) \/ ReadFails(r) \/ Swaps(r)
      PROVE  DirInv'
  BY <1>1, <1>5, ChoosesStep, WritesStep, WrittenStep, ReadFailsStep, SwapsStep
<1>6. ASSUME NEW f \in Frames, SrcNext(f) \/ CopyBegins(f) \/ CopyEnds(f) \/ Dropped(f)
      PROVE  DirInv'
  BY <1>1, <1>6, SrcNextStep, CopyStep
<1> QED
  BY <1>2, <1>3, <1>4, <1>5, <1>6 DEF Next

\* A frame that is copied is one picture, the one its features are of, under the
\* conditions FrameIntact names: however reads, frames, copies and sessions interleave.
THEOREM FramesAreWhole == Spec => []FrameIntact
<1>1. DirInv => FrameIntact
  BY DEF DirInv, FrameIntact, FrameKept
<1> QED
  BY <1>1, DirInit, DirStep, PTL DEF Spec
===========================================================================
