---------------------------- MODULE UiBackendProofs ----------------------------
(***************************************************************************)
(* Proofs about UiBackend, for any files, any number of uploads and any    *)
(* order of clicks, events, timers and futures.  The three invariants are  *)
(* inductive together with the types; what is said of late events rests,   *)
(* besides, on the numbering of the uploads.                               *)
(***************************************************************************)
EXTENDS UiBackend, TLAPS

IInv == TypeOK /\ OneOperation /\ PendingHasTimer /\ HashCoversCid

\* Sequences: what Append keeps and adds.
LEMMA RangeOfAppend ==
    ASSUME NEW S, NEW s \in Seq(S), NEW e \in S
    PROVE  e \in Range(Append(s, e))
<1>1. Append(s, e) \in Seq(S) /\ Append(s, e)[Len(s) + 1] = e
      /\ Len(s) + 1 \in DOMAIN Append(s, e)
  OBVIOUS
<1> QED
  BY <1>1 DEF Range

LEMMA Initially == Init => IInv
<1>1. Init => lastError \in BOOLEAN /\ busy \in BOOLEAN
  BY Zenon DEF Init
<1>2. Init => stage \in 0..3 /\ uploads \in 0..MaxUploads
  BY UiAssumption DEF Init
<1>3. Init => TypeOK
  BY <1>1, <1>2 DEF Init, TypeOK
<1>4. Init => OneOperation /\ PendingHasTimer /\ HashCoversCid
  BY DEF Init, OneOperation, PendingHasTimer, HashCoversCid
<1> QED
  BY <1>3, <1>4 DEF IInv

LEMMA SetSelectedFileKeeps ==
    ASSUME IInv, NEW f \in File, SetSelectedFile(f)
    PROVE  IInv'
  BY DEF SetSelectedFile, IInv, TypeOK, OneOperation, PendingHasTimer,
         HashCoversCid, uploadVars, publishVars

\* busy is over, so there is nothing in flight when Publish starts an upload.
LEMMA PublishKeeps ==
    ASSUME IInv, Publish
    PROVE  IInv'
<1>1. pendingUpload = None /\ anchoring = {} /\ selectedFile \in File
  BY DEF Publish, PublishEnabled, IInv, TypeOK, OneOperation
<1>2. CASE UploadToStorage(selectedFile) /\ "storage" \in modules
  <2> DEFINE u == [id |-> uploads + 1, file |-> selectedFile]
  <2>1. u \in Upload /\ uploads + 1 \in 0..MaxUploads
    BY <1>1, UiAssumption DEF Publish, Upload, IInv, TypeOK
  <2>2. /\ pendingUpload' = u /\ uploads' = uploads + 1
        /\ uploading' = uploading \cup {u}
        /\ uploadTimers' = Append(uploadTimers, u)
        /\ busy' = TRUE /\ lastError' = FALSE
    BY <1>1, <1>2 DEF UploadToStorage
  <2> HIDE DEF u
  <2>3. TypeOK'
    <3>1. busy' \in BOOLEAN /\ lastError' \in BOOLEAN
      BY <2>2, Zenon
    <3> QED
      BY <2>1, <2>2, <3>1 DEF Publish, publishVars, IInv, TypeOK
  <2>4. u \in Range(uploadTimers')
    BY <2>1, <2>2, RangeOfAppend DEF IInv, TypeOK
  <2>5. OneOperation' /\ PendingHasTimer' /\ HashCoversCid'
    BY <1>1, <2>2, <2>4
    DEF Publish, publishVars, IInv, OneOperation, PendingHasTimer, HashCoversCid
  <2> QED
    BY <2>3, <2>5 DEF IInv
<1>3. CASE SetError /\ UNCHANGED uploadVars
  <2>1. busy' \in BOOLEAN /\ lastError' \in BOOLEAN
    BY <1>3, Zenon DEF SetError
  <2>2. TypeOK'
    BY <1>3, <2>1 DEF Publish, uploadVars, publishVars, IInv, TypeOK
  <2>3. OneOperation' /\ PendingHasTimer' /\ HashCoversCid'
    BY <1>1, <1>3 DEF Publish, uploadVars, publishVars, IInv, OneOperation,
                      PendingHasTimer, HashCoversCid
  <2> QED
    BY <2>2, <2>3 DEF IInv
<1> QED
  BY <1>1, <1>2, <1>3 DEF Publish, UploadToStorage

LEMMA PublishUnreadableKeeps ==
    ASSUME IInv, PublishUnreadable
    PROVE  IInv'
  BY DEF PublishUnreadable, PublishEnabled, SetError, document, uploadVars,
         publishVars, IInv, TypeOK, OneOperation, PendingHasTimer, HashCoversCid

LEMMA AnchorLastKeeps ==
    ASSUME IInv, AnchorLast
    PROVE  IInv'
<1>1. /\ pendingUpload = None /\ anchoring = {}
      /\ lastCid # None /\ lastMetadataHash # None
      /\ lastMetadataHash.cid = lastCid
  BY DEF AnchorLast, AnchorEnabled, IInv, OneOperation, HashCoversCid
<1>2. TypeOK'
  BY <1>1 DEF AnchorLast, document, uploadVars, publishVars, IInv, TypeOK
<1>3. OneOperation' /\ PendingHasTimer' /\ HashCoversCid'
  BY <1>1 DEF AnchorLast, document, uploadVars, publishVars, IInv,
              OneOperation, PendingHasTimer, HashCoversCid
<1> QED
  BY <1>2, <1>3 DEF IInv

\* Filling the broadcast slot, or leaving it, keeps what is said of it.
LEMMA BroadcastKeeps ==
    ASSUME IInv, NEW id \in 1..MaxUploads, BroadcastEnvelope(id)
    PROVE  /\ pendingPublish' \in 1..MaxUploads \cup {None}
           /\ publishTimers' \in Seq(1..MaxUploads)
           /\ sending' \subseteq 1..MaxUploads
           /\ pendingPublish' # None => pendingPublish' \in Range(publishTimers')
<1>1. CASE UNCHANGED publishVars
  BY <1>1 DEF publishVars, IInv, TypeOK, PendingHasTimer
<1>2. CASE /\ pendingPublish' = id
           /\ sending' = sending \cup {id}
           /\ publishTimers' = Append(publishTimers, id)
  <2>1. publishTimers \in Seq(1..MaxUploads) /\ sending \subseteq 1..MaxUploads
    BY DEF IInv, TypeOK
  <2>2. id \in Range(publishTimers')
    BY <1>2, <2>1, RangeOfAppend
  <2> QED
    BY <1>2, <2>1, <2>2
<1> QED
  BY <1>1, <1>2 DEF BroadcastEnvelope

LEMMA StorageUploadDoneKeeps ==
    ASSUME IInv, NEW u \in uploading, StorageUploadDone(u)
    PROVE  IInv'
<1>1. u \in Upload /\ u.file \in File
  BY DEF IInv, TypeOK, Upload
<1>2. CASE pendingUpload = None
  <2>1. /\ uploading' \subseteq Upload
        /\ UNCHANGED <<modules, shown, pendingUpload, uploadTimers, uploads,
                       publishVars, anchoring>>
    BY <1>2 DEF StorageUploadDone, shown, IInv, TypeOK
  <2> QED
    BY <2>1 DEF shown, publishVars, IInv, TypeOK, OneOperation, PendingHasTimer,
                HashCoversCid
<1>3. CASE pendingUpload # None
  <2> DEFINE cid == CidOf[u.file]
             v == pendingUpload
  <2>1. /\ v \in Upload /\ v.file \in File /\ v.id \in 1..MaxUploads
        /\ anchoring = {} /\ pendingUpload' = None
        /\ cid # None /\ cid \in {CidOf[f] : f \in File}
        /\ Published(v, cid)
    BY <1>1, <1>3, UiAssumption
    DEF StorageUploadDone, ClearSlot, IInv, TypeOK, OneOperation, Upload
  <2>2. /\ uploading' \subseteq Upload
        /\ UNCHANGED <<modules, selectedFile, lastAnchorTimestamp, uploadTimers,
                       uploads, anchoring>>
    BY DEF StorageUploadDone, IInv, TypeOK
  <2> HIDE DEF cid, v
  <2>3. CASE /\ lastCid' = cid /\ lastMetadataHash' = HashOf(v, cid)
             /\ stage' = 2 /\ busy' = FALSE
             /\ BroadcastEnvelope(v.id)
             /\ UNCHANGED lastError
    <3>1. HashOf(v, cid) \in MetadataHash /\ HashOf(v, cid).cid = cid
      BY <2>1 DEF HashOf, MetadataHash
    <3>2. HashOf(v, cid) # None
      BY <3>1, UiAssumption
    <3>3. /\ pendingPublish' \in 1..MaxUploads \cup {None}
          /\ publishTimers' \in Seq(1..MaxUploads)
          /\ sending' \subseteq 1..MaxUploads
          /\ pendingPublish' # None => pendingPublish' \in Range(publishTimers')
      BY <2>1, <2>3, BroadcastKeeps
    <3>4. TypeOK'
      <4>1. busy' \in BOOLEAN
        BY <2>3, Zenon
      <4> QED
        BY <2>1, <2>2, <2>3, <3>1, <3>3, <4>1 DEF IInv, TypeOK
    <3>5. OneOperation' /\ PendingHasTimer' /\ HashCoversCid'
      BY <2>1, <2>2, <2>3, <3>1, <3>2, <3>3
      DEF OneOperation, PendingHasTimer, HashCoversCid
    <3> QED
      BY <3>4, <3>5 DEF IInv
  <2>4. CASE SetError /\ UNCHANGED <<lastCid, lastMetadataHash, stage, publishVars>>
    BY <2>1, <2>2, <2>4
    DEF SetError, publishVars, IInv, TypeOK, OneOperation, PendingHasTimer, HashCoversCid
  <2> QED
    BY <2>1, <2>3, <2>4 DEF Published
<1> QED
  BY <1>2, <1>3

LEMMA StorageUploadDoneEmptyKeeps ==
    ASSUME IInv, NEW u \in uploading, StorageUploadDoneEmpty(u)
    PROVE  IInv'
  BY DEF StorageUploadDoneEmpty, shown, publishVars, IInv, TypeOK, OneOperation,
         PendingHasTimer, HashCoversCid

\* A timer that finds an upload pending ends busy, but then no future runs.
LEMMA UploadTimerKeeps ==
    ASSUME IInv, UploadTimer
    PROVE  IInv'
<1>1. uploadTimers' \in Seq(Upload)
  BY DEF UploadTimer, IInv, TypeOK
<1>2. /\ pendingUpload' = None
      /\ lastError' \in BOOLEAN /\ busy' \in BOOLEAN
      /\ anchoring # {} => busy' = busy
  BY DEF UploadTimer, SetError, IInv, TypeOK, OneOperation
<1>3. TypeOK'
  BY <1>1, <1>2 DEF UploadTimer, document, publishVars, IInv, TypeOK
<1>4. OneOperation' /\ PendingHasTimer' /\ HashCoversCid'
  BY <1>2 DEF UploadTimer, document, publishVars, IInv, TypeOK, OneOperation,
              PendingHasTimer, HashCoversCid
<1> QED
  BY <1>3, <1>4 DEF IInv

LEMMA DeliveryKeeps ==
    ASSUME IInv, Delivery
    PROVE  IInv'
<1>1. ASSUME NEW id \in sending, DeliveryAnswers(id) PROVE IInv'
  BY <1>1 DEF DeliveryAnswers, shown, uploadVars, IInv, TypeOK, OneOperation,
              PendingHasTimer, HashCoversCid
<1>2. CASE PublishTimer
  <2>1. publishTimers' \in Seq(1..MaxUploads)
    BY <1>2 DEF PublishTimer, IInv, TypeOK
  <2> QED
    BY <1>2, <2>1 DEF PublishTimer, shown, uploadVars, IInv, TypeOK, OneOperation,
                      PendingHasTimer, HashCoversCid
<1> QED
  BY <1>1, <1>2 DEF Delivery

\* The only future that runs has ended, and no upload is pending.
LEMMA AnchoringKeeps ==
    ASSUME IInv, NEW a \in anchoring, AnchorSucceeds(a) \/ AnchorFails(a)
    PROVE  IInv'
<1>1. /\ anchoring' = {} /\ pendingUpload = None
      /\ a.cid \in {CidOf[f] : f \in File}
  BY DEF AnchorSucceeds, AnchorFails, IInv, TypeOK, OneOperation
<1>2. CASE AnchorSucceeds(a)
  <2>1. busy' \in BOOLEAN
    BY <1>2, Zenon DEF AnchorSucceeds
  <2>2. TypeOK'
    BY <1>1, <1>2, <2>1 DEF AnchorSucceeds, uploadVars, publishVars, IInv, TypeOK
  <2>3. OneOperation' /\ PendingHasTimer' /\ HashCoversCid'
    BY <1>1, <1>2 DEF AnchorSucceeds, uploadVars, publishVars, IInv,
                      OneOperation, PendingHasTimer, HashCoversCid
  <2> QED
    BY <2>2, <2>3 DEF IInv
<1>3. CASE AnchorFails(a)
  BY <1>1, <1>3 DEF AnchorFails, SetError, document, uploadVars, publishVars,
                    IInv, TypeOK, OneOperation, PendingHasTimer, HashCoversCid
<1> QED
  BY <1>2, <1>3

LEMMA StepKeeps ==
    ASSUME IInv, [Next]_vars
    PROVE  IInv'
<1>1. CASE User
  BY <1>1, SetSelectedFileKeeps, PublishKeeps, PublishUnreadableKeeps,
     AnchorLastKeeps DEF User
<1>2. CASE Storage
  BY <1>2, StorageUploadDoneKeeps, StorageUploadDoneEmptyKeeps, UploadTimerKeeps
  DEF Storage
<1>3. CASE Delivery
  BY <1>3, DeliveryKeeps
<1>4. CASE Anchoring
  BY <1>4, AnchoringKeeps DEF Anchoring
<1>5. CASE UNCHANGED vars
  BY <1>5 DEF vars, shown, uploadVars, publishVars, IInv, TypeOK, OneOperation,
              PendingHasTimer, HashCoversCid
<1> QED
  BY <1>1, <1>2, <1>3, <1>4, <1>5 DEF Next

\* Every state satisfies the inductive invariant.
THEOREM Invariance == Spec => []IInv
<1>1. Init => IInv
  BY Initially
<1>2. IInv /\ [Next]_vars => IInv'
  BY StepKeeps
<1> QED
  BY <1>1, <1>2, PTL DEF Spec

\* Every field of the backend keeps its type.
THEOREM TypeCorrect == Spec => []TypeOK
  BY Invariance, PTL DEF IInv

\* busy keeps uploads and anchors apart, in spite of stale timers and events.
THEOREM MutualExclusion == Spec => []OneOperation
  BY Invariance, PTL DEF IInv

\* No callback is left without a timer that will clear it.
THEOREM NoOrphanCallback == Spec => []PendingHasTimer
  BY Invariance, PTL DEF IInv

\* What is shown and what is anchored is a CID with a hash computed for it.
THEOREM HashesCover == Spec => []HashCoversCid
  BY Invariance, PTL DEF IInv

-------------------------------------------------------------------------------
(* How busy ends, and how it does not.                                     *)

\* Publish starts an upload, or refuses and ends busy.
LEMMA PublishEffect ==
    ASSUME IInv, Publish
    PROVE  \/ /\ ~busy'
              /\ UNCHANGED <<pendingUpload, uploading, uploads>>
           \/ /\ pendingUpload' # None
              /\ pendingUpload' = [id |-> uploads + 1, file |-> selectedFile]
              /\ uploads' = uploads + 1
              /\ uploading' = uploading \cup {[id |-> uploads + 1, file |-> selectedFile]}
<1>1. selectedFile \in File /\ uploads \in 0..MaxUploads /\ uploads < MaxUploads
  BY DEF Publish, PublishEnabled, IInv, TypeOK
<1>2. CASE SetError /\ UNCHANGED uploadVars
  BY <1>2 DEF SetError, uploadVars
<1>3. CASE ~(SetError /\ UNCHANGED uploadVars)
  <2>1. /\ pendingUpload' = [id |-> uploads + 1, file |-> selectedFile]
        /\ uploads' = uploads + 1
        /\ uploading' = uploading \cup {[id |-> uploads + 1, file |-> selectedFile]}
    BY <1>3 DEF Publish, UploadToStorage
  <2>2. pendingUpload' \in Upload
    BY <1>1, <2>1, UiAssumption DEF Upload
  <2>3. pendingUpload' # None
    BY <2>2, UiAssumption
  <2> QED
    BY <2>1, <2>3
<1> QED
  BY <1>2, <1>3

\* What ends an operation ends busy: the callback, the timer and the future do,
\* and a click ends none.
LEMMA EndsStep ==
    IInv /\ [Next]_vars
      => [~Idle /\ Idle' /\ busy' => \E u \in uploading : StorageUploadDoneEmpty(u)]_vars
<1> SUFFICES ASSUME IInv, Next, ~Idle, Idle', busy'
             PROVE  \E u \in uploading : StorageUploadDoneEmpty(u)
  OBVIOUS
<1>1. busy
  BY DEF Idle, IInv, OneOperation
<1>2. CASE \E f \in File : SetSelectedFile(f)
  BY <1>2 DEF SetSelectedFile, uploadVars, Idle
<1>3. CASE Publish \/ PublishUnreadable \/ AnchorLast
  BY <1>1, <1>3 DEF Publish, PublishUnreadable, AnchorLast, PublishEnabled, AnchorEnabled
<1>4. CASE \E u \in uploading : StorageUploadDone(u)
  <2>1. PICK u \in uploading : StorageUploadDone(u)
    BY <1>4
  <2>2. pendingUpload # None
    BY <2>1 DEF StorageUploadDone, Idle
  <2>3. Published(pendingUpload, CidOf[u.file])
    BY <2>1, <2>2 DEF StorageUploadDone
  <2> QED
    BY <2>3 DEF Published, SetError
<1>5. CASE UploadTimer
  BY <1>5 DEF UploadTimer, SetError, Idle
<1>6. CASE Delivery
  BY <1>6 DEF Delivery, DeliveryAnswers, PublishTimer, uploadVars, Idle
<1>7. CASE Anchoring
  BY <1>7 DEF Anchoring, AnchorSucceeds, AnchorFails, SetError
<1> QED
  BY <1>2, <1>3, <1>4, <1>5, <1>6, <1>7 DEF Next, User, Storage

\* An operation never leaves the page busy behind it, except when the storage
\* module reports an upload without a CID.
THEOREM BusyEnds == Spec => BusyEndsWithOperation
  BY Invariance, EndsStep, PTL DEF Spec, BusyEndsWithOperation

\* Nothing that may happen to a page that is busy without an operation helps it.
LEMMA StuckStep == IInv /\ [Next]_vars => [Idle /\ busy => Idle' /\ busy']_vars
<1> SUFFICES ASSUME IInv, Next, Idle, busy
             PROVE  Idle' /\ busy'
  OBVIOUS
<1>1. pendingUpload = None /\ anchoring = {}
  BY DEF Idle
<1>2. CASE User
  BY <1>1, <1>2 DEF User, SetSelectedFile, Publish, PublishUnreadable, AnchorLast,
                    PublishEnabled, AnchorEnabled, uploadVars, Idle
<1>3. CASE Storage
  <2>1. ASSUME NEW u \in uploading, StorageUploadDone(u) PROVE Idle' /\ busy'
    BY <1>1, <2>1 DEF StorageUploadDone, Idle
  <2>2. ASSUME NEW u \in uploading, StorageUploadDoneEmpty(u) PROVE Idle' /\ busy'
    BY <1>1, <2>2 DEF StorageUploadDoneEmpty, shown, Idle
  <2>3. CASE UploadTimer
    BY <1>1, <2>3 DEF UploadTimer, Idle
  <2> QED
    BY <1>3, <2>1, <2>2, <2>3 DEF Storage
<1>4. CASE Delivery
  BY <1>1, <1>4 DEF Delivery, DeliveryAnswers, PublishTimer, shown, uploadVars, Idle
<1>5. CASE Anchoring
  BY <1>1, <1>5 DEF Anchoring
<1> QED
  BY <1>2, <1>3, <1>4, <1>5 DEF Next

\* And then the page is busy for good.
THEOREM StuckPage == Spec => StuckForGood
  BY Invariance, StuckStep, PTL DEF Spec, StuckForGood

\* It takes an event without a CID: with a storage module that always sends
\* one, the comment in the code is right, whatever else fails.
THEOREM CidsKeepThePageAlive ==
    ASSUME "no_cid" \notin Faults
    PROVE  Spec => []EmptyCidWasReported
<1>1. Init => EmptyCidWasReported
  BY DEF Init, EmptyCidWasReported
<1>2. EmptyCidWasReported /\ IInv /\ [Next]_vars => EmptyCidWasReported'
  <2> SUFFICES ASSUME EmptyCidWasReported, IInv, [Next]_vars, Idle' PROVE ~busy'
    BY DEF EmptyCidWasReported
  <2>1. CASE ~Idle /\ Next
    <3>1. ~(\E u \in uploading : StorageUploadDoneEmpty(u))
      BY DEF StorageUploadDoneEmpty
    <3> QED
      BY <2>1, <3>1, EndsStep DEF vars, shown, uploadVars, Idle
  <2>2. CASE Idle /\ ~busy /\ Next
    <3>1. pendingUpload = None /\ anchoring = {} /\ pendingUpload' = None /\ anchoring' = {}
      BY <2>2 DEF Idle
    <3>2. CASE \E f \in File : SetSelectedFile(f)
      BY <2>2, <3>2 DEF SetSelectedFile
    <3>3. CASE Publish
      BY <2>2, <3>1, <3>3, PublishEffect
    <3>4. CASE PublishUnreadable \/ AnchorLast
      BY <2>2, <3>1, <3>4 DEF PublishUnreadable, AnchorLast, SetError
    <3>5. CASE \E u \in uploading : StorageUploadDone(u) \/ StorageUploadDoneEmpty(u)
      BY <2>2, <3>1, <3>5 DEF StorageUploadDone, StorageUploadDoneEmpty, shown
    <3>6. CASE UploadTimer \/ Delivery
      BY <2>2, <3>1, <3>6
      DEF UploadTimer, Delivery, DeliveryAnswers, PublishTimer, shown
    <3>7. CASE Anchoring
      BY <3>1, <3>7 DEF Anchoring
    <3> QED
      BY <2>2, <3>2, <3>3, <3>4, <3>5, <3>6, <3>7 DEF Next, User, Storage
  <2>3. CASE UNCHANGED vars
    BY <2>3 DEF EmptyCidWasReported, vars, shown, uploadVars, Idle
  <2> QED
    BY <2>1, <2>2, <2>3 DEF EmptyCidWasReported
<1> QED
  BY <1>1, <1>2, Invariance, PTL DEF Spec

-------------------------------------------------------------------------------
(* Which upload an event resolves.                                         *)

LEMMA NumberedStep ==
    ASSUME IInv, Numbered, [Next]_vars
    PROVE  Numbered'
<1>1. ASSUME uploading' \subseteq uploading, uploads' = uploads,
             pendingUpload' = None \/ (pendingUpload' = pendingUpload
                                        /\ uploading' = uploading)
      PROVE  Numbered'
  BY <1>1 DEF Numbered
<1>2. CASE Publish
  <2>1. CASE UNCHANGED <<pendingUpload, uploading, uploads>>
    BY <1>1, <2>1
  <2>2. CASE ~(UNCHANGED <<pendingUpload, uploading, uploads>>)
    <3> DEFINE u == [id |-> uploads + 1, file |-> selectedFile]
    <3>1. /\ pendingUpload' = u /\ uploads' = uploads + 1
          /\ uploading' = uploading \cup {u}
      BY <1>2, <2>2, PublishEffect
    <3>2. uploads \in Nat /\ \A v \in uploading : v.id \in Nat /\ v.id <= uploads
      BY UiAssumption DEF IInv, TypeOK, Upload, Numbered
    <3>3. u.id = uploads + 1
      OBVIOUS
    <3> HIDE DEF u
    <3>4. \A v \in uploading : v.id # u.id
      BY <3>2, <3>3
    <3> QED
      BY <3>1, <3>2, <3>3, <3>4 DEF Numbered
  <2> QED
    BY <2>1, <2>2
<1>3. CASE User /\ ~Publish
  BY <1>1, <1>3 DEF User, SetSelectedFile, PublishUnreadable, AnchorLast, uploadVars
<1>4. CASE \E u \in uploading : StorageUploadDone(u) \/ StorageUploadDoneEmpty(u)
  <2>1. uploading' \subseteq uploading /\ uploads' = uploads /\ pendingUpload' = None
    BY <1>4 DEF StorageUploadDone, StorageUploadDoneEmpty, ClearSlot
  <2> QED
    BY <1>1, <2>1
<1>5. CASE UploadTimer
  BY <1>1, <1>5 DEF UploadTimer
<1>6. CASE Delivery \/ Anchoring \/ UNCHANGED vars
  BY <1>1, <1>6 DEF Delivery, DeliveryAnswers, PublishTimer, Anchoring, AnchorSucceeds,
                    AnchorFails, uploadVars, vars
<1> QED
  BY <1>2, <1>3, <1>4, <1>5, <1>6 DEF Next, Storage

LEMMA Numbering == Spec => []Numbered
<1>1. Init => Numbered
  BY DEF Init, Numbered
<1>2. Numbered /\ IInv /\ [Next]_vars => Numbered'
  BY NumberedStep
<1> QED
  BY <1>1, <1>2, Invariance, PTL DEF Spec

\* Only an event that computes a new hash can break the sentence, and the hash
\* then has the inputs of the upload that is waited for and the CID of the one
\* that the event is about.
LEMMA MixUpStep ==
    IInv /\ Numbered /\ [Next]_vars
      => [MetadataDescribesCid /\ ~MetadataDescribesCid'
            => \E u \in uploading :
                 /\ StorageUploadDone(u)
                 /\ u.id < pendingUpload.id /\ u.file # pendingUpload.file]_vars
<1> SUFFICES ASSUME IInv, Numbered, Next, MetadataDescribesCid, ~MetadataDescribesCid'
             PROVE  \E u \in uploading :
                      /\ StorageUploadDone(u)
                      /\ u.id < pendingUpload.id /\ u.file # pendingUpload.file
  OBVIOUS
<1>1. lastMetadataHash' # lastMetadataHash /\ lastMetadataHash' # None
  BY DEF MetadataDescribesCid
<1>2. PICK u \in uploading : StorageUploadDone(u)
  <2>1. ~User
    BY <1>1 DEF User, SetSelectedFile, Publish, PublishUnreadable, AnchorLast, document
  <2>2. ~UploadTimer /\ ~Delivery /\ ~Anchoring
    BY <1>1 DEF UploadTimer, Delivery, DeliveryAnswers, PublishTimer, Anchoring,
                AnchorSucceeds, AnchorFails, document, shown
  <2>3. ~(\E u \in uploading : StorageUploadDoneEmpty(u))
    BY <1>1 DEF StorageUploadDoneEmpty, shown
  <2> QED
    BY <2>1, <2>2, <2>3 DEF Next, Storage
<1>3. /\ pendingUpload # None
      /\ lastMetadataHash' = [cid |-> CidOf[u.file], inputs |-> pendingUpload.file]
  BY <1>1, <1>2 DEF StorageUploadDone, Published, HashOf
<1>4. u.file # pendingUpload.file
  BY <1>3 DEF MetadataDescribesCid
<1>5. /\ u \in Upload /\ pendingUpload \in uploading /\ pendingUpload \in Upload
      /\ u.id <= uploads /\ pendingUpload.id = uploads /\ u.id # pendingUpload.id
  BY <1>3, <1>4 DEF IInv, TypeOK, Numbered
<1>6. u.id < pendingUpload.id
  BY <1>5 DEF Upload
<1> QED
  BY <1>2, <1>4, <1>6

\* The metadata that is hashed with a CID describes another file only after
\* the event of an earlier upload has come late.
THEOREM MixUp == Spec => MixedUpOnlyByLateEvent
  BY Invariance, Numbering, MixUpStep, PTL DEF Spec, MixedUpOnlyByLateEvent

===============================================================================
