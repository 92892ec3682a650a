------------------------------- MODULE UiBackend -------------------------------
(***************************************************************************)
(* The Basecamp plugin: WhistleblowerBackend (ui/src) and the QML page     *)
(* that drives it (ui/qml/Main.qml).                                       *)
(*                                                                         *)
(* All handlers run on the Qt event loop, one after the other, each to its *)
(* end; what interleaves is the order in which clicks, module events,      *)
(* safety timers and finished futures arrive.  An upload and a broadcast   *)
(* each have ONE callback slot and, every time, a single-shot timer that   *)
(* nothing stops: neither the events nor the timers carry the identity of  *)
(* the upload they belong to.  The model numbers the uploads to say so.    *)
(***************************************************************************)
EXTENDS Naturals, Sequences, Functions

CONSTANTS
    File,           \* files a user may pick
    CidOf,          \* the CID that the storage module computes for a file
    None,           \* an empty string, slot or timestamp
    MaxUploads,     \* bound: uploads in one behaviour
    Faults          \* what may happen in this behaviour

FaultKind ==
    {"no_cid",      \* storageUploadDone carries no CID
     "compute",     \* the FFI refuses the metadata
     "anchor"}      \* the FFI's anchor_one fails

\* What a publish callback captures: its file (with the title and the other
\* inputs of the form).
Upload == [id : 1..MaxUploads, file : File]

\* A metadata hash is determined by the CID and by the file and inputs of the
\* callback that computed it.
MetadataHash == [cid : {CidOf[f] : f \in File}, inputs : File]

ASSUME UiAssumption ==
    /\ None \notin File
    /\ \A f, g \in File : CidOf[f] = CidOf[g] => f = g
    /\ \A f \in File : CidOf[f] # None
    /\ None \notin MetadataHash /\ None \notin Upload
    /\ MaxUploads \in Nat
    /\ Faults \subseteq FaultKind

VARIABLES
    modules,            \* the modules the constructor found in the host
    selectedFile, lastCid, lastMetadataHash, lastAnchorTimestamp,
    lastError, busy, stage,
    pendingUpload,      \* m_pendingUploadCallback: the upload it was made for
    pendingPublish,     \* m_pendingPublishCallback
    uploadTimers,       \* 60 s timers that have not fired, oldest first
    publishTimers,      \* 30 s timers
    uploading,          \* external: uploads the storage module has not answered
    sending,            \* external: the same for the delivery module
    anchoring,          \* futures that run anchorOneFfi
    uploads             \* uploads started

shown == <<selectedFile, lastCid, lastMetadataHash, lastAnchorTimestamp,
           lastError, busy, stage>>
document == <<lastCid, lastMetadataHash, lastAnchorTimestamp>>
uploadVars == <<pendingUpload, uploadTimers, uploading, uploads>>
publishVars == <<pendingPublish, publishTimers, sending>>
vars == <<modules, shown, uploadVars, publishVars, anchoring>>

\* The constructor: outside Basecamp there is no module, and delivery is also
\* off unless WHISTLEBLOWER_ENABLE_DELIVERY is set.
Init ==
    /\ modules \in SUBSET {"storage", "delivery"}
    /\ selectedFile = None
    /\ lastCid = None /\ lastMetadataHash = None /\ lastAnchorTimestamp = None
    /\ lastError = FALSE /\ busy = FALSE /\ stage = 0
    /\ pendingUpload = None /\ uploadTimers = << >> /\ uploading = {}
    /\ pendingPublish = None /\ publishTimers = << >> /\ sending = {}
    /\ anchoring = {}
    /\ uploads = 0

-------------------------------------------------------------------------------
(* What the user can do.                                                   *)

\* The "Change" button is never disabled.
SetSelectedFile(f) ==
    /\ selectedFile # f
    /\ selectedFile' = f
    /\ lastCid' = None /\ lastMetadataHash' = None /\ lastAnchorTimestamp' = None
    /\ stage' = 0
    /\ UNCHANGED <<modules, lastError, busy, uploadVars, publishVars, anchoring>>

SetError_KeepsBusy == lastError' = TRUE /\ UNCHANGED busy
SetError == lastError' = TRUE /\ busy' = FALSE

\* uploadToStorage fills the slot, asks the module and arms the timer.
UploadToStorage_NoTimer(f) ==
    LET u == [id |-> uploads + 1, file |-> f] IN
    /\ pendingUpload' = u
    /\ uploads' = uploads + 1
    /\ uploading' = uploading \cup {u}
    /\ busy' = TRUE /\ lastError' = FALSE
    /\ UNCHANGED uploadTimers
UploadToStorage(f) ==
    IF "storage" \in modules /\ pendingUpload = None
    THEN LET u == [id |-> uploads + 1, file |-> f] IN
         /\ pendingUpload' = u
         /\ uploads' = uploads + 1
         /\ uploading' = uploading \cup {u}
         /\ uploadTimers' = Append(uploadTimers, u)
         /\ busy' = TRUE /\ lastError' = FALSE
    ELSE SetError /\ UNCHANGED uploadVars

\* The "Publish" button.  Its guard is QML's; a file and a title are there.
PublishEnabled_NoFile == ~busy
PublishEnabled == ~busy /\ selectedFile # None

Publish ==
    /\ PublishEnabled
    /\ uploads < MaxUploads
    /\ stage' = 1
    /\ lastAnchorTimestamp' = None
    /\ UploadToStorage(selectedFile)
    /\ UNCHANGED <<modules, selectedFile, lastCid, lastMetadataHash, publishVars, anchoring>>

\* publish with a file that cannot be read.
PublishUnreadable ==
    /\ PublishEnabled
    /\ SetError
    /\ UNCHANGED <<modules, selectedFile, document, stage, uploadVars, publishVars, anchoring>>

\* The "Anchor on chain" button: the pair is captured for the worker thread.
AnchorEnabled_WhileBusy == lastCid # None /\ lastAnchorTimestamp = None
AnchorEnabled == ~busy /\ lastCid # None /\ lastAnchorTimestamp = None

AnchorLast ==
    /\ AnchorEnabled
    /\ busy' = TRUE
    /\ anchoring' = anchoring \cup {[cid |-> lastCid, metadata_hash |-> lastMetadataHash]}
    /\ UNCHANGED <<modules, selectedFile, document, lastError, stage, uploadVars, publishVars>>

-------------------------------------------------------------------------------
(* storageUploadDone and the callback of publish.                          *)

\* broadcastEnvelope: best effort, and one at a time.
BroadcastEnvelope_NoTimer(id) ==
    IF "delivery" \in modules /\ pendingPublish = None
    THEN /\ pendingPublish' = id
         /\ sending' = sending \cup {id}
         /\ UNCHANGED publishTimers
    ELSE UNCHANGED publishVars
BroadcastEnvelope(id) ==
    IF "delivery" \in modules /\ pendingPublish = None
    THEN /\ pendingPublish' = id
         /\ sending' = sending \cup {id}
         /\ publishTimers' = Append(publishTimers, id)
    ELSE UNCHANGED publishVars

HashOf_WithoutCid(u, cid) == [cid |-> CidOf[u.file], inputs |-> u.file]
HashOf(u, cid) == [cid |-> cid, inputs |-> u.file]

\* The callback of upload u is called with a CID: hash, show, broadcast.
Published(u, cid) ==
    \/ /\ lastCid' = cid
       /\ lastMetadataHash' = HashOf(u, cid)
       /\ stage' = 2
       /\ busy' = FALSE
       /\ BroadcastEnvelope(u.id)
       /\ UNCHANGED lastError
    \/ /\ "compute" \in Faults
       /\ SetError
       /\ UNCHANGED <<lastCid, lastMetadataHash, stage, publishVars>>

ClearSlot == pendingUpload' = None

\* The event of upload u goes to whatever callback is in the slot.
StorageUploadDone(u) ==
    /\ u \in uploading
    /\ uploading' = uploading \ {u}
    /\ \/ /\ pendingUpload # None
          /\ ClearSlot
          /\ Published(pendingUpload, CidOf[u.file])
       \/ /\ pendingUpload = None
          /\ UNCHANGED <<lastCid, lastMetadataHash, lastError, busy, stage,
                         pendingUpload, publishVars>>
    /\ UNCHANGED <<modules, selectedFile, lastAnchorTimestamp, uploadTimers, uploads, anchoring>>

\* The same event without a CID: the callback returns at once.
StorageUploadDoneEmpty(u) ==
    /\ "no_cid" \in Faults
    /\ u \in uploading
    /\ uploading' = uploading \ {u}
    /\ pendingUpload' = None
    /\ UNCHANGED <<modules, shown, uploadTimers, uploads, publishVars, anchoring>>

\* The oldest timer fires: it clears whatever upload is pending.
UploadTimer ==
    /\ uploadTimers # << >>
    /\ uploadTimers' = Tail(uploadTimers)
    /\ IF pendingUpload # None
       THEN pendingUpload' = None /\ SetError
       ELSE UNCHANGED <<pendingUpload, lastError, busy>>
    /\ UNCHANGED <<modules, selectedFile, document, stage, uploading, uploads,
                   publishVars, anchoring>>

-------------------------------------------------------------------------------
(* messageSent, messageError and the broadcast timer.                      *)

DeliveryAnswers(id) ==
    /\ id \in sending
    /\ sending' = sending \ {id}
    /\ pendingPublish' = None
    /\ UNCHANGED <<modules, shown, uploadVars, publishTimers, anchoring>>

PublishTimer ==
    /\ publishTimers # << >>
    /\ publishTimers' = Tail(publishTimers)
    /\ pendingPublish' = None
    /\ UNCHANGED <<modules, shown, uploadVars, sending, anchoring>>

-------------------------------------------------------------------------------
(* The future of anchorLast has finished.                                  *)

AnchorSucceeds(a) ==
    /\ a \in anchoring
    /\ anchoring' = anchoring \ {a}
    /\ lastAnchorTimestamp' = a.cid     \* the timestamp of that CID's entry
    /\ stage' = 3
    /\ busy' = FALSE
    /\ UNCHANGED <<modules, selectedFile, lastCid, lastMetadataHash, lastError,
                   uploadVars, publishVars>>

AnchorFails(a) ==
    /\ "anchor" \in Faults
    /\ a \in anchoring
    /\ anchoring' = anchoring \ {a}
    /\ SetError
    /\ UNCHANGED <<modules, selectedFile, document, stage, uploadVars, publishVars>>

-------------------------------------------------------------------------------

User == (\E f \in File : SetSelectedFile(f)) \/ Publish \/ PublishUnreadable \/ AnchorLast

Storage ==
    \/ \E u \in uploading : StorageUploadDone(u) \/ StorageUploadDoneEmpty(u)
    \/ UploadTimer

Delivery == (\E id \in sending : DeliveryAnswers(id)) \/ PublishTimer

Anchoring == \E a \in anchoring : AnchorSucceeds(a) \/ AnchorFails(a)

Next == User \/ Storage \/ Delivery \/ Anchoring

Spec == Init /\ [][Next]_vars

\* A timer fires in the end (QTimer), and a future finishes: anchorOneFfi
\* returns whatever the chain does (CallReturns of LezAdapter).  The modules
\* need not answer, and the user need not do anything.
FairSpec ==
    /\ Spec
    /\ WF_vars(UploadTimer)
    /\ WF_vars(PublishTimer)
    /\ WF_vars(Anchoring)

-------------------------------------------------------------------------------
(* Properties.                                                             *)

TypeOK ==
    /\ modules \subseteq {"storage", "delivery"}
    /\ selectedFile \in File \cup {None}
    /\ lastCid \in {CidOf[f] : f \in File} \cup {None}
    /\ lastMetadataHash \in MetadataHash \cup {None}
    /\ lastAnchorTimestamp \in {CidOf[f] : f \in File} \cup {None}
    /\ lastError \in BOOLEAN /\ busy \in BOOLEAN /\ stage \in 0..3
    /\ pendingUpload \in Upload \cup {None}
    /\ pendingPublish \in 1..MaxUploads \cup {None}
    /\ uploadTimers \in Seq(Upload) /\ publishTimers \in Seq(1..MaxUploads)
    /\ uploading \subseteq Upload /\ sending \subseteq 1..MaxUploads
    /\ anchoring \subseteq
         [cid : {CidOf[f] : f \in File}, metadata_hash : MetadataHash]
    /\ uploads \in 0..MaxUploads

\* One upload or one anchor at a time, never both, whatever the order of
\* clicks, events and timers: nothing but busy keeps the two apart, and a
\* stale timer or a late event of one must not clear it under the other.
OneOperation ==
    /\ pendingUpload # None => anchoring = {}
    /\ \A a, b \in anchoring : a = b
    /\ pendingUpload # None \/ anchoring # {} => busy

\* A callback never waits without a timer of its own upload behind it, also
\* when older timers have fired for it or older events have resolved it.
PendingHasTimer ==
    /\ pendingUpload # None => pendingUpload \in Range(uploadTimers)
    /\ pendingPublish # None => pendingPublish \in Range(publishTimers)

\* The metadata hash on display, and the one that is being anchored, was
\* computed for the CID beside it, also when a new file was picked or another
\* upload failed since: an anchored entry names the CID its hash covers.
HashCoversCid ==
    /\ lastCid = None <=> lastMetadataHash = None
    /\ lastCid # None => lastMetadataHash.cid = lastCid
    /\ \A a \in anchoring : a.metadata_hash.cid = a.cid

Idle == pendingUpload = None /\ anchoring = {}

\* An upload or an anchor ends, although the storage module may never answer,
\* and old timers and late events may have ended other ones before.
OperationEnds == ~Idle ~> Idle

\* When it ends the page can be used again, on every path of every handler but
\* one: an upload event without a CID (see EmptyCidWasReported).
BusyEndsWithOperation ==
    [][~Idle /\ Idle' /\ busy'
         => \E u \in uploading : StorageUploadDoneEmpty(u)]_vars

\* A broadcast that is never answered does not keep later ones from being sent:
\* the slot becomes free, whichever broadcast's timer does it.
BroadcastSlotIsFreed == pendingPublish # None ~> pendingPublish = None

-------------------------------------------------------------------------------
(* What the documentation says and the code does not do.                   *)

\* "if (cid.isEmpty()) return; // setError already invoked"
\* (WhistleblowerBackend.cpp:308): an upload that ended without a CID has gone
\* through setError, which ends busy; when nothing is pending, busy is over.
EmptyCidWasReported == Idle => ~busy

\* Then the page stays busy for good: no late event, old timer, answer or click
\* that can still come ends it, because each of them ends only the busy of an
\* operation that is under way, and none can be started.
StuckForGood == [][Idle /\ busy => Idle' /\ busy']_vars

\* "Cleared when the corresponding event fires" (WhistleblowerBackend.h:128):
\* the CID that resolves an upload is that of its own file, so the metadata
\* that is hashed with a CID, and then anchored, describes the file of the CID.
MetadataDescribesCid ==
    lastMetadataHash # None => lastMetadataHash.cid = CidOf[lastMetadataHash.inputs]

\* It takes the late event of an earlier upload, of another file, to break it.
MixedUpOnlyByLateEvent ==
    [][MetadataDescribesCid /\ ~MetadataDescribesCid'
         => \E u \in uploading :
              /\ StorageUploadDone(u)
              /\ u.id < pendingUpload.id /\ u.file # pendingUpload.file]_vars

\* What that rests on: uploads are numbered as they start, and the one that
\* is waited for is the last of them and still under way.
Numbered ==
    /\ \A u \in uploading : u.id <= uploads
    /\ \A u, v \in uploading : u.id = v.id => u = v
    /\ pendingUpload # None => pendingUpload \in uploading /\ pendingUpload.id = uploads

===============================================================================
