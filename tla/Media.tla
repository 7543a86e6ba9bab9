------------------------------- MODULE Media --------------------------------
(***************************************************************************)
(* backend/internal/media: the images of listings.  A request reserves an  *)
(* asset and a place to upload to, another confirms the upload, a relay    *)
(* worker checks and normalizes the image, and a sweeper reclaims what was *)
(* never confirmed or was rejected.  Rows are in PostgreSQL and written    *)
(* under their version; objects are in a store that knows no versions.     *)
(*                                                                         *)
(* The uploaded bytes are "good", "bad" (no image, or one that a scanner   *)
(* refuses) or "big".                                                      *)
(***************************************************************************)
EXTENDS Requests

CONSTANTS
  AssetIds,          \* ids are numbered in the order they are minted
  Galleries,         \* listings of the owner
  NoGallery,
  Processors,        \* relay workers
  MaxOverlaps,       \* bound: runs started while another is going
  MaxFaults          \* bound: lost runs and sweeps

ASSUME MediaAssumption ==
  AssetIds \subseteq Nat /\ NoGallery \notin Galleries /\ MaxOverlaps \in Nat /\ MaxFaults \in Nat

VARIABLES
  asset,       \* media.assets
  original,    \* the uploaded object of each asset
  processed,   \* assets with a normalized object
  target,      \* assets whose upload URL is valid
  aged,        \* pending or rejected for longer than a day
  process,     \* what each run of ProcessAsset has read
  finished,     \* assets whose event the relay has completed
  sweep,       \* what the sweeper has listed
  swept,       \* history: assets whose object the sweeper deleted
  overlaps, faults

storeVars == <<asset, original, processed, target, aged>>
workerVars == <<process, finished, overlaps>>
sweepVars == <<sweep, swept>>
mediaVars == <<storeVars, workerVars, sweepVars, faults>>

NoAsset == [status |-> "none", gallery |-> NoGallery, ver |-> 0, why |-> "none"]
NoRun == [op |-> "idle"]
Resting == [left |-> {}, row |-> NoRun]

MediaInit ==
  /\ asset = [a \in AssetIds |-> NoAsset]
  /\ original = [a \in AssetIds |-> "none"]
  /\ processed = {} /\ target = {} /\ aged = {}
  /\ process = [w \in Processors |-> NoRun]
  /\ finished = {}
  /\ sweep = Resting /\ swept = {}
  /\ overlaps = 0 /\ faults = 0

-----------------------------------------------------------------------------
(* The rows *)

\* NewPendingAsset
Pending == [NoAsset EXCEPT !.status = "pending", !.ver = 1]

\* ObjectKeyFor, ProcessedObjectKeyFor: both keys are made of the asset's id.
ProcessKey(a) == <<"process", a>>

\* AssertAttachable and AttachListing
Attachable(row) == row.status \notin {"none", "rejected", "deleted"} /\ row.gallery = NoGallery

Attached(row, l) == [row EXCEPT !.gallery = l, !.ver = @ + 1]

\* UsableAsListingMedia and the filter of ListPublicListingMedia
Shown(l) == {a \in AssetIds : asset[a].status = "ready" /\ asset[a].gallery = l}

\* Mutant: UPDATE ... WHERE id alone.
CurrentAlways(a, ver) == TRUE

\* PostgresStore.update: the row is still the one that was read.
Current(a, ver) == Fresh(asset[a], ver)

\* MarkUploaded, MarkProcessing, MarkReady, Reject, Delete
SetStatus(a, next) == asset' = [asset EXCEPT ![a] = Write(asset[a], next)]
Reject(a, why) ==
  /\ asset' = [asset EXCEPT ![a] = [Write(asset[a], "rejected") EXCEPT !.why = why]]
  /\ aged' = aged \ {a}

-----------------------------------------------------------------------------
(* Requests *)

\* CreatePending: the row, then the upload target, which may fail.
CreatePending(a) ==
  /\ asset[a] = NoAsset /\ \A b \in AssetIds : b < a => asset[b] # NoAsset
  /\ asset' = [asset EXCEPT ![a] = Pending]

\* createListingImage: the image of a listing is attached in a second write.
CreateListingImage(c, a, l) ==
  /\ call[c] = Idle
  /\ CreatePending(a)
  /\ \/ /\ target' = target \cup {a}
        /\ IF l = NoGallery THEN Return(c)
           ELSE Proceed(c, [op |-> "attach_new", id |-> a, ver |-> 1, gallery |-> l])
     \/ Return(c) /\ UNCHANGED target
  /\ UNCHANGED <<published, original, processed, aged, workerVars, sweepVars, faults>>

\* Service.AttachListing: a row that was changed in the meantime is a conflict.
AttachListing(c) ==
  /\ call[c].op = "attach_new"
  /\ LET a == call[c].id IN
       IF Current(a, call[c].ver) /\ Attachable(asset[a])
         THEN asset' = [asset EXCEPT ![a] = Attached(asset[a], call[c].gallery)]
         ELSE UNCHANGED asset
  /\ Return(c)
  /\ UNCHANGED <<published, original, processed, target, aged, workerVars, sweepVars, faults>>

\* attachMedia, AttachOwnedMedia and CreateListingDraft: prepareMedia asks for
\* every asset, before the transaction.
PrepareMedia(c, A, l) ==
  /\ call[c] = Idle
  /\ A # {} /\ \A a \in A : Attachable(asset[a])
  /\ Proceed(c, [op |-> "attach", ids |-> A, gallery |-> l])
  /\ UNCHANGED <<published, mediaVars>>

\* AttachToListing of every asset in one transaction; one that fails undoes
\* the others.
AttachToListing(c) ==
  /\ call[c].op = "attach"
  /\ IF \A a \in call[c].ids : Attachable(asset[a])
       THEN asset' = [a \in AssetIds |->
              IF a \in call[c].ids THEN Attached(asset[a], call[c].gallery) ELSE asset[a]]
       ELSE UNCHANGED asset
  /\ Return(c)
  /\ UNCHANGED <<published, original, processed, target, aged, workerVars, sweepVars, faults>>

\* confirmListingImage, ConfirmUpload: the row ...
ConfirmUpload(c, a) ==
  /\ call[c] = Idle
  /\ asset[a] # NoAsset
  /\ Proceed(c, [op |-> "confirm", id |-> a, status |-> asset[a].status, ver |-> asset[a].ver])
  /\ UNCHANGED <<published, mediaVars>>

\* ... then the object.
ConfirmStat(c) ==
  /\ call[c].op = "confirm"
  /\ LET stat == original[call[c].id] IN
       IF call[c].status # "pending" \/ stat = "none" THEN Return(c)
       ELSE Proceed(c, [op |-> IF stat = "big" THEN "reject" ELSE "uploaded",
                        id |-> call[c].id, ver |-> call[c].ver])
  /\ UNCHANGED <<published, mediaVars>>

\* commitUploaded: the row and the event that has it processed.
CommitUploaded(c) ==
  /\ call[c].op = "uploaded"
  /\ LET a == call[c].id IN
       IF Current(a, call[c].ver) /\ Publishable({ProcessKey(a)})
         THEN SetStatus(a, "uploaded") /\ published' = published \cup {ProcessKey(a)}
         ELSE UNCHANGED <<asset, published>>
  /\ Return(c)
  /\ UNCHANGED <<original, processed, target, aged, workerVars, sweepVars, faults>>

\* ConfirmUpload: an object that is too large rejects the asset ...
RejectOversized(c) ==
  /\ call[c].op = "reject"
  /\ LET a == call[c].id IN
       IF Current(a, call[c].ver) THEN Reject(a, "image") /\ Proceed(c, [op |-> "drop", id |-> a])
       ELSE Return(c) /\ UNCHANGED <<asset, aged>>
  /\ UNCHANGED <<published, original, processed, target, workerVars, sweepVars, faults>>

DropObject(a) == original' = [original EXCEPT ![a] = "none"]

\* ... and is deleted.
DropOversized(c) ==
  /\ call[c].op = "drop"
  /\ DropObject(call[c].id)
  /\ Return(c)
  /\ UNCHANGED <<published, asset, processed, target, aged, workerVars, sweepVars, faults>>

\* The client uploads, again if it likes, until the URL expires.
Upload(a) ==
  /\ a \in target
  /\ \E bytes \in {"good", "bad", "big"} : original' = [original EXCEPT ![a] = bytes]
  /\ UNCHANGED <<call, published, asset, processed, target, aged, workerVars, sweepVars, faults>>

TargetExpires(a) ==
  /\ a \in target
  /\ target' = target \ {a}
  /\ UNCHANGED <<call, published, asset, original, processed, aged, workerVars, sweepVars, faults>>

DayPasses(a) ==
  /\ asset[a].status \in {"pending", "rejected"}
  /\ a \notin target \cup aged
  /\ aged' = aged \cup {a}
  /\ UNCHANGED <<call, published, asset, original, processed, target, workerVars, sweepVars, faults>>

-----------------------------------------------------------------------------
(* ProcessAsset *)

Run(w, run) == process' = [process EXCEPT ![w] = run]
Goes(w, op) == Run(w, [op |-> op, id |-> process[w].id, ver |-> process[w].ver])
Retry(w) == Run(w, NoRun)

\* Handle and ProcessAsset: what to do depends on the row.
ProcessRead(w, a) ==
  /\ process[w] = NoRun
  /\ ProcessKey(a) \in published /\ a \notin finished
  /\ overlaps' = IF \E v \in Processors : process[v] # NoRun THEN overlaps + 1 ELSE overlaps
  /\ overlaps' <= MaxOverlaps
  /\ Run(w, [op |-> CASE asset[a].status = "uploaded" -> "mark" [] asset[a].status = "processing" -> "get"
                      [] OTHER -> "done",
             id |-> a, ver |-> asset[a].ver])
  /\ UNCHANGED <<call, published, storeVars, finished, sweepVars, faults>>

\* MarkProcessing
MarkProcessing(w) ==
  /\ process[w].op = "mark"
  /\ LET a == process[w].id IN
       IF Current(a, process[w].ver)
         THEN SetStatus(a, "processing") /\ Run(w, [op |-> "get", id |-> a, ver |-> process[w].ver + 1])
         ELSE Retry(w) /\ UNCHANGED asset
  /\ UNCHANGED <<call, published, original, processed, target, aged, finished, overlaps, sweepVars, faults>>

\* inspectMagic, normalizeImage, validateDecodeBounds
IsImage(bytes) == bytes = "good"

\* requireMalware and requireModeration refuse an image, or are out of order.
ScannerAnswers == {"clean", "image", "unavailable"}

\* GetObject and what is made of it
Verdicts(bytes) ==
  IF bytes = "none" THEN {"missing"} ELSE IF IsImage(bytes) THEN ScannerAnswers ELSE {"image"}

Inspect(w) ==
  /\ process[w].op = "get"
  /\ \E verdict \in Verdicts(original[process[w].id]) :
       CASE verdict = "clean" -> Goes(w, "put")
         [] verdict = "unavailable" -> Retry(w)
         [] OTHER -> Run(w, [op |-> "reject", id |-> process[w].id, ver |-> process[w].ver, why |-> verdict])
  /\ UNCHANGED <<call, published, storeVars, finished, overlaps, sweepVars, faults>>

\* Mutant: the row is marked ready before the object is written.
PutProcessedLater(w) ==
  /\ process[w].op = "put"
  /\ Goes(w, "ready")
  /\ UNCHANGED <<call, published, storeVars, finished, overlaps, sweepVars, faults>>

\* PutObject
PutProcessed(w) ==
  /\ process[w].op = "put"
  /\ processed' = processed \cup {process[w].id}
  /\ Goes(w, "ready")
  /\ UNCHANGED <<call, published, asset, original, target, aged, finished, overlaps, sweepVars, faults>>

\* MarkReady
MarkReady(w) ==
  /\ process[w].op = "ready"
  /\ LET a == process[w].id IN
       IF Current(a, process[w].ver)
         THEN SetStatus(a, "ready") /\ Goes(w, "drop")
         ELSE Retry(w) /\ UNCHANGED asset
  /\ UNCHANGED <<call, published, original, processed, target, aged, finished, overlaps, sweepVars, faults>>

\* rejectAndComplete
RejectAndComplete(w) ==
  /\ process[w].op = "reject"
  /\ LET a == process[w].id IN
       IF Current(a, process[w].ver)
         THEN Reject(a, process[w].why) /\ Run(w, [op |-> "drop", id |-> a])
         ELSE Retry(w) /\ UNCHANGED <<asset, aged>>
  /\ UNCHANGED <<call, published, original, processed, target, finished, overlaps, sweepVars, faults>>

\* DeleteObject after the outcome; its error is ignored.
DropOriginal(w) ==
  /\ process[w].op = "drop"
  /\ DropObject(process[w].id) \/ UNCHANGED original
  /\ Run(w, [op |-> "done", id |-> process[w].id])
  /\ UNCHANGED <<call, published, asset, processed, target, aged, finished, overlaps, sweepVars, faults>>

\* The relay completes the event.
Complete(w) ==
  /\ process[w].op = "done"
  /\ finished' = finished \cup {process[w].id}
  /\ Retry(w)
  /\ UNCHANGED <<call, published, storeVars, overlaps, sweepVars, faults>>

Fault == faults < MaxFaults /\ faults' = faults + 1

\* A crash, or the store or the database fails the run.
RunLost(w) ==
  /\ process[w] # NoRun
  /\ Fault
  /\ Retry(w)
  /\ UNCHANGED <<call, published, storeVars, finished, overlaps, sweepVars>>

-----------------------------------------------------------------------------
(* SweepOrphans *)

\* ListReclaimable
Reclaimable == {a \in aged : asset[a].status \in {"pending", "rejected"}}

SweepList ==
  /\ sweep = Resting
  /\ Reclaimable # {}
  /\ sweep' = [sweep EXCEPT !.left = {[op |-> "drop", id |-> a, ver |-> asset[a].ver] : a \in Reclaimable}]
  /\ UNCHANGED <<call, published, storeVars, workerVars, swept, faults>>

\* SweepOrphans: DeleteObject first ...
SweepDrop ==
  /\ sweep.row = NoRun
  /\ \E row \in sweep.left :
       /\ sweep' = [left |-> sweep.left \ {row}, row |-> row]
       /\ DropObject(row.id)
       /\ swept' = swept \cup {row.id}
  /\ UNCHANGED <<call, published, asset, processed, target, aged, workerVars, faults>>

\* ... then the row.  A conflict ends the sweep.
SweepDelete ==
  /\ sweep.row # NoRun
  /\ IF Current(sweep.row.id, sweep.row.ver)
       THEN SetStatus(sweep.row.id, "deleted") /\ sweep' = [sweep EXCEPT !.row = NoRun]
       ELSE sweep' = Resting /\ UNCHANGED asset
  /\ UNCHANGED <<call, published, original, processed, target, aged, workerVars, swept, faults>>

SweepLost ==
  /\ sweep # Resting
  /\ Fault
  /\ sweep' = Resting
  /\ UNCHANGED <<call, published, storeVars, workerVars, swept>>

-----------------------------------------------------------------------------
MediaRequests(c) ==
  \/ \E a \in AssetIds :
       ConfirmUpload(c, a) \/ \E l \in Galleries \cup {NoGallery} : CreateListingImage(c, a, l)
  \/ \E A \in SUBSET AssetIds, l \in Galleries : PrepareMedia(c, A, l)
  \/ AttachListing(c) \/ AttachToListing(c)
  \/ ConfirmStat(c) \/ CommitUploaded(c) \/ RejectOversized(c) \/ DropOversized(c)

Process(w) ==
  \/ \E a \in AssetIds : ProcessRead(w, a)
  \/ MarkProcessing(w) \/ Inspect(w) \/ PutProcessed(w) \/ MarkReady(w)
  \/ RejectAndComplete(w) \/ DropOriginal(w) \/ Complete(w)

MediaNext ==
  \/ \E c \in Clients : MediaRequests(c)
  \/ \E a \in AssetIds : Upload(a) \/ TargetExpires(a) \/ DayPasses(a)
  \/ \E w \in Processors : Process(w) \/ RunLost(w)
  \/ SweepList \/ SweepDrop \/ SweepDelete \/ SweepLost
=============================================================================
