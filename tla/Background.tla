----------------------------- MODULE Background -----------------------------
(***************************************************************************)
(* The work that requests leave to the relay's workers: documents of the   *)
(* search index (Catalogue), images (Media) and the messages with a        *)
(* verification code (VerificationDelivery).  The three share no rows, so  *)
(* a behaviour is one of a single part, chosen at the start.               *)
(***************************************************************************)
EXTENDS Catalogue, Media

CONSTANTS
  MaxResends,        \* bound: runs of an intent started while another is going
  MaxSendFaults      \* bound: lost runs and failed saves of an intent

\* The same workers run every handler.
ASSUME SameWorkers == Processors = Relays

VARIABLES part, event, status, usable, run, answers, resends, sendFaults

V == INSTANCE VerificationDelivery
       WITH Workers <- Relays, MaxOverlaps <- MaxResends, MaxFaults <- MaxSendFaults,
            overlaps <- resends, faults <- sendFaults

catalogueVars == <<listing, place, enforced, moderationVars, searchVars>>
deliveryVars == <<event, status, usable, run, answers, resends, sendFaults>>
allVars == <<part, call, published, catalogueVars, mediaVars, deliveryVars>>

BackgroundInit ==
  /\ part \in {"search", "media", "delivery"}
  /\ Init /\ MediaInit /\ V!Init

onlySearch == part = "search" /\ UNCHANGED <<part, mediaVars, deliveryVars>>
onlyImages == part = "media" /\ UNCHANGED <<part, catalogueVars, deliveryVars>>
onlyMessages == part = "delivery" /\ UNCHANGED <<part, call, published, catalogueVars, mediaVars>>

\* A request about an image ends between two of its steps.
AbandonImage(c) == call[c] # Idle /\ Return(c) /\ UNCHANGED <<published, mediaVars>>

BackgroundNext ==
  \/ onlySearch /\ Next
  \/ onlyImages /\ (MediaNext \/ \E c \in Clients : AbandonImage(c))
  \/ onlyMessages /\ V!Next

\* What a worker does on its own account
Work(w) ==
  \/ onlySearch /\ Relay(w)
  \/ onlyImages /\ Process(w)
  \/ onlyMessages /\ V!Work(w)

\* A scanner, or the provider of messages, is in order.
Serves(w) ==
  \/ onlyImages /\ Inspect(w) /\ process'[w] # NoRun
  \/ onlyMessages /\ V!Send(w) /\ run'[w].answer # "retryable"

\* Workers go on polling and finish what they claimed, and what they depend on
\* is not out of order for ever.  Nothing is assumed of requests, uploads and the
\* sweeper.
BackgroundSpec ==
  /\ BackgroundInit /\ [][BackgroundNext]_allVars
  /\ \A w \in Relays : WF_allVars(Work(w)) /\ SF_allVars(Serves(w))

-----------------------------------------------------------------------------
(* Properties *)

\* "never completes as a successful send" (IntentHandler): the event of a
\* verification is completed, or its row says sent, only after the provider
\* accepted the message; a completed event may also have been refused for good.
CompletedMeansAnswered == V!CompletedMeansAnswered

\* Rows and objects are in two stores.  A ready image has its normalized
\* object, a deleted one has no original left, an uploaded one has the event
\* that gets it processed, and an image is rejected for want of its object only
\* if the sweeper deleted that object under a confirmation.
MediaStory ==
  \A a \in AssetIds :
    /\ asset[a].status = "ready" => a \in processed
    /\ asset[a].status = "deleted" => original[a] = "none"
    /\ asset[a].status \in {"uploaded", "processing"} => ProcessKey(a) \in published
    /\ asset[a].why = "missing" => a \in swept

\* An image that was shown is not taken away, one that was refused or deleted
\* does not come back, and it never moves to another listing, although requests,
\* overlapping runs of ProcessAsset and the sweeper decide on earlier reads.
ImagesStay ==
  \A a \in AssetIds :
     /\ asset[a].status = "ready" => asset'[a].status = "ready"
     /\ asset[a].status = "rejected" => asset'[a].status \in {"rejected", "deleted"}
     /\ asset[a].status = "deleted" => asset'[a] = asset[a]
     /\ asset[a].gallery # NoGallery => asset'[a].gallery = asset[a].gallery
ImageOutcomeIsFinal == [][ImagesStay]_allVars

\* When changes cease, what was left to the workers gets done, however late,
\* twice and out of order events are handled and runs are lost: the index is
\* current, a verification that is still usable is delivered or refused, and
\* every uploaded image has become ready or been rejected.
WorkGetsDone ==
  <>[](/\ IndexIsCurrent
       /\ part = "delivery" => event = "completed" \/ ~usable
       /\ \A a \in AssetIds : asset[a].status \notin {"uploaded", "processing"})
=============================================================================
