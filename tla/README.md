# A verification project for KONUMLU

KONUMLU is a Go backend (`backend/`) for a local marketplace: users publish needs and listings, providers offer, an accepted offer becomes a transaction, participants verify that they met, review each other and are notified. All state is in PostgreSQL; Valkey is a cache; two commands run the same packages, `cmd/server` (HTTP requests) and `cmd/worker` (relay, notification dispatcher, media workers). There is no broker: domain packages write events into an outbox table, in the transaction of the change they announce, and the worker's relay delivers them.

So what is hard in this program is rarely inside one function. It is the order in which *statements* of several requests, relay workers and dispatchers reach the same rows, what they read before a transaction and use in it, leases that run out under slow workers, lost calls, and a crash between an effect and the record of it. The modules here model these packages statement by statement and abstract everything else.

## 1. Inventory

| Component | State | Operations | Hard behaviour | What makes it correct |
|---|---|---|---|---|
| outbox relay (`platform/outbox`, `cmd/worker`) | `platform.outbox` rows: due time, claim, attempts, completion | enqueue, claim a batch, run handlers, complete, reschedule | competing workers, leases that run out, crash between effect and record, fan-out to several handlers | completion only after every handler; nothing is lost; a due row is delivered in the end |
| needs, offers, transactions | status, `updated_at`; offers point to a need, transactions to an offer | create, edit, open, withdraw, reject, accept, deal, start, complete, cancel; relay handler that fulfils the need | every operation reads first and writes later; accept decides over sibling rows | one deal per need; an event exactly for every committed decision, rejections beside an accept excepted; decisions are final |
| deliveries, payments, disputes | rows on a transaction | create and move; evidence; provider signals | the transaction moves while a request holds what it read of it | one of each per transaction; a legal history; one outcome of a payment |
| verified interactions, reviews | appointments, flows, one-time challenges, interactions, reviews | accept, cancel, issue, re-issue, finish, review | two finishes, finish against cancel, expiry | a scope completes once, by one consumed challenge, with one event |
| trust, review aggregates | profiles, summaries, processed events | projectors of relay events | redelivery, reordering, concurrent application, deadlocks of row locks | the projection is what a rebuild would give; every event is counted |
| notification planning and dispatch | delivery rows per recipient and channel, preferences, endpoints | materialize, claim, re-check, send, record | no lease column, outcome written without an owner check, opt-out between plan and send | outcomes are final and true; opt-out before the claim is honoured; every row gets an outcome |
| verification delivery | one delivery row per intent | upsert, resolve the secret, send, save | two runs of one event, lost runs | completed only when the provider answered |
| identity: sessions | session rows, `users.session_epoch`, copies of both in Valkey | create, resolve, touch, revoke one, others, all | copies outlive revocations; reads in separate statements | a revoked session passes for a bounded time only; revocation is final |
| identity: accounts, challenges, recovery | users, identifiers, challenges with a sealed secret, proofs, passwords | ask for a code, deliver it, submit it, exchange the proof for an account or a new password | attempts raced against consumption, two sign-ups of one identifier, requests that die between code and proof | one account per identifier; a code is used once and within its attempts |
| identity: logins, passkeys, step-up | session rows, passkeys, ceremonies, grants in Valkey | log in, step up, register and remove passkeys, log out | logins in flight across a reset, two removals, grants checked early and consumed late, lost calls to Valkey | a reset ends what it should; no account is left without a credential; sign counts never fall |
| identity: limits on authentication | counters and replay keys in Valkey | count and compare per address, identifier, account, proof, session; verify the human challenge | requests counted at once, windows that end, Valkey that counts and does not answer | no more than the maximum passes; a token passes once |
| public profiles | a row per user, made by the first request that needs it | show, rename, hide and restore | several first requests, inserts that commit without an answer | one public id; the moderation state that staff were told |
| listings, location, search | listing rows with the owner's status and the staff's moderation state, points, index documents | draft to archived; set the point; restrict, remove, clear; rebuild the document | owner and staff write the same row; rebuilds overlap, repeat and come late | neither undoes the other; when changes cease the index shows exactly the visible listings |
| media | asset rows with versions, objects in a store without | reserve, upload, confirm, process, attach, sweep | two stores without a common transaction, overlapping runs of the processor, sweeper against confirmation | rows and objects agree; an outcome is final; every uploaded image gets one |
| moderation: decisions and appeals | decisions, appeals, case history | propose, approve, execute, cancel, appeal, accept | the effect on a listing is another package's transaction, committed first | nothing is recorded before its effect; every effect has an approved reason; one story per decision |
| moderation: reports and cases, staff authorization | reports, cases, evidence, history | report, triage, open, attach, move, prioritize, assign, note | comparison of values instead of versions, duplicates within a window | a report is in one case; the history adds up to the case |
| EIDS | verification attempts, replay table of signed decisions | start, retry, ask the gateway, ingest a decision, expire on reading | decisions late, twice and out of order | one open attempt; the decision issued last counts, unless its write of the attempt lost to another |
| messaging | conversations, messages, read pointers | open, send, mark read | pointers and times without versions | one conversation; an event per message |
| businesses | profiles, offered services | create, patch, activate, close, locate | merge with an earlier read; the parent's status read outside the write | closed stays closed |
| notification preferences, devices, inbox | settings, consents, endpoints, read marks | patch, consent, register, revoke, mark read; decide | patches of several rows, re-registration of a device | required notices go out, marketing only with consent; one active endpoint per device |
| saved search, favorites | single rows | save, delete; add, remove, list | a list made of many reads; what normalization keeps | a saved search runs; the list is right for what did not change |
| master data | categories, schema versions, forms | create, edit, review, approve, publish; resolve a form | edits checked before and written after a publication; two writes of a publication | a published form stays as it was published |
| lists read page by page | a cursor with the sort key and the id | queue, cases, reviews, search, inbox | rows come, go and change their key between pages | every steady row is shown once |
| HTTP handlers (`httpapi`, `cmd/server`) | none | the checks in front of every service call, and the answers | a copy of the checks per package; two writes in one handler | no write for a request that a check should have turned away |
| infrastructure, platform, commands, web | none of the domain's own | provider clients, pool, configuration, composition | external failure | failures are answers in the models that use them |

Interaction. Domain packages call each other through small reader interfaces (a transaction reads the need and the offer; deliveries, payments and disputes read the transaction), always with statements of their own, and otherwise meet only through outbox events: `transactions` → need fulfilment, `verified` and `reviews` → trust and review aggregates, domain events → notification planning, `identity` → verification delivery.

`PROJECT.json` lists every component with its status, the map from definitions to source lines, and the hazards with the property that covers each.

## 2. Modules and how they correspond to the code

General conventions. A request in flight is a *frame*, `call[c]`, with what it has read so far; each statement, or each database transaction that the code holds together with locks or a conditional update, is one step; between two steps anything else may happen. Ids, messages and payloads are model values. Rows keep a version where the code compares `updated_at`. A request may end between any two of its steps (`Abandon`, `End`): disconnect, crash or lost connection.

**`Outbox`, `AtLeastOnce`.** `Outbox` is `platform/outbox`: `Enqueue` with its idempotency key, `Claim` (`FOR UPDATE SKIP LOCKED`, batch, lease), `ClaimLost` (the claim commits and its rows cannot be read back), `Dispatch` to the handler list, handlers that succeed, fail, or time out, `Complete`, `Reschedule` with bounded backoff, failed writes, `Stop` and `Start` of a process. Times are kept relative to the clock, which makes the state space finite without a bound on time. `AtLeastOnce` is what users of the outbox rely on: an event is accepted once per key, delivered any number of times in handler order, and done only when delivered to all. `AtLeastOnceSpec` is the refinement.

**`Requests`, `Needs`, `Offers`, `Transactions` → `Marketplace`.** `Requests` has the frame, the version check of an update (`Fresh`, `Write`) and the transactional enqueue of an event (`Publishable`). `Needs`: the owner's edits as read and guarded write, with the status graph of `domain.go`; `ExpireIfDue` is an operation although nothing calls it yet. `Offers`: submit (check the need, look for a submitted duplicate, insert), withdraw, reject, and accept with its list of siblings before the transaction and the exclusive accept inside it. `Transactions`: creation from an accepted offer, start, complete, cancel, and the relay handler that fulfils the need. `Marketplace` composes them over one set of requests and relay workers.

**`Agreements`, `Deliveries`, `Payments`, `Disputes` → `AfterSale`.** `Agreements` is the transaction as these packages see it, moving on its own, and the dispute window. Each of the other three is create and the status changes of its service, with the events and unique indexes it relies on. No payment provider is wired in the code, so its signals come in any order; amounts and provider references are left out.

**`Verified`, `Projections` → `Reputation`.** `Verified`: appointments and flows (scopes), issue and re-issue of challenges, and the finish with its locks; and `reviews`: eligibility in the review window and the unique insert. `Projections`: the handlers of the relay for both event types, the trust transaction as *mark, lock requester, lock provider, commit* with waiting, deadlock abort (`DeadlockAbort`) and lost runs, and the level policy.

**`Listings`, `Moderation` → `Catalogue`.** `Listings`: the owner's operations and the contract `ModerationEnforcement` as read and guarded write of one row (`mutate`), with `lifecycleEventType` deciding whether an event goes with the write; the point of a listing and its event. `enforced` records, for the properties, which decisions a listing write has carried out. `Moderation`: decisions (`CreateAction`, `TransitionAction`) and appeals; executing a decision and accepting an appeal are three steps in two packages, *read the decision*, *change the listing*, *record*, and a request may end between any two. Transitions without an effect compare the status in the `UPDATE` and are one step. `Catalogue` composes the two and adds the search index: `ProjectionHandler` as *snapshot*, *point*, *write*, by relay workers whose runs overlap; `newest` and `raced` record, for the property, whether a run wrote from older reads than a run before it.

**`Dispatch`.** `notifications`: `PlanRead`/`PlanWrite` (materialization under its unique key), `Claim`, `Take`, `Recheck` of preferences, consent and account, `List` of endpoints, `Send` per endpoint, the fan-out decision (`Decide`), `Finish`. Whether the user wants a row is one Boolean here. In-app rows are inserted as accepted and never dispatched.

**`Media`, `VerificationDelivery` → `Background`.** `Media`: requests reserve, confirm and attach; a worker runs `ProcessAsset` as *read, mark processing, inspect, put the normalized object, mark ready, drop the original*, the sweeper *lists, drops the object, marks deleted*. Rows are written under their version (`Current`), objects are not; either process may be lost between two steps. `swept` records, for the property, which objects the sweeper dropped under a confirmation. `VerificationDelivery`: `IntentHandler` and `DeliveryService` for one intent, under a relay that may run it twice at a time; `WarningHandler` calls no provider and is left out. `Background` puts these two and the catalogue with its index under the same relay workers. They share no rows, so a behaviour follows one of them.

**`Challenges`, `Passkeys` → `Accounts`.** `Challenges`: codes, from the limits on asking for one to the account or the new password; the worker opens the sealed secret to deliver it, and a right code is submitted only once it was sent. `Passkeys`: the handlers of `identity/httpapi` around credentials and sessions: each is *check the session, check the grant, consume, write in a transaction, clear the grants in Valkey*, and calls to Valkey may be lost. `late`, `raced` and `crossed` are history: the login had verified its credential when all sessions were revoked; another passkey of the user came or went while the request that added this one (`raced`) or removed it (`crossed`) was under way. Cookies resolve by the row alone; `Sessions` has the copies.

**`Messaging`, `Businesses`, `Cases`, `Eids`, `Paging`, `Saved`, `Profiles`, `Preferences`, `MasterData`, `Abuse`, `Api` → `Community`.** The packages beside the trade. They share no rows, so a behaviour of `Community` is one of a single part, with two requests at a time, each of which may end between two of its steps (`Abandon`).

* `Messaging`: one buyer and seller; a message carries the time its request took before the insert, `GetByPair`/insert of a conversation, pointers without a version. `base` and `since` in a frame are history.
* `Businesses`: `PATCH` as its two reads and the versioned write; services against the status of their business.
* `Cases`: `UpdateCase` as comparison of values, and its history entry; reports with the window for duplicates; `told` adds the history up.
* `Eids`: attempts, `retryOrReturn`, the gateway's answer, signed decisions with their replay table, expiry by whoever reads.
* `Paging`: five lists with their orders and cursors over rows that come, go and change their key.
* `Saved`: favourites, and which saved searches `search.Query` will run.
* `Profiles`: `ensureRow` with its attempts at a public id, and staff's versioned write.
* `Preferences`: the catalogue of events and `policy.Resolve` as `Eligible`, over settings, consents and endpoints that change.
* `MasterData`: categories, schemas and forms. The server exposes only the readers so far; the writing operations have no caller outside tests and are taken to run as concurrent requests, which is what they would be behind a front end.
* `Abuse`: for every authentication operation its dimensions and phases; counters as one atomic increment whose time to live is set when the key appears. `passed` and `seen` are history.
* `Api`: each package's routes as sequences of checks and service calls; requests with at most one flaw, every answer the package's error mapping can give.

**`Sessions`.** Browser sessions of one user. The row, the copy in Valkey and the two epochs are separate variables; `Resolve` is ten steps: copy, cached epoch, user's epoch, or row, user, store copy, store epoch; then the touch, which reads the row, updates it on condition and deletes the copy. Every call to Valkey may fail, and it may drop entries at any time. Expiry is left out because row and copy compare the same expiry times with the same clock; disabled users and devices because no code disables a user or binds a device.

## 3. Runs

Bounds are named in the modules (`Max...`) and given in the `.cfg` files.

| Run | What it checks | Bounds, and why they are enough |
|---|---|---|
| `outbox` | `TypeOK`, `CompletedMeansHandled`, `HandlersInOrder`, `LeaseExclusive`, refinement `AtLeastOnceSpec`, `EventuallyCompleted` | three events, two with one key, one of which fails for ever; two workers that claim one or two rows at a time, so that the row that fails for ever competes with the others for a place in a batch; a two-handler list; one fault, one crash. Two workers are enough to steal a claim; the proofs cover any number. `MaxAttempts = 1` makes the backoff constant: its growth is covered by the proofs, which hold for any policy |
| `marketplace` | `OneDealPerNeed`, `EventsMatchDecisions`, `LateWritesAreBounded`, `CompletionSettles` | one need (needs share no rows), two offers that compete, two transaction ids, two requests in flight, one relay worker, three edits |
| `after_sale` | `DeliveryStory`, `OneOutcomeOfPayment`, `DisputeStory`, `LateWritesAreBounded` | two ids of each kind on one transaction, two requests. The three kinds do not read each other, so the constraint `OneKind` explores one at a time |
| `reputation` | `InteractionStory`, `OutcomesAreFinal` | an appointment and a flow, three challenges (original, re-issue, overlap), two requests, clock to 3 with a TTL of 1 |
| `reputation_project` | `ProjectionsAreRebuildable`, `HandledIsCounted`, `EventuallyCounted` | two users who meet in both roles (the smallest deadlock), their reviews, two workers, one lost run; one rating, as the theorem covers all five |
| `dispatch` | `AcceptedByProvider`, `OutcomesAreFinal`, `StopsAreHonoured`, `EventuallySettled` | an e-mail row and a push row with two devices, one without an adapter; two dispatchers, two holds that run out, one fault. Three beginnings (`Stories`): a row still to be planned with the other turned off, either way round, or both rows due for their second attempt, so that the cap of two attempts is reached |
| `sessions` | `StalenessIsBounded`, `RevocationIsFinal` | two sessions, two requests, one logout of all, one failed touch, clock to 1 with a quantum of 1, so that the boundary itself is reached; the theorems cover the rest |
| `catalogue` | `DecisionStory`, `RecordedMeansEnforced`, `EffectsHaveReasons`, `NoLostWrite` | one listing (listings share no rows) written up to four times, a decision to restrict, one to remove and a warning, two appeals against the first, two requests in flight; no relay. Four writes are enough for create, ready, publish and a decision, or create, a decision, its reversal and another |
| `background` | `MediaStory`, `ImageOutcomeIsFinal`, `CompletedMeansAnswered`, `WorkGetsDone` | one listing written up to four times with one decision and one request; one image (images share no objects) with one overlap and one fault; one intent with two overlaps and two faults; two workers, enough for an old read to overtake a new one |
| `accounts` | `AccountStory`, `ResetEndsSessions`, `CredentialStory`, `CountsNeverFall` | one identifier, two users who may get it, two requests; beginning with no account, one with a password, one with two passkeys, or one with a single passkey and a session on it. Sign counts 0 and 1, enough for a count to fall or stand still. Two codes, sessions, passkeys and ceremonies, of which a behaviour spends at most three (`WithinBudget`): a race needs two of a kind, or one each of a login, a ceremony and a reset |
| `community` | `RecordsAgree`, `StaleReadsOnlyOverlap`, `PagesAreComplete` | two requests in every part; two rows of a kind, of which the second only competes (`SecondIsPlain`: a second verification attempt of a listing meets one decision at most); pages of two over four rows with two sort keys, so that ties lie across a page boundary; limits of one or two with windows of two ticks |
| `sessions_logout_all` | `LogoutAllIsFinal`, violated | one session, two requests |

`RecordsAgree` and `StaleReadsOnlyOverlap` are conjunctions of one named part per package (`ConversationStory`, `CaseStory`, `EidsSteps`, ...), each stated and explained in the package's module. Each property has a mutant, a definition named for the slip it makes in the code (`...Blind`, `...EventFirst`, `...Once`, `...Always`), under which TLC refutes the property. Runs in which the system may rightly stop (no request left to make within the bounds) switch off the deadlock check; `outbox` keeps it.

### Fairness

* `Outbox`: weak fairness of the clock and of each worker's loop, where "the handler fails" counts as progress. The loops poll on a ticker without end. No fairness for a handler to succeed: events outside `Poison` fail only `MaxFailures` times.
* `Marketplace`: strong fairness of the handler's read and write for each completed transaction. This is what `EventuallyCompleted` of the relay gives its clients: a run that is lost is repeated.
* `Reputation`: weak fairness of delivery, strong fairness of a worker's work and of its second lock. A row lock in PostgreSQL is granted in queue order, and a transaction that deadlocks is aborted and its event delivered again.
* `Dispatch`: weak fairness of each dispatcher loop.
* `Background`: weak fairness of each relay worker's work (`Work`), whose loop polls without end and whose handlers return; strong fairness of an answer of a scanner or a provider that is not "retry" (`Serves`): one that is down for ever is out of scope, one that comes back is not. Runs may be lost a bounded number of times, after which the relay's retry completes the event. Nothing is assumed of requests, uploads and the sweeper.

## 4. Findings

One violation run shows what the code does against what the repository says of it. `sessions_logout_all`: `Resolve` reads the session row and then the user. A logout of all sessions between the two reads makes it store a revoked session under the *new* epoch, so the epoch no longer protects against the copy. The exposure is not unlimited: `StalenessIsBounded`, which is proved, says less than one `TouchQuantum`.

Other expectations that TLC refutes are kept as definitions in their modules, outside the runs (name one as an invariant or property in a copy of the module's `.cfg` to see the behaviour):

* `ActiveLeaseSkipped` (`Outbox`; `outbox_test.go` says "active lease must skip rows"): `Reschedule` clears the claim by row id alone, so a worker whose lease ran out releases the live claim of another. `CompletedMeansHandled` and the refinement survive this: the cost is a third delivery, not a lost one. The proved form, `LeaseExclusive`, says that this is the *only* way in which two live leases meet.
* `SentIsNotResent` (`VerificationDelivery`): overlapping runs send twice.

Where the code does not prevent a race, the property says exactly how far it goes instead:

* `EventsMatchDecisions` (`Marketplace`): `offers.Accept` lists the submitted siblings before its transaction (`offers/service.go:183-191`) and sends a rejected event for each of them (`:206-210`), whatever `AcceptExclusive` finds. An offer that its provider withdrew in between is announced as rejected, and one submitted in between is rejected without an event. The other events are exact, and so are rejections on a need without an accepted offer; `LateWritesAreBounded` says to which offers the two cases are confined.
* `LateWritesAreBounded` (`Marketplace`): `transactions/domain.go` says "Create and start require the source Need to be open", but the need is read before the transaction that creates or moves a deal, so a deal goes on against a need that closed during the request; an offer submitted between listing the siblings and the accept is rejected without an event.
* `LateWritesAreBounded` (`AfterSale`): a cancellation that commits during a request does not stop the delivery's step; evidence reaches a dispute that ended during the request; a second dispute is opened when the first was opened and concluded during the request.
* `StopsAreHonoured` (`Dispatch`): a failed account lookup counts as an active account.
* `WorkGetsDone` excepts a listing that was `raced`: `Upsert` and `Remove` compare no version, so a slow run that read before a change and writes after the run that saw it leaves the index wrong until the next change, although a comment of `listings/contracts/moderation.go` speaks of "Search remaining briefly stale".
* `RecordedMeansEnforced` goes one way: a decision that is cancelled, or whose request dies, after the listing was changed leaves the listing hidden, and a cancelled decision cannot be executed again. An accepted appeal clears the moderation state whatever other executed decision stands on the listing.
* `MediaStory`: the sweeper deletes an object before its versioned update, and an upload confirmed in between is rejected later for want of its object.
* `ResetEndsSessions`, `CredentialStory` (`Accounts`): a login that had verified its credential inserts its session after a reset; two registrations pass on one bootstrap grant; two removals leave an account without a credential.
* `AbuseStory`: `identity/policy.go` says that unknown and known identifiers "share the same 429 threshold". They do for attempts with one identifier in one window; attempts with another identifier of the account, or an account window that outlives the identifier's, are counted for the account alone (`Excused`).
* `SavedSearchesRun`: a blank currency is stored, because `Validate` normalizes a copy, and refused each time the search is run.
* `MasterDataStory`: "immutable snapshot once published" (`masterdata/domain.go`) holds unless an edit that had found a draft is written after the publication. `UpdateCategory` has no version: a late write may unpublish a category.
* `GoesBackOnlyByOverlap`, `BusinessSteps`: read pointers that go back and messages that are born read; fields that a PATCH did not name.
* `EidsSteps`: a verified listing is overtaken by an attempt started on an earlier look. And a signed decision may be recorded without being applied (`DecisionsAreFollowed`). `eids/postgres.go:198-203` inserts the replay and then updates the attempt on its `updated_at`; when the gateway's answer or an expiry was written since the attempt was read (`FOR UPDATE` locks only the subject), the update meets no row, which is no SQL error; `replayInsertErr` (`apply.go:125-135`) finds the replay that was just inserted, returns nil, and `inTx` commits it. Repeats of the decision are answered as done (`apply.go:44-59`), so only another decision moves the attempt. `docs/architecture/eids-tr-decision-protocol.md:71` says "Application of a state-changing replay row + `eids.verifications` status is one PostgreSQL transaction. A stale (older) envelope inserts the replay row only."; here a newer one inserts the replay row only. The property states that this is the only way in which an attempt does not follow the decision issued last; without the exception TLC refutes it.
* `ApiStory`: an error is answered after a write by businesses and media alone, whose handlers write twice.

A related remark on sessions: ADR-002 (E-S004) asks that an explicit revocation fail the request "even if Valkey still has a key". For the revocation of one session the code relies on the delete of the copy; when that is lost, or a slow request stores the copy again, the session passes until its next touch. `StalenessIsBounded` states what the code does guarantee.

## 5. Proofs

The `...Proofs` modules prove, for every value of the constants that satisfies the named assumptions, every safety invariant and action property of the runs, except the refuted one of `sessions_logout_all`. No theorem assumes a bound on users, rows, requests or workers; their sets are finite only where an assumption below says so. `tlapm` checks them to the last leaf.

| Module | Theorems (property) | Inductive invariant |
|---|---|---|
| `OutboxProofs` | `TypeCorrect`, `CompletedRowsWereHandled`, `EffectsFollowTheList`, `LiveLeasesAreExclusive`, `RelayImplementsAtLeastOnce` | `HandledInv`, `LeaseOK` |
| `MarketplaceProofs` | `MarketplaceTypeCorrect`, `DealsAreExclusive`, `EventsTellDecisions`, `LateWritesBounded` | `MarketplaceInv` |
| `AfterSaleProofs` | `AfterSaleTypeCorrect`, `DeliveriesTellTheirStory`, `PaymentsEndOnce`, `DisputesTellTheirStory`, `LateWritesBounded` | `AfterSaleInv` |
| `ReputationProofs` | `ReputationTypeCorrect`, `InteractionsTellTheirStory`, `OutcomesStayFinal`, `HandledStaysCounted`, `ProjectionsStayRebuildable` | `SourceInv`, `ReputationInv` |
| `CommunityProofs` | `RecordsStayInAgreement`, `PagesStayComplete`, `OnlyOverlapsAreStale`, `CommunityKeepsRows` (of `Community`); `AcceptanceIsReal`, `OutcomesStay`, `StopsHonoured` (of `Dispatch`) | `CommunityInv`, made of `MessagingInv`, `BusinessInv`, `CasesInv`, `EidsInv`, `PagingInv`, `SavedInv`, `ProfilesInv`, `PreferencesInv`, `MasterDataInv`, `AbuseInv`, `ApiInv`; `DispatchInv` |
| `AccountsProofs` | `AccountsTellTheirStory`, `ResetsEndSessions`, `CredentialsTellTheirStory`, `SignCountsKept` | `AccountsInv` |
| `SessionsProofs` | `SessionsTypeCorrect`, `SessionStalenessBounded`, `SessionRevocationFinal` | `StalenessInv` |
| `BackgroundProofs` | `DecisionsTellTheirStory`, `RecordsFollowEffects`, `EffectsAreReasoned`, `NoWriteIsLost` (of `Catalogue`); `ImagesTellTheirStory`, `ImageOutcomesStay`, `CompletionIsAnswered` (of `Background`) | `CatalogueInv`; `MediaInv`, `DeliveryInv` |

**The common argument.** The properties are not inductive: they speak of rows, and what goes wrong in this program goes wrong because a request writes on the strength of rows it read before. So each invariant has a part for the rows and a part, `...FrameOK` or `...Knows`, for what every kind of frame knows of them. A frame usually knows something *conditionally*: "if the row still has the `updated_at` I read, then its status is one I may start from". Its truth survives the steps of everybody else because of what one step may do to the rows (`RowsAdvance`, `Advance`, `RowsMove`, ...): a row that changes gets a later version, its status goes one way, and what is in an append-only table stays. One lemma per component (`FrameStays`, `FramesSurvive`, `CallStays`) shows that once, so that the proof of each action is about its own rows and its own new frame. When the comparison in the write succeeds, the condition is discharged and the row part follows.

**Assumptions.** On the data: `NeedOf`, `ServiceOf`, `TargetOf`, `ActionOf`, `Requester`, `Provider` and `ListingOf` are functions into their tables (foreign keys); ids of two tables are distinct; no id is the null value; the two participants of a scope differ; ratings lie in 1..5. On configuration: what the `Validate` functions check (positive batch, lease, backoff, quantum, TTL and limits; `EstablishedMin > VerifiedMin`). `OutboxAssumption` has a finite set of events, as a table has. `PagingAssumption` has a finite set of rows with ids that are ordered like numbers, and pages of at least one row: a page takes the first rows of an order, which an infinite list need not have. `EidsAssumption` numbers the attempts from 1. `AbuseAssumption` has finitely many requests in flight, some known identifier, and identifiers that are not the names of the other counters. Bounds are natural numbers, otherwise free. TLC evaluates each assumption on the instances it runs.

**Outbox.** `TypeCorrect`, then `CompletedRowsWereHandled` and `EffectsFollowTheList` from `HandledInv`. The property itself is not inductive: that a worker completes a row only after every handler ran depends on what its program counter says of its position in the list (`PcOK`, `Progress`), on the rows it holds (`HeldRows`), and on effects being a prefix of the list whatever earlier, failed runs left behind (`EffectsOK`). `LiveLeasesAreExclusive` adds `LeaseOK`, which relates the time a worker believes it has to the claim in the row. `RelayImplementsAtLeastOnce` shows that each step is a step of `AtLeastOnce` or a stutter, from `HandledInv`.

**Marketplace.** One accepted offer per need rests on the list of siblings an accept read before its transaction: an offer that it does not know was submitted after, and is seen by the accept that decides it (`OfferFrameOK`, `known`). `EventsMatchDecisions` is inductive together with the one-way statuses (`RowsOK`). `LateWritesBounded` says what the need was when it was read (`Asks`, the rule of `transactions/domain.go`), which is all the code checks.

**AfterSale.** The status of a row determines the events that were announced (`DeliveryTold`, `DisputeTold`) or the statuses it went through (`PaymentPasts`); a write extends both at once. The three kinds of row are independent, so their invariants are.

**Reputation.** `SourceInv` is about `verified` and `reviews`: a scope has its interaction, its event and one consumed challenge, or none of them (`Story`), because the finish checks all under locks. `ReputationInv` adds the projectors: an event that trust has not applied is in one transaction of it at a time (`JobsOK`, from the wait in `markProcessed`), so a commit always counts a new event; the lemmas `ReviewCounted` and `InteractionCounted` say what one more event adds to cardinalities, sums and the latest time of a rebuild, and `RebuildStays` that later requests change no row that was counted, which is `OutcomesStayFinal` again. Finiteness of what was applied is part of the invariant, not an assumption. A sum is taken by how often each rating occurs (`Summary`), which needs no recursion.

**Dispatch.** What was turned off when a row was claimed still is, and what a dispatcher was told the provider has said, however old the claim (`ClaimTrue`, `JobTrue`). The theorems are about `Spec`, from `Init`; the run starts from the states in `Stories`, which are reached from it.

**Community.** `CommunityInv` says that the part that runs keeps its own invariant and that the rows of every other part are as at the start. `OnePartMoves` splits a step: a step of the part, or requests that end (`RequestsEnd`), and nothing anywhere else; one lemma per part (`MessagingPart`, ..., `ApiPart`) then needs only the step lemma of that part. What the parts rest on:

* Messaging: times in frames are later than every pointer they saw or are those of a message (`MessagingFrame`), so a pointer goes back only behind a request that saw another one.
* Businesses and EIDS: a row that is still at the version read is as it was read (`ReadOpen`, `RowRead`); a closed row has no successor. In EIDS no attempt is opened beside an open one (`OneOpen`), and an open one has no end yet (`OpenHasNoEnd`), so that `retryOrReturn` has no expiry to write; a step that records a decision and leaves the attempt behind comes from a request whose copy of the attempt is old (`DecisionsAreFollowed`).
* Cases: the history entries add up to the row, its reports and its evidence at once with each write (`Recorded`).
* Paging: the walk has passed every row that was shown and none that is still to come, in whichever of the orders (`Passed`, `Behind`); a page has fewer rows than the limit only at the end (`LIMIT` on a finite list, with a least element from `WellFoundedInduction`'s facts).
* Favourites, patches, profiles: what a request has collected or stored agrees with the rows, except where history says that somebody else wrote since (`Listed`, `Patched`).
* Forms: a published version is what it was at its publication unless a late edit touched it, and was valid then (`FormsFrozen`, `FormsClosed`).
* Limits: a counter lets through no more than it counted in its window and no more than the maximum (`KeptBelow`). For logins, the requests between the identifier's counter and the account's, together with what the account has counted if all of it came with that identifier in that window, are no more than the identifier's counter let through (`TargetsCounted`); so an account that is limited was tried with another identifier or in an older window, which is the exception of `AbuseStory`. This counts requests in flight, so they are finitely many at a time.
* Handlers: each of the routes is shown to write last, or to be one of the two packages that write twice (`RoutesWriteLast`, `WellKept`), so that a request that wrote has passed all checks before it, for any request. The error tables are shown to answer alike for a row of somebody else and for one that does not exist (`ErrorsHide`).

**Accounts.** `ChallengeInv`: codes, their material and proofs. `CredentialInv`: what a login or a change of passkeys has checked holds, or the request is `late` or `raced`; this is carried from the frame to the session or passkey it inserts, and `LockedOut` users have had two removals at once.

**Sessions.** `SessionsTypeCorrect`, `SessionStalenessBounded` and `SessionRevocationFinal` from `StalenessInv`. The key is `RowsAdvance`, what one step may do to the rows: a revoked row is never written again and a revocation is dated now. So everything known of a revoked row, in Valkey (`RowsOK`) or in a request (`Fits`, `CallsOK`), carries a `last_seen_at` not later than its end; a quantum after the end every such copy is due for a touch, and the touch of a revoked row is refused. `FramesSurvive` shows once that a frame stays right under any such change, and each action then needs only its own new frame.

**Catalogue and Background.** A request that changes a listing for staff knows an approved decision or an appeal under review as its reason (`Reason`), and histories only grow (`Retold`). `ActionTold` and `AppealTold` give the history that goes with each status. `MediaInv` ties rows, objects and the sweeper's marks together: an original that is missing from a row as it was read was swept (`OnlySwept`). In `Background` only the chosen part moves, so that `MediaInv` is proved for that part and its initial state stays in the others. The theorems about decisions are stated for `Spec` of `Catalogue`, whose run has the larger instance.

**Only model-checked.** Liveness under fairness and `ENABLED` are out of the prover's reach, and so are facts by induction over data: `EventuallyCompleted`, `CompletionSettles`, `EventuallyCounted`, `EventuallySettled` and `WorkGetsDone` rest on TLC. Every other property that a passing run checks is a theorem. `SecondIsPlain` and the symmetry of `Community.cfg` restrict its run only: the theorems are about `CommunitySpec` without them.

## 6. Not modelled, and why

* Cryptography, tokens, hashes, signatures and WebAuthn: a token is the identity of what it names, a signature or assertion is accepted or not.
* Wording, formatting, localisation, logging, metrics, rendering, the web client. Configuration, start-up and shutdown of the commands, `cmd/migrate`, `cmd/archcheck`, `cmd/trgateway`: no protocol of their own.
* `Offer.Expire` (no caller). Reads without a later write, except the ones that are made of several reads (favourites, forms, pages).
* Two writes of one row within a microsecond, which `updated_at` would not tell apart: versions are distinct in the models. Clock skew between processes: one clock.
* The rank of a search result goes through 15 digits in the cursor; `ts_rank` is a float4, so that equality survives: `Paging` takes the key to come back as it was.
* Provider clients under `infrastructure` beyond the object store and the human challenge: their answers are nondeterministic in `Dispatch` and `VerificationDelivery`.
* The `memory.go` stores are test doubles.
* In the catalogue: the EIDS decision before a publish, the appeal window and the closed case, which only refuse a request; decisions on public profiles, whose effect is in `Profiles`.
* Expiry of sessions: row and copy compare the same times with the same clock. Devices and disabled users: no code binds or disables one.

## 7. Plan

Done, in the order of importance: the relay all packages depend on; the deal; what follows a deal; reputation; notifications; sessions; listings, moderation and search; accounts, logins and passkeys; media; the packages beside the trade and the handlers in front of all; the proofs of the relay and of sessions.

Then the proofs of the safety properties of the deal, of what follows it, of reputation, notifications, accounts, listings, moderation, media and verification messages.

Then the proofs about the packages beside the trade, which complete the proofs of the safety properties.

Where the model may still grow: `Accounts` composed with the copies of `Sessions`; the EIDS decision composed with the publish of a listing.

## 8. Running the checks

```
tlc -workers 2 -config Outbox.cfg Outbox      # likewise for each .cfg and its module in PROJECT.json
for m in Outbox Marketplace AfterSale Reputation Community Accounts Sessions Background; do tlapm ${m}Proofs.tla; done
```
