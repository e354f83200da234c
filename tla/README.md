# Lash Her: specifications of the shop's server

TLA+ models of the server behind `lash-her-frontend`, model-checked with TLC and,
where it says so below, proved with TLAPS. The code is the reference: every
definition that models code is mapped to its lines in `PROJECT.json`, and keeps
the name of the function it models where TLA+ allows it. Paths below are
relative to the repository.

## The system

A Next.js application on serverless functions, with PostgreSQL as the only
store. Nothing is kept in memory between requests: components interact through
rows, row locks, advisory locks and conditional updates, through calls to Square,
the carrier (Chit Chats), Resend and HighLevel, through webhooks and cron runs.

| component | state | operations | driven by |
|---|---|---|---|
| product orders (`src/lib/commerce/order-store.ts`) | `checkout_orders`, `order_payment_obligations`, `order_payment_transactions` | create or reuse, fail, mark captured / uncollected | checkout POST, crons |
| stock ledger (`product-stock-store.ts`) | `product_stock`, `product_stock_movements` | reserve, commit, release | inside the order's transactions |
| stock sync (`product-stock-sync.ts`) | the same | track, restock, untrack | Sanity webhook, reconcile job |
| abandoned-order sweep (`product-stock-abandoned-sweep.ts`) | none of its own | scan, ask Square, cancel | cron, 15 min |
| charge core (`src/lib/payments/square/square-payment-charge.ts`) | none: its position in a request | authorise, finalise, capture, void | checkout POST |
| finalizer (`square-product-finalizer.ts`, `late-capture-refund.ts`) | order, obligation, ledger, stock, shipment | apply a payment, replay, refund a late one | charge core, webhook |
| capture reconciliation (`square-commerce-capture-reconciliation.ts`) | none | find, read, complete, flag | cron, 30 min |
| webhook recovery (`square-commerce-webhook-recovery.ts`) | none | finalise again, resume a split | Square |
| training split (`square-training-split.ts`, `square-training-split-live.ts`) | the order's JSON state, `training_enrollments` | reserve, authorise, capture, cancel, resume | training POST, status page, webhook, cron |
| manual fulfillment (`src/app/api/admin/orders/.../manual-fulfillment`) | `manualFulfillmentStatus` | pickup done, cancel | staff |
| product refunds (`src/lib/shipping/customer-refunds.ts`) | `product_order_refunds` | queue, claim, settle, reconcile | staff, worker |
| shipments and their worker (`src/lib/shipping/shipment-store.ts`, `operation-worker.ts`) | `product_shipments`, `product_shipment_jobs` | quote, bind, activate, hold, buy a label, track, refund, clean up | checkout, staff, cron |
| e-mail outbox (`customer-email-outbox*.ts`) | `customer_email_outbox` | enqueue, backfill, claim, deliver, fail, dead-letter, suppress | cron, 5 min |
| marketing contacts (`src/lib/marketing-contact/`) | `marketing_contacts`, `marketing_contact_sync_jobs` | sign up, withdraw, carry both to Resend | forms, links, Resend's webhook, cron |
| CRM sync (`src/lib/highlevel/`) | `highlevel_outbox`, `highlevel_effects`, `highlevel_contacts` | project a contact, write effects, start and stop journeys, erase | database triggers, cron, staff |
| service bookings, calendars, retention, admin pages, content | see `PROJECT.json` | | |

What makes it hard:

- **One payment, many actors.** The idempotency key `square-primary/<orderId>`
  gives an order one Square payment. Two POSTs with one reservation key, the
  sweep, the reconciliation, the webhook, the seller at the Square Dashboard and
  the authorisation's own expiry all act on it.
- **Record before capture.** The charge core authorises, commits the order as
  paid, then captures. Each boundary can be lost: a crash, a lost answer, a void
  of an authorisation that was just recorded. A split repeats this with two
  payments that must both be captured or neither.
- **Decisions on stale reads.** The sweep asks Square before it takes the lock;
  the reconciliation acts on a status read earlier; the marketing workers read a
  consent and write it to a provider; a shipping worker holds an old version of
  its shipment.
- **Counters with exactly-once movements.** Stock is held, sold or returned by
  whoever ends the order first, and staff re-author the count meanwhile.
- **Calls that must not happen twice.** A refund, a label, a CRM note or an
  admission to a journey is asked for once; its answer may be lost, the call may
  land after its caller gave up, and the row is leased, reaped, retried, replayed
  by staff.
- **At-least-once everything.** Crons overlap, webhooks repeat, customers retry.

What makes each part correct is stated by the properties below; the hazards, at
the lines where they bite, are listed in `PROJECT.json`.

## Modules

- **`ProductStock`** - the stock ledger and its sync. One action is one
  database transaction. `tracked`, `onHand`, `reserved`, `seed` are the columns
  of the stock rows; `moves[o][k]` is the set of movement kinds of order `o` on
  the row of item `k` (a unique index allows one of each). An item without a row
  is unlimited. Deleting a row deletes its movements.
- **`ProductSale`** - what the shop promises of one order: it is placed, then
  decided once; money is collected, and goods leave, only for a sold order.
- **`ProductCheckout`** - extends `ProductStock` with the order, obligation,
  ledger, refund, shipment and payment of each order, and with the processes
  that share them. A checkout request is a process (`pc[r]`), because the
  handler awaits between transactions and provider calls; so are the sweep
  (`sweep[o]`) and the reconciliation (`recon[o]`) on each order. Each database
  transaction locks the order row before it reads and is one action; whatever
  happens between two awaits is another. Square is external: `pay[o]` is the
  payment it holds, `inflight[o]` a create-payment call it has not processed.
- **`ProductRefunds`** - the way back of one order's payment. A refund row
  (`row`, `status`, `providerId`, `lease`) is reserved against a component of the
  payment, claimed by a drain (`at`, `job`, `answer`), sent to Square (`square`,
  `inflight`) and ended by a drain or by the webhook (`webhook`). An order has one
  payment, so the payment is a flag. A transaction is one action, except the one
  that settles a row: it runs under READ COMMITTED and decides from what it can
  see whether all the money is back, so reading (`BeginSettlement`, kept in
  `settling`) and committing are two. The webhook's lookup by id and its search by
  amount are two statements of a transaction, hence two actions as well.
- **`TrainingSplit`** - a training place paid with card and Afterpay. A run
  (`run[p]`) is a request, a visit of the status page, a payment event or the
  cron; from `Load` to its result it holds the reservation's advisory lock, and
  its record carries the state it loaded, what Square told it and whether it is in
  its catch block. `split[r]` is the JSON that records every stage; `payment[r]`
  are the two payments at Square, `late` the calls whose caller is gone.
- **`EmailOutbox`** - the durable queue of customer e-mail: rows (`status`,
  `attempts`, `owner`, `leaseOver`, `expired`, `redacted`), the order's own mark
  (`claimed`, `sentAt`), and drains that backfill missing confirmations, claim a
  row, send outside any transaction and then complete, suppress or fail it.
- **`MarketingConsent`** - extends `EmailOutbox`, whose offers a withdrawal
  revokes, with the consent of each address, the sync jobs and their workers, and
  Resend's audience (`audience`, and `echo`, its unsubscribe events under way).
- **`ShippingOperations`** - one shipment from its quote to its delivery, and the
  five kinds of job the operation worker carries to the carrier. Each await of
  `operation-worker.ts` ends an action. The shipment's version is modelled by who
  still knows it: `current` are the jobs whose payload names it, `seen` the workers
  that read it last; every bump empties both.
- **`HighLevelSync`** - one contact's projection into the CRM: the outbox that
  database triggers fill (`job`), the workers (`proc`), the ledger of effects
  (`effect`, committed on a connection of its own, so a rollback keeps it), the
  journeys, and what HighLevel shows (`remote`, `eligible`, `dnd`, `notes`, `enrolled`,
  `accepted`), with the calls it may still process (`inflight`, `late`).
- **`ProductStockProofs`, `ProductCheckoutProofs`, `ProductSaleProofs`,
  `ProductRefundsProofs`, `TrainingSplitProofs`, `MarketingConsentProofs`,
  `ShippingOperationsProofs`, `HighLevelSyncProofs`** - the theorems; see "What is proved".
- **`MC...`** - the instances TLC checks, one `.cfg` per question.

`ProductCheckout` composes the stock, the order, the charge core, the finalizer
and the crons; `MarketingConsent` composes the consent with the outbox. The others
meet at a named boundary: `ProductCheckout` ends with a refund that is `queued` and
a shipment that is `ready_for_staff`, `purchase_pending`, `label_ready` or on its
way; `ProductRefunds` begins with an order that is paid, or cancelled before its
money arrived; `ShippingOperations` sees the order as `pending`, `paid` or `lost`;
`EmailOutbox` as `pending`, `paid` or `cancelled`; `HighLevelSync` sees what the
triggers queue.

| code | model |
|---|---|
| reserve step of `handler.ts` and both order constructors | `ReserveOrder`, `RejectCheckout` |
| `authorizeCaptureSquarePayment` | `AuthorizeReplied`, `AuthorizeFailed`, `FinalizeCharge`, `FinalizeUnanswered`, `CaptureCharge`, `MarkCaptured`, `VoidCharge` |
| catch block of `handler.ts` | `ChargeIneligible`, `FailCheckout` |
| `finalizeSquareProductPayment` | `finalizeOutcome` (its early returns, in order) and `finalizeSquareProductPayment` (its writes) |
| Square's `payment.updated` | `WebhookCompleted` |
| sweep | `SweepScan`, `SweepVerify`, `SweepUnverified`, `SweepRelease`, `SweepAborts` |
| reconciliation | `ReconScan`, `ReconRead`, `ReconComplete`, `ReconMark`, `ReconUncollected`, `ReconFails` |
| manual fulfillment route | `PickupComplete`, `ApproveCancellation` |
| label purchase, carrier, as the order sees them | `enqueuePurchaseOperationForOrder`, `ShipmentAdvances` |
| inventory sync | `InventorySync` |
| refund routes, label variance, manual cancellation | `queueProductOrderRefundAllocations`; `LateCapture` for money that came too late |
| `drainQueuedProductOrderRefunds`, `processProductOrderRefund` | `DrainPick`, `Park`, `Reap`, `Claim`, `RefundAnswered`, `RefundUnanswered`, `completeClaimedRefund`, `SettlementCommits`, `WorkerStops` |
| Square's `refund.updated` | `RefundUpdated`, `SearchRow`, `WebhookCommits`, `WebhookFails` |
| training POST, status page, webhook, cron | `Reserve`, `CheckStatus`, `PaymentEvent`, `reconcileTrainingSplits` |
| `square-training-split.ts`, stage by stage | `Load`, `save`, `createOrder`, `authorize`, `readPayments`, `payOrder`, `complete`, `cancel`, `finalize`; its catch block is `Thrown` |
| paid side effects of a training order | `notifyPaidTrainingOrder`, `ClaimExpires` |
| outbox worker | `BackfillScan`, `BackfillEnqueue`, `claimCustomerEmails`, `deliverClaimedCustomerEmail`, `completeCustomerEmail`, `suppressCustomerEmail`, `failCustomerEmail` |
| sign-up route, withdrawal page and link, Resend's webhook | `recordMarketingContact`, `recordInternalUnsubscribe`, `recordResendUnsubscribe` |
| contact sync worker | `claimDueJobs`, `SyncContact`, `compensateForConcurrentUnsubscribe`, `unsubscribeResendMarketingContact`, `markJobSucceeded`, `markJobFailed` |
| `operation-worker.ts` | `dispatch` and one action per call, fence and save, named as in the code; `retryShipmentJob`, `completeShipmentJob`, `markShipmentOperationManualReview` end a job |
| quote, order, staff and sweep on a shipment | `createQuoteOperation`, `createFlatRateQuote`, `PlaceOrder`, `activateShipmentForPaidOrder`, `enqueuePurchaseOperationForOrder`, `enqueueRefundOperationForOrder`, `abandonExpiredQuotes`, `listShipmentsDueForPolling` |
| triggers of the CRM tables | `Submit`, `Redact`, `highlevel_capture_offer`, `Changes`, `Chooses` |
| `sync.ts`, `repository.ts` | `claimJobs`, `getContact` ... `commitSync` under the address lock, `loadContact`, `lockEffects` ... `handOff` under the effects lock, `durableEffect`, `postEffect`, `recordEffect`, `decideJourney`, `stopJourney` |
| `retention.ts`, `operations.ts` | `reconcileRemovedSource`, `deleteNote`, `clearContact`, `deleteReviewedCrmCopy`, `replayHighLevelJob`, `resolveHighLevelEffect` |

### Abstractions

- **Time.** Leases, grace periods, back-offs and Square's capture delay are not
  counted: a lease or a claim may run out, and an authorisation lapse, at any
  moment, and a due row may be claimed at once. That allows every timing the clocks
  allow, and more. Where an outrun lease costs a property nothing but states, it
  counts as a fault (`MaxFaults`); the lease of a worker that is gone is free.
- **Crashes.** A process may die between any two awaits; transactions are atomic. A
  commit whose acknowledgement is lost is an action of its own where the code
  catches it (`FinalizeUnanswered`, `Unwritten`).
- **Providers.** A call is answered, refused, or left open: then it may be processed
  later or never.
- **Amounts and data.** A payment has the right amount or is refused; addresses,
  names, tags, prices, rates, tax and message texts are left out. Square's FAILED
  is treated as CANCELED in the checkout, as the code does.
- **Cron batches** are per row: a batch is several workers or drains. Batch limits
  are out, except that a run of the outbox looks at its batch of orders one by one.
- **The admin conflict token** (`updatedAt`) only refuses an action on a row that
  changed since it was read; the model's staff act on the row as it is.
- `markProductOrderInitializationFailed` does nothing to an order whose
  initialisation status is already `ready`, which every Square order has from
  creation; `deny_cancellation` only writes an event; retention writes no column
  `ProductCheckout` has. They are no actions.
- **Refunds.** Square gives one refund per key, never more than the payment; a
  refund issued in its dashboard is one more that no row asked for. Adjustment rows
  repeat the status of their refund in the same transaction and are left out; so are
  rows without one, redacted orders, quarantined obligations (no code sets them),
  the lookup by merchant reference (no caller passes one), an answer that names
  another payment, and alerts. A webhook event is delivered again and again, one
  delivery at a time.
- **Training split.** Amounts are fixed per reservation. A create call is answered
  APPROVED, FAILED or not at all: Square's PENDING, a capture by the seller, and a
  database session that loses its advisory lock while its process lives are out.
  The enrolment's e-mails are one step after their claim.
- **Outbox.** `requeueDeadLetterCustomerEmail` has no caller and is no action. A
  batch claim is several drains.
- **Consent.** Sign-ups are bounded by the number of `Jobs`. `stray` names the
  contacts that a fault has left opted in at Resend, where no code looks again: a
  worker that failed after its call when its job was skipped, a push given up after
  its last attempt, an unsubscribe event of Resend that arrives after a new sign-up.
- **Shipping.** One shipment; `Drafts` is what the carrier could create for it. Of
  the fences, `allowAttached` checks neither lease nor version, and the worker's catch
  block marks the shipment for review without asking whether it still holds its
  lease: both are modelled as they are. `PlaceOrder`, `PaymentFails` and `OrderSwept`
  do not bump the version, as in the code.
- **CRM.** One contact. `getContact` of `store.ts` is three statements, each of which
  sees what was committed before it: `getContact` looks for the tombstone,
  `insertContact` makes a row unless the address has one, `selectContact` takes the row
  that was there. An insert that waits for the tombstone is one that comes after it. The
  administrator's transaction (`tombstone`) takes no lock of the address and waits only
  for one who holds the row (`RowLocked`). The journeys a refund, an opt-out or a
  higher-ranking admission stops are stopped under the effects lock; those that a pause,
  a redaction or an erasure stops are not.
  A call without an idempotency key that timed out (`Repeatable`: the upsert, the PUT of
  the contact, a removal from a workflow) is carried out, or stays in `late` and may be
  carried out at any later time. An opt-out also sets do not disturb for e-mail, which no
  call of the program lifts, so "may not be mailed" is `~eligible \/ dnd`. `stray` names an
  admission HighLevel carried out after a stop cancelled its row. A contact that was
  created again after its erasure is not followed further.

## What is checked

Every run below ends; the times are those of two TLC workers.

| run | instance | checks | distinct states |
|---|---|---|---|
| `pickup` | one manual order posted twice, the program alone captures | `StockFollowsOrder`, `OnlyPaidOrdersCaptured`, `OkMeansPaid`, `ImplementsSale`, `PendingResolves`, `PaidSettles` | 66,674 (80 s) |
| `shipped` | two shipped orders, one quote, one unit that staff lower, delete and author again; the seller may capture by hand | `StockLedgerAgrees`, `SettledOnce`, `MoneyAgrees`, `ProviderTellsTruth`, `QuoteFollowsOrder`, `UncollectedHeld`, `SettlementTakesEffect` | 704,556 |
| `leak` | one manual order | `HoldsEnd`, violated | |
| `refunds` | two drains, two rows over two components of one cent, one dashboard refund | `NeverOverReserved`, `SucceededWasRefunded`, `RefundedMeansReturned`, `NoResubmission`, `DecidedStays` | 335,985 |
| `refunds_end` | two drains, one row, one dashboard refund | `RefundsEnd`, `ConfirmedSettles` | 4,675 |
| `split` | one reservation, two runs of any kind, three faults | `AllOrNothing`, `AnswerTrue`, `NeverReauthorized`, `SplitResolves` | 395,412 (50 s) |
| `mail` | one order, two drains, two faults | `SentAgrees`, `LeaseHolds`, `ConfirmationArrives` | 28,340 |
| `consent` | one address, one offer, three jobs, two workers, one drain, one fault | `WithdrawalOwned`, `OfferRevoked` | 557,186 |
| `shipping` | two workers, two possible drafts, live and flat rate, two faults | `BuyOnce`, `OneDraft`, `LabelFunded` | 3,314,638 |
| `tracking` | one worker, one draft, one poll, one fault | `NeverBackwards`, `PurchaseResolves`, `DeliveryNoticed`, `DraftsCleaned` | 356,445 |
| `crm` | two workers; an inquiry, with two of a fault, a consent event and an erasure; or an order, an offer and a consent event (a refund only with one of the last two); or an offer, a consent event and a pause | `EffectOnce`, `WithdrawalReaches`, `OneJourney` | 1,231,493 |
| `erasure` | one inquiry, one worker, one administrator, no fault | `ErasedStays`, violated | |

The stock and the checkout:

- **`StockLedgerAgrees`**: the held counter is the sum of the open holds and
  never exceeds the stock. It takes a reservation, a restock below the held
  units, a deletion and a settlement, in any order, to break it: `shipped` has two
  orders that contend for one unit and a staff that does all of these. Carts that
  contend for several items are in `MCProductStock.cfg`, and in the theorems
  `StockNeverDrifts` and `StockSettledOnce`.
- **`SettledOnce`, `SettlementTakesEffect`**: a settlement is exclusive, and is
  never a movement whose guarded counter update matched no row.
- **`StockFollowsOrder`**: the stock tells what became of its order.
- **`MoneyAgrees`**: order, obligation and ledger agree, and money recorded late
  carries its refund. An order posted twice, which `shipped` has not, is left to the
  theorem `MoneyAlwaysAgrees`.
- **`OnlyPaidOrdersCaptured`, `OkMeansPaid`**: with two requests on one payment
  and the program as the only one who captures, money is captured, and a customer
  is told so, only for a paid order. Both fail once the seller captures by hand:
  then a late capture exists, and a replay of it answers `already_applied`.
- **`ProviderTellsTruth`**: what the order row says of its payment is so at Square.
- **`QuoteFollowsOrder`, `UncollectedHeld`**: a quote serves one order at a
  time, and a shipment whose money was lost is out of the dispatch queue.
- **`ImplementsSale`**: `ProductCheckout` implements `ProductSale` under the
  mapping `saleOf`, `fundsOf`, `handedOver`: no late failure, second request,
  sweep or staff action un-decides an order.
- **`PendingResolves`, `PaidSettles`**: no order stays pending; a paid order ends
  captured or flagged.

The refunds:

- **`NeverOverReserved`**: refunds under review or unknown still count against the
  payment when more is asked for.
- **`SucceededWasRefunded`**: a row that succeeded stands for one refund Square
  completed, of its amount, and no other row stands for it - however the worker's
  answer, the match by id and the match by amount race.
- **`RefundedMeansReturned`**: order and obligation say refunded only when Square
  returned every cent. The converse, that they say so once it did, fails
  (`MCAllReturned.cfg`, below), so this guards against counting too much only.
- **`NoResubmission`**: a drain gets to call Square only for a row Square has never
  heard of, although workers die and leases run out in the middle of a call.
- **`DecidedStays`**: a late worker or webhook changes nothing that was settled or
  left to a human.
- **`RefundsEnd`, `ConfirmedSettles`**: no reserved refund stays with the workers; a
  refund Square completed is settled or before a human, unless the order was
  quarantined.

The training split:

- **`AllOrNothing`**: an order is paid only with both portions captured, and the stage
  that lets the buyer pay again is reached, *and kept*, with neither captured -
  although calls of dead runs may still land.
- **`AnswerTrue`**: a buyer told to try again never pays for the old attempt; one told
  `paid` has an enrolment.
- **`NeverReauthorized`**: no retry or resume asks Square again on a key whose answer
  was lost.
- **`SplitResolves`**: whatever broke off ends paid or cancelled, or with one portion
  captured and the other dead, which only a human can give back.

E-mail and consent:

- **`SentAgrees`**: order and row agree on what was sent, and then Resend accepted it.
- **`LeaseHolds`**: only the holder of a live lease, or a withdrawal, ends it.
- **`ConfirmationArrives`**: a paid order's confirmation is sent or given up after its
  last attempt, also when the call that queues it is lost - unless an order past its
  privacy deadline blocks the backfill (`Blocked`; see `MCMailBlocked.cfg`).
- **`WithdrawalOwned`**: a contact that withdrew and is opted in at Resend is on its
  way out, or a fault named in `stray` has happened: no order of sign-ups,
  withdrawals and worker steps alone loses a withdrawal.
- **`OfferRevoked`**: a withdrawn contact's offer is never claimable again.

Shipping:

- **`BuyOnce`, `OneDraft`**: postage is bought once and one draft created, through
  crashes, lost answers and outrun leases.
- **`LabelFunded`**: no label is bought for an order that was already lost when the
  worker took the job. An order lost between the worker's recheck and its call is not
  covered: the code cannot know.
- **`NeverBackwards`**: a late answer takes no shipment back.
- **`PurchaseResolves`, `DeliveryNoticed`, `DraftsCleaned`**: a purchase ends with a
  label or before staff; deliveries are noticed; drafts of abandoned quotes go.

CRM:

- **`EffectOnce`**: no note, deal, task or admission happens twice, whatever was
  retried, replayed or resolved.
- **`WithdrawalReaches`**: once the job of a withdrawal is done, HighLevel may not mail
  the contact and it is in no journey, although a call made for an older consent may
  arrive last.
- **`OneJourney`**: a contact is in one journey at a time. The run has an admission
  against an order's stop or a pause; with faults, staff and everything at once it rests
  on the theorem `HighLevelOneJourney`.
- **`ErasedStays`**, as the documentation has it: an erased contact is not created again
  by a job still queued. The code does not keep it (see below).

**By hand.** These configurations pass too and are kept beside the runs:
`MCProductStock.cfg` (the ledger alone: three carts over two items, 7,757 states) and
`MCProgress.cfg` (`LateCaptureRefunded`: money that reaches an ended order gets its
refund, with a seller who captures by hand; 73,982 states). Each module's `TypeOK` was
checked, as the only property, in the instances of its runs, and all are proved.

**Bounds.** Two requests are the most that can interfere on one order beyond
what crons and webhooks add: a third would only repeat what one of the two does,
since a request carries no data but its position. One item is enough in
`ProductCheckout`, because carts with several lines and contention between
items are checked in `MCProductStock` and proved for every cart. Set-points are
chosen so that a sold-out item, a restock, a lowered count and an untracked item all
occur. Two refund rows of equal amounts are what makes the search by amount ambiguous
and lets two settlements overlap. Two workers overlap wherever a lease or a lock is
meant to keep them apart; a third meets the same rows in the same states. `MaxFaults`
bounds crashes, failed calls and outrun leases: two in `shipping` so that a retry may
fail as well, three in `split` so that a request, the run that resumes it and the
cancellation may each fail; liveness (`tracking`, `refunds_end`, `mail`) needs finitely
many faults, which is what the code's attempts assume. Up to `MaxAttempts` (one or two
for eight or ten in the code) the last attempt is reached. In `MarketingConsent` a behaviour
has confirmations, offers or running sync jobs, not several of them at length
(`OneKind`): they meet only in the drains. In `MCHighLevelSync`
(`OneKind` there) the kinds are those of the table, each with the things that contend; the
theorems have all of them at once. `Jobs`, `Polls`, `Refunds`, `Choices` and
`MaxSwitches` bound what is ever created. Symmetry is used among interchangeable
workers, rows and drafts, only in runs without liveness.

**Fairness.** Requests that began end, since the platform kills one that does
not. Timers fire; the lease of a worker that is gone runs out. Cron runs start again
for ever, so every step of the sweep and of the reconciliation is weakly fair; because
a step may fail any number of times but not for ever, verifying, cancelling, reading,
completing and marking are strongly fair, and so is claiming a due refund, e-mail,
shipping job or pending split, since other rows may come first; that passes over the
starvation a full batch of older rows could cause (`limit(20)` for pending splits). A worker that claimed
a row goes on, weakly fair. Square delivers an event until it is answered 200, and not
every delivery fails; it need not settle a pending refund, and no webhook is needed
for a split or an e-mail. The carrier settles a purchase it accepted, and what it
reports later carries a later event time. Nobody is
obliged to open a checkout, to sign up or to withdraw, and staff owe nothing.
`CHECK_DEADLOCK FALSE` in the runs: a shop without customers rests.

### Where the code does not do what its comments say

Found while modelling. `leak` and `erasure` are runs of the project; the others are refuted
by the configuration that is named.

- **`leak`.** Cancelling an unpaid manual order (`manual-fulfillment/route.ts`)
  never releases its stock, and from then on no other path does. The property is
  checked under fairness; with a release added to that action it holds.
- **`erasure`.** An administrator's erasure that commits its tombstone after a worker
  looked for it and before that worker inserted the row of the address
  (`store.ts:324-336`, `retention.ts:67-79`) leaves the worker with a fresh row and no
  contact at HighLevel, so that it creates the erased contact again. The comment at
  `retention.ts:74` and `docs/highlevel-integration.md:196` say it cannot. No fault and no
  second worker is needed, and nothing takes the new contact away.
- **`MCHandover.cfg`.** `pickup_complete` does not look at the quarantine that a lost
  authorisation puts on an order.
- **`MCReplay.cfg`.** The list of later shipment states in
  `activateShipmentForPaidOrderInTransaction` misses the states between "ready
  for staff" and "in transit", so a redelivered webhook throws instead of
  answering `already_applied`.
- **`MCAllReturned.cfg`.** Two rows of one order that end in overlapping transactions
  each sum the refunds without the other; the order stays `paid` with all its money
  returned, and nothing computes it again.
- **`MCPending.cfg`.** The search by amount does not leave out rows whose Square id
  is known, so a pending refund can be parked for review, where the webhook that
  names it no longer settles it.
- **`MCHalted.cfg`.** `activateShipmentForPaidOrder` promises that a new policy version
  does not stop a sale that was paid (`shipment-store.ts:613`); the worker's check before
  the purchase (`operation-worker.ts:1107`) still does.
- **`MCMailBlocked.cfg`.** One paid order past its privacy deadline makes the backfill
  throw before the claim, in every run, so that e-mails already queued stay
  (`customer-email-outbox.ts:230`; `docs/resend-transactional-email-setup.md:238`).
- **`MCCompensation.cfg`.** When the compensation for a concurrent withdrawal fails, its
  job has been skipped by that withdrawal and nothing retries
  (`marketing-contact-sync-worker.ts:489`;
  `docs/contact-popup-signup-offer-runbook.md:31`).
- **`MCNote.cfg`.** A note whose POST got no answer is not looked for when its
  submission is redacted (`sync.ts:735`; `docs/highlevel-integration.md:190`).
- **`MCHold.cfg`.** After a cancellation by key an authorisation may still land and stay
  held, though a new attempt is permitted (`square-training-split.ts:111`;
  `docs/square-afterpay.md:28`). It is never captured (`AllOrNothing`).
- **`MCNotice.cfg`.** A run that dies after it claimed the enrolment's e-mails leaves
  them unsent: the cron looks only at pending orders, and a redelivered webhook within
  the claim is acknowledged (`square-training-split-live.ts:216`;
  `docs/square-afterpay.md:24`).

Smaller things the models show and no document denies: a poll between two purchase
attempts that reads `unpaid` sends the shipment to review; when the sweep cancels an
order, the carrier's draft stays (`OrderSwept` enqueues no cleanup); a split that
waits for a person is read again by every cron run.

## What is proved

Every theorem holds for any number of processes and of what they work on; the
constants' assumptions are all that is used: the orders are a finite
set and quantities are natural numbers (`ProductStock`); each request names an
order, two requests share one only if it is manual, each automated order names a
quote (`ProductCheckout`); rows, dashboard refunds and components are finite sets,
amounts are natural numbers, and names differ (`ProductRefunds`); bounds are natural
numbers, a job may be tried at least once, and `None` is no member of the sets it
stands beside (`TrainingSplit`, `EmailOutbox`, `MarketingConsent`); an order's mail is
no offer (`EmailOutbox`), and a poll is none of the five mutating jobs
(`ShippingOperations`); the inquiries, offers, orders and choices of a contact are
distinct, and staff are no workers (`HighLevelSync`). Drains, runs and workers may be any sets, infinite ones included.

**`ProductStockProofs`.** `StockTyped`, `StockNeverDrifts`, `StockSettledOnce`,
`SettlementsTakeEffect`. `StockLedgerAgrees` alone is not inductive: a settlement
subtracts from a counter, which is exact only if the hold it settles was taken and
is not settled already. `StockInv` therefore joins it with `SettledOnce` and with
`HeldFinite`. The units held of an item are a set of pairs, one per unit, whose
cardinality is the counter; lemmas say how that set changes when one order joins or
leaves its holders, so no sum over orders has to be unfolded. That the guarded
updates always match their row, `SettlementsTakeEffect`, follows.

**`ProductCheckoutProofs`.** `CheckoutInvariant` is `Spec => []Inv`, and the safety
properties are conjuncts of `Inv`. It has two parts:

- `RowInv` speaks of database rows only: types, `StockInv`, `MoneyAgrees`,
  `StockFollowsOrder`, `QuoteFollowsOrder`, `UncollectedHeld`, with `RowsAgree`
  (which columns only a paid order has set) and `QuoteBound` (a quote is bound only
  to an order that was placed on it). One lemma per transaction (`CreateKeeps`,
  `FinalizeKeeps`, `SweepKeeps`, ...) shows that it keeps `RowInv`, *whichever
  process runs it and however stale what that process read*, and that it takes
  nothing back (`RowsAdvance`: a paid order stays paid).
- `RequestsKnow` and `CronsKnow` say what a process in the middle of its work may
  still rely on: a request that is about to capture knows its order is paid; one
  about to mark it captured knows that Square completed the payment; the
  reconciliation that read `CANCELED` or `COMPLETED` knows it is still so. They
  survive the steps of all others because paid orders stay paid and ended
  payments stay ended (`PayAdvances`). Without them `ProviderTellsTruth` is not
  inductive: a mark would have to be trusted.

`CheckoutImplementsStock` is `Spec => StockSpec`: each transaction does to the stock what
one operation of `ProductStock` does, or nothing, so what is proved of the ledger alone
holds of the whole; `CheckoutSettlementsTakeEffect` is read off it.

**`ProductSaleProofs`.** `CheckoutImplementsSale` is `Spec => ImplementsSale`. Each
step is described by where the row, the payment and the goods of one order go
(`RowGoes`, `PayGoes`, `GoodsLeave`); each such change is one action of
`ProductSale` on that order. That goods leave only for a sold order needs
`QuoteFollowsOrder`; that a sale is made only against held money needs
`RequestsKnow`. `CapturedAlwaysPaid` and `OkAlwaysPaid` assume `~SellerCaptures`,
as their run does, and are read off the simulation: what is collected was sold, and
sold stays sold. For the second, an answer `already_applied` could come from money
recorded late; `LateIsCaptured` and `CapturedAlwaysPaid` exclude it.

**`ProductRefundsProofs`.** `RefundInvariant` is `Spec => []RefundInv`; from it follow
`RefundsNeverOverReserve`, `SucceededAlwaysRefunded`, `RefundedAlwaysReturned`,
`NeverResubmitted` and `DecidedAlwaysStays`, for any finite sets of rows, dashboard
refunds and components, any workers and any amounts. Amounts are added up by counting
cents (`Sum` is the cardinality of a set of pairs), so that a sum grows by one member's
amount, and no sum is unfolded. `SucceededWasRefunded` is not inductive: two
transactions that settle two rows do not see each other. `SettlementsKnow` says what an
open one may rely on: its row is still live, its refund is completed and of the row's
amount, and no other row has this refund or is about to get it - when the webhook found
the row by amount, because the row that names the refund is out of the workers' hands.
`WorkersKnow` says the same of a worker between its claim and its commit, which is
`NoResubmission`. `RefundedMeansReturned` then needs that a transaction never counts
more than Square returned: the rows it sees, its own included, map one to one to
completed refunds of the same amounts (`SumInto`, `FullIsReturned`).

**`TrainingSplitProofs`.** `SplitInvariant` is `Spec => []SplitInv`; `SplitTypes`,
`AllOrNothingAlways`, `AnswersAlwaysTrue` and `NeverAskedTwice` follow. `AllOrNothing`
speaks of what is never captured *later*, and calls of dead runs may still land, so it
takes an invariant about the future: `Void` says that a portion is not captured and
never will be, since it is dead or no call that captures is under way. `Knows` gives,
place by place, what the holder of the reservation's lock may rely on - the state it
loaded is the stored one, what it saw of a portion is still so - and `Recorded` what
each stored stage stands for at Square. Only the holder writes (`ByHolder`), and no step
of another run, and no late call, takes back what it relies on (`Steady`).
`NeverReauthorized` needs `Spent`: the stage is saved before the call, so that a key
whose answer was lost is known to have been used.

**`MarketingConsentProofs`.** `ConsentInvariant` is `Spec => [](MailInv /\ SyncInv)`:
one invariant of the outbox, one of the consent jobs, kept apart because the actions of
one leave the tables of the other alone, except a withdrawal. From them follow
`ConsentTypes`, `SentAlwaysAgrees`, `OffersStayRevoked`, `WithdrawalsOwned` and
`LeasesHold`, the last one an action property. `SentAgrees` is not inductive: `AtRow`
says that a delivering drain has a row, and one about to complete it the acceptance of
Resend; `Leased` that a row has an owner exactly while it is sent. `OfferRevoked` needs
that a failing delivery asks again for the state of its row. In `WithdrawalOwned` an
open push is worth something only while its worker has not made its call (`Done`), and
`Covered` names the three owners a withdrawn contact may have: a push, a worker that is
yet to read the consent again, or the fault in `stray`.

**`ShippingOperationsProofs`.** `ShippingInvariant` is `Spec => []ShipInv`; from it
`ShippingTypes`, `PostageBoughtOnce`, `DraftCreatedOnce`, `LabelsAreFunded`, and
`ShippingNeverGoesBack`, an action property of every step. The argument is about who is
`Sure`: a job is claimed *not unknown* only from a waiting row of which nobody knows
otherwise, so at most one worker is sure of a creation or a purchase (`Single`), and from
the first call on nobody new is. `OneCreation`: once the carrier made a draft, or may still
make one, no sure worker stands before the creation unless the draft is recorded.
`OneBuyer`: once a worker is about to buy, or a buy was sent, no holder of the purchase is
on its way to the postage (`MayBuy`); the last look at the lease, just before the call, is
what makes this hold when a lease ran out, and the proof uses it there. `Placed` is what a
worker has in each place (a draft, an answer, a funding it checked), and `Fresh` that one
that knows the present version also knows what was dispatched, which is why an old answer
cannot be recorded. Two lemmas carry most of the steps: a worker that goes on with its job
(`WorkerGoes`) and one that rests (`WorkerRests`).

**`HighLevelSyncProofs`.** `HighLevelInvariant` is `Spec => []HighLevelInv`; from it follow
`HighLevelTypes`, `HighLevelOnce`, `HighLevelOneJourney` and `HighLevelWithdrawal`. None of
the three properties is inductive, and each has a reason of its own:

- `EffectOnce`: the ledger outlives the transaction, so it has the key of every call that
  was carried out or is under way, and a key is taken only if it is new (`Once`). A worker
  may post for a key only while nobody else does.
- `OneJourney`: one worker holds the effects lock (`OneHolder`); at most one journey runs,
  and one that is about to claim another has those that are left on its list (`Single`);
  and each workflow that HighLevel shows has an accepted admission of its own, running or
  `stray` (`Covered`). The stop that `cancelJourney` asks for may be carried out before the
  ledger says so, hence `Cancelling`.
- `WithdrawalReaches`: HighLevel has taken note of a withdrawal (`Noted`) when do not
  disturb is set or the contact was deleted since; no call takes that back, be it late or
  made for an older consent. `Carries` says that the worker with the last withdrawal's job
  is about to set it, or it is noted, and that this worker cannot end the job `succeeded`
  with journeys left to stop; once the job is done nobody is about to admit (`Admitting`).
  The row that worker has taken cannot become a tombstone under it (`RowLocked`), and a
  contact that was deleted, or created again, is not eligible (`Known`). `Fresh` is what
  makes the job of a *new* withdrawal start from nothing: before the change that queues a
  job, no row and no worker has it.

`Charged` bounds the attempts: each beyond `MaxAttempts` was charged to a fault.

Every safety and action property that the passing runs check is proved. Out of the
prover's reach, and left to TLC, are the liveness properties - everything under fairness:
`PendingResolves`, `PaidSettles`, `RefundsEnd`, `ConfirmedSettles`, `SplitResolves`,
`ConfirmationArrives`, `PurchaseResolves`, `DeliveryNoticed`, `DraftsCleaned`.

## Not modelled

- **Service bookings** (`src/lib/booking/`: holds, reservations, deposits, no-show charges,
  appointment finalization, calendars). New bookings have moved to an external product and
  what is left serves those that exist; the pattern - an authorisation, a finaliser, leases on
  jobs - is that of the modules above. It is the largest part of the server without a model.
- **Of the training checkout**: the payment with one card (the charge core of the
  products with another finaliser), invoices, the scheduling token and its use.
- **Of the shipments**: replacement generations, training kits, `manual_shipping` orders
  (the present checkout creates none).
- **Of the CRM sync**: OAuth tokens, inbound webhooks, the historical import, the SMS
  channel, training and course journeys, `closeMatchingOpportunity`, a block of the address that
  HighLevel reports (`provider_email_blocked`), a second erasure of a contact created again.
- **Compositions.** `ProductCheckout` and `ProductRefunds` meet at the queued refund; what
  `approve_cancellation` between finalise and capture does to the refund it queues, and
  a capture outside the program that meets a `verification_failed` order, fall between them.
- **For good**: content, pages, e-mail templates, telemetry and environment
  (I/O and rendering), pricing, promotions and tax (pure functions under unit tests),
  access control and read models of the admin pages, retention of columns no model has.
