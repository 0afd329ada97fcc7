# CryptoPay: a TLA+ verification project

CryptoPay lets a merchant create an invoice, watches a chain for a stablecoin
transfer to the merchant's own address, confirms it, and tells the merchant by
webhook.  It never holds funds; what it can get wrong is *what it believes and
says*: an invoice settled without its payment, a payment no invoice hears of, a
status that goes backwards, a merchant told twice or never, a session that
outlives its revocation, a secret nobody has seen.

The modules here are written from the sources under `src/`.  `PROJECT.json`
lists, for every definition, the lines it stands for, and for every hazard of
the code the properties that watch it.

## The system

| Component | State it keeps | Operations | Module |
|---|---|---|---|
| Payment rules (`packages/payments`) | none | two transition maps and their asserts, amount verdict, choice of an invoice for a transfer | `PaymentDomain` |
| Block scanner (`worker/.../blockchain-scan.queue.ts`) | `BlockchainScanCursor`; locals of a pass | every 5 s: cursor, tip, logs, match and attach each transfer, advance the cursor | `EvmPipeline` |
| Confirmation worker (`payment-confirm.queue.ts`) | locals of a pass | every 5 s: expire overdue invoices, snapshot the active payments, ask for the confirmations of each and move, fail or settle it | `EvmPipeline` |
| EVM adapter (`packages/blockchain`) | none | latest block, transfer logs, confirmations (receipt, then tip) | `EvmPipeline` |
| Fake pipeline (`api/.../payments.service.ts`, `fake-blockchain-adapter.ts`) | chain in memory, `lastScannedBlock`, `ticking` | tick (expire, detect, advance), simulated payment, restart | `FakePipeline` |
| Webhook dispatch and retry (`webhook-*.queue.ts`) | `WebhookDelivery` | first attempt per endpoint every 2 s, due retries every 15 s | `WebhookDelivery` |
| Webhook endpoints | `WebhookEndpoint` | create, revoke | `WebhookDelivery`, `Dashboard` |
| Invoices, deposit addresses, audit | `Invoice`, `MerchantWalletAddress`, `AuditLog` | idempotent create, address set and first use | `InvoiceCreation` |
| Checkout API and page | what the tab's last fetch brought | poll, countdown, simulate, redirect | `CheckoutPage` |
| Accounts (`auth.service.ts`, `totp`, verification) | `User`, verification token | register, verify, login, lock, two-factor set-up and confirmation | `Accounts` |
| Rate limiting | a Redis counter | INCR, then EXPIRE on the first | `Accounts` |
| Sessions (`refresh-token.service.ts`) | `RefreshToken`, the cookies | login, rotate, reuse, logout | `RefreshTokens` |
| Organizations, API keys, guards, dashboard pages | `Membership`, `ApiKey`; the lists the pages show | invite, create, revoke, set address; role check, write, answer, refetch | `Dashboard` |
| Health check, bootstrap, crypto, config, validation, logging, landing pages | none | - | not modelled |

The components meet in the database.  The scanner and the confirmer share
`Invoice` and `Payment` and are ordered by nothing; the confirmer hands
`WebhookEvent` rows to the dispatcher; the dispatcher hands `FAILED` deliveries
to the retrier; the API writes invoices, addresses and endpoints under all of
them, and the pages show what they read some time ago.

What makes this hard:

* **Interleaving.** Every pass and every request reads, awaits, and then writes
  *by id*.  The asserts look at literals or at the snapshot, never at the row
  as it now is.
* **The chain.** Blocks come while a pass runs; a reorganisation drops a
  transaction, moves it, or mines it again as reverted.
* **Crashes.** A pass or request may die at any await; BullMQ starts another
  pass, a client sends again.  A restart of the API forgets the fake chain.
* **Shared addresses.** One deposit address serves all invoices of a merchant,
  so transfers compete for invoices that lapse meanwhile.
* **Batches and errors.** One throw ends a pass; a batch is a bounded window on
  a queue that some rows never leave.
* **Stale views.** A list or a status on a page is as old as the moment the
  server read it; an answer may come after what it was about has changed.

## Modules

| Module | What it is |
|---|---|
| `PaymentDomain` | `packages/payments` as operators |
| `InvoiceLife` | the abstract specification: what a merchant and a customer may see of an invoice, its status and the events that tell of it |
| `EvmPipeline`, `EvmPromises` | scanner and confirmer over one chain and one database; what they promise, the refinement of `InvoiceLife` included |
| `FakePipeline`, `FakePromises` | the API's ticker over the fake chain; what it promises, the same refinement without the expiry race |
| `WebhookDelivery` | dispatcher, retrier, endpoints, and their properties |
| `InvoiceCreation` | `POST /v1/invoices`, call by call |
| `CheckoutPage` | the public page, composed with `InvoiceLife` |
| `Accounts` | one account behind the rate limit |
| `RefreshTokens` | token families |
| `Dashboard` | the merchant's pages, the guards and the tables behind them |
| `MCEvm`, `MCFake`, `MCWebhooks`, `MCCreation`, `MCCheckout`, `MCAccounts`, `MCSessions`, `MCDashboard` | small instances for TLC |
| `EvmProofs`, `FakeProofs`, `WebhookProofs`, `CreationProofs`, `CheckoutProofs`, `AccountsProofs`, `RefreshTokenProofs`, `DashboardProofs` | the proofs |

A definition whose comment begins with *Slip* is not part of any specification:
it is a plausible mistake in the definition that follows it, kept so that each
property can be seen to fail when the code is wrong in that way.

### InvoiceLife

`status`, `lapsed`, `heard`: create, lapse, expire, detect, confirm, settle,
fail.  A verdict comes once, after CONFIRMING, is told by the one event of its
name, and is never taken back; `invoice.expired` is told at most once, and
before any other event.  `Racing` says whether detection and expiry run in
different queues.  If so each may act on a row the other has just written
(EXPIRED over DETECTED, DETECTED over EXPIRED), and nothing else is left open.
The worker implements it with `Racing <- TRUE`, the fake pipeline with `FALSE`.
`CheckoutPage` is built on it and checked with `Racing = TRUE`, the worker's case,
which has every behaviour of the other.

### EvmPipeline

`height`, `block`, `reverted` are the chain; `invoice`, `overdue`, `payment`,
`events`, `cursor` the tables; `scan[s]` and `confirm[c]` the locals of a pass.
`payment` is indexed by transaction hash, which the unique index on
`(network, txHash)` makes exact.  `displaced` and `scanned` record history.

One action is the code between two awaits:

| Code | Actions |
|---|---|
| `runBlockchainScan` | `ScanBegin` (cursor), `ScanLatest`, `ScanFetch` (logs), per transfer `ScanMatch` (candidates and choice), `ScanSeen` (the hash is known?), `ScanAttach` (the transaction); `ScanAdvance` |
| `expireOverdueInvoices` | `ConfirmBegin` (findMany), `ConfirmExpire` per invoice |
| `runPaymentConfirm` | `ConfirmList` (snapshot), per payment `ConfirmReceipt` and `ConfirmTip` (the two calls of `getConfirmations`), then `HandleMissingTransaction`, `MoveToConfirming`, `UpdateConfirmations` or `FinalizePayment`; `ConfirmEnd` |
| a crash, an RPC or database error | `ScanInterrupted`, `ConfirmInterrupted` |
| an assert that throws | `Abort`; the unique index refusing an insert in `ScanAttach` |
| the API, the clock, the chain | `CreateInvoice`, `ExpiryPasses`, `GracePasses`, `Mine`, `Reorg` |

* Amounts are natural numbers, an address is a pair (wallet, spelling).
* A block is its number.  A log is on the chain iff its transaction is mined
  and did not revert.
* `expiresAt < now` is the set `overdue`; the reorg grace window is the flag
  `graceOver` of the row, which every update resets as `updatedAt` does.
* `findMany` with `include` is one read.  (Prisma issues one query per
  relation; an invoice read a moment after its payment is a later snapshot of
  the same race.)
* Reorganisations are shallower than `RequiredConfirmations` and keep the
  height: the finality assumption `REQUIRED_CONFIRMATIONS` stands for.
* `findMany` without `ORDER BY` is an arbitrary order; logs come in block order,
  since one token contract is watched per network.
* The payload of a webhook is left out; its type and order are kept.

### FakePipeline

`chain`, `block` are the adapter's memory, `lastScannedBlock` and `ticking` the
service's fields, `tick[t]` the locals of a tick run by the interval timer or by
the request that simulated payment `t`, `caller[h]` that request.  `BeginTick`
looks at the flag and lists overdue invoices; `ExpireOverdueInvoice`,
`DetectNewPayments`, `TryMatchTransfer`, `AdvanceConfirmations`,
`AdvancePayment`, `TickReturns` follow; `TickThrows` is the `finally` of a
database error, `Restart` a new process over the old tables.  The adapter
answers from memory, and nothing but a tick writes payments, so the three calls
of one match are one action.

### WebhookDelivery

`delivery[q]` is the row of an (event, endpoint) pair; `dispatch[d]` and
`retry[r]` the locals of a pass; `tries[q]` counts the real calls of
`deliverWebhook`.  `DispatchClaim`, `DispatchPost`, `DispatchRecord` are the
three awaits per pair, `RetryPost` and `RetryRecord` the two of a retry.  One
call succeeds or fails arbitrarily; `decryptSecret` throwing is an interrupted
pass.  The insert of a delivery is refused by the unique pair, or fails for any
other reason, which `.catch(() => null)` passes over as well
(`DispatchClaimFails`); any other database error ends the pass.  `missed` records
the pairs that failed in a dispatcher's hands since a batch last listed them;
`Stranded` are those among them that no query finds again.  `nextRetryAt <= now` is the flag `due`, which the success branch of the
retrier leaves as it is, because that branch does not write `nextRetryAt`.

### InvoiceCreation

One organization, network and token.  A request goes through the
guards (a revoked key is unauthorized, one without `invoices:write` forbidden), the
lookup of its `externalId` (replay or conflict), the deposit address (found,
provisioned in fake mode, or refused), the insert under the unique key, and the
audit record.  `Interrupted` ends it anywhere, `Send` sends it again; keys are
revoked and addresses set meanwhile.

### CheckoutPage

`page[t]` is the query's data, error and fetch, and the card's button and
timers.  A fetch is asked, served from the row as it then is, and answered
later; an error keeps the data and is drawn before it.  A redrawn card loses the
state of `PendingState`.  A tab may be hidden, where react-query's polling timer
does not fetch, and shown again, which fetches anew whatever the status, as does a
network that returns.  `successUrl` is the set of invoices with a success address;
a paid page of any other stays where it is.

### Accounts

One user row.  Login is INCR, EXPIRE, the read of the row with everything
decided on it, and the write by id: `RegisterFailedLogin` writes the count it
computed from the row it read.  Two-factor set-up writes the secret, then shows
it; confirmation checks a code, then enables.  The audit inserts of register and
login are merged into the step before them, and a verification token's 24 hours
are left out: the owner uses it in time.  A code may be used twice within its
window, as in the code.

### RefreshTokens

The table of tokens with family and parent, the clients' cookies, and the three
calls of `rotate`: find, issue, retire.  A reuse or an expired token leads to
`RevokeFamily`.  `Copy` is a second client that comes by the cookie.  `shared`,
`spared`, `overtaken`, `killed` are history, the exceptions the two properties
name.

### Dashboard

A row is an API key or endpoint, a membership or a deposit address; `change[u][r]`
takes a member's change through the guards, the write and the answer; `list[u]`
is what the pages show, `fetch[u]` the running fetch, `form` and `banner` the
creation form and the secret shown once.  The code has a query for each list
(keys, endpoints, members, wallets); here one list and one fetch stand for them
all.  A change therefore drops what is on its way for the other lists too, where
the code drops its own list's fetch only.  A second change may thus bring a list up
to date that the code would leave; it cannot hide a mistake of the first one's own
refetch, which the behaviours without a second change show.  A list per table would
multiply the states beyond what TLC finishes.

## What is checked

| Run | Instance | States | Shows |
|---|---|---|---|
| `EvmSafety` | 2 invoices at one address, 2 transfers, 1 reorganisation that may revert, 1 expiry, height 3, 2 confirmations | 5.97 M | every safety promise, and the refinement of `InvoiceLife` |
| `EvmLive` | 2 invoices at one address, 1 of them lapses, 1 transfer, 1 reorganisation that may revert, 1 crash anywhere | 340 k | the refinement with crashes; the transfer is found, overdue invoices close, buried payments settle, through REORG_DETECTED too |
| `FakeSafety` | 2 invoices, 2 simulated payments for one of them, 1 restart or error | 85 k | one live payment each; the refinement without the race; payments end, transfers are read |
| `Webhooks` | 2 events, batch of 1, 2 dispatchers, 1 retrier, 2 retries, 1 crash or failed insert | 71 k | one sender, honest attempt numbers, status forward; every event ends at its endpoint, failures end |
| `Creation` | 3 requests, 2 of one order, 1 interruption, fake and evm mode | 182 k | replays agree, one address is provisioned, audit gaps are faults, retried requests end |
| `Checkout` | 1 tab, shown or hidden, 1 invoice with the expiry race, 2 failed fetches | 21 k | the page does not run ahead of the events; it stays behind the outcome only where it was told EXPIRED |
| `Account` | 2 tabs, 2 mistyped passwords, lock and limit at 2, 2 set-ups, 1 dead request | 300 k | locks are earned, limits end, the owner gets in, enabled secrets were confirmed |
| `Sessions` | 2 clients (symmetric), 4 tokens, 1 fault | 3.46 M | dead families stay dead, sessions do not fork |
| `Dashboard` | 2 members, 1 key, 1 address, 2 changes, 1 fault | 152 k | every secret is seen, writers see their rows, only managers write |
| `EvmPoison`, `WebhookStarved`, `CheckoutExpired` | below | - | three promises the code breaks |

What the properties say beyond their names:

* `StatusesAgree` relates payment, invoice and amount at every moment, with the
  one exception of the expiry race.
* `CursorCoversTransfers`: no log at or below the cursor was missed, unless its
  transaction was moved by a reorganisation.
* `SettledIsOnChain`: a verdict stands on a depth the chain really has.
* `PaymentStepsLegal`: writes by id stay inside the transition map although
  nothing re-checks the row.  For the invoice the refinement says the same.
* `OneLiveAttempt`: of the payments of an invoice at most one is in flight or
  decided.  The documents allow an invoice several, of which all but one have
  failed; that the code never records a second one is told below.
* `EventReachesEndpoint` excepts the pairs a failure left where no query looks, by
  name, and goes on claiming the others after the failure.
* `PageFollowsInvoice` holds for a page in front; it excepts a page that shows
  EXPIRED.  `PageLearnsOutcome`, without the exception, is `CheckoutExpired`.
* `AttemptsAreCounted`: a delivery is given up exactly when the schedule is used
  up, and its number never runs ahead of the calls made.
* `OneHeir`, `RevokedFamilyStaysDead`, `EnabledSecretIsConfirmed`,
  `WriterSeesTheRow`, `EveryKeyWasSeen` name their exceptions: each is an
  overlap or a fault the code does not guard against, and nothing else is.

`CheckoutPage`, `Accounts` and `InvoiceCreation` have no type invariant of their
own; the refinement runs evaluate `InvoiceLife` on typed states of the pipelines.

**Bounds.** Two transfers and two invoices are what a competition needs; with two
confirmations, a height of 3 and one reorganisation of depth 1, a transaction can
be dropped, moved, settled before and after; one crash can hit every await, and a
second adds only a longer run.  `EvmLive` has one transfer, since crash,
reorganisation and expiry together with two are beyond what TLC finishes under
fairness: two that compete are in `EvmSafety` without the crash, and with it in the
theorems.  A batch of one makes the second event wait, which
is all a larger batch does for its last member; a fan-out to two endpoints with two
events is too large for a run under fairness: the safety theorems cover it, its
liveness is unchecked.  Three requests are one more than
a race has.  Four tokens allow a login, two rotations of one token and one more
of an heir.  Two members and two changes give each change one to overlap.  The
`Dashboard` run invites with the role MEMBER: what it watches is a manager who
loses the role while a request of theirs is past the guards; more roles are in
the theorem.

**One worker.** The deployment runs one worker process, and BullMQ gives a queue a
concurrency of one: the runs have one scanner, one confirmer, one retrier.  The
specifications take any number.  The theorems say what each promise needs:
`CursorNeverSkips` and `SettledStaysOnChain` survive any overlap of passes;
`OneLiveAttemptAlways` (of the worker) needs one scanner, with however many confirmers;
`PaymentsStepLegally` needs one confirmer, with however many scanners; that the
two tables tell one story, which is the refinement, needs both.  A pass that dies
and is started again is still one worker.

**Fairness.** The job schedulers start a pass every few seconds and a pass ends
(`WF` on each pass as a whole); the chain grows (`WF` on `Mine` without new
reverts); grace window and backoff run out (`WF` on `GracePasses`,
`BecomesDue`).  The interval timer fires and a tick runs on unless it throws.  A
request runs on, and a shop sends again after an error (`WF` on `RequestStep`).
Polling timers fire and fetches return while the tab is in front, and nobody has
to show a hidden one; the redirect's timer runs in the background too.  A rate window and a lock end.  The one
strong fairness is the account owner's, who comes back to the form, or to the
link in the mail, again and again.  Nothing forces a customer to pay, an invoice
to lapse, a transaction to be mined, a merchant to answer, a member to press a
button.  Interruptions are bounded, so nothing is interrupted for ever.

### Where the code departs from its documents

* `EvmPoison`: the confirmer writes EXPIRED over the DETECTED the scanner has
  just written; from then on every pass that reaches this payment throws, and
  the payments behind it wait.
* `WebhookStarved`: an event nobody listens to holds its place in the
  oldest-first batch; enough of them stop all webhooks.
* `CheckoutExpired`: a page told EXPIRED stops polling, though the worker may
  still write DETECTED over it and settle the invoice; `use-checkout.ts:8-9` says
  it polls while the invoice can still change.  The page learns of it when it is
  shown again, which nobody has to do.

Three more disagreements with the documents have no run of their own; where a
property says what holds instead, it is named:

* An invoice never has a second payment.  `failPayment` fails the
  invoice with its payment, and only PENDING invoices are matched
  (`blockchain-scan.queue.ts:85`, `payments.service.ts:195`), so the transfer of a
  customer who tries again is never recorded.  The schema
  (`schema.prisma:60-61`, `310-311`: "may accumulate several as a customer
  retries"), `payment-state-machine.ts:7`, `DATABASE.md:22-24` and `126-127`, and
  CryptoPay_Master_Spec.md section 17 have several.  The fake pipeline has the same
  query, and its `failOrphanedPayment` fails both rows too.  `OneLiveAttempt` is what
  is meant to hold of several attempts, and does.
* The retrier does not look at `endpoint.enabled`, so a revoked endpoint is called
  for the retries left, where the dialog
  (`apps/web/messages/en.json:116`) says "CryptoPay will stop sending events to
  this URL."
* A two-factor set-up between the check of a code and the write
  that follows it enables a secret no code was checked against, where
  `auth.service.ts:168-169` and `SECURITY.md:28-30` say it stays disabled.
  `EnabledSecretIsConfirmed` excepts this overlap (`overtaken`) and shows that there
  is no other.

Known to be so, and left without a run of their own:

* The scanner writes DETECTED over an EXPIRED whose event was sent, if the
  invoice lapsed between its choice and its write (`Racing` in `InvoiceLife`).
* `tryMatchTransfer` selects candidates by SQL equality of the address, the
  matcher behind it folds the case: an address typed in lower case never gets
  its transfer.  The instances store the checksum spelling.
* `getConfirmations` does not look at `receipt.status`: a transaction mined again
  as reverted is still confirmed.  `SettledIsOnChain` leaves out what a
  reorganisation moved.
* A transfer that a reorganisation brings into a block at or below the cursor is
  not read; of two logs in one transaction the unique hash admits the first.  A
  transaction that failed as DETECTED and is mined again is skipped too, since its
  hash is known.
* A vanished DETECTED transaction fails at once, where CryptoPay_Master_Spec.md
  section 25 has REORG_DETECTED.  The code's own comment says so.
* A dispatcher that dies between claim and record leaves a PENDING delivery no
  query selects; one that dies in mid fan-out, or whose insert fails, leaves an
  endpoint without a delivery of an event that has others, which no query selects
  either (`Stranded`).
* With two confirmers one outcome may be told twice; with two scanners one
  invoice may get two live payments; with two retriers a late failure may overwrite
  SUCCEEDED.
* Two creations with one `externalId` that both see no invoice: the second fails
  on the unique key, and gets the original when it is sent again.
* Failed logins that overlap write the same count, so the lock of `SECURITY.md:30`
  may come late.  `LockIsEarned` bounds the early side only.
* A process that dies between INCR and EXPIRE leaves a rate counter that never
  expires; `LimitEnds` and `OwnerGetsIn` are about a server that lives.
* Two rotations of one token that overlap, or one that dies between its two
  writes, leave two live tokens of a family; a rotation under way when its family
  is revoked leaves its new token live.  `OneHeir` and `RevokedFamilyStaysDead`
  except these and show that there is nothing else.
* `inviteMember` may take the role of the last owner, and a member who lost a role
  while a request of theirs is past the guards still writes.
* When a revocation or a wallet save fails without an API error (its request or
  its answer is lost), `onError` shows the success text (`revokeSuccess`,
  `walletSaved`) in the danger style: the change is announced whether or not it
  was made (`api-keys/page.tsx:216`, `webhooks/page.tsx:199`,
  `settings/page.tsx:65`). The list is not fetched again until the page is.

## What is proved

Twenty-six theorems in eight modules, each for all values of the constants, and
for all numbers of actors but where the last column says otherwise.  They rest on
the assumptions named in the modules (`TermsAssumption`, `TransferAssumption`,
`DashboardAssumption` and so on: what rows look like, which constants are numbers, which sets are disjoint), which TLC evaluates
on every instance.  Every safety invariant and every action property that a
passing run checks is among them.

| Theorem | Property | Needs |
|---|---|---|
| `EvmProofs!TypeCorrect` | `TypeOK` | - |
| `EvmProofs!CursorNeverSkips` | `CursorCoversTransfers` | - |
| `EvmProofs!SettledStaysOnChain` | `SettledIsOnChain` | - |
| `EvmProofs!OneLiveAttemptAlways` | `OneLiveAttempt` | one scanner |
| `EvmProofs!PaymentsStepLegally` | `PaymentStepsLegal` | one confirmer |
| `EvmProofs!StatusesAgreeAlways` | `StatusesAgree` | one scanner, one confirmer |
| `EvmProofs!ImplementsLife` | `ImplementsInvoiceLife` | one scanner, one confirmer |
| `FakeProofs!TypeCorrect` | `TypeOK` | - |
| `FakeProofs!OneLiveAttemptAlways` | `OneLiveAttempt` | - |
| `FakeProofs!ImplementsLife` | `ImplementsInvoiceLife` | - |
| `WebhookProofs!TypeCorrect` | `TypeOK` | - |
| `WebhookProofs!OneSenderAlways` | `OneSender` | one retrier |
| `WebhookProofs!AttemptsCountedAlways` | `AttemptsAreCounted` | one retrier |
| `WebhookProofs!DeliveriesGoForward` | `DeliveryStepsForward` | one retrier |
| `CreationProofs!ReplaysAgreeAlways` | `ReplaysAgree` | - |
| `CreationProofs!OneAddressAlways` | `OneGeneratedAddress` | - |
| `CreationProofs!GapsAreFaults` | `AuditGapsAreFaults` | - |
| `CheckoutProofs!PaidPagesAreTold` | `PaidPageAfterEvent` | - |
| `AccountsProofs!LockIsEarnedAlways` | `LockIsEarned` | - |
| `AccountsProofs!EnabledSecretConfirmed` | `EnabledSecretIsConfirmed` | - |
| `RefreshTokenProofs!TypeCorrect` | `TypeOK` | - |
| `RefreshTokenProofs!ReuseKillsFamily` | `RevokedFamilyStaysDead` | - |
| `RefreshTokenProofs!SessionsDoNotFork` | `OneHeir` | - |
| `DashboardProofs!PagesTypeCorrect` | `TypeOK` | - |
| `DashboardProofs!SecretsAreSeen` | `EveryKeyWasSeen` | - |
| `DashboardProofs!OnlyManagersWrite` | `WritersWereManagers` | - |

TLC also finds every inductive invariant named below true in all states of the
instance of its run; the proof modules extend the specifications, so that an MC
module that extends both is enough to see it.

**The worker's pipeline.** `TypeOK` is inductive as stated, because it carries two
facts beyond types: a pass between the choice of an invoice and the insert has
both in hand, and every snapshot entry is of a row that exists and whose invoice
and amount never change.  `CursorCoversTransfers` alone is not inductive: a
scanner about to advance the cursor must know that its range is dealt with.
`CoverInv` adds, per scanner, that the blocks below its range are covered since it
read the cursor, that its range ends at or below the tip, and that each log of
the range is finished, still listed, or in its hand.  Ranges of others cannot
interfere because `scanned` only grows; new blocks come above every range; what a
reorganisation moves is displaced.  A cursor that a slower scanner moves *back* is
no counterexample: what it covers then is less.  `SettleInv` follows the chain's
word from hand to hand: a log a scanner holds, hence a payment, is of a
transaction on the chain; the receipt a confirmer holds names its block, and the
confirmations it was told are a depth the transaction really has, which never
goes stale since the tip only grows.  Writes on stale snapshots are harmless here:
every status but a verdict asks for nothing.  It needs `BlocksBelowTip` of
`CoverInv`, as a block above the tip would make the depth zero.

`OneLiveAttempt` is kept by the order of two awaits, and by more than it says: an
invoice never gets a second row, failed or not (`OneRowPerInvoice`, the inductive
strengthening, a fact of the code and no promise of it).  The matcher lists only
PENDING invoices, and the transaction that inserts a payment moves the invoice out
of PENDING.  `AttachInv` says the invoice of a payment has left PENDING, and that
the one a scanner has chosen and not yet attached has no payment.  Nobody writes
PENDING back, and a second scanner in between is the one thing that could break
the second part.  `SnapshotInv` is the same for the confirmer: while nobody else
writes the status of a payment, the snapshot's status is that of the row, so the
assert made on the snapshot is as good as one made on the row.

Both are needed for the story a payment and its invoice tell together.  `LifeInv`
says of the tables that a payment and its invoice have statuses that belong
together (`Agrees`, the expiry race being the exception), that a verdict is the one
the amount deserves, that an invoice past PENDING and not expired has a payment,
and that one not yet out of PENDING has been told nothing; and of the locals that
the invoice chosen is PENDING or has just been expired (`ChosenOK`), that those
about to be expired were overdue, are untold, and are PENDING or have just been
detected (`ListOK`), and that a snapshot's invoice status is the row's
(`SideOK`).  The two disjunctions are the expiry race seen from either side, the
only places where a pass acts on what another has changed.  Each step then either
hides from the merchant or is a step of `InvoiceLife` (`LifeGoesOn`), as for the
fake pipeline below, where the race cannot be.

**The fake pipeline.** `FakeInv` says that a running tick holds the flag and is
alone; so what it has listed is still true when it writes (`FreshList`,
`FreshEntry`); that a payment's invoice has left PENDING and goes along with the
payment while that is in flight; that no two payments share one (`OneRowPerInvoice` again); and that an
invoice not yet out of PENDING has been told nothing.  Each step then either hides
from the merchant or is a step of `InvoiceLife` on the invoice it touches
(`LifeGoesOn`), which is the refinement.

**Webhooks.** `PairOK`, per pair: who holds it (posting, recording, listed,
retried), that holders exclude each other, and how row, attempt in hand and calls
made relate.  A dispatcher's claim is exclusive by the unique pair; the retrier's
list is not, hence one retrier.  Steps that do not touch the pair are one lemma.

**Creation.** `CreationInv`: the stored address and those in the hands of requests
are all remembered, no generated one enters a table that has one, each
`externalId` has one row, and an answered request names a row of its terms.
`GapsInv` counts: each request about to write its audit record has an invoice of
its own that lacks one, so that a request ends by closing its gap or by leaving it
to a fault.

**Checkout.** `CheckoutInv`: the PAID of a page, of an answer on its way, or of a
page that has left is one a row had, the row's comes with the event, and events
are only ever added.

**Accounts.** The counter is read and written in two steps, so its value is bounded
by the mistyped passwords *less those of requests still to write* (`SlipsInv`, on
the number of such requests); several that read one count write it once, which only
lowers it.  `SecretInv`: while a confirmation is between its check and its write,
or the second factor is on, the secret in the row was confirmed or was set in
such a gap.

**Sessions.** The invariants say where a rotation under way when its family died
is noted (`overtaken`, then `spared`), and that of two rotations of one token the
later one noted it when it read the token (`shared`).

**Dashboard.** `GuardInv`: a request past the guards belongs to someone who was a
manager then, and whoever a row makes a manager is remembered.  `PageInv`, for the
secrets: a key belongs to the one request that creates it, a form that waits
waits for that request, and a key exists unseen only while the answer to its
creation, not to a revocation, is awaited.

**Left to TLC.** Liveness: that payments settle, transfers are found, overdue
invoices close, events reach endpoints, requests end, owners get in and pages
learn, for the prover has no rules for fairness and `ENABLED`.  The theorems that
ask for one scanner, one confirmer or one retrier are false without it: TLC finds
two live payments for an invoice and statuses that disagree with two scanners, and an
illegal payment step, statuses that disagree and an outcome told twice with two
confirmers.

## Not modelled

* Health check (pings and logs), worker bootstrap (wiring), cryptography,
  configuration, validation, logging and the database client: pure functions of
  strings and settings, or no state.
* The rest of the web application: landing page, locale routing, read-only lists
  of invoices and deliveries, renaming an organization, wording and layout.
* Of the webhook sender the signature, the check of the target address and the
  jitter; of the rate limiter the categories other than login, which differ in
  key and limit; of the audit log all callers but one, since nothing reads it
  back.
* `getTransaction` and `validateAddress` of the EVM adapter, which the pipeline
  does not call.
