# ConnectPort API: TLA+ models, model checking and proofs

ConnectPort is a sourcing service: a requester asks for goods, staff ("ops")
quote them, the requester pays through Paystack, and ops move the order through
procurement and shipping. The API is one NestJS process (or several) over
PostgreSQL (Prisma), Redis, Paystack, Resend and R2. Every HTTP handler is an
async function: it suspends at each `await`, so handlers of one process
interleave as freely as handlers of several. Nearly everything that can go wrong
is a handler that acts on a row it read before another handler changed it, or a
handler that stops between two effects.

Paths below are relative to the repository root.

## 1. Inventory

| Part | State it keeps | Operations | Talks to |
|---|---|---|---|
| Order lifecycle, `src/requests/requests.service.ts` | `Request.status`, `assignedOpsUserId`, `Quote.status`, `Payment`, `StatusUpdate` | create (plain, guided, catalog), reject/approve quote, demo pay, complete Paystack payment, claim/assign, submit quotes, update status, cancel, retry refund | Postgres, Paystack refunds, mail queue |
| Payments, `src/payments/payments.service.ts` | `Payment` | initialize, verify, webhook | Paystack, order lifecycle |
| Product finds, `src/ops-console/ops-console.service.ts` 494-810 | `ProductFind`, `Product`, `Quote`, `Request` | create, approve, reject | order tables, catalog cache, mail queue |
| Ops accounts, roles, teams, `ops-console.service.ts` 187-436 | `OpsUser`, `Credential`, `Role`, `Team` | create agent, enable/disable, roles, teams, own password | sessions, mail queue |
| Sessions and sign-up, `src/auth/` | `Credential` (lock, tokenVersion), `EmailOtp`, refresh ids in Redis | sign-up with OTP, login, refresh, logout, reset | Redis, mail queue |
| Redis wrapper, `src/redis/redis.module.ts` | key-value pairs, or an in-memory map | get, set, del, incr, list push/pop | - |
| Mail queue, `src/queue/queue.module.ts`, `src/mail/` | a Redis list, or the process itself | enqueue, drain | Resend |
| Catalog, `src/products/products.service.ts` | `Product`, the cached published list | list, create, update, archive, announce | Redis, mail queue |
| Pricing, `src/common/pricing.ts`, pricing config | `PricingConfig` | landed-cost breakdown | - |
| Uploads, `src/uploads/` | a counter per user, desk and day; files | upload | Redis, R2 or disk |
| Guards, `src/common/guards/`, `permissions.ts` | none | authentication, roles, CSRF | sessions |
| Audit, staff notifications | `OpsAuditLog` | append | - |
| Serializers, templates, receipts, health, metrics, start-up | none | - | - |

How they interact: controllers check the caller and call a service; services
share state only through the database and Redis; Paystack calls back through the
webhook or is asked by `verifyReference`, and both end in
`completePaystackPayment`. Mail is enqueued after the commit it reports.

What is hard, and what would make each part correct:

* **Orders and payments.** Reads and writes are separate steps at READ COMMITTED;
  only `completePaystackPayment` locks the order row. Correct: money is recorded
  only if it was taken (for that order, quote and amount), fulfilment follows
  payment without skipping a stage, a refund is neither recorded nor announced
  before it is made, a payment settles which quote is taken, the order has an owner, the timeline
  shown to the requester makes sense, and no handler waits for ever.
* **Finds.** Approval is a sequence of separate commits on a status read at the
  start, beside re-quotes that delete what they offered. Correct: a decided find names
  its own product and quote and is not decided again, no paid order disturbed.
* **Sessions and OTP.** Get-then-delete of refresh ids, read-then-increment of
  attempts. Correct: a refresh id buys one session, a revoked session stays
  revoked, the attempt limit holds.
* **Mail queue.** Pop before send, overlapping drains, a provider whose answer may be
  lost. Correct: a mail leaves at most once and is decided in the end.
* **Catalog cache.** Fill races clear. Correct: staleness bounded by the TTL.
* **Ops accounts.** Guards decide before the handler acts; roles change meanwhile.
  Correct: disabling leaves somebody in charge, an invitation fits its account.
* **Uploads.** The counter is read, the file stored, the counter raised. Correct: the
  allowance overruns only by the handlers beside.
* **Pricing.** Rounding at every step, limits the wrong way round, a settings row
  created on first use. Correct: prices are monotone, settings are not lost.

`PROJECT.json` lists the components with their status and the hazards, each at
its line with the properties that watch it.

## 2. Modules

| Module | Models |
|---|---|
| `Paystack` | the gateway as `src/` uses it (external): references, their charge, refunds |
| `OrderStatus` | the status chain (`OPS_STATUS_ORDER`, `POST_PAYMENT`) as pure operators |
| `OrderState` | the order tables, the row lock, the handlers in flight, `Init`, `TypeOK` |
| `RequestsService` | every state-changing operation of `requests.service.ts` |
| `PaymentsService` | initialize, verify and webhook around `completePaystackPayment` |
| `FindApproval` | the effect of `approveProductFind` on orders |
| `OrderContract` | abstract specification: what an order's timeline promises |
| `Orders` | composes them, adds crashes, fairness and all properties |
| `MCOrders` | symmetry for TLC |
| `OrdersProofs` | typing theorem |
| `OrdersSafety` | inductive invariant and safety theorems, owners |
| `OrdersRefunds` | theorems about refunds, notices and cancellations, what the row lock protects, that a payment settles the quotes, and that `Orders` implements `OrderContract` |
| `Catalog` | products, the cached list of the store: filling, clearing, expiry |
| `Finds` | product finds: proposed, approved (published and offered), rejected |
| `FindsProofs` | typing and safety theorems of `Finds` with `Catalog` |
| `Sessions` | sign-in with its lock, sessions, rotation, revocation, new passwords; the Redis counters and keys they use |
| `SessionContract` | abstract specification: who may be signed in, and what a revocation and a new password end |
| `MCSessions` | symmetry for TLC |
| `SessionsProofs` | typing and safety theorems of `Sessions`, and that it implements `SessionContract` |
| `Otp` | one-time codes for sign-up and password reset |
| `MCOtp` | symmetry for TLC |
| `OtpProofs` | typing and safety theorems of `Otp` |
| `Binomials` | lemmas on factorials and binomial numbers, which bound wrong answers in `Otp` |
| `MailDelivery` | abstract specification: a mail leaves at most once and is decided in the end |
| `MailQueue` | the mail queue, with Redis and without, shown to implement `MailDelivery` |
| `Uploads` | the daily allowances of uploads |
| `Pricing` | the price of a find and of a store order, and the settings row |
| `OpsAccess` | roles, staff accounts, and the guards in front of them |
| `MCBackOffice` | explores the four modules above, one at a time; values for TLC |
| `BackOfficeProofs` | theorems of these four modules, and of the four together |

`Orders` EXTENDS `PaymentsService` (which EXTENDS `RequestsService`) and
`FindApproval`; both share `OrderState`. `OrderContract` is instantiated by
`Orders` with a refinement mapping. `Finds` EXTENDS `Catalog`, because an approval
publishes a product and clears the cached list. `approveProductFind` appears twice: in
`Finds` with what it does to finds, products and the cache, in `FindApproval` with what
it does to the order; the parts share only the new quote, so no interleaving is lost
that either half's properties speak of. `submitQuotes` appears in both as well: in `Finds`
it may delete, at any time, the quotes made from finds. `Sessions` stands alone: orders and sessions
share no row that either decides on (the guards turn a session into a caller). `Otp`
ends where `Sessions` begins: at an accepted code. `Sessions` instantiates
`SessionContract`, `MailQueue` instantiates `MailDelivery`. The four back-office modules share no state at all, so `MCBackOffice`
lets each behaviour follow one of them: no interleaving is lost by that. Their
theorems are about the specification of each, and `PartsKeepApart` carries them over to
the composition.

### Correspondence with the code

* A **handler in flight** is a record `job[w]`. `Workers` bounds how many run at
  once. A handler that reads and then writes is a first action (`RejectQuote`,
  `UpdateStatus`, `CancelPaidRequest`, ...) that takes the snapshot and makes the
  code's checks on it, and one action per later commit or remote call
  (`RejectCommit`, `UpdateCommit`, `CancelRefund`, `CancelCommit`, ...). A check
  that fails throws and changes nothing, so it is the absence of the first action.
  Operations whose read does not influence what they write (creation, `Assign`)
  are one action.
* **Transactions.** A commit is one step: Postgres shows its writes at once. Reads
  inside it are the earlier step, since READ COMMITTED does not protect them. A statement
  over all quotes of an order (`updateMany` in an acceptance, `deleteMany` in a re-quote)
  finds its rows when it runs, so it is a step of its own (`Sweep`: `RejectOthers`,
  `DeleteQuotes`) that fixes which quotes the commit will reject or delete; a quote
  inserted in between is spared. Waits on quote and payment rows are left out: handlers
  that would wait for each other there may pass each other, which adds interleavings and
  takes none away.
  `loadDetail`'s several SELECTs count as one snapshot. A write that finds its
  quote deleted or the Payment's unique `requestId` taken rolls back
  (`WriteRefused`). A transaction that Postgres aborts (deadlock, timeout) and a
  process that dies are `Crash`: the open transaction is gone, what was committed
  or asked of Paystack stays.
* **The row lock.** `lock[r]` is held from `CompleteRead` to `CompleteCommit`.
  Writes to the Request row and inserts that refer to it (history, quotes, a new
  Payment) wait for it; updates of existing Payment and Quote rows do not.
* **Payment.** A reference carries the metadata `{requestId, quoteId}` given at
  initialization. A success can be reported at any time afterwards, any number
  of times (webhook redelivery, verify). `charge[ref].exact` says whether Paystack
  reports the quote's total in naira: amounts are quotes, and the comparison is
  the only thing the code does with them. The code compares an amount and a currency only
  if the report has them; the model takes it that Paystack's always do.
* **Refunds.** `attemptPaystackRefund` has three outcomes: the money returned and
  acknowledged, not returned, returned but the answer lost (which the code reads
  as a failure). Without a secret and outside production it just succeeds.
* **Mails.** `Orders` keeps only that the notices about money were enqueued (`mails`):
  payment confirmed, cancelled with the amount refunded, cancelled without one. Most are
  of the status the handler just wrote. `createGuidedRequest` reads the order again after
  its commit and announces what it finds (`GuidedNotice`): possibly a cancellation whose
  refund is pending, under the subject "cancelled and refunded" (`requests.service.ts:1495`);
  the body, without an amount, says that a refund was started. What becomes of an enqueued
  mail is `MailQueue`.
* **Timeline.** `history[r]` is the set of statuses logged for the order.
* Callers are authorised, signatures valid, inputs well-formed: what the guards,
  DTOs and the HMAC check reject never reaches a handler.
* **Sessions.** `token[t]` is the pair of JWTs issued under refresh id `t`: account
  and `tokenVersion` inside them, plus which password opened the session (`pw`, kept
  for the property, not in the JWT). An access token and its refresh token differ
  only in lifetime, so one row stands for both. `keys` are the ids with a key in
  Redis; the key's time to live is that of the JWT, so neither expires here.
* **Counters.** `fails[a]` has a value and whether a time to live is set. With Redis,
  INCR and EXPIRE are two steps; the in-memory map does both at once and forgets
  everything when its process ends (`Restart`), in-flight handlers included. (Its get, await
  and set have nothing to wait for between them and count as one step.) With
  Redis there may be several processes, and each handler can die alone (`Crash`),
  at the stages in `MayDie`.
* A sign-up or reset begins in `Sessions` when its one-time code was accepted. When that
  may be is the business of `Otp`; `Sessions` lets it happen at any time, which allows
  more than the code does.
* **Codes.** An `EmailOtp` row is named by its first code. A handler finds the newest row,
  decides, and writes later; every statement is an action. `wrong`, `spent` and `resets`
  are history: how many wrong answers a row got, whose rows were deleted after use, which
  codes replaced a password. A call that the resend budget refuses changes nothing the
  model keeps and may be any call, so the budget is left out. `sweepExpiredOtps` is called
  from nowhere in `src/` and has no action; expired rows stay until somebody meets them.
* **Mail queue.** With Redis, `drainOnce` is a pop and a later send; the timer starts
  another while one is in flight, in every process. Without Redis, `enqueue` leaves the
  mail to `setImmediate`. Resend may take a mail whose answer is lost; the answer is only
  logged, so taking or not is all that matters. A process that dies drops what it popped or
  kept. Each Redis command takes effect once; that the client may repeat a command whose
  answer was lost is a hazard no property covers.
* **Uploads.** One user over one day. A file has a declared type, a type by its bytes and
  a size, and is admitted by what each check looks at. The store may fail, keep the file
  and answer with an error, or not be configured. The three desks have a counter each.
* **Pricing.** Costs and rates in kobo, weights in grams, percentages in hundredths of a
  percent; `Rounded` is `Math.round` of the exact quotient. Every calculation of
  `pricing.ts` that decides a price is an operator of its own; the handlers of the settings
  row are the state machine. `UpdatePricingConfigDto`
  lets negative fees pass; the model has none, and prices are monotone only then. TLC's
  integers have 32 bits, so the run uses small fees beside the defaults; the theorems are
  about all numbers.
* **Back office.** A guard reads account and role once; the handler then acts, whatever
  happens to either meanwhile (`Begin` is the guard, `Check...` the handler's own read).
  Passwords are names; a temporary one is unlike every other, because it is random.
* **Finds and the store.** `product[p].edits` counts the content changes of a product,
  which is all a cached list can be wrong about besides who is on it. A slug made of a
  find's title and id is named by the find; every other slug is `None` and taken to be
  free. Filling the cache is a read and a store, changing a product a write and a clear,
  an approval five statements: each its own action, and a handler can die between any
  two (`Die`). `quote[q]` keeps which find a quote was made for; a re-quote deletes the
  quotes of some finds at any time (`SubmitQuotes`, `withdrawn`), and the finds go on
  naming them. The single process of the in-memory cache that dies takes the list with
  it, which is `Die` followed by `CacheExpires`.
* `FindApproval` leaves open which finds wait for review, which allows more than
  the code does; every property checked here is checked under that allowance.

## 3. Runs

The order runs use one order: no handler relates two orders except through the
uniqueness of references, and the theorems cover any number of orders.

| Run | Question | Bounds |
|---|---|---|
| `production` | are money, refunds, notices and ownership consistent, does a payment settle the choice of quote, does what is read under the row lock hold, and is `OrderContract` implemented, when two handlers race and die half way? | 2 workers, 2 quote ids, 2 references; ops targets `submitted`, `procured`, `cancelled` (back, forward, forbidden); 1.7 M states |
| `development` | can stale status updates leave a gap in the timeline? All nine targets, demo checkout, claims | 2 workers, 2 quote ids, no Paystack; 1.5 M states |
| `liveness` | does every handler end when the lock is contended? | 2 workers, 2 quote ids, 2 references; 0.1 M states |
| `staff_sessions` | do revocations last, does a new password leave no old session, and is `SessionContract` implemented, for staff (invited, disabled, set up) over the in-memory map? | 1 account, 3 refresh ids, 2 workers, `FailMax` 2 (10 in the code), restarts anywhere, 2 revocations started at most beyond those in flight; 0.7 M states |
| `requester_sessions` | is `SessionContract` implemented for a requester over Redis, are wrong passwords bounded, does the sign-in lock end, and has every counter a time to live or a handler about to set it? | 1 account, 2 refresh ids, 2 workers, crashes at every stage except between INCR and EXPIRE; 0.18 M states |
| `finds` | do finds name what is theirs, do decisions stand, when may the store show an old list and does it end, when reviews, re-quotes and changes race and die? | 2 workers, 1 find, 2 products, 2 quotes, statuses `published` and `archived`, one product edited once (`Edited`); 0.86 M states |
| `codes` | are wrong answers bounded and honestly counted, and are codes used up exactly when they took effect? | 1 address, 3 codes (`MaxCodes`), 2 workers, `MaxAttempts` 2 (`OTP_MAX_ATTEMPTS` in the code); 4.0 M states |
| `back_office` | does the mail queue implement `MailDelivery`, how far can allowances overrun, are prices monotone, do settings and invitations survive races, and who is left in charge? | 3 mails, 2 drains; 2 uploads, allowances 1 and 2, 5 files (`MaxStored`); 2 callers, 2 settings, 8 wares; 2 staff, 1 new role, 2 passwords, 2 handlers, 3 calls (`MaxCalls`); 0.2 M states |
| `lock_message` | "Try again in a few minutes." (`auth.service.ts:617`), crashes everywhere | violated |
| `ops_comment` | "Ops may only advance along this chain after payment." (`requests.service.ts:40`) | violated |
| `completion_comment` | "Finalize payment after Paystack verify/webhook." (`:615`) | violated |
| `cancel_comment` | "Cancel a paid order (before procurement)..." (`:948`) | violated |

Why the bounds are enough to be interesting: two workers give every pairwise race;
two quotes give "the other quote" and a re-quote; two references are needed for a
payment to be recorded at all (see below) and give the forgotten charge. Quote ids
and references are used once, as in the code, so a run ends when they are spent;
nothing else is bounded. Accounts do not affect each other either (each has its own
credential row and counter), so one account per run is enough; the two runs differ in
what kind of account it is and in what holds the counters. Two refresh ids are the
least for a rotation, three allow a second session beside it. `MaxVersion` keeps
`tokenVersion` finite: beyond it no revocation starts. When refresh ids are spent, a
new session is not observed (`IssueSessionTokens`). One find with two products and two
quotes is what two racing approvals of it need; finds meet only in the product table,
and the theorems cover any number of them. Addresses do not share codes, so `codes` has
one; three codes are one to answer, one that renews it and one that replaces it, and two
attempts are the least at which counting as read differs from counting one by one. The
back office has two of everything that races. Its settings include a maximum below its
minimum and fixed fees, its wares two costs that round to neighbouring prices.

Every property of a passing run has a mutant: a "Slip" operator beside the
definition it stands for (a dropped check, an ignored answer, a missing lock) that
makes TLC report that property.

### What the violated comments show

* `completion_comment` is the ordinary checkout with one worker and no race.
  `initialize` stores the reference on the Payment row as `unpaid`; the completion
  of that reference finds the row by `gatewayRef`, returns at once, and mails
  "Payment confirmed". The order stays `quoted`. Only the completion of a
  reference that a later `initialize` replaced is recorded, which is why every
  run uses two.
* `ops_comment`: `updateStatus` checks the order of the chain only for targets
  after payment, so a paid order can be set back to `submitted`.
* `cancel_comment`: a cancellation waits for Paystack without holding anything; if
  ops mark the order procured meanwhile, it is cancelled after procurement.
* `lock_message`: `incr` sends INCR, then EXPIRE. If the process dies in between, the
  counter has no time to live; no later increment sets one, and at ten failures the
  address stays locked until its password is reset. `requester_sessions` shows that
  no other crash or race does it: with that one excluded, `LockEnds` holds. (An EXPIRE that
  Redis refuses, or an INCR that the client repeats, would have the same effect; the
  models have neither.)

### Fairness

`SF_vars(Continue(w))` for each worker: a handler that was called runs on, because
the event loop resumes it when its await settles (`fetch` and Postgres both end or
time out) and Postgres queues waiters of a row lock, so that one is not overtaken
for ever. Calls, payments, webhooks and crashes are not fair: nobody has to act.

`Sessions` takes `WF_vars(Continue(w))` (no step of a session handler can be disabled by
another, so weak fairness is enough) and `WF_vars(CounterExpires(a))`: Redis drops a key
whose time is over. `Finds` needs only the same of its cached list (`CacheExpires`): that
a list which is out of date ends depends on nothing else.

`MailQueue` takes weak fairness of popping (the timer of some process keeps ticking; not
of each call, since any of them will do), of sending what was popped (a call of the
provider ends, with or without an answer) and of sending inline (`setImmediate` runs its
callback). No action disables these but the death of the process, which decides the mail
too. `Otp`, `Uploads`, `Pricing` and `OpsAccess` claim no liveness and have no fairness.

## 4. Proofs

For all values of the constants, from `ConfigAssumption` (flags are Boolean;
production implies a Paystack secret, which `prod-guard.ts` enforces at start-up)
and `NoneAssumption` (the absent value and the demo reference differ from ids):

* `TypeCorrect`: `Spec => []TypeOK`. `TypeOK` alone is not inductive: what a commit
  writes comes from the job, so `TypeInv` adds what a job carries at each stage
  (`JobOK`, among it that an update in flight passed `MayMove`) and what a charge
  carries once opened.
* `SafetyInvariant`: `SafetyInv` is inductive. What a handler read may be false when
  it commits, so the invariant keeps what survives interference:
  * `TimelineInv`: the stages up to `status[r]` are logged, and for every update in
    flight the stages up to the status *it read* are logged. Logs never shrink, so
    this survives whatever else happens, and one step further is again gapless.
  * `LockInv`: a completion in flight holds the lock of its order, whose status is
    still `quoted` or `approved_paid`: all other status writers wait.
  * `ChargeInv`: a completion in flight carries a charge that pays for its order and
    quote; a paid row names such a charge; in production `approved_paid` is logged
    only for an order with an exact charge. Charges are never undone (`ChargesKept`).
* From it: `TimelineHasNoGap`, `PaidRowsAreCharged`, `FulfilledOrdersAreCharged`,
  and the action property `PaymentsNeedAnOpenOrder`.
* `QuotedOrdersAreAssigned`, from the typing invariant: what a handler writes as owner
  is never nobody.

For `Sessions`, from `SessionsAssumption` (staff are accounts, `FailMax` is positive, the
workers are finitely many, `None` is neither an account nor a token):

* `SessionsTyped`, with what a job carries at each stage in the inductive invariant.
* `OldPasswordsEnd`, by an invariant over sessions *and* jobs: whoever carries the
  current `tokenVersion` also carries the current password. A new password raises both
  in one write, so everything read before is behind in both; versions never exceed
  the credential's.
* `RevokedAccountsStaySignedOut`, because a rotation that got past its check holds the
  version of a session that exists: it can only issue the current version if that
  session still has it, and then the account was signed in before the step.
* `FailuresAreBounded`: the counter plus the handlers that may still increment it never
  exceed `FailMax` + workers - 1, counted over the finite set of workers.
* `LocksAreTimed`: a counter has a time to live or a handler about to set it
  (`CountersEnd`, inductive with typing), unless a process died between INCR and EXPIRE.
  It is the safety half of `LockEnds`: what is left of that to TLC is that time passes.
* `SessionsKeepTheContract`: `Spec => KeepsContract`. The contract sees who is signed in
  (`open`), who is about to be because somebody gave the password (`proved`), and who has
  set it just now (`setting`). A handler counts as about to sign somebody in only while
  the version it carries is the account's, so a revocation takes with it whatever was read
  before; a rotation never opens what is not open (`RotationInv`). One lemma per kind of
  step says which step of the contract it is.

For `Finds` and `Catalog`, from `CatalogAssumption` (`None` is no id, staff give products
existing statuses, `Edited` are products):

* `FindsTyped`, with what a handler carries at each statement of an approval.
* `StaleListsAreExcused`: `StaleOnlyByRace` is inductive once typing is known
  (`ChangesAreFollowedUp`: a step that changes a product leaves its handler about to
  clear). `excused` is a history variable: the list was stored over a change, or a
  handler died before clearing.
* `SentFindsKeepTheirOwn`, `ReviewComesFirst`, `DecisionsStand` from `OriginInv`: what
  was made for a find, and what a handler carries, belongs to a find that was submitted;
  nothing made changes the find it was made for (`MadeGrows`; a quote that was deleted keeps it), and a find's row only changes by a handler
  that carries it (`FindsMove`).

`OrdersRefunds` goes on from `SafetyInv` with `RefundInv`:

* What a handler carries about money stays true although the row it came from does not:
  charges are only ever opened, paid and refunded, in that order; a Payment row is never
  deleted; a timeline only grows. So a handler that holds a refund to record (`JobTrue`)
  and a row that shows one (`PaymentTrue`) refer to a charge of that order that was
  returned, and a notice that was enqueued stays true. The notice that `createGuidedRequest`
  sends of a status it reads late is one case more: `approved_paid` comes with its charge,
  and a cancelled order has been paid and cancelled (`RefundInv`), which is all that a
  notice without an amount is held to. From it `RefundsAreReturned`, `NoticesStayTrue` and
  `CancelledOrdersWerePaid`.
* `LockedReadsStand`: what `completePaystackPayment` read under its row lock still holds at
  its commit, which is why that commit has no refusal in the model (`WriteRefused`). Quotes
  are withdrawn, and Payment rows inserted, only by who finds the order unlocked;
  `retryRefund` writes the Payment row without waiting, but knows there is one
  (`RefundInv`). This says nothing of deadlocks, which Postgres resolves by aborting one
  side (`Crash`).
* `PaymentsAcceptOneQuote`: once a completion's first statement has run, what it found is
  every other quote of the order (`RefundInv`, `swept`), because whoever inserts one waits
  for the row lock; so its commit rejects them all. `approveQuote` takes no lock, and
  nothing of the kind holds of it.
* `OrdersKeepContract`: `Spec => KeepsContract`. Each step that grows a timeline or returns
  money is one that `OrderContract` allows (`RefundIsAReturn`, `CaptureIsACapture`,
  `ContinueKeepsContract`), every other step changes nothing the contract sees.

For `Otp`, from `OtpAssumption` (`None` is no address, the workers are finitely many, at
least one attempt is allowed):

* `CodesTyped`, with what a handler carries at each statement in the inductive invariant.
* `UsedInv` keeps codes apart: a code that a handler is about to store is in no row, in no
  other hands and not used up. With it `UsedCodesAreGone`: a handler whose code was accepted
  knows whose code it is (`SpentInv`), so its deletion takes the row that has the code.
* `CountsStayHonest`: a counter, and what a handler in flight read of it, never exceed the
  wrong answers the row got, although a slow handler may set the counter back.
* `WrongAnswersAreBounded`: a row takes at most C(`MaxAttempts` + n, n) - 1 wrong answers
  with n handlers, because each can write back a counter it read before. The invariant
  (`BudgetInv`) looks at what each handler can still bring the counter down to (`Lowest`)
  and, for each distance t from `MaxAttempts`, at how many can no longer bring it back to
  that distance (`Budget`). A counted answer adds one at some place of the budget, at the
  cost of the places before it at most; `Binomials` shows that such a budget affords fewer
  than the binomial number (`AffordsOneMore`, `AffordsBounded`, by Pascal's rule). TLC
  checked `BudgetInv` on the instance of `codes` before it was proved. `Binomials` proves
  by a least counterexample what is usually an induction, since the rule of induction is
  stated for an operator.
* `UsedCodesTookEffect`: a handler that is about to delete the rows got there by making
  the account, replacing the password, or finding the account.

For the back office, from `UploadAssumption`, `PricingAssumption`, `OpsAssumption` and
`MailAssumption` (numbers are natural, sets that are counted are finite, absent values are
no values):

* `AllowanceHolds`: the files stored are at most those counted, those nobody will count and
  those about to be counted; a handler that passed the check found less than the allowance,
  so counter and handlers in flight together stay below allowance + handlers
  (`AllowanceInv`).
* `PricesKeepTheOrder` from lemmas on rounding (monotone, within half a
  unit), on fees with limits and on freight; `SettingsStay` because a row, once there, is
  only written with what staff entered.
* `InvitationsStayGood`: temporary passwords are kept apart, so the password mailed is the
  one inserted. `DisablingKeepsSomebody` is an action property: the caller of a disabling is
  never its target, so a caller who still may manage accounts remains.
* `QueueIsADelivery`: the initial states map to initial states, every step to a step of
  `MailDelivery` or a stutter, because every mail is in at most one place, and none on its
  way was taken before (`PlacesInv`).
* `PartsKeepApart`: whichever part moves, the others stand still, so a behaviour of the
  composed `Spec` is one of each part. With it `BackOfficeTyped` and `BackOfficeIsSafe`
  state for the specification that TLC runs what was proved of each part.

Every invariant and every action property that a run checks and that is expected to hold is
stated by a theorem. Only model-checked are the liveness properties: `HandlersEnd`,
`LockEnds`, `StaleListEnds`, and the half of `KeepsDelivery` that every mail is decided.
They rest on fairness, hence on ENABLED, which is out of the prover's reach. The other half
of `KeepsDelivery` is `QueueIsADelivery`.

## 5. Not modelled, and why

* **Teams, `marketplaceEligible`, names and descriptions of roles**: shown to
  staff, and read by no other operation.
* **Audit log and staff notifications** (`OpsAuditLog`, Notification rows): written after
  the fact; no handler decides anything on them.
* **Serializers, DTOs, mail templates, PDF receipts**: formatting and validation without
  state. Inputs the DTOs reject never reach a modelled handler.
* **Health, metrics, start-up, the seed script**: no state others depend on. Of start-up
  only "production has a Paystack secret" is used, of the seed that it
  makes the two system roles and an administrator.
* **Captcha, throttling by address, cookies, the check of a request's origin**: they turn
  calls away or carry a session, and keep nothing the properties are about.
* **Storage and images**: I/O. `Uploads` keeps whether a file was stored; `storeImage` is
  called from nowhere.
* **Searches of the catalog**, which bypass its cache.
* **Floating point**: `Pricing` is exact. That the totals computed in `number` are the
  same is not shown.
* **States without a promise**: an order whose refund stays pending for ever, a pending
  refund written over one that was made, a second charge that nobody returns, two accepted
  quotes (two approvals, or an approval and a find, between the statements of another
  approval), a sent find that names a quote a re-quote deleted, a find rejected and approved
  at once, a product from the store whose freight and fees are added to a price that has
  them. The models reach them;
  the repository says nothing about them that could be checked. They are listed as hazards
  with that note.
