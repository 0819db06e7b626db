# The Carat Room in TLA+

Specifications, model-checking runs and machine-checked proofs for this
repository: an online auction house built from Node.js services over Postgres,
Redis (BullMQ jobs, a bid lock) and RabbitMQ, with two Next.js portals in front.
They are written from the code under `src/`; `PROJECT.json` maps every
definition to the lines it stands for.

## 1. The system

### 1.1 Components

| component | state it keeps | operations that change it |
|---|---|---|
| **auction-engine** (`apps/auction-engine`) | per lot: the event stream `auction_events` (unique `(lot_id, sequence)`), the read model `lot_status` and `bids`; in Redis: the key `bid-lock:<lot>` (5 s) and BullMQ jobs `start-<lot>`, `close-<lot>`, `closing-soon-<lot>`; in memory: open event streams of browsers | `POST /api/auctions` (schedule), `POST /api/auctions/:lotId/bids`, the timer worker's start, close and closing-soon jobs |
| **payment** (`apps/payment`) | `invoices`, `payment_events`, `payment_profiles`, BullMQ expiry jobs | consumer of `auction.closed` (create invoice), checkout session, Stripe webhook, saved card, expire, cancel, extend, setup intents |
| **shipping** (`apps/shipping`) | `fulfilments`, addresses, collection slots | consumer of `payment.received` (create), choose shipping or collection, mark dispatched or collected |
| **user-auth** (`apps/user-auth`) | users, refresh tokens, verification tokens and one-time codes | register, log in (password, Google), refresh, log out, verify e-mail and phone, identity documents, approve, suspend, reinstate, update, set a password |
| **catalogue** (`apps/catalogue`) | lots, images (rows, and files in R2), categories | update, link an auction, request and confirm an upload, reorder, delete images, create and delete categories |
| **notification-service** (`apps/notification-service`) | a log of letters sent | one consumer per event: look up, render, send, log |
| **user-portal** (`apps/user-portal`) | per window: access token, claims, page and dialog; per browser: the cookies `carat_refresh` and `carat_google_oauth_state` | signing in, registering to bid, bidding, watching a lot, paying, choosing how the item travels |
| **admin**, **admin-portal** | enquiries (admin); what a page shows (portal) | a proxy that enriches answers, and the admin's pages |
| **packages/** | the publisher's channel (`shared-events`), rate-limit counters in Redis, applied migrations | publish, subscribe; JWT checks; migrations at start-up |

Money and goods move along one chain: the engine closes a lot and publishes
`auction.closed`; payment creates an invoice, and when it is paid publishes
`payment.received`; shipping creates a fulfilment; notification listens to all
of them. Every hop is a RabbitMQ topic message on `carat.events`, published
without confirms, after and apart from the database write it reports, and
consumed with `nack(requeue = false)` on failure. Nothing is transactional
across two statements unless said so.

### 1.2 What is hard, and what should hold

* **auction-engine.** Every handler is *load, decide, append, project, publish,
  reschedule*, with other handlers running at every `await`. Bids of a lot hold
  a lock that may expire under them and is deleted by whoever releases first;
  scheduling, starting and closing hold none. An append is several INSERTs.
  Jobs are keyed by name, tried once, and cannot be removed while running; the
  process may die between any two awaits. *It should hold* that the stored
  history is one the auction rules produce, that bids rise, that a sale goes to
  the highest bid at its price, that a verdict stands and is announced once,
  that bidders are told the truth on every page, that an auction ends.
* **payment.** Use cases read an invoice, await Stripe, and write the whole row
  back unconditionally; a page whose answer is lost is loaded again. *It should
  hold* that a lot has one invoice, a paid invoice names money that was taken,
  a card is charged once, and that `payment.received` follows.
* **shipping.** Read, check, save on one row and then another table; creation
  has no duplicate check. *It should hold* that a paid invoice has one
  fulfilment, that what is handed over was chosen and has an address or slot.
* **user-auth and the browser.** Whole-row saves of users by concurrent
  requests; token rotation by check-then-revoke; windows that share a cookie
  and hear answers in any order; claims believed until they expire. *It should
  hold* that a suspension lasts until it is lifted, a login is one token, codes
  are limited, and only approved bidders bid.
* **catalogue.** Whole-row read-modify-write of a lot with its images, and an
  uploader that goes by its own calls' answers. *It should hold* that the
  images stay numbered, with one primary, and that no admin's change is undone
  by another's.
* **notification-service.** Several letters per message, each of which may
  fail; a failing message is dropped. *It should hold* that the log is true and
  nobody is silently forgotten.

`PROJECT.json` lists the hazards one by one, at their lines, with the
properties that cover them; those without properties name the reason.

## 2. Plan

| step | modules | what | state |
|---|---|---|---|
| 1 | `AuctionAggregate`, `TimerJobs`, `AuctionEngine`, `AuctionProperties` | the auction engine's command side for one lot | done |
| 2 | `AuctionBook`, `AuctionImplementsBook` | the auction as bidders understand it, and that the engine implements it | done, proved |
| 3 | `AuctionQueries`, `AuctionPages`, `ScheduleForm`, `LotPage` | what bidders and admins read of an auction, the event streams | done |
| 4 | `Payment`, `InvoicePage` | one lot's invoices, and the pages that call for them | done |
| 5 | `Shipping`, `Sale` | fulfilments, and the chain closed → invoiced → paid → fulfilled | done |
| 6 | `Accounts`, `SavedCards`, `Portal` | an account, its saved card, and the browser in front of both | done |
| 7 | `Catalogue`, `LotEditor` | a lot's images, status and category, and the admin's page | done |
| 8 | `Notifications` | who is written to | done |
| 9 | `AuctionInvariant`, `AuctionProofs`, `AuctionToldProofs` | the engine: what handlers may believe, what the store remembers, the refinement, what others are told, the timers, what the pages say | proved |
| 10 | `PaymentProofs`, `SaleProofs` | the payment service; the sale implements it; one fulfilment per payment; what the card is charged | proved |
| 11 | `ShippingProofs`, `NotificationProofs` | shipping and the mailer | proved |
| 12 | `AccountProofs` | accounts, saved cards and the browser: `NothingLost`, `OneSession`, `CodesBounded`, `CardOfCustomer`, `BidderApproved`, `CookieLive` | proved |
| 13 | `CatalogueInvariant`, `CatalogueProofs` | a lot's images and the admin's page: `ImagesSound`, `LotKept`, `UploaderAgrees` | proved |

## 3. Modules

In every module an action is one `await`: the call and the synchronous code
after it. A handler's locals are a record whose `pc` says what it awaits next.
Definitions whose comment begins with "Fault:" are deliberate mistakes (a
dropped guard, a swapped order), each next to the definition it corrupts; no
action uses them. They are there to show that the properties notice.

### The auction

* **`AuctionAggregate`** is `domain/auction-aggregate.ts`: the aggregate, its
  events, `applyEvent` (`ApplyEvent`), and the decisions `placeBid` (`Refusal`,
  `PlaceBid`, `IsLate`) and `close` (`Close`). Pure operators, no variables.
  Dates are minutes and amounts integers; `startAt`, which nothing reads back,
  is left out, and `AuctionCancelled` too, since `main.ts` discards the cancel
  handler.
* **`TimerJobs`** is one delayed BullMQ job as the engine and payment use it:
  added unless its id is known, due, removed unless a worker holds it, put back
  once after a stall.
* **`AuctionEngine`** is one lot under `apps/auction-engine`.

  | variables | code |
  |---|---|
  | `log`, `replay` | `auction_events`; `replay` (history) is the aggregate after each prefix, what any handler would load |
  | `lock` | the Redis key; its holder is history (the value is always `'1'`) |
  | `request[b]` | one `POST /bids` and the locals of `PlaceBidCommandHandler.execute`: `base` is `agg.sequence`, `todo` is `agg.uncommittedEvents`, `done` the loop index |
  | `admin` | one schedule request at a time (`ScheduleAuctionCommandHandler`) |
  | `worker`, `jobs` | the BullMQ worker (concurrency 1) with the start and close handlers, and the jobs by id |
  | `row`, `bidRows` | `lot_status`, `bids` |
  | `announced`, `notified` | `auction.closed` and `auction.bid.placed` messages handed to RabbitMQ |
  | `now`, `schedules`, `crashes` | the clock and the counters of the bounds |

  | actions | code |
  |---|---|
  | `Arrive`, `Acquire`, `Load`, `AppendBid`, `ProjectBidRow`, `InsertBidRow`, `PublishBid`, `RemoveClose`, `AddClose`, `Release` | the bid route and handler in the order of its awaits; every failure leaves through `Release`, the `finally` block |
  | `ScheduleLoad`, `ScheduleAppend`, `ScheduleProject`, `ScheduleStart`, `ScheduleClose` | the schedule handler |
  | `TakeJob`, `WorkerLoad`, `WorkerAppend`, `WorkerProject`, `PublishClosed`, `FinishJob` | the timer worker with the start handler (no check of the status) and the close handler (returns early on a terminal one) |
  | `ExpireLock`, `RecoverStalled`, `Crash`, `Tick` | the key's 5 s, BullMQ's stalled check (put back once, then failed), the process dying between two awaits, the clock |

* **`AuctionProperties`** states what the engine owes.
* **`AuctionBook`** is the abstract auction: list, open, offer, prolong,
  settle, each one indivisible step on the current state. It translates no
  code. **`AuctionImplementsBook`** maps the engine to it: the book is what the
  stored events replay to, so an INSERT is a step of the book and everything
  else a stutter.
* **`AuctionQueries`** are the GET routes' SQL queries as operators over `row`
  and `bidRows`, **`AuctionPages`** what "My Bids", the bidder's dashboard, the
  admin's auction list, live figures, bid history, dashboard and three reports
  make of the answers, a lookup that fails included. No variables of its own.
* **`ScheduleForm`** says which terms an admin can submit: what the form takes
  (`FormEntries`), what its schema and the BFF let through (`ValidEntry`,
  `Forwards`) and what the engine's route makes of it (`RouteTerms`).
  `MCAuction` assumes, and TLC evaluates, that the runs' schedules are among
  them and that all of them are such as the theorems assume.
* **`LotPage`** is the page of a lot and the engine's event stream: `lot` (its
  row), `page` (the client component's state), `stream`, `wire` (the
  `EventSource` and what is on its way), `call` (bids and the close job). Its
  actions are `Load`, `Connect`, `Disconnect`, `Dispatch` (an event reaches the
  hook), `EnterLiveRoom`, `PlaceBid`, `TakeBid`, `Start`, `Close`, `ReadRow`
  (the row is read after an await, for the broadcast) and `Tell`. How the
  engine comes to its row is `AuctionEngine`'s.
  **`LotPageProperties`** says what an open page should hear.
* **`AuctionInvariant`** holds the inductive invariants; **`AuctionProofs`** and
  **`AuctionToldProofs`** the theorems (section 5); **`MCAuction`** the instance
  for TLC.

### The sale

* **`Payment`** is one lot under `apps/payment`. Every handler (the consumer of
  `auction.closed`, each HTTP call, the expiry worker) is an entry of `task`
  with the locals it holds: `seen` is the `Invoice` it has read. What each use
  case awaits, in order, is its flow (`CreateFlow`, `CheckoutFlow`,
  `SavedCardFlow`, `WebhookFlow`, `ExpireFlow`, `CancelFlow`, `ExtendFlow`);
  each kind of await is one action, shared by the use cases that make it, as
  the repository, the scheduler, the Stripe adapter and the publisher are.

  | variables | code |
  |---|---|
  | `rows`, `events` | `invoices` (status, session, payment, due date), the unique `stripe_event_id`s of `payment_events` |
  | `task`, `jobs` | the handlers and their locals; BullMQ's `expiry:<invoice>` jobs |
  | `closed`, `received` | `auction.closed` messages not yet acknowledged; history: `payment.received` messages sent, by payment |
  | `payment` | at Stripe: the session or charge each call has made |

  | actions | code |
  |---|---|
  | `Arrive`, `WebhookArrives`, `Deliver`, `TakeJob` | the routes, the webhook route, the subscriber, the worker |
  | `FindLot`, `Check`, `Find` | `findByLotId`; `isPaymentEventProcessed`; `findById` and the use case's conditions |
  | `OpenSession`, `Charge`, `PayOnPage` | Stripe |
  | `Save` | the unconditional whole-row upsert; `Written` is the row each use case writes |
  | `Record`, `Remove`, `Add`, `Publish` | `savePaymentEvent`, `cancelExpiry`, `scheduleExpiry`, `publish` |
  | `Settle`, `FinishJob`, `RecoverStalled`, `Crash`, `Tick` | ack or nack, the end of a job, a stalled job, the process dying, the clock |

* **`InvoicePage`** extends it with who calls: the winner's page (`page`, with
  buttons disabled while a call is under way, `Answered`, `Reload`), the
  admin's (`AdminActs`), and the history `reloads`, `extends`.
* **`Shipping`**: `fulfilments`, `details` (addresses and slots), `call` (the
  four HTTP calls: `Find`, `Save`, `SaveDetail`), `creating` and `inbox` (the
  consumer: `Receive`, `CreateFulfilment`, `SettleMessage`), `offered` (the
  admin's open pages and the buttons on them), `Stop`; history: `dropped`,
  `torn`.
* **`Sale`** composes `InvoicePage` and `Shipping` (an instance): `Relay` puts
  what payment publishes in shipping's queue, `DeliverPayment` takes it out.
* **`PaymentProperties`**, **`ShippingProperties`** and **`SaleProperties`** state
  what is owed and, below a line, the inductive invariant behind it;
  **`PaymentProofs`**, **`ShippingProofs`**, **`SaleProofs`**;
  **`MCPayment`**, **`MCShipping`** (the sale needs no instance of its own).

### The person

* **`Accounts`** is one person under `apps/user-auth`: `user` (the row),
  `codes` (`verification_tokens`), `tokens` (`refresh_tokens`), `call`. As in
  `Payment`, a use case is its flow (`Flow`) over shared awaits: `Find`,
  `FindGoogle`, `FindEmail`, `VerifyPassword` (the hash, between reading the
  status and signing it), `Upload`, `Save` (whole row), `Count`, `SaveCode`,
  `Publish`, `FindCode`, `MarkUsed`, `FindToken`, `Revoke`, `SaveToken`; and at
  any of them a call may end with what it has written so far (`Fail`: a
  statement throws, or the process dies).
* **`SavedCards`** is one person's `payment_profiles` row (`profile`), the calls
  that set it up (`setup`), and the customers at Stripe (`known`).
* **`Portal`** composes both with windows of one browser: `tab` (page, step of
  its dialog, token and claims in memory, what it waits for), `cookie`,
  `oauth`, `asked` (each call and its answer on the way back). `WindowStep`
  lists what a window does: pages are loaded (`Load`, which loses the memory
  and every answer), signed in to (`HandleLogin`, `HandleRegister`,
  `OpenGoogle`, `Callback`, `Refresh`, `SignOut`), verified (`VerifyEmail`,
  `RequestCode`, `VerifyCode`, `SetPassword`, `SubmitIdentity`, `Poll`), given a
  card (`CardStep`), bid on (`PlaceBid`, `CheckCard`, `BidArrives`), and hear
  answers (`Hear`). `Valid` is `shared-auth`.
* **`AccountProperties`**, **`PortalProperties`** (with the inductive
  invariants), **`AccountProofs`**; **`MCAccounts`**.

### The rest

* **`Catalogue`** is one lot: `lot`, `images`, `files` (in R2), `categories`,
  `call`. `FindImages`, `DeleteObjects`, `SaveLot`, `BeginSave`, `Commit` and
  `Abort` are the statements and the transaction that the use cases
  (`Confirm`, `Delete`, `Reorder`, `Update`) share. **`LotEditor`** adds the
  admin's page in front of it: `page` (the uploader's own list), `asked` (its
  calls and their answers, heard in `PageHears` or lost in `PageMisses`) and
  the history `unheard` (the images of lost answers);
  **`CatalogueProperties`** and **`CatalogueInvariant`** for both,
  **`CatalogueProofs`**, **`MCCatalogue`**.
* **`Notifications`**: `handler` (each message and its promise), `letter` (each
  user's letter), `rows` (`notification_log`); `mails` is history. The ten
  handlers are three kinds: one letter to the address in the message
  (`Direct`), a look-up for each user (`ByUser`), one look-up for all
  (`Together`). **`NotificationProperties`** (with the inductive invariant),
  **`NotificationProofs`**, **`MCNotifications`**.

### Assumptions about what is not in the repository

* *Postgres*: a statement is atomic; a unique key rejects a second row; a
  transaction holds its row locks to the end. Where a module's constant says so
  (`DbMayFail`, `MayFail`, `MaxFailures`; in `Accounts` always) a statement may
  throw; elsewhere a process that loses its database is covered by the crash.
* *Redis*: `SET NX PX` is atomic and the key expires.
* *BullMQ* (defaults, as `bullmq-timer-scheduler.ts` and the worker use it):
  adding a known job id does nothing, even for a finished job; `remove` throws
  for a job a worker holds; one attempt; delayed jobs are taken by due time; a
  job whose worker died is put back once, later failed. Until its lock has run
  out, `remove` of such a job may or may not throw: both are modelled. The
  release that `pnpm-lock.yaml:466-468` pins rejects a custom job id with a
  single colon, as in `expiry:<invoice>` (`bullmq-expiry-scheduler.ts:24`):
  with `IdRefused` every `Add` of an expiry job throws. `sale` and `unexpired`
  run the service so, as it is shipped. `pay_race` runs it with
  `IdRefused = FALSE`, as an older release within the range `^5.12.0` of its
  `package.json`, or an id without a colon, would have it: only then are there
  expiry jobs for the other handlers to race with. The proofs are for both.
* *RabbitMQ*: `publish` delivers; or reports backpressure, which throws though
  the message is sent; or throws with the message lost. A consumed message is
  gone when it is acknowledged or rejected (`nack` without requeue, no
  dead-letter queue) and delivered again when the consumer dies first.
* *Stripe*: a call makes its session or charge, or throws; a charge that throws
  may have been made. A session whose URL was handed out can be paid at any
  time; a webhook for it comes any number of times, also concurrently. A card
  is attached to the customer of its setup intent and charged for no other.
* *Resend and Twilio* take a letter or throw. *R2* deletes, throws, or throws
  although it has deleted.
* *The browser*: answers of two windows come in any order; a page load drops
  what the page was waiting for, while the call goes on; a call that did its
  work may be heard of as failed, because a service or the portal died or a
  connection broke (in `Portal`, `LotEditor` and `Sale`); an `EventSource` hands
  a named event to listeners of that name only.
* *The clock of the payment model* runs to `MaxTime` and on as long as a job
  waits for it, so that the bound hides no due date.

## 4. Runs

| run | question | bounds | properties |
|---|---|---|---|
| `race` | what may interleave at the engine's awaits, the lock lost, the process dead or the broker failing included? | 2 bids of 2 users, amounts 1 and 2, 1 minute, lock may expire under its holder, 1 crash, publish may throw; 1.2 M states | `LawfulHistory`, `BidsRise`, `OutbidNoticeTrue`, `AnswersTrue`, `AnnouncedOnce`, `ReadModelSound` |
| `relist` | what if a lot is scheduled again, at any moment; has it its timer, and what do the pages say? | the same bids, 2 schedules, 1 minute, nothing fails; 0.5 M | `EngineSound`, `VerdictStands`, `SaleToHighest`, `PagesAgree`, `OpenHasTimer`, `ImplementsBook`, `HighestNeverFalls`, `ExtendsForward` |
| `live` | does everything that was begun end? | 2 bids of 1 user, 2 minutes, `FairSpec`, no crash; 51 K | `RequestsAnswered`, `LotProgresses` |
| `pay_race` | what may the handlers of one lot's invoice do to each other? | 3 calls of any of the 5 kinds, consumer, worker, 2 ids, 1 crash, failing Stripe, queue and broker; due after 1, extended to 2; 2.3 M | `PaymentSound`, `OneInvoice`, `PaidMeansPaid`, `ReceivedOnce`, `SettledStands` |
| `sale` | does a paid winner get the item, and pay once? | 2 calls of any of the 5 kinds, 1 reload, expiry jobs refused, Stripe and shipping's database may fail, shipping stops twice, `FairSaleSpec`; 55 K | `OneFulfilment`, `ChargedOnce`, `FulfilmentFollows` |
| `ship` | may something be handed over that was not chosen or described? | 2 calls, 2 fulfilments, 2 winners and the admin, 1 stop, failing statements; 3.2 M | `DetailsKept`, `HandedOverStands` |
| `accounts` | what may an account, its codes and its tokens lose; which token and card does a browser end up with, and who may bid? | 2 calls, 2 windows, 2 customers, 3 codes, 3 tokens, clock to 2, 1 mishap (a page loaded again, a failing call or a lost answer), the 14 groups of `MCGroups` (below); 2.0 M | `CodesBounded`, `OneSession`, `CookieLive`, `CardOfCustomer`, `NothingLost`, `BidderApproved` |
| `catalogue` | what do two calls do to a lot's images, and what does the admin's page show of them? | 2 calls, 2 images, 1 category, a page; R2 and transactions may fail, answers get lost; 4.2 M | `ImagesSound`, `UploaderAgrees`, `LotKept` |
| `notify` | who is written to when calls fail and the process dies, and is every message done with? | 3 messages (a lot closing, to 2 users; a bid that outbids one of them; a code), 2 failures, 1 crash, `FairSpec`; 1.6 M | `LogTruthful`, `NobodyForgotten`, `MailedOnce`, `MessagesSettle` |
| `unclosed` | does an open auction get its verdict? | 1 bid, `FairSpec` | `OpenCloses`, violated |
| `unexpired` | does an invoice that nobody pays end? | 1 call (checkout, saved card, cancel), expiry jobs refused, nothing else fails, `FairSaleSpec` | `AwaitingSettles`, violated |
| `unheard` | does an open page hear that its lot closes? | 1 page, 1 bid, no broken connection, `FairSpec` | `HearsVerdict`, violated |

### Why the bounds are enough

* *Auction.* Amounts 1 and 2 stand against an increment of 1 and a reserve of
  2; the auction lasts one minute and so does its window, so that a bid at
  minute 0 is in time and one at minute 1 is late and extends the end. Two bids
  suffice for one to overtake, race, follow or tie with the other and for the
  lock to pass from one to the other; two users for outbidding oneself and
  somebody else. `live` has a second minute, for the jobs that follow an
  extension. In `race` a lock is lost before the crash or not at all
  (`OneFault`): after it TLC would go through the same handlers once more.
* *Payment.* Three calls are a session, its webhook and one more actor, or
  three rivals of any kind; two invoice ids let a second invoice appear if the
  code let it. In `sale` the two calls are the charge and a rival, or the
  charge and the one after a reload.
* *Shipping.* Two calls are any race of a choice or a hand-over with another;
  a second fulfilment is what a message delivered twice makes.
* *Accounts.* Over one row any two calls race. Of all pairs of the calls and
  pages together TLC would not finish, so each behaviour makes the calls of one
  group: of `MCServed`, the admin's with the profile's; suspension with a Google
  sign-in and with the phone; registration with its proofs; the four ways a
  token is made, rotated and revoked; or, of `MCOpened`, those of pages, in one
  window (a login, a bid and a suspension among them) or, in the four groups of
  `MCCrowded`, in two (two that refresh or sign in, one that registers to bid
  and one that is approved, two that prove one phone). Groups
  are sets of calls or pages that meet in one row, cookie or profile; what is
  left out by them is a race of three. `MAX_ATTEMPTS` is 1 and a code's, an
  access token's and the lockout's time is 1, so that each runs out within the
  clock's bound of 2.
* *Catalogue.* Two images are enough for a position to be repeated or missing
  and for two to claim to be primary. The run stops (`UntilOutdated`) when a
  call has saved images with another's write since it read them: from then
  on `ImagesSound` and `UploaderAgrees` promise nothing, because that is the
  loss this code has; `LotKept` says when it may happen. The exemption is wider
  than the loss: a write counts even if it changed nothing that the call holds.
  `PageOrCategory` keeps apart what meets in no row: while there is a category
  the page neither shows an image nor has missed an answer.
* *Notifications.* The three messages are one of each kind of handler; two
  failures hit two letters of one message or a letter and its log entry.

`CHECK_DEADLOCK` is off: when every request is answered, the jobs have run and
the clock is at its bound, the modelled system has nothing left to do. Symmetry
(users and bids; invoices and calls; windows, calls and customers; images and
calls) is used in the passing runs without liveness properties.

### What they show

* **The optimistic append carries the engine** (`LawfulHistory`,
  `ImplementsBook`). However the handlers interleave and whether or not the
  lock still holds, every stored event is one the aggregate would decide on at
  the very place it is stored: the unique key, not the lock, is what makes the
  engine an auction. `BidsRise`, `SaleToHighest` and `VerdictStands` are what
  bidders and sellers see of it. `VerdictStands` says exactly how much the code
  gives: after a verdict no bid is taken before the lot is started again.
* **Answers and notices are true** (`AnswersTrue`, `OutbidNoticeTrue`): an "ok"
  means stored, projected, notified, with its extension; a refusal means
  nothing stored. An error means nothing: the bid may be stored.
* **The pages agree** (`PagesAgree`): once the projections have caught up, the
  bidders' pages, the admin's pages and the reports tell one story, although
  they are made of two tables by eight queries, and it is the stored one.
* **Announcements** (`AnnouncedOnce`): an `auction.closed` message repeats a
  stored verdict, and no verdict is announced twice, over crashes and retries.
* **The read model** (`ReadModelSound`) is never ahead of the store. That the
  highest bid in it never falls (`HighestNeverFalls`) holds while the lock
  outlives its holder's handler.
* **Timers** (`OpenHasTimer`, `LotProgresses`): without crashes an open lot
  always has a close job or one about to be added, whatever the broker does;
  and, if the broker does not fail either, a scheduled lot starts and gets its
  verdict *or its close job fails*. The last disjunct is real: `unclosed`.
* **Extensions** (`ExtendsForward`) move the end forward for schedules whose
  extension is as long as the window, as the engine's defaults are. The code
  computes the new end from the bid (`auction-aggregate.ts:161`), so a shorter
  extension, which the admin form admits, brings the end forward in time.
* **Money** (`PaidMeansPaid`, `ReceivedOnce`, `ChargedOnce`): whatever rows are
  written back, an invoice is `PAID` exactly when it names a payment whose
  money was taken for it, and no payment is announced twice: the unique
  `stripe_event_id` carries that, not the check at the top of the webhook. One
  charge per invoice is the work of the page's disabled buttons and the
  service's check together, and lasts until the page is loaded again.
* **One invoice** (`OneInvoice`): with one consumer and prefetch 1, a message
  that is redelivered makes no second invoice. There is no key behind it.
* **Settled invoices** (`SettledStands`) are final for everybody who reads them
  settled. They are not final: a handler that had read the invoice before
  writes its old row over them.
* **The chain** (`FulfilmentFollows`, `OneFulfilment`): a charge leads to a fulfilment unless Stripe's
  answer or the message was lost; a second fulfilment needs a crash of the
  consumer.
* **Hand-over** (`DetailsKept`, `HandedOverStands`): a chosen fulfilment has
  its address or slot unless a choice of it failed or is between its two
  statements; the service never compares method and hand-over, the admin's buttons do.
* **Accounts** (`NothingLost`, `CodesBounded`, `OneSession`): each states what
  whole-row saves and check-then-act leave: a phone, password, Google link or
  suspension is lost only in the overlap of two calls, or because the status is
  set by a proof of phone or identity; codes exceed their limit by the calls
  that had counted already; a login is one live token unless two calls held the
  same one.
* **The browser** (`CookieLive`, `BidderApproved`, `CardOfCustomer`): the
  shared cookie names a live token unless a refresh or sign-out had revoked it
  and then failed, or its answer was lost or dropped by a page load; whoever
  bids was approved less than a token's life ago, or was then being signed in by
  a login that had read so before it compared the password; the row's customer
  is the one the card was attached to unless two windows found no row.
* **Images** (`ImagesSound`, `LotKept`, `UploaderAgrees`): numbered, one
  primary, each with its file, and the uploader differs from the lot in exactly
  the images whose call was committed and its answer lost, as long as no call
  saved the lot with another's write since it had read it.
* **Letters** (`LogTruthful`, `NobodyForgotten`, `MailedOnce`,
  `MessagesSettle`): the log claims no letter that was not taken; a message
  acknowledged has an entry for each user; only a crash repeats a letter.

Several of these properties exempt a loss that the code has instead of catching
it: a stale row written back (`SettledStands`, `HandedOverStands`,
`NothingLost`, the images), a token held twice (`OneSession`), two first
setup intents (`CardOfCustomer`), a lock that was lost (`HighestNeverFalls`), a
short extension (`ExtendsForward`). What they show is that nothing else does the
same damage; the hazards' notes say so one by one.

The three violations are disagreements between documents under
`docs/superpowers` and the code; `PROJECT.json` quotes them under "findings".
`unclosed`: one bid stored between the close handler's load and its append
makes the job fail for good. `unheard`: the stream names its events, and the
page listens for unnamed ones. `unexpired` (`AwaitingSettles`):
plan 05 promises that a delayed job expires what is not paid, and as shipped
BullMQ refuses that job's id, after the invoice was saved: the message is
rejected, and an invoice that nobody pays or cancels waits for ever. With
`IdRefused = FALSE` the property holds on that instance.

### Fairness

Every fair specification assumes that a handler that has begun goes on (the
event loop; the client libraries answer or throw), that workers take ready jobs
and BullMQ recovers stalled ones (their loops), that the broker delivers, that
the lock's key expires and clocks run. Nobody has to bid, schedule, call, pay,
reload, crash or deliver a webhook. Weak fairness is enough: each of these
steps stays possible until it is taken. `AuctionEngine` and `Notifications`
state it per handler or message; `LotPage` adds that a stream is opened again
and the browser dispatches what arrives. `FairSaleSpec` has one condition for
each service's own steps and one for the bus: every handler is a few steps
long, so that none keeps another waiting for ever.

## 5. Proofs

Eight modules prove what follows for every set of users, bids, calls, invoices,
payments, messages and so on, for every value of the bounds, and with the
crashes, lost answers and failures the specifications have. Nothing is assumed
but the named assumptions on the constants (`NoneAssumption`, `AmountsAssumption`,
`PaymentAssumption`, ...): that distinct things have distinct names, that
amounts are positive (the router refuses others), that times and bounds are
naturals. Four theorems have premises of their own, named below, which the code
or its settings may or may not meet: `ExtensionsGoForward`,
`HighestNeverFallsUnderLock`, `OpenAlwaysHasTimer` and `PagesAlwaysAgree`.

Every safety theorem follows one scheme. The property is not inductive: what it
says now rests on what some handler had read several awaits ago. So the module
with the properties (for the engine, `AuctionInvariant`) states what each
handler, at each place between two awaits, may still believe of what is stored;
this holds initially, each action has a lemma that says it keeps its own part
and disturbs nobody else's, and the property is a conjunct or follows.

### The engine

* **`HandlersSound`** (`AuctionProofs`; gives `TypeOK`, `LawfulHistory`).
  `LawfulHistory` alone is not inductive: an append must be known to carry a
  decision taken on a prefix of the store that is still there. So `replay` is
  the replay of `log` (`ReplayInv`); a bid handler past its decision holds what
  `PlaceBid` decides on `replay[base + 1]`, and the events it has appended stand
  directly behind that prefix (`BidInv`); likewise the schedule request
  (`AdminInv`) and the worker (`WorkerInv`). An INSERT that the unique key lets
  through then finds exactly the prefix, plus the handler's own events
  (`LawfulNext`, `LawfulInsert`), and nobody else is disturbed
  (`OthersSurviveInsert`).
* **`HistoryKept`** (`AuctionProofs`; gives `BidsRise`, `SaleToHighest`,
  `VerdictStands`, `ExtendsForward`). Those properties compare an event with all
  events before it, which the aggregate at one place does not show. For every
  prefix: the aggregate's highest bid is the last and highest bid stored
  (`LeaderKept`); a status that is open, or not final, was brought about after
  every verdict (`PhaseKept`); the extension is as long as the window if every
  schedule's is (`EvenKept`). `ExtensionsGoForward` has that as its premise
  (`LongExtensions`): the engine's defaults meet it, the admin form admits
  schedules that do not, and for those the property is false.
* **`EngineImplementsBook`** (`AuctionProofs`): `Spec => ImplementsBook`.
  Each INSERT is one step of the abstract auction; that the offer beats the best
  one and that a settlement names the right winner is what `LawfulHistory` and
  `LeaderKept` say at the place of the INSERT.
* **`ToldKept`** (`AuctionToldProofs`; gives `AnswersTrue`, `OutbidNoticeTrue`,
  `AnnouncedOnce`, `ReadModelSound`). Answers, messages and rows come awaits
  after the store has decided. A handler at each of its steps has told nothing
  yet and has stored so much (`ToldInv`); the verdict in the worker's hands was
  not announced (`WorkerToldInv`); and the row's counter plus the bids that are
  stored and still to be counted is at most the number stored (`CountInv`, over
  a finite set: it is what makes "never ahead of the store" inductive).
  `EngineSound` is all three together; the run `relist` checks it.
* **`HighestNeverFallsUnderLock`**: with `~LockMayExpire`, the premise under
  which the run `relist` checks it too. Then whoever is in a handler holds the
  lock (`LockKept`), so a bid that is stored and not yet projected is still the
  highest of all (`CeilingInv`), and its UPDATE cannot lower the row.
* **`TimerKept`** (gives `OpenHasTimer`; premises `MaxCrashes = 0` and
  `StartsFirst`). The close job is removed and added again, in two awaits, by
  every extension, so "there is one" is not inductive. What is: the worker holds
  the active job and no other is held (`JobsHeld`); before the start job has run
  no lot was ever open, and the close job is absent or delayed, due no earlier
  (`StartInv`); and a close job that is gone or done leaves somebody about to
  add one, or a lot that is not open (`CloseInv`). That a lot starts before it
  ends (`StartsFirst`) is the admin's form's demand, which `MCAuction`'s
  assumption checks of the form; the engine itself does not look, and for a lot
  that ends first the close job would run in vain. A crash between remove and
  add leaves no timer (hazards).
* **`StoryKept`** (gives `PagesAgree`; premises those, `~LockMayExpire` and
  `RaisesAsked`: every increment is positive, as the form demands). A bid is
  stored once and counted (`BidsOnce`, `CountKept`); every lot that was scheduled
  asks for a raise (`IncrementKept`); the start job is behind every verdict, so
  nothing is bid after one (`StartOnce`); a row that has counted every bid shows
  the highest, and one that is sold the winner of a stored verdict (`RowKept`,
  which needs `LockKept`). By `BidsRise` the last bid then is the one highest,
  so the leader that a query finds in `bids`, the highest in `lot_status`, the
  aggregate's and the verdict's winner are the same, and the sums that the pages
  make over users or over bids agree, by a bijection between the two.

### The sale

* **`PaymentSound`** (`PaymentProofs`; gives `OneInvoice`, `PaidMeansPaid`,
  `ReceivedOnce`, `SettledStands`). Rows are written back whole from copies of
  any age. What saves `PaidMeansPaid` is that a copy that will be written back
  was read awaiting payment (`CopyInv`) and that who writes `PAID` has a
  payment of this invoice in hand, which cannot be undone at Stripe; what saves
  `ReceivedOnce` is that `payment_events` holds what was recorded and only who
  recorded it, or made the charge, announces it (`AnnouncedInv`); what saves
  `OneInvoice` is that the consumer is one (`InvoiceInv`: while it is about to
  save there is no row). The run `pay_race` checks `PaymentSound`.
* **`SaleImplementsPayment`** (`SaleProofs`): `SaleSpec => Spec` of `Payment`.
  The pages only call, the bus and shipping leave the payment service alone; so
  all of the above holds in the sale (`SalePaymentSound`).
* **`SaleSound`** (gives `OneFulfilment`, in the composed system). For each
  payment, its fulfilments and its messages in shipping's queue together are at
  most what was announced, plus one for each stop, plus one while the message
  that has just led to a fulfilment waits to be acknowledged (`CreatedInv`);
  and no call, however old its row, turns a fulfilment into another payment's
  (`CallKeepsPayment`).
* **`ChargeSound`** (gives `ChargedOnce`, in the composed system). The code has
  no lock between reading an invoice and charging the card: what bounds the
  charges is the page, whose button is off while its call is out. `Spending`
  holds the calls that have charged and those that may still lead to a charge
  without the page waiting for them (an admin's extension, what went on behind a
  reload); their number, plus one while the page's own next or present call may
  charge (`PageMayCharge`), is at most one plus the reloads and the extensions.
  A charge moves the page's one chance into `Spending`; a checkout or an
  extension that writes the invoice back awaiting payment hands its own on; a
  reload or an extension pays for the call it adds. It needs `PaymentSound`: a
  call passes the first read only if some invoice awaits payment.
* **`ShippingSound`** (`ShippingProofs`; gives `DetailsKept`,
  `HandedOverStands`). `DetailDue(f, m)`, the detail of method m is stored, or
  a call is about to store it, or a choice was cut, is stable; every row, every
  old row in a call's hands and every button on an admin's page that relies on
  m has it. The proof found `Buttons` of `Shipping` written with two guards
  that overlap in a `CASE`, whose value TLC takes from the first and TLA+ leaves
  open; it is an `IF` now, as the page's early return is.

### The person

`AccountProofs`; all six properties hold of `PortalSpec`, the service behind the
browser. Assumed of the constants: the calls are finitely many (`CodesBounded`
counts them), the limit of codes is at least one, some token exists, and where
pages are open nobody presents a token from outside the browser
(`CookieAssumption`; the cookie is HttpOnly, and only `CookieLive` needs it).

* **`AccountSound`** (gives `NothingLost`, `CodesBounded`, `OneSession`) is the
  service's own invariant, for calls of any kind from anywhere. What the entity
  demanded of the row that was read holds of that copy until it is written
  (`CallInv`), so a whole-row save loses a setting only if the row has changed
  meanwhile. A login goes on with one live token or one refresh that has revoked
  it and not yet issued the next, and a call that is about to revoke a token is
  alone with it, unless the login is in `forked` (`LoginInv`). Recent codes and
  the calls that have counted them and not yet made theirs are fewer than the
  limit and the calls together (`RecentInv`): what expires only lowers it, and a
  call that is let through has counted fewer than the limit.
* **`BrowserInv`** is what the service needs of a browser: it presents only
  tokens that were issued. Each of the windows' many steps then is, for the
  service, one of four: a request arrives, a call goes on, time passes, nothing.
* **`CardInv`** (gives `CardOfCustomer`). Unless two windows had found no row at
  a time (`overlapped`), the row is made once and its customer stays, so what a
  window knows of the customer while it sets up the card is still true when it
  writes.
* **`ApprovalInv`** (gives `BidderApproved`). Claims of an approved bidder are in
  three places: in an answer on its way, in a window's memory, and in the render
  whose `placeBid` goes on; wherever they are, they expire by `approvedAt` plus a
  token's life (`Standing`). `approvedAt` is now while the person is approved,
  and while a login that has read so compares the password (`Compares`), since
  it signs what it has read whatever the admin does meanwhile; so that is so
  when claims are signed, and it never goes back. That a confirmation
  is the bid's own, and no late answer's, rests on a window doing one thing at a
  time (`WindowInv`).
* **`CookieInv`** (gives `CookieLive`). The cookie's token is live, or was given
  up, or some call that presented it will replace it (`Replaces`): a sign-out
  whose answer is on its way, a refresh once it has revoked its token. A token
  is given up (`abandoned`) by a page load that drops the answer, and by a call
  that had revoked it (`Spent`) and then fails or is not heard (`Tells`). That
  the replacement still works when it is heard of takes `Unheard`: a token on its
  way is live, and no call works on it. A call whose page is gone works on a token
  in `abandoned` (`Minded`).

### The mailer

* **`LettersSound`** (`NotificationProofs`; gives `LogTruthful`,
  `NobodyForgotten`, `MailedOnce`). Where a letter is says how often it was
  taken (at most once per delivery, so once more than there were crashes), that
  one about to be logged is one more than the log has, and that one that is done
  while its message may still be acknowledged is in the log. The letters of a
  rejected message go on; the invariant says so.

### The catalogue

`CatalogueProofs`; assumed of the constants: the images are finitely many (their
positions are compared with their number). `EditorRunsCatalogue` is the
refinement: the page and the other windows make the catalogue do nothing that
its own specification does not.

* **`EditorSound`** (`CatalogueInvariant`; gives `ImagesSound`, `LotKept`,
  `UploaderAgrees`). Rows are written back whole from copies read some awaits
  ago. A call whose copy is not `stale` is about to save exactly the images
  that will be listed when it is the next to save (`UpToDate`, `Expected`), and
  an image comes into the lot by the one call that confirms it (`BornOnce`). As
  long as no stale copy was saved, both the table and those copies are numbered
  and have one primary at most, and a missing file belongs to a deletion that is
  past it, or was cut (`LotSound`). Between the page's list and the lot there are
  then only answers on their way and answers that were lost: an image is shown
  exactly if it is in the lot, or the other way round if the answer was lost
  (`Heard`), unless one answer of success about it is on its way (`InTouch`), to a
  call that the page made itself (`AskedSound`).

### What TLC has checked of it

`EngineSound` and `PaymentSound` are invariants of the runs `relist` and
`pay_race`. The other inductive invariants were checked on the same instances
before they were proved, and the modules of those runs extend them: to check
`LockSound`, `TimerKept` or `StoryKept`, `EditorSound`, `ShippingSound`,
`SaleSound`, `ChargeSound`, `LettersSound`, or `AccountSound`, `BrowserInv`,
`CardInv`, `ApprovalInv` and `CookieInv` again, add it to
`MCAuction_relist.cfg`, `MCCatalogue_catalogue.cfg`,
`MCShipping_ship.cfg`, `Sale_sale.cfg` (with a call for shipping),
`MCNotifications_notify.cfg` or `MCAccounts_accounts.cfg`.

### What is only model-checked

* Liveness under fairness and ENABLED (`RequestsAnswered`, `LotProgresses`,
  `FulfilmentFollows`, `MessagesSettle`): out of the prover's reach.
* Induction over data: none of the proofs needs it. Where the code folds a list
  the model carries the fold as history (`replay`), so that one step of it is
  one action.
* Every invariant of a run that should pass, and every action property, is
  proved. `HighestNeverFalls` and `PagesAgree` need a lock that outlives its
  holder, and `OpenHasTimer` a process that does not die: without that the code
  breaks them, as TLC shows at once when the bound is changed. That `PagesAgree`
  too is proved without a crash is the proof's limit (a start job that is
  retried after the verdict reopens the lot, against `StartOnce`): with one
  crash TLC finds no counterexample on the instance of `relist`.

## 6. What is not modelled, and what was seen

### Not modelled, and why

* *Auction:* when the closing-soon job runs (it publishes and changes nothing);
  the cancel command, which no code path reaches; the rounding of amounts in
  `NUMERIC(12,2)`; limits and offsets; two processes of a service (the
  deployment runs one of each); more than one lot (lots share nothing but the
  worker's queue).
* *Payment:* amounts and currencies, webhooks of other types, the revenue
  report and the count of pending invoices (single reads).
* *user-auth:* rate limits, Turnstile, what a password hash is (its await is
  there), the 30 days of a refresh token, which no run could tell from a
  revocation.
* *catalogue:* search and facets (reads), linking an auction (one UPDATE of its
  own column), names and parents of categories.
* *notification-service:* subjects, templates, the log's list.
* *admin:* enquiries (single statements); *user-portal:* the watch list, for
  which there is no backend route; browsing and static pages.
* *packages:* loggers, metrics, types; `shared-rate-limit` refuses requests
  before the modelled handlers see them; `db-migrate` runs at start-up, one
  process at a time (an advisory lock), in one transaction.

### Seen while modelling, without a property

*Auction.* A crash between the append and the publish of the close handler
(`close-auction-handler.ts:23-25`) leaves the verdict unannounced for good. A
start job that is retried after the close reopens the lot
(`start-auction-handler.ts:16`). When a handler outlives its lock the highest
bid shown may fall (`redis-lock.ts:22`). `close()` does not compare the
clock with `endAt`: a job at the old end, after a failed publish skipped the
rescheduling (`place-bid-handler.ts:56-66`), closes an extended auction early.
A relisted lot whose jobs have run is not started, because BullMQ ignores the
known ids (`bullmq-timer-scheduler.ts:20`), and until then the highest bidder of
the old auction still reads "Leading". The bid history is ordered by
`placed_at`, which is taken before the lock. The admin's Cancel and Reschedule
call engine routes that do not exist.

*Lot page.* Broadcasts read the row after an await; no event tells of the
start; stream events carry no bidder, so that the page's "leading" and "outbid"
lines could not be right even if it heard them. After the phone has been
verified in its dialog, placing the bid again runs a closure of the old render.

*Payment and the invoice page.* Since every `scheduleExpiry` throws
(`unexpired`), an admin's extension saves the new due date and answers with an
error. A checkout writes `AWAITING_PAYMENT` over a row
that was paid or has expired meanwhile (`create-checkout-session-use-case.ts:35`), and
then nothing may end it; an admin's extension that races the expiry job (where
there is one) may leave an invoice waiting for ever, and one that races a payment reopens a paid
one. A session may be paid after its invoice expired or was cancelled, and an
invoice by two payments. A saved-card call that throws is answered with plain
text, and the page says "Processing..." until it is loaded again. The
won-lots and watch-list pages call routes that do not exist; live figures and
the won page crash on an error's body.

*Shipping.* `markDispatched` and `markCollected` ignore the method. The
publishers of `shipping.item.dispatched` and `.collected` are never used. The
winner's fulfilment page never reads what was chosen.

*Accounts and the browser.* `verifyPhone` leaves `PHONE_VERIFIED` while its
route answers "You are now an approved bidder" (`user-router.ts:232`).
Verifying a phone or sending an identity document ends a suspension, and takes
an approved bidder back to `PENDING_REVIEW`; the lot page sends approved
bidders without a card to `/register-to-bid?step=3`, where the step is ignored
and the load has lost the session. An admin's change of an e-mail address is
never saved. The lockout counts codes by their expiry. A registration that dies
after its save leaves no code; a refresh that fails or
dies between revoking and saving, or whose answer is lost, ends the session (the
cookie then names a revoked token); a sign-out whose answer is lost leaves the
revoked token there; signing out during a refresh leaves a live token or signs the
browser in again. Two tabs' Google sign-ins overwrite each other's state. The
page that waits for approval never renews its token. An admin's suspension during the password hash
of a login is not in the token, which lives for its full time. "New link sent" is shown
though the endpoint is missing. A failing setup intent leaves its button
disabled.

*Catalogue and its page.* An upload or a deletion whose answer is lost after the
commit leaves the uploader wrong about that image until the page is loaded again
(`UploaderAgrees` says of which images). Confirming an upload makes an inactive lot active and
forgets its auction. A file that is confirmed twice and deleted once leaves an
image without one. The uploader shows a new order before it is saved and does
not take it back, keeps positions that deletions have changed, shows no primary
after the primary was deleted, and says nothing when a deletion fails; nor does
the category tree.

*Notifications.* The letter for a lot that closed unsold is never sent: its
branch asks for a winner, and an unsold lot has none.

## 7. Running

In this directory: `tlc -workers 2 -config MCAuction_race.cfg MCAuction`, and
likewise the other configurations with the module they are named after
(`LotPage_unheard.cfg` with `LotPageProperties`; `Sale_sale.cfg` and
`Sale_unexpired.cfg` with `SaleProperties`); `tlapm AuctionToldProofs.tla`, and likewise the other
`...Proofs`. The largest runs take three to five minutes with two workers, the
proofs from nothing about as long for each module.
