# Models and proofs of the HPL back office

The repository is the back office of a company that sells HPL panels: a NestJS
service over PostgreSQL (Prisma), with BullMQ queues, cron jobs and a Telegram
bot. This directory holds TLA+ models of its core, the TLC configurations that
check them on small instances, and theorems about them with proofs that TLAPS
checks.

## The system

| Part | State it keeps | Operations | What is hard about it |
| --- | --- | --- | --- |
| Stock ledger, `inventory.service.ts` | `StockBalance` (onHand, reserved, available, version), `StockReservation` rows, `ExpectedReceipt` with items and events | reserve, release, release expired, commit, receive, serve waiting orders, edit and cancel purchases | three numbers and a table must agree under five writers; errors caught in the middle of a transaction; optimistic versions |
| Reservation jobs, `reserve-ttl.task.ts`, `inventory-cron.service.ts` | none of their own | hourly cancellation, release every ten minutes | race with payments, deliveries, cancellations and each other |
| Client orders, `orders.service.ts` | `Order`, `OrderItem`, `Payment`, `Delivery` | create from deal, record and confirm payments, deliver, cancel | maker-checker, partial deliveries, statuses rewritten by jobs |
| Deal completion, `deal-completion.*.ts` | `Deal.completedAt`, installation job | `tryFinalize`, called by four handlers | four events in any order |
| Installation jobs, `deal-installation.service.ts` | assessment, schedule, supervisor's confirmation | schedule, assess, confirm | the confirmation may come before delivery and payment |
| Deals, `deals.service.ts`, `deal-loss.service.ts` | stage, items, offers, totals | create, items, offers, change of stage, loss | stage read before it is written |
| Supplier orders, `supplier-orders.service.ts` | `SupplierOrder` status and dates, reminders | create, dates, ready, delivered to client, status, reminders | shipment only of paid deals; reminders sent once |
| Quotes, `quotes.service.ts` and its helpers | `Quote` status, versions, acceptance, finalization; `ExecutionHandoff` | create, status, terms, prices, finalize, next version, acceptance, conversion to a deal | versions and conversion happen once; the document is stored outside of the transaction that refers to it |
| Calculations, `calculations/` | `Calculation`, `CalculationRequest` | create, edit, approve, requests of managers | numbers and approvals |
| Leads, `modules/leads/` | `Lead`, qualification, notes, handoff | intake, qualification, assignment, loss, conversion | two users decide on one lead at a time |
| Engineering, `modules/leads/engineering/` | assignment of a lead, facade and installation calculations and commercial offers with revisions | assign, complete, return, revise, accept | one active engineer per lead; revisions compared on stale reads |
| Tasks, `modules/tasks/` | `Task` status and due date | create, complete, reschedule, cancel, escalate | escalation races with completion |
| Telegram intake, `integrations/telegram/` | idempotency records, webhook events, queue jobs | receive, process, reap, escalate, answer | at-least-once delivery, retries, duplicates |
| Pricing, `panels/` | rates, price tables | price of a panel | rounding, missing rates |
| Access control, `auth/`, users | roles, permissions, API keys, sessions | guards | - |
| Files, references, products, reports, audit, notifications | rows written by others | create, read, update, delete | mostly plain storage and queries |

Handlers call each other inside one database transaction: a delivery calls the
ledger (`commitReservation`) and the completion (`tryFinalize`); a receipt calls
the ledger for every waiting order; the jobs call the ledger and rewrite the
order. They share the rows of the database and nothing else.

## Modules

| Module | Models | Extends |
| --- | --- | --- |
| `Sums` | totals over the rows of a table (`Array.reduce`, SQL `_sum`) | |
| `DealCompletion` | the rules of `deal-completion.rules.ts`, pure functions of a snapshot | |
| `OrderStock` | stock ledger, client orders, payments, deliveries, purchases, both jobs, completion of warehouse deals; one action per handler, two where it works off a list | `Sums`, `DealCompletion` |
| `OrderStockTx` | the same handlers statement by statement, in concurrent database transactions | `Sums`, `DealCompletion` |
| `SupplierFulfilment` | supplier orders, readiness reminders and the completion of deals they fulfil | `DealCompletion` |
| `QuoteLifecycle` | the quotes of one lead: documents, versions, statuses, acceptance, handoffs, conversion to a deal; the steps of the lead and of the deal that race with them | |
| `TechnicalBasis` | abstract: what a technical calculation promises to the offers priced from it | |
| `EngineeringWork` | one lead between engineers: assignment, the technical calculations of facade and installation; implements `TechnicalBasis` for both | |
| `EngineeringOffers` | the commercial offers made from these calculations, and the quotes they go into | `EngineeringWork` |
| `LinePricing` | what a line costs: sheets, waste, prices and their rounding, as functions | |
| `CalculationRequests` | from a lead that is qualified to the quote of its calculation; currency rates | `LinePricing` |
| `TaskDesk` | tasks, and the readers that bring their status up to date | |
| `DealDesk` | lines, offers and stages of deals | `TaskDesk` |
| `LeadDesk` | leads and clients as users handle them | `DealDesk` |
| `TelegramIntake` | from an update of the Telegram bot to a lead with a manager; composes the desks | `LeadDesk` |
| `MCOrderStock`, `MCOrderStockTx`, `MCSupplierFulfilment`, `MCQuoteLifecycle`, `MCEngineeringOffers`, `MCCalculationRequests`, `MCTelegramIntake` | instances for TLC | the module after `MC` |
| `SumsTheorems` | laws of sums, proved | `Sums` |
| `OrderStockTheorems` | types, invariants and step properties of `OrderStock`, proved | `OrderStock`, `SumsTheorems` |
| `TransactionTheorems` | types, locks, waiting, goods and orders of `OrderStockTx`, proved | `OrderStockTx`, `SumsTheorems` |
| `SupplierTheorems` | those of `SupplierFulfilment`, proved | `SupplierFulfilment` |
| `QuoteTheorems` | those of `QuoteLifecycle`, proved | `QuoteLifecycle` |
| `EngineeringTheorems` | those of `EngineeringWork` and `EngineeringOffers`, with the refinement of `TechnicalBasis`, proved | `EngineeringOffers` |
| `CalculationTheorems` | those of `CalculationRequests` and `LinePricing`, proved | `CalculationRequests` |
| `IntakeTheorems` | those of the desks and the intake, proved | `TelegramIntake` |

### OrderStock

One action is one handler with its whole transaction, but for two handlers that list
rows first and write them later by id, where the state may have moved on in between:
the release job keeps what it has listed, with the quantities it read, in `expired`
(`ListExpired`, then `HandleExpired` for one row per transaction, which looks at the
row's status again but gives back the listed quantity), and a receipt keeps the waiting
orders it has listed in `passes` (`ListWaiting`, then `ProcessReceipt`, which reserves for
them and writes them whatever they have become). In the code the receipt has increased its
balances by then and holds them, which keeps some of what may come between away; the model
does not, so it allows more. The other variables are the tables: `balance` (`StockBalance`), `reservations` (rows per order and product,
oldest first), `orders` (an order goes by its deal, `Order.dealId` is unique),
`payments`, `receipts` (`ExpectedReceipt` with items and events) and `deals`
(stage, items, installation, completion). Two fields of an order are history and not
columns: `closedBy` (who cancelled it) and `late` (a receipt set goods aside for it when it
no longer waited for stock).

| Action | Code |
| --- | --- |
| `CreateFromDeal`, `ConvertStockOnlyQuote` | `OrdersService.createFromDeal`, the order made by `QuotesService.convertToDeal` |
| `AddPayment`, `ConfirmPayment` | the same names; a confirmation recomputes the paid amount and finalizes |
| `CreateDelivery` | `createDelivery` with `commitReservation`, `updateOrderShipmentStatus`, `tryFinalize` |
| `CancelOrder` | `cancelOrder` with `releaseReservation` |
| `CancelExpiredWaitingPayment` | `ReserveTtlTask`, one order per transaction |
| `ListExpired`, `HandleExpired` | `releaseExpiredReservations`: the listing, and one row per transaction |
| `CreateExpectedReceipt`, `UpdateWarehousePurchase`, `CancelWarehousePurchase` | the warehouse purchases |
| `ListWaiting`, `ProcessReceipt` | `processReceipt` with `processWaitingOrders`: what the pass lists, and the rest of the transaction |
| `ConfirmSupervisor`, `ChangeStage` | the events around the order that completion depends on |
| `Tick` | time, as far as the jobs read it |

Abstracted: quantities and money are natural numbers; order lines of one product
are one line; names, comments, audit rows and activities are left out; a caught
shortage may leave any of the lines that fit reserved, because the order in which
the rows of a deal's items are read is not specified. Who may call a handler is
kept where the state depends on it (maker-checker).

### OrderStockTx

`OrderStock` assumes that a handler is one step. `OrderStockTx` takes that back:
`db` is the committed database, `mine[s]` what the open transaction of session
`s` has written, `call[s]` the handler it runs, its next statement and what it has
read into memory. The isolation is READ COMMITTED, because the code opens its
transactions without an isolation level: a read takes the last committed value or
the transaction's own; a write waits while another session has written the row
(`Free`), and the WHERE clause of an `updateMany` is decided on the row as it is
then. `SELECT ... FOR UPDATE` (`lockFulfillmentRows`, the lock of the payment's
order) is a write that changes nothing. Statements on rows the transaction has
already written are joined to the statement before, since nobody can get between
them. A transaction that ends either installs its writes or drops them.
`Needs(s)` is the row the next statement has to wait for; sessions that wait for each
other are `Deadlocked`, and the database then ends one of them with an error
(`DeadlockVictim`).

Every handler of the ledger and of the orders is a chain of such statements, named
after what the statement does; the variants marked "Faulty variant" are used by
the mutants only. What `OrderStock` says about purchases (items, events,
idempotency keys) is reduced here to one purchase per product, each with a row lock of its own, that
brings units: receipts of different purchases overlap, with their passes over the waiting
orders. A deal is won and has one payment scheme.

### SupplierFulfilment

One deal with its client order, its supplier orders, the calls of users and the
runs of the reminder job. The handlers of `supplier-orders.service.ts` read the
order, decide, and then open a transaction; the `Start...` actions are the first
half and put what has been seen into `calls`, the others are the transaction,
which finds the row as it is by then. A change of dates that names none of them (a new comment)
writes back those it has read. A transaction is one step: those that touch
the deal take `lockFulfillmentRows` first, so they exclude each other, and the
rest are one conditional update each. `CreateForDeal` takes no lock, but it only
inserts a row, so it may as well happen before or after the transaction it
overlaps with. A run of the job lists orders, then looks at them one by one
(`Remind`), claiming the unique row (order, kind, day) before it notifies; runs
may overlap.

| Action | Code |
| --- | --- |
| `CreateForDeal` | `createForDeal` |
| `StartUpdateDates` and `UpdateDates`, `StartConfirmReady` and `ConfirmReady`, `StartConfirmDelivery` and `ConfirmDelivery` or `ConfirmDeliveryAgain`, `StartUpdateStatus` and `UpdateStatus` | `updateDates`, `confirmReady`, `confirmClientDelivery`, `updateStatus` |
| `CreateFromDeal`, `CancelOrder`, `ConfirmPayment`, `CreateEmptyDelivery`, `ChangeStage`, `Schedule`, `ConfirmSupervisor` | the handlers of `OrderStock` as far as a deal without warehouse stock sees them |
| `StartReminders`, `Remind`, `EndReminders` | `processReadinessReminders`, `emitReadinessRemindersForOrder`, `claimAndNotify` |
| `Tick` | midnight in the office's time zone |

### QuoteLifecycle

The quotes of one lead and what is made of them: `quotes` (the rows), `files` (what
each stored document shows), `requests` (the statuses of the calculation requests),
`lead`, and `deals` (stage, the lines that conversions added, the handoffs). A
handler checks what it has read and then runs a transaction that may find something
else, so a handler is a `Start...` action that puts what was seen into `calls[c]`,
followed by the transaction. The transaction is one step where it decides by what it
has locked or by the WHERE clause of its UPDATE. It is several where it acts on an
earlier read: the pricing, the finalization (whose document is stored outside of the
transaction), the acceptance, and the check of the stock choice. The row locks such a
transaction holds in between are `QuoteRowFree` and `LeadRowFree`, the advisory locks
are `LockFree`; a handler that needs one waits.

| Action | Code |
| --- | --- |
| `Create` | `createFromCalculation`, `createFromRequest` (first version of a request) |
| `StartPricing`, `ApplyPrices` | `updateApprovedPricing`, `applyApprovedPrices` |
| `StartTerms`, `UpdateTerms` | `updateCommercialTerms`; a finalization that brings terms is this and then the next row |
| `StartFinalize`, `PersistFinalPdf`, `FinalizeQuote`, `RollBack`, `CleanUp`, `Crash` | `finalize`, `persistFinalPdf`, `cleanupUncommittedFinalPdf`; a transaction that runs out of time while the document is still on its way, a commit the caller does not learn of, a process that dies |
| `StartNextVersion`, `CreateNextVersion` | `createNextVersion` |
| `StartUpdateStatus`, `UpdateStatus` | `updateStatus` |
| `StartAccept`, `ClaimAcceptance`, `Accept`; `RepairHandoff` | `recordClientAcceptance`; `ensureAcceptedQuoteHandoff` |
| `StartConvert`, `Convert` | `convertToDeal` with `DealFactory.createFromQuote` |
| `Qualify`, `LoseLead`, `StartDisqualify` and `Disqualify` | `qualify`, `lose`, `disqualify` of `LeadsService` |
| `StartQualification`, `CheckQualification`, `WriteQualification` | `upsert` of the qualification with `assertFulfillmentFieldsMutable` |
| `ChangeStage`, `LoseDeal` | `changeStage` and its exceptions, `DealLossService.lose` |
| `Fail` | an error before anything that stays was written |

There are three kinds of initial states: a new lead; a lead qualified at the time when
that made no deal; a quote accepted before handoffs were recorded, which
`RepairHandoff` is for. Abstracted: the lines of a quote are one price, 0 while a line
has none; its commercial terms are one value; the stages of a deal are before the
agreement (`EARLY`), after it, `WON` and `LOST`; whether a quote is still valid when it
is sent is left open. The client order a conversion makes for a lead served from stock
is `ConvertStockOnlyQuote` of `OrderStock`.

### EngineeringWork, EngineeringOffers and TechnicalBasis

One lead that needs a facade, an installation or both. `EngineeringWork` has the rows
of `LeadEngineeringAssignment`, the engineer's tasks and the two technical
calculations; `EngineeringOffers` adds the rows of the two commercial calculations
(one array per kind, oldest first) and the quotes they went into. The services of
facade and installation are written in parallel, and so are the models: where the two
differ, the operators do (`FacadeLine`, `InstallationLine`, `FacadePatch`,
`InstallationPatch`). Every handler reads access, status and revision first and writes
in a transaction that trusts them, so each is a `Start...` action and a second one;
`patch` is three, because its `deleteMany` and its `createMany` see different rows, and
so is a new offer: its transaction demotes the row it knew as current and reads the last
revision (`DraftRead`), and creates the next row later (`NewDraft`), when another draft or a
write may have taken that revision; the unique index then refuses it (`FailOffer`).

| Action | Code |
| --- | --- |
| `StartAssign`, `Assign` | `assign`: closes the former assignment, supersedes its rows, makes a task |
| `StartClose`, `Close` | `returnToManager`, `complete`, `finish` |
| `StartQualification`, `UpdateQualification`, `CloseTask`, `CloseLead` | the technical qualification; what others do to the task and the lead |
| `StartCalculate`, `Calculate`; `StartFacadeDraft`, `FacadeDraft`; `StartAddItem`, `AddItem` | `calculate` (or `saveUnsupported`), `saveDraft`, `addItem` of the facade |
| `StartInstallationDraft`, `InstallationDraft`; `StartInstallationReady`, `InstallationReady` | `saveDraft`, `complete` of the installation |
| `StartCreateFromTechnical`, `StartReprice`; `DraftRead`, `NewDraft`, `FailOffer` | `createFromTechnical`, `reprice` with `persistDraftFromTechnical` |
| `StartPatch`, `PatchDelete`, `Patch`; `StartSubmit`, `Submit`; `StartApprove`, `Approve` | the same names |
| `ChangeCatalog` | a material offer or a rate that changes |
| `AttachToQuote` | `resolveLead` and `attachToQuote` of the composition, in the transaction of the quote |

`TechnicalBasis` is the abstract specification: a calculation has a basis (whatever an
offer is priced from) and a revision, and the basis changes only together with the next
revision. `EngineeringWork` is shown to implement it twice, with
`INSTANCE TechnicalBasis WITH revision <- facade.revision, basis <- facade` and likewise
for the installation; `RevisionTellsChange` is the conjunction, checked as a property of
the detailed specification. It is what makes an offer's "stale" flag, a comparison of
lines and revisions, mean something.

Abstracted: areas, norms and amounts are small numbers and quantities products of
them; an offer has one price per kind of catalogue row; the history and the
notifications are left out.

### CalculationRequests and LinePricing

One lead, its commercial decision, the requests and the calculations (sessions) made
of it, their quotes, and the currency rates. Calls are under way in `calls[c]`, as in
`QuoteLifecycle`. A transaction that replaces rows deletes those it sees (`DeleteGroups`,
`DeleteLines`) and then adds its own (`WriteGroups`, `WriteLines`), so that rows added in
between stay; the rows it has deleted are locked until then. Qualification is five
steps: the reads, the claim of the lead, the automatic request under its advisory lock,
the commit. `PreviewQuote` and `Preview` ask the price of a line, with the rate that is
effective on the day: this is where `LinePricing`, pure functions of a line, is checked
against what a reader expects of it (`PreviewCovers`). Lengths are decimetres, areas
hundredths of a square metre, amounts hundredths of a dollar: everything is an integer, and
`RoundHalfUp` and `CeilDiv` are the decimal roundings of the code.

### TaskDesk, DealDesk, LeadDesk and TelegramIntake

Four modules that extend one another, from what everybody uses to the intake, which
composes them. `TaskDesk` has the tasks with two statuses each: the one that follows
from the due date and the clock (`late`) and the one that is stored (`shown`). Four
readers write the stored one: lists, the list of the day, the card of a task, and the
cron job; each reads rows, looks for notifications that are there, and then writes
both (`ReadTasks`, `ReadNotices`, `Persist`; `OpenCard`, `ShowStatus`, `SearchNotice`,
`InsertNotice`). `DealDesk` has the lines of deals with the rules of prices, the offers
and the stages, which users, the acceptance of a quote (`quotes.service.ts`) and the loss
of the deal write; `LeadDesk` the leads and clients, with what a deletion of a client
closes. Calls of users that read first and write later are members of `calls`.

`TelegramIntake` has the requests to the webhook (`hooks`), the stored events, the jobs
of the queue, the metadata of leads, and what each worker is doing. The queue is
external and modelled by what its options say: attempts, a job whose worker stops
is taken up again, finished jobs are kept for a while and then evicted, and adding a
job under an id that is known does nothing. `setup` is what the environment provides (a
chat for the messages, the users a task needs, the active managers), and `markup` of a
lead says that its title holds what Telegram rejects as HTML: such a message fails in
every run of the escalation.

| Action | Code |
| --- | --- |
| `CheckEvent`, `StoreEvent`, `Enqueue` | `handleWebhook`; `Settle` is an answer without an effect |
| `StartJob`, `CreateTelegramLead`, `ScheduleFallback`, `SendLeadToAdmin`, `MarkProcessed`, `JobFails` | the incoming processor and `TelegramLeadFactory.create`, step by step |
| `PressButton`, `StartFallback`, `Claim`, `Answer` | the polling loop, the fallback processor, `assignManager` |
| `StartRound`, `EscalateLead` | `handleEscalation` and the steps of `escalateLead` |
| `StartReaper`, `ReapEvent`, `CountAttempt` | `reapStuckEvents` |
| `Crash`, `CompleteJob`, `EvictJob`, `EventAges`, `LeadAges`, `TasksAge` | the process stops; the queue; time |

## Runs

| Run | Question | Instance |
| --- | --- | --- |
| `stock` | Does an order hold what its status promises, does a receipt serve whom it can, oldest first, while listed orders and rows grow stale? | two orders, two products, one purchase; an order needs one of each or two of one |
| `deal` | Is the ledger exact unless a listed row grew stale, do an order's totals and statuses tell the truth, is a purchase counted once, is a completed deal settled, when is a final status left, does every reservation end? | one deal from any stage, two payments, deliveries in parts, a purchase received in parts; fair jobs |
| `tx` | Does the ledger stay that of the active rows when requests interleave; what survives any interleaving, the cron jobs included; who can wait for whom? | two sessions, three calls: users on two orders and two purchases of two products; all eight handlers on two orders of one product with two payments; deliveries of two paid orders of two products |
| `supplier` | Does nothing leave unpaid, go back, or complete a deal too early; are dates in order, is each reminder sent once and an overdue order pointed out? | two supplier orders, two calls, all stages and installations on one day; one order whose dates two users move, two runs of the job, three days; fair job |
| `quotes` | Do documents and quotes match, do versions form a chain, is nothing taken back, does one deal with one basis come out of a lead? | three quotes with their documents and one crash; two quotes with all steps of the lead; two with all steps of the deal; two calls under way |
| `engineering` | Is there one engineer, do saved quantities follow the norms, does a revision tell every change, is what is quoted what was presented? | two engineers, two calls, up to three revisions, two rows of an offer, one quote; seven scenarios |
| `calculations` | Is a lead qualified once, a request submitted once, what was quoted final, is there always a rate, does a preview cover what was asked for? | up to three calls, two requests, four calculations, two decisions, three rates on four days; five scenarios |
| `intake` | Is every update settled, every lead given away once, nobody forgotten, the manager told of what is overdue, a lead lost once, a deal signed upon an approved offer, an accepted quote or an exception? | two forms and one press, four requests, two leads, two clients, three tasks, one deal; twenty-one scenarios; fair workers and jobs |
| `paid_cancel`, `late_confirm`, `tx_oversold`, `approved_patch` | four statements of comments, tests and messages the code does not keep | see Findings |

Scenarios. A run that has more to ask than one instance can hold starts in one of
several states: `scenario` (or, in `intake`, the rows of the tables and `left`) says
which handlers take part and how much of everything there is. A scenario never changes,
restricts the actions only by leaving some out, and is named and commented in the MC
module. What is left out of a scenario together is what touches no common row, or what
another scenario has together.

Properties that belong together are one invariant with named parts: `OrdersHoldGoods`,
`OrderFaithful`, `GoodsFaithful`, `GoodsExact`, `OrdersExact`, `SuppliedWhenPaid`,
`DocumentsMatch`.

Bounds. `ReservationTtl` is one tick: only "expired" and "not expired" are told
apart by the code. Two units of a product suffice for a partial delivery, a
partial receipt and an order that takes what an older, larger one cannot use. Two
orders are enough for competition. `stock` has no payments, so the stale
list of the release job meets deliveries in `deal` only, and there it does (two units of
which one is delivered after both were listed). In `OrderStockTx`, `MaxCalls` is three: two
handlers that race and one that has happened before or comes after; `NumRows` bounds the
reservation rows of an order and product, and an order that has used them up
reserves no more; `MaxQuantity` is what one line of a delivery asks for, and a delivery of
more than the order has, which only fails, is left out. In `SupplierFulfilment` and `EngineeringWork`, `MaxCalls` bounds the
calls under way, not the calls made, and so does `Callers` in `QuoteLifecycle` and
`CalculationRequests`: the races found in the code are between two, with a third call where
one of the two needs to be overtaken. `lastDay` of a scenario is two, so that an order can
be due, overdue, and overdue again. `quotes` of a scenario bounds quotes and documents: a
document that is left where it should not be takes the place of a later one but is seen at
once; three quotes are two requests or a chain of three versions. One crash is
allowed, and a process that dies after it stored a document may leave that one, which
`NoOrphanDocuments` counts. `Plans` holds plans each of which a user may ask for in
steps that fit alone and not together. `MaxOfferRevision`, `MaxRows` and the revisions of
a scenario stop offers and calculations that could be changed for ever; three revisions are a
base, a change, and a change of what was seen. In `intake`, `MaxTries` and `MaxReaps` are
two (the code has three of each: the first, the last and nothing else differs), and `left`
counts how often each user's call, a failure, a stop of the process and a new day may
still happen; a title that Telegram rejects is no such failure and fails every time. Two
leads that wait are enough for one of them to stand behind the one whose message fails.

Deadlock checking is off where an instance comes to its end: it has finitely many
deals, purchases and calls, and once they are closed nothing is left to do. Who
waits for whom is a property of its own (`OnlyGoodsDeadlock`): payments, deliveries and the
supervisor lock the deal before the order and cannot wait for each other in a circle, but
two deliveries take the balances in the order of their lines and can. The other handlers take
balances and orders in different orders and are not held to it; PostgreSQL breaks every
circle by a rollback.

Symmetry. Sessions (`tx`), callers and requests (`quotes`), callers (`calculations`) and
engineers (`engineering`) are interchangeable. These runs check invariants and properties of
single steps, for which that is sound, and no liveness.

Fairness. `EveryReservationEnds` and `OverdueIsNoticed` assume that time passes, that the
jobs run again (`ListExpired`, `StartReminders`) and that a run looks at every row it has
listed (`HandleExpired`, `Remind`): the jobs are cron jobs that
select everything that is due, treat each row on its own and go on after a
failure, so weak fairness per row is what they provide. In `intake`, the workers of the
queue go on with what they do, time passes, and the three jobs (escalation, reaper, task
cron) each run and get to the end of a run unless a failure ends it: they are cron jobs, and
Nest starts them again after any crash. A failure ends a whole round of the escalation, as in
the code, and only finitely many happen (`left`). A title that Telegram rejects ends every
round that comes to its lead: `NobodyForgotten` promises nothing for as long as such a lead
waits, and where the users of the task do not exist it promises the mark only, since no task
is made (`telegram-escalation.service.ts:100`). Nothing is assumed of users: of presses,
of lists and cards that somebody opens, of calls that a user never makes; nor of a request
that never arrives.

## Proofs

Every safety invariant, every property of single steps and the refinement that the passing
runs check are proved for all values of the constants. The assumptions are the named
`ASSUME`s of the component's modules: sizes are
natural numbers (the rows an order may have of a product at least one), "no row" values are no rows, scenarios start from what the program leaves
behind. No bound of a run (`MaxCalls`, `MaxTasks`, `MaxRows`, numbers of orders, callers or
deals) is one of the proof's.

The form is the same everywhere. A domain for each variable and what is true of each part
of the state make the inductive invariant; TLC has checked it on the component's run before
it was proved. Most parts speak of one row, or of one call under way together with the row
it refers to. There is one lemma for each way a row is written ("a patch of a true row is a
true row"), one that says what a part depends on, so that a step that writes something else
keeps it, and one lemma per action. The last steps put them together.

| Module | Theorems | Inductive invariant |
| --- | --- | --- |
| `OrderStockTheorems` | `TypeCorrect`, `LedgerCorrect`; `OrdersFaithful`, `CompletedAreSettled`, `FinalityKept`; `GoodsKept`; `HoldingsFollowStatus`, `WaitingAreServed` | `IInv`; `OInv`, `GInv`, `HInv` |
| `TransactionTheorems` | `TxTypesCorrect`, `FulfilmentDeadlocksOverGoods`; `TransactionsSound`, `GoodsExactHolds`, `OrdersExactHolds`, `UsersNeverOversell` | `TxTypes`; `TxSound` |
| `SupplierTheorems` | `SupplyFollowsMoney`, `DatesKeepTheirOrder`, `RemindersOnceADay`, `StatusesFollowTheTable` | `SupplyTrue` |
| `QuoteTheorems` | `DocumentsAndQuotesMatch`, `VersionsAreAChain`, `OneBasisOfExecution`, `QuotesConvertTogether`, `NothingTakenBack`, `StockChoiceIsSettled` | `QuotesTrue` |
| `EngineeringTheorems` | `OneEngineer`, `NormsAreFollowed`, `RevisionsTellChange`, `NewestStaysCurrent`, `NothingUnseenApproved`, `QuotesAreOnBasis` | `EngineeringTrue` |
| `CalculationTheorems` | `QualifiedJustOnce`, `SubmittedJustOnce`, `QuotedStaysFinal`, `RateForEveryDay`, `PreviewsCover` | `CalculationsTrue` |
| `IntakeTheorems` | `LeadsHandedOverOnce`, `DealsSignedUponOffers`, `LeadsLostOnce` | `IntakeTrue` |

Ledger. `LedgerBalanced` is not inductive. `IInv` adds the types (what is on hand and what
is available never go below zero), that only orders have reservations, that a listed row is
or was active, three days old and no larger than it was listed, so that the release job gives
back no less than the rows lose, and
`CreationOrder`: no two orders were created at the same moment. The last one is what makes
a receipt safe: the pass serves many orders in one step, and what they take together is
bounded only because the latest order served found its quantity in what all the earlier
ones had left (`PassWithinStock`). The sums are handled in `SumsTheorems`: `SumUpTo` is a
recursive function, its laws (changing one row, adding tables, consuming a quantity from
the oldest rows) are proved from its definition by a least counterexample, and the row
lemmas (`HeldOfAppend`, `HeldOfReleased`, `HeldOfExpired`, `HeldOfConsumed`, `HeldOfAged`)
say what each handler does to the quantity an order holds.

Orders. `OInv` adds `OrdersTrue`, what the order's row says against the payments and the
deal: amounts, shipment, completion; what a status says holds unless a receipt that had
listed the order overwrote it (`late`). `GInv` adds the purchases (a receipt's quantities are
the sum of its events) and conservation: what is on hand or delivered is what there was and
what came in. `HInv` adds what an order holds for its status. A pass over waiting orders is
followed by what it does to one order, since the others have rows of their own.

Transactions. `TxTypes` is inductive: it says, besides the types, which steps a handler goes
through (`StepsOf`), what it remembers at each of them (`Memory`), that no row is written by
two open transactions (`Locks`), and that whoever is past its locks holds them. A commit keeps
it because nobody else has the rows it installs. For `FulfilmentDeadlocksOverGoods`, look at
the sessions of a circle that wait for a row. One that waits for a deal holds nothing; one that
waits for an order holds its deal only, which nobody in the circle waits for once the first kind
is out; so the circle is made of deliveries that wait for balances, and two of the same
order would both hold its row.

`TxSound` is what the ledger needs when handlers interleave. It adds two groups of parts to
`TxTypes`. `Base` is about the committed rows alone: orders are what their payments and
deliveries make them, `available` is `onHand` minus `reserved` and never below zero, what is
on hand or delivered is what there was and what came in, a cancelled order has nothing as long
as nothing was received, and, when no cron job takes part, `reserved` is the sum of the active
rows. `Local` is about
one session: what its call remembers agrees with the rows it holds, and the difference between
the rows it has written and the committed ones is the one its handler is about to make (the
quantity of a delivery so far, of the products given back so far, of one payment). Every part
is an operator of the committed rows, the session's own rows and its call, and depends only on
rows the session has locked. So there are three kinds of lemmas: a statement of a handler keeps
`Local` of its own session, one lemma per action; a commit turns `Local` of the session into
`Base` of the new rows, by adding the difference to the sums; and a commit leaves `Local` of the
others alone, because no row is written by two open transactions. What is not `Local` to
anybody is what a handler read before it locked; there the proof rests on the code looking
again after the lock (the version of a balance or of an order). The ten minute job gives back a
quantity it read unlocked, so the sum of the active rows is claimed for users' handlers only.
`UsersNeverOversell` states the other side of `tx_oversold`: without the two cron jobs, no
interleaving of users' requests holds more than is on hand.

Supplier orders. The calls carry the burden: a date change has a plan whose dates are in
order (`Timely`), a change of status one that the table allows from what it saw, and the
transaction compares the status again, so that what was true when it was read is what is
written. `RemindedOnce` needs no more than the unique claim.

Quotes. `DocumentsTrue` says who holds a stored document: the quote, one attempt that is
not over, or nobody, and of the latter there are no more than processes have died.
`ChainsTrue` counts: a request with `n` quotes has the versions 1 to `n`. `HandoffsTrue` and
`LinesTrue` tie the deal to the quotes in both directions. The calls are true as long as
nobody writes what they have locked; that steps only move statuses forward (`Kept`) is
itself proved of every step and is what keeps old reads true, and gives `NothingTakenBack`.

Engineering. `RevisionTellsChange` is proved as what it is, the refinement: the initial
state maps to one of `TechnicalBasis`, and every step of the detailed specification
changes nothing that is priced or adds one to the revision. `OffersTrue` needs in addition
that an amount which a call has read, or which stands in an approved row, was once in an offer
awaiting approval (`Seen`), and that a row made for the current revision has the current lines
(`RowsOnBasis`), which is where the refinement is used.

Calculations. `LockTrue` is about the holder of the lead's lock: nobody else has claimed the
lead, and there is no automatic request yet. `AnnouncementsTrue` has the same form for the one
call that is about to announce a request. `AlwaysARate` is inductive once the types are
known. `PreviewCovers` is about the functions of `LinePricing`: by `CeilDivCovers` and
the law of half-up rounding, for sheets, areas and prices of any size.

Intake. A lead has been claimed exactly when it waits no longer (`GivenOnce`), which every
competitor decides by the WHERE clause of its update. For `SignedUponOffer` the invariant has to
say of a stage that is still to be written (`Decided`) that the deal has an approved offer or an
accepted quote, or the call an exception; no step takes an approved offer or an acceptance
away.

What the assumptions stand for: `StageMoves` (in `OrderStock` and `QuoteLifecycle`) goes between
stages there are; `CalculationAssumption` says that lines and amounts are such as the
DTOs let through; `ScenariosAssumption` that tables at the start are such as the program
leaves them (a deal that is agreed has an approved offer, an accepted quote or an exception
in its history, which are the three ways to get there).

What stays with TLC: the liveness properties (`EveryReservationEnds`, `OverdueIsNoticed`,
`EveryUpdateSettles`, `NobodyForgotten`, `OverdueReachesManager`), since neither fairness
nor ENABLED is within reach of the prover, and the four runs that end in a violation. The
theorems about `OrderStock` are about handlers that are one step, or two where they work off
a list; those about `OrderStockTx`
are about their statements and hold in every interleaving. That `reserved` is the sum of the
active rows is part of `GoodsExact` only for the handlers of users: with the ten minute job
among them it fails (see `tx_oversold`).

## Findings

Four runs end in a violation of what a comment, a test or a message says;
`PROJECT.json` quotes the lines.

- `paid_cancel`: the hourly job cancels an order that is fully paid, because a
  payment does not change the status the job selects by.
- `late_confirm`: a deal whose supervisor confirmed before the last payment or
  delivery is never completed.
- `tx_oversold`: the ten minute job gives back the quantity a row had when it was
  listed; a partial delivery in between makes it give back more than is left.
- `approved_patch`: an offer that was approved meanwhile is taken back to a draft by a
  correction, or to awaiting approval by a submission, which looked before.

Other disagreements met while modelling. The models contain the behaviour; no run
is spent on them, and where a property had to be stated around one, its comment says so.

Stock and orders:

- an order in WAITING_STOCK may hold some of its lines (the shortage is caught
  inside the transaction, `orders.service.ts:220`), while a comment at
  `orders.service.ts:682` says it holds nothing;
- the hourly job goes by the age of the order, not of its reservation
  (`reserve-ttl.task.ts:22` against its comment at line 8): an order served late
  may be cancelled within the hour;
- a waiting order that does not fit is skipped and a later one served
  (`inventory.service.ts:1038`, against "FIFO" at 864); `ReceiptServesWaiting` is
  about what the order of the pass does guarantee;
- two runs of the release may both find the same row active; the second one
  counts it twice if it read the balance after the first one committed
  (`inventory.service.ts:375-402`, against the comment at 364); two rows of one order that
  expire in parallel transactions do not send it back to WAITING_STOCK;
- a receipt writes WAITING_PAYMENT to every order it has listed and served, by its id alone
  (`inventory.service.ts:1026`): one that was cancelled in between comes back, with its goods
  set aside once more, can be paid and is delivered (the test at `app.e2e-spec.ts:2500` says a
  cancelled order is not); one that was delivered in part meanwhile goes back the same way, and
  can be cancelled then. `CancelledIsClosed` therefore
  speaks of cancelled orders as long as there was no receipt, and the properties of
  `OrderStock` name the exception (`late`, `FinalStaysFinal`); the hourly job may meet an order whose goods were delivered
  meanwhile (`reserve-ttl.task.ts:67`): what it has released is committed;
- a balance that changed under a reservation is reported as a shortage, and handlers
  that lock balances and orders in different orders may end in a deadlock the caller
  has to cope with.

Supplier orders: of two changes of dates the later wins, also after a delivery;
cancelling the last order that was not delivered completes nothing.

Quotes:

- a pricing or a change of terms that passed its check may be written after the
  quote was finalized (`quotes.service.ts:2169`, `:793`): the document then does not
  show the price the quote has and the deal is made with, although the check says
  "Финализированное КП нельзя менять" (`quotes.service.ts:2283`). This is why no
  property compares a document with its quote;
- the cost of delivery a quote starts with is not in its total once prices are
  approved, which adds up the lines only;
- an acceptance makes the deal AGREEMENT_PENDING with no approved offer
  (`quotes.service.ts:1332`), and by a stage it read earlier in its transaction: a deal lost
  in between comes back without the permission the comment at `deals.service.ts:391` asks for;
- `qualify` sets the stock choice without `assertFulfillmentFieldsMutable`, so a quote
  approved before its lead was qualified does not settle it
  (`lead-qualification.service.ts:458` says it should); `StockChoiceSettled` is
  therefore about qualified leads. `disqualify` has no condition on a converted lead;
- a second quote of the lead that is converted adds its lines to the deal and
  replaces its totals at any stage of the deal, WON and LOST included; quotes of two
  requests that have the same version number cannot both be converted, because an
  offer is unique by deal and version.

Engineering:

- two overlapping patches of an offer leave the lines of both; two overlapping
  repricings leave two current rows, and the one that read the last revision first may
  be the newest with the lower revision;
- an installation saved without items stays ready without works; a manual correction is
  lost to a calculation that read the items before it;
- late calls of a former engineer overwrite the status of the superseded assignment.

Calculations:

- an update that changes the notes only writes back the total it read; overlapping
  updates leave the lines, or groups, of both; a finalized calculation can be
  changed by an update that saw the draft;
- three overlapping edits can delete a calculation of a quoted request other than the
  one that was quoted; an edit that saw a draft leaves draft calculations in a submitted
  request; `softDelete` can empty one; a quote can be made of a finalized calculation
  of a draft request;
- a rate planned for a day to come beats one that is entered later for that day on, and
  two thickness prices entered at the same time can both stay active.

Deals:

- two overlapping `setItems` leave both lists of lines with the totals of the later;
- lines are checked with the square metres the client needs and stored with those of the
  sheets (`deals.service.ts:751`, `:835`): a discount can take a line below its purchase
  price although the message says it cannot;
- a change to the stage a deal has, called a no-op at `deals.service.ts:381`, writes the
  stage and may undo a change made meanwhile; a stale change, and the acceptance of a quote,
  reopen a deal lost meanwhile without an exception ("выход запрещён без
  deals:override_terminal и причины", `deals/constants.ts:22`);
- a deal won meanwhile can still get other lines and another value ("WON/LOST freeze agreed
  value", `deal-policy.service.ts:30`), and it can be won without lines, if they are removed
  between the check and the write;
- `nextActionAt` does not follow the tasks: nobody calls `syncNextActionDate`.

Leads, tasks and the intake:

- assigning a lead by hand does not end its waiting: the fallback job or a button takes
  it from the owner chosen by hand; buttons name a manager by the index in the list of
  the day they are pressed;
- the reaper queues a job under the id of the failed one; while the queue keeps that,
  nothing is queued, but the attempt counts, and after three the update is given up,
  although the log says "Requeued";
- a retry after the claim of a form, or two forms at the same time, make a second lead;
- a title with a character that Telegram does not take as HTML
  (`telegram-escalation.service.ts:96`) ends every run of the escalation until somebody takes
  that lead; a lead is marked as escalated also when no task could be made for it (line 133);
- the escalation may be repeated after a crash, and does not skip leads that are deleted,
  disqualified or assigned meanwhile; clients that were deleted are found by their phone;
- a lead that was lost may become UNQUALIFIED; two handoffs at the same time announce
  the lead twice; two clients with one phone can be created at the same time;
- tasks are completed, cancelled and rescheduled whatever their status is; a reader with
  old rows shows a closed task as overdue for good; a manager may hear twice.

## Not modelled

- The availability of stock shown for a quote, reports: queries that change nothing.
- Files, references, products, users, the catalogue of colours, contacts and objects of
  clients, titles of deals, notes and calls: rows that are created, read and updated
  without a protocol, and on which no decision in the models depends.
- Authentication and access control: guards in front of the handlers. Where a state
  depends on who calls (maker and checker, head and manager, engineer of the lead), the
  models keep that part.
- Audit rows, activities and notifications: appended and read by people; the models
  count a notification where it must be sent, or sent once.
- The rendering of documents, the texts of messages, the assessment of an
  installation job: data that nothing decides on.
- Queues, the Telegram API, the storage of files, the database: external; the models have
  the steps at which they may fail, lose an answer or stop, as the code meets them.

## Plan

All safety properties that the passing runs check are proved, and every component that is
listed as modelled has its state changes in a module. What could be added: the parts of the
installation jobs, the panel prices and the clients that are listed as partly modelled, and the
check that a quote is not finalized before its terms are priced and written by id, the one
listed hazard without a property.
