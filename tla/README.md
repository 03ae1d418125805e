# A formal model of LeaderProductAPI

LeaderProductAPI is a Node/TypeScript backend (Express, Prisma on PostgreSQL, Redis) between a mobile and web app of
sales managers, the 1C accounting system and the bots of two messengers, Telegram and MAX. This directory models the
parts of it where concurrent handlers, background workers and unreliable partners meet one table, checks them with TLC
and proves the most important results with TLAPS for every value of the constants.

`PROJECT.json` maps every definition to the lines it models and lists components, runs, mutants, findings, hazards and
theorems. This file explains them.

## 1. The system

| component | state | operations | meets |
|---|---|---|---|
| Client orders (`modules/clientOrders`) | `Order` rows: status, queue state, revision, client revision and hash, lines | create, copy, update, submit, unqueue, retry, cancel, restore, delete; the mobile client's idempotent `PUT` | export worker, 1C exchange: all write the same rows |
| Export worker (`services/clientOrdersExportWorker.ts`) | run lock and order locks in Redis (TTL), an in-memory flag, a pause per process | `runOnce`: select, lock, validate, push, record | 1C over HTTP, orders |
| 1C exchange (`modules/onec/onec.controllers.ts`) | none of its own | hand out queued orders, acknowledgement, status batch, snapshot batch | orders, the worker's order locks |
| Invoices (`services/clientOrderInvoiceWorker.ts`) | `ClientOrderInvoice` (state, lease), one delivery per messenger | synchronise the queue of 1C, process an invoice, a manager's request | 1C, object store, bots |
| Refresh tokens (`services/authRefreshTokenService.ts`, `routes/auth.ts`) | `RefreshToken`, `DeviceSession` | sign-in, rotation, logout | every sign-in |
| Messenger sign-in (`services/messengerQrAuthSessionService.ts`, `routes/auth.ts`) | `MessengerQrAuthSession`, contact cache, messenger and phone columns of `User` | start, poll, cancel, open in a bot, contact, mini-app, link | browser, phone, bots; issues refresh tokens |
| Phone verification (`services/phoneVerificationService.ts`) | `PhoneVerificationSession`, the same `User` columns | start, poll, cancel, open in a bot, contact | shares the contact with messenger sign-in |
| 1C sync sessions (`modules/onec/onec.sync.ts`) | session, staged items, the catalogue tables | open, stage a batch, complete, clear | catalogue feed, orders (references) |
| Catalogue feed (`modules/catalog`) | epoch, revision, changes, first revision left | manifest, snapshot page, changes, pruning | sync sessions write what it reads |
| Credentials (`routes/auth.ts`, `routes/passwordReset.ts`, `services/emailChangeService.ts`) | account, codes with attempts and expiry, login attempts | register, verify, resend, login, reset, change of address | mails that may fail, administrators |
| Profiles and moderation (`routes/users.ts`) | profiles, current profile, department, role, client terms | create, moderate, switch, move, delete a department | roles, marketplace terms |
| Roles (`routes/users.ts`) | hierarchy, permissions, groups | create, move, grant, delete in steps | every permission check |
| Service access (`services/serviceAccess.ts`, `routes/services.ts`) | defaults and rules | edit defaults and rules, gate, list | roles, departments |
| Appeals (`routes/appeals.ts`, `services/scheduledJobsService.ts`) | status, assignees, messages, reads, jobs in Redis | create, assign, claim, transfer, status, deadline, messages, poll of jobs | notifications |
| Hours and payments of appeals | entries, rates, audit log | replace hours, mark paid, set a rate | assignment |
| Tracking (`routes/tracking.ts`) | routes, points, device tokens | start, stop, upload, issue and revoke tokens | repeated uploads |
| QR codes (`routes/qr.ts`) | rows, lists and codes cached in Redis | create, change, delete, restore, list | cache |
| Releases and OTA (`routes/updates.ts`, `routes/ota.ts`) | rows, files, a cache of the latest | publish, edit, delete, clean up, check | object store, phones |
| Marketplace and prices (`modules/marketplace`, `clientOrders.service.ts`) | the client's terms, price rows, orders | choose terms, order, a manager's order | 1C closes references and loads prices |
| Live reads (`clientOrders.cache.ts`) | memory, Redis, circuit, fallback | read, force, fail, restart | 1C |
| Notifications, files, presence, logging | see `PROJECT.json` | | |

What is hard here, and hard to test:

- **No row locks.** Handlers find a row, check it and update it by id at READ COMMITTED; other transactions commit in
  between. Only the mobile `PUT` takes an advisory lock, and only against other PUTs.
- **Leases and TTLs.** The worker's order lock and the invoice lease are fixed times around calls that may take longer.
- **Two sides.** 1C and the bots may have done what was asked although the caller saw a failure; answers get lost, late
  requests are still executed, a process dies between an answer and its record.
- **Two channels.** 1C both receives pushes and pulls the same queue.
- **Long protocols of several actors.** A QR sign-in is a browser, a phone and a bot that write one row; a contact sent
  to a bot may finish a QR sign-in and a phone verification at once.

What makes the parts correct: an order shown as sent is in 1C; an order is pushed by one run at a time and not handed
out meanwhile; a client version never goes back; the queue drains; a document goes out once and SENT means somebody got
it; a token family has one usable token and logout wins; a browser is signed in only by who scanned its code; a phone
is verified only by who owns it; accounts do not change hands; an address is proved before it counts and guesses are
limited; what 1C was told has been applied is in the catalogue and a client that has caught up has it; roles form no
circle and a deletion gives nobody a right; the most specific rule decides; what is offered to phones can be downloaded;
terms of an order belong together; an unread message is reminded of; an acknowledged stop is stored, once if it has an id.

## 2. Order of the work

The modules were written in this order, the behaviour with most at stake first: orders, worker and exchange
(`ClientOrder`, `ClientOrderExport`); invoices (`InvoiceDelivery`); tokens (`TokenFamilies`, `RefreshTokens`);
messenger sign-in and phone verification (`MessengerAuth`); the catalogue (`OnecSync`, `CatalogFeed`); accounts,
profiles, roles and access (`Credentials`, `Profiles`, `Roles`, `ServiceAccess`); appeals (`Appeals`, `AppealLabor`);
tracking; releases and OTA; prices, marketplace, order lines and lists (`Pricing`, `Marketplace`, `OrderLines`,
`OrderList`); QR codes; reads behind caches (`LiveReads`). Proof modules follow the components whose properties hold for
instances of any size and matter most.

Left for later: an abstract specification of the order exchange (an order, its intent, its document) that
`ClientOrderExport` implements, and theorems about the components that are only model-checked so far (section 5).

## 3. Modules and how they correspond to the code

### ClientOrder
The columns of an `Order` row that control it, and pure functions from a row to the columns a handler writes
(`SubmitData`, `PutData`, `ExportSuccessData`, ...). A `Data` record gives each column a value or `Undefined`, as Prisma's
`data` does: a handler decides from the row it read, and `Updated` applies the columns to the row of the moment.
Lines are sets of *versions*: a version stands for the content of one request; a row with two versions has the lines of
two requests. Which versions pass validation (`LinesOk`) and are complete enough to submit (`Complete`) are constants.

### ClientOrderExport
`row` is the table, `req` the requests in progress, `worker` the calls of `runOnce`. A manager's request is a Find step
(read, checks, data) and a Write step, with DeleteItems between them when lines are replaced, because
deleteMany and create are statements of their own; Abort is any error that rolls back. Before its deleteMany an update
or a PUT upserts the references its lines name (`materializeLiveOrderReferences`) and keeps those rows locked until it
commits, so two requests with a reference in common wait for each other there (`RowLocked`, `ReferencesOf`); creates
upsert them too, which only delays them. A PUT has a first look, a
pause for live references from 1C, a second look under the advisory lock, and the write. A run of the worker takes the
run lock, selects a batch of *loaded* rows, and for every order locks, validates, calls, and records
in a find and a write. `Connected` are the processes whose Redis client is open. Without it, or when a command fails
(a fault), `acquireLock` falls back to the flag of the process and `acquireOrderLock` goes on without a lock; a SET whose
answer is lost may have set the key (`MaybeSet`), and a release may fail and leave it to its TTL. `run` and `guard` say
which kind a call has got. A pull of the queue is three steps: the rows are read, those locked are taken out
(`listed[o].stage`; nothing is taken out when the lookup fails), and, after the run has been recorded, the answer is
written. 1C is external: it saves what it is sent or pulled, possibly after the caller gave up (`late`).
Crash, TTLs (`ExpireRunLock`, `ExpireOrderLock`) and failed calls are actions; those that hit something in use cost a
fault. The release of a lock in the code is a GET and a DEL; the gap between them only allows what the expiry of a lock
in use allows, and is covered by it.

Left out: audit events, attempt counters, backoff times, payload formatting, authorisation, caches and notifications.
Backoff and intervals decide only *when* a run takes an order, which is nondeterministic here.

### InvoiceDelivery
One action per awaited call of `syncQueueItem`, `processInvoice`, `deliverChannel` and `ensurePdf`. `onec` is the
external state of a candidate, `row` and `delivery` the two tables, `call` and `sync` the calls in progress. `accepted`
counts what each bot really took. `overrun`, `robbed` and `unsure` remember why a duplicate may be excused: a lease that
passed while a call still held the row (`Holding`), a lease cleared by another call's catch or by a newer version in the
queue (the row becomes SUPERSEDED while a call works on it), and, counted, the acceptances of which no record tells. The
lease of a dead call passes too and its row is taken over; that excuses nothing. The worker's run lock is
left out, since a manager's request bypasses it and claims under the same conditions; so are the queue cursor and the
shadow order made for an order known only to 1C.

### TokenFamilies, RefreshTokens
`TokenFamilies` says what tokens promise: a sign-in starts a family, the use of a token puts the next in its place,
an ended family never comes back, a token older than families is adopted into one. `RefreshTokens` has the tables
and every statement of `/auth/token`, sign-in and `/auth/logout`. The transaction of a rotation keeps the claimed row
locked and its writes invisible until it commits; statements on the same row wait. Times are
flags (`expired`, `grace`) with actions that set them. Hashes and signatures are abstracted: a token is the id of its
row. `DeviceSession.revokedAt` is never written by the code and is left out.

### MessengerAuth
`user`, `qr`, `phone` are the tables, `contact` the cache, `call` the handlers in progress with what they have read.
Each statement is a step; `PhoneFree` and `AccountFree` are the unique indexes, under which a write fails. Telegram and
MAX run the same code but for one branch: in a phone verification Telegram takes an account from its owner, MAX refuses
(`Refuses`). Which of several active QR sessions of an account is the latest is left open; phone sessions are numbered
and the latest counts. A cached contact may be gone at any read (its TTL). User names, chat ids and time stamps are
dropped. `opened`, `sent`, `identified` and `signedIn` are histories for the properties.

### OnecSync, CatalogFeed
A row of the catalogue is its payload's version, the rows it refers to and whether it is active; an item names the rows
it needs, those needed after its inline price type is written, and default links. A session stages items, one entity per
batch, and completes: clear (when it replaces), promote the entities in `RECONCILE_ORDER`, all in one transaction that may be
refused by a foreign key, roll back because something is blocked, or expire; the status and the stage rows are written
after it. `CatalogFeed` adds the state a mobile client follows: epoch, revision, changes, `minAvailableRevision`. Both of
its calls read the state first and the rows after it.

### Credentials
One account, its tickets (verification, change of address, reset), the mails that went out, the login attempts.
A request for a code closes the old ones and creates the new one in separate statements (`issuer`, `CreateCode`,
`Issue`), and may fail between them (`IssueFails`); the read that decides and the update of the row it has read are one
step. `proved` and `wrong` are histories; `excused` marks overlapping answers and an administrator's edit of the address.

### Profiles, Roles, ServiceAccess
Every statement of a handler is a step, since these handlers write several rows without a transaction and may stop
between them. Whose contract an agreement refers to is not checked by `POST /profiles/client`, and `ClientTermsAgree`
leaves that contract out. `ServiceAccess` is an algorithm over rule sets: the property restates "the most specific rule decides" in
another way (rank all targets that concern the user, take the first that says something) and compares.

### Appeals, AppealLabor
Handlers read an appeal and write it later; after the answer they cancel and schedule Redis jobs in the background, each
in steps of its own. The poll takes the due jobs out first and processes them after. Redis may be closed for a call,
which then does nothing (`Redis`), a statement of a handler or of its background work may throw (`StepFails`), a job may
throw after it was taken out (`JobFails`), and the process may die (`ServerCrash`); `MaxFailures` bounds them together.
In `AppealLabor` the transaction of
`PUT /labor` locks the appeal's row; mark-paid takes no lock.

### Tracking
A transaction reads the routes and writes by id what follows from them. Points have a time, a place and a kind; the
filter for jitter works on distances and times of small numbers. The points of a route are a set: their order is that of
their times. An answer may be lost, and then the batch is sent again. A `clientPointId` is optional: points outside
`WithId` are not recognised when they come again, and may be stored in a second route.

### AppReleases, OtaUpdates, QrCodes, LiveReads
Caches are modelled as fills in two steps, read and store. Times to live are clocks (`LiveReads`) or an action that ends
an entry. `given` holds the keys `buildObjectKey` has made: a key is never made twice. A release may name any key, of a
file that is there or of none, since `POST /updates` and `PUT` do not look; a key named without its file is `borrowed`.
A caller may choose the number of an OTA update (`AskedNumbers`, `chosen`), whatever others have. Display versions are
left out, on creation and on edits: they are text that nothing decides by. The rollout of OTA updates is a function from phones and updates to buckets
(`Hashes`), whatever the hash is; the rows are a function by id, ordered by their time of creation.

### Pricing, Marketplace, OrderLines, OrderList
`Pricing` holds the choice of a price row for the marketplace and for managers; `Marketplace` the terms of a client and of
orders, read before they are written. An agreement may name any contract: `onec.sync.ts` looks it up by its GUID and does
not compare its owner. So the contract of an order is one of its counterparty, or the agreement's own, whoever has that
(`OfCounterparty`); the instance has such a foreign contract. `OrderLines` amounts of lines, copies and submits, each handler one
transaction; `OrderList` the arithmetic of pages over pinned orders and documents of 1C.

### MC modules
`MCClientOrderExport`, `MCInvoiceDelivery` and `MCCatalog` define instances of one component or of two that interact.
`MCPeople`, `MCSettling` and `MCOffice` put components side by side that write different rows: a variable `part` says which of them runs,
the others stay where they started. A run of such a module is the union of the runs of its parts. Symmetry is used only in runs
without liveness, over interchangeable requests, which go by the same names in all parts.

## 4. Runs

| run | config | instance | shows |
|---|---|---|---|
| `mobile_put` | `MCMobilePut` | one client id with two revisions, two contents and both intents, two overlapping requests, three requests in all, a worker whose process has no Redis | `CreateNeverCollides`, `ClientVersionNeverRolledBack` |
| `exchange` | `MCExchange` | one order, four requests of the manager (withdrawals and retries are in `mobile_put`) and of 1C, two processes with Redis, one fault: a lost answer or call, a failing command of Redis, a crash or a TTL that passes in use | `TypeOK`, `SentMeansSaved`, `PushExclusive`, `PullSkipsPushedOrders` |
| `queue_drains` | `MCDrain` | the same with fairness; create, update, submit, cancel | `QueueDrains` |
| `invoice_settle` | `MCInvoiceSettle` | two versions of a realization, one call, any reachability of the manager, fairness | `SentMeansAccepted`, `InvoicesSettle` |
| `catalogue_sync` | `MCCatalog` | one or two items of every table. Promoting: any subset of an exchange over an empty or full catalogue. Racing: two requests of a session, a crash. Feeding: two products, pages of one, three calls of the client, one pruning | `ClosedSessionIsNotBlocked`, `CaughtUpClientIsRight`, `PromoteIsExact` |
| `people` | `MCPeople` | tokens: two users, one installation, one session, two tokens, two requests; rotations: three tokens of one user, so that a token may be rotated twice, and its successor; unbounded behaviours in both; credentials: two addresses, two tickets, limits of two, four entries; profiles: one person, two departments, two of each reference, three calls | the nine properties of `RefreshTokens`, `Credentials`, `Profiles` |
| `settling` | `MCSettling` | sign-in: two Telegram accounts, two numbers, one browser, three requests of which two overlap, any number of polls, one fault; phones: both messengers with owners, two numbers, one session, two requests; newAccount: the same with an account of MAX nobody has yet and three requests; appeals: an author and a manager, one appeal, three requests, one failure; codes: one code, two editors, two edits; fairness for the last two | `SignedInByScanner`, `PhoneVerifiedByContact`, `MaxAccountsKeepTheirUser`, `UnreadMessageHasReminder`, `ReminderComes`, `CachesCatchUp` |
| `office` | `MCOffice` | eleven parts, each with two overlapping requests and two or three in all; see the sections of the module | `DocumentSentOnce`, `RolesAreSound`, `AccessIsDecided`, `ReleasesAreServed`, `ActiveUpdatesAreServed`, `PhoneSettles`, `TermsStayTogether`, `QueuedOrdersArePriced`, `AnswersAreRecent`, `ScrollShowsAll`, `AuditMatchesEntries`, `TrackIsSound` |
| `delete_in_flight`, `update_race`, `snapshot_error`, `invoice_retry` | | the smallest instances with the case | disagreements, section 7 |

**Bounds.** Every bound is a constant of its module (`Max...`). The races of this code are between two handlers of one
row, so two concurrent requests, runs or calls are enough to interleave any pair; the budget of two to four requests lets a
third change what both have read (create, submit, then edit or cancel during a push; bind, contact, rebind; read, replace,
prune). One fault is enough for a lost answer or a crash to be followed by its complete recovery. Two contents and two
revisions distinguish old from new, two versions of an invoice a replaced from a current one, two numbers a right from
a wrong contact, two updates or releases the latest from another, limits of two the last allowed try from the first
refused one. `LiveReads` runs long enough for every time to live to pass once (`MaxTime`). `OrderList` enumerates pages
of one to three over up to two pinned orders and four documents, so a page ends before, at and after the seam.
The third token of `rotations` is what a second rotation of one token would need, the third request of the sign-in what
bind, rebind by another account and contact take. `MCPeople` allows a second ticket, created or about to be, only where
fewer codes are entered (`Effort`), two tokens where users and sessions differ (`TwoTokens`), and one user without sessions
where there are three (`OneUser`); the phones parts of `MCSettling` send the number to be verified only (`NoSignIn`), with
two requests (`PhonesOnly`) or the one account of MAX (`NewAccountOnly`), and `MCCatalog` restricts what its scenarios stage. What depends on
larger numbers is the subject of the proofs.

**Deadlock.** Behaviours end when the budget of requests is used up and nothing is left to do, so the check for deadlock
is switched off; that work in progress goes on is what the liveness properties show.

**Fairness.**
- `queue_drains`: `startClientOrdersExportWorker` sets a timer that calls `runOnce` for as long as a process lives, so
  a run that can take an order again and again does so (strong fairness of `RunOnce` per order; weak fairness would not
  do, since the other process holds the run lock now and then); a run, a request and the pause go on (weak fairness);
  TTLs of locks nobody uses pass. 1C may fail within the budget of faults, and afterwards answers.
- `invoice_settle`: the same for the worker's timer, the lease and the backoff. Synchronisations, changes in 1C and
  requests of managers are not assumed.
- `settling`, appeals: requests and their background work go on and the poll of the job queue (a timer) takes what is due.
  Codes: a request goes on until it is answered, Redis lets entries expire after their minute.

**Mutants.** Every property of a passing run has a mutant of a mapped definition, next to that definition in its module,
that breaks it: a check that is not repeated under the lock, a lock that is overwritten, a failure record that stamps
`sentTo1cAt`, a lease that is ignored, a second look that is skipped, a contact that is not compared, and so on.

## 5. Proofs

TLAPS proves, for any sets of orders, requests, workers, processes, users and tokens, from the named
assumptions of the modules (the null values lie outside the other sets; `ProcessOf` maps workers to processes, some of
them `Connected`; `ReferencesOf` gives each content its references; the bounds are natural numbers; reported statuses are order statuses):

**ClientOrderExportProofs.** `TypeCorrect == Spec => []TypeOK`. `TypeOK` alone is not inductive: a write step updates
`row[req[c].o]`, so the proof carries `TypeInv`, which adds `RequestsKnow` (an update or a deletion names an order, a
create has lines, a PUT between its looks has its key and its body) and `RunsKnow` (a run past the head of its loop names
an order whose row it has loaded).
The lemmas `ManagerDataType`, `PutDataType`, `WorkerDataType`, `OnecDataType` and `UpdatedType` say that each handler's
columns are well formed and that applying them gives a row; then there is one lemma per group of actions and one step per action.

**ClientOrderSafetyProofs.**
- `SentOrdersAreSaved`: `SavedInv` adds that the *data a request or a run is about to write* say "sent" only of an
  order with a document, as do runs that have an answer and orders 1C has pulled. It is needed since every handler
  writes later than it reads. `DocNext`: a document never goes away.
- `PushesExclusive`: `PushInv` says that a push with an order lock of Redis has the key until the TTL has passed in use
  (`LocksHeld`), that a run with the run lock of Redis has that key in the same way (`RunLockHeld`), that a run with the flag of its
  process has the flag (`FlagsHeld`), and that every run has one of the two (`RunsLocked`). A process that goes on without
  Redis, or whose SET failed, never takes away what another holds.
- `PullsSkipPushes` is a part of `PushInv`: from the lookup to the answer, a run that has the order's lock and is not in
  `began` would have had it at the lookup.

**AccountProofs.** `Inv == TypeInv /\ FamilyInv`. `FamilyInv` has the properties `OneLivePerFamily`,
`UsedHasSuccessor` and `SessionOfItsUser` and what makes them inductive: `ClaimsHold` (the row a transaction has claimed
is not revoked and is claimed by it alone), `FamiliesNamed` (the token a family is named after belongs to it),
`UsedMarked` (a used token is revoked and has a grace period) and `DeniedKnown`, the reasons for a 403. From it: `OneLiveTokenPerFamily`,
`UsedTokensHaveSuccessors`, `RivalsNotDenied`, `SessionsOfTheirUsers`, `LogoutsWin` and the refinement
`ImplementsFamilies == Spec => FamilySpec`, under the mapping of a family to its live tokens and of `issued` to the rows
that exist: a sign-in starts, a commit of a rotation rotates or adopts, a logout ends, everything else stutters.
The same module proves, of `Credentials`, `ActiveAddressesAreProved` (the run's `EmailIsProved`) and `GuessesStayLimited`
(`GuessesAreLimited`). `CredentialsInv` says what holds always, overlapping requests included (`ClientOK`: the ticket a
request has read is still about the same address, the mailbox of a right answer got its mail, the failures it has counted
are on record), and what holds while requests do not overlap (`Quiet`): a request knows the address, the tries and the failures of
the moment; an address that is not proved is of an inactive account and every verification code went to it
(`AddressKnown`); the tries of a ticket are the wrong answers to it (`TriesKnown`). `LimitsAssumption` and
`NoEmailAssumption` type the limits and the null. `SmallestOf` and `LargestOf` (a set of numbers has a smallest member, a
bounded one a largest) give what `Newest` returns; `FailuresAppend` counts the failures after one more attempt.

**MobilePutProofs.** `CreatesNeverCollide` and `ClientVersionsOnlyGrow`. The advisory lock of a PUT keeps out other PUTs
only, so `PutInv` says what every *other* writer leaves alone: runs, 1C calls and managers' requests write nothing of the
client's columns (`RunsSilent`, `UpdateIsNewer`), PUTs in their transaction have different keys (`KeysLocked`), what a
creating PUT saw under the lock still holds (`CreatesFree`) and an updating one brings a newer version than the row of
the moment has (`UpdatesAreNewer`). The action property follows from it step by step.

**InvoiceProofs.** `InvoiceTypes`; `SentWasAccepted`, whose `SentInv` says that what 1C shows, a row, a queue item on its
way, a record about to be written and a call's own memory say "sent" only after an acceptance; `DocumentsSentOnce`, whose
`OnceInv` says that, while the lease was kept (`Kept`: neither `overrun` nor `robbed`), a row has one holder whose copy of
the delivery agrees with the table (`LeaseHolds`), that an acceptance beyond those without a record (`Due`) is in the table
or about to be (`Recorded`), that there is at most one, and none while a document is being sent (`OneSender`), and that an
item of a cancelled version stays cancelled. A crash keeps all of it: the next holder reads the table, and the one
acceptance a dead call may have left unrecorded is counted by `unsure`.

**IdentityProofs**, about `MessengerAuth` and `Profiles`. `SignedInAsScanner`, `PhonesVerifiedByContact` and `MessengerTypes`
share `AuthInv`: types, the rows a handler has read exist and are still of the account it serves (`HandlersOK`), and a
session that is verified was opened by the account that answered (`SessionsOK`). `MaxAccountsKept` is an action property;
it needs that an account has one user (`LinksUnique`), which the unique indexes keep (`InitialUsersAssumption` says that
they held at the start). `ProfileRowsAgree` rests on `ProfilesInv`: what was read allows what will be written (the
department was allowed by the rows read, the role read is the one of those rows, nobody worked in the department a
deletion has cleared, a created profile stays), and the references of a client profile fit (`TermsFit`).
`AcceptedTermsFit` shows of the checks of `POST /profiles/client`, for any references, that what they let through fits
together. `ReferencesAssumption` types the references and `NoneAssumption` keeps null out of the other sets.

**OfficeProofs.**
- `SummariesAreRecent` (`LiveReads`): the age of a value is bounded in memory, in Redis and in the fallback. It needs
  `LiveReadsAssumption`: a value is stale no earlier than it stops being fresh and the fallback outlives an open circuit,
  which the constants of `clientOrders.cache.ts` satisfy.
- `AuditLogMatches` (`AppealLabor`): a stored entry is derived from its hours, rate and payment; a PUT that has locked the
  appeal has read the entries it replaces. `LaborAssumption`: hours and rates are natural numbers, null is none of them.
- `QueuedOrdersPriced` (`OrderLines`): a line is cancelled only with a price, whatever prepared, copied or saved it.
- `TermsTogether` (`Marketplace`): the terms of the profile, of each request in progress and of each order belong together,
  whoever owns the contracts that agreements name. `MarketAssumption` only says that requests name agreements that exist, or none.
- `TrackStaysSound` (`Tracking`): `TrackInv` types the routes, keeps their points apart, and adds what lets a transaction
  write later than it reads: the routes it has read only grew since (`Within`), so what it leaves out of a batch as stored
  already is stored still. While nobody was overtaken, what it read is what is there. That the filter for jitter keeps every
  accurate stop is an induction over the positions of a batch; it is done with the least position that goes wrong, and with
  the existence of functions defined along 0..N (`RunExists`). `TrackingAssumption`: a batch is a non-empty sequence of
  points, and times are natural numbers.
- `RemindersAreKept` (`Appeals`): `AppealsInv` says for every appeal that owes a reminder that it is active and that,
  while it has an unread message, the reminder of its *last* message is scheduled, has been taken out by the poll, or will be
  scheduled by a handler or its background work (`Covered`). Failures are steps like the others: one that hits the work on
  the reminder ends what is owed, every other one must keep it. The reminder of an earlier message would not do: a poll
  that finds this message read drops its job. `AppealsAssumption`: the bound is a number and null is none.
- `RolesStaySound` (`Roles`): `RolesInv` says, while requests do not cross, that the hierarchy can be ordered by ranks
  that fall from a role to its parent, that what a request has seen while climbing is closed upwards and leaves its role out
  (`ClimbOK`), so that the new parent fits the ranks (`Reparented`), and which grants a request in progress has written.
  A hierarchy with ranks has no circle (`OrderedHasNoCircle`). That a deletion gives nobody a permission needs no
  invariant: the ancestors of a role only shrink when parents are pruned (`AncestorsShrink`). `RolesAssumption`: finitely
  many roles, null none of them, those of the seed are system roles.
- `AccessStaysDecided` (`ServiceAccess`): the layers of the code are restated as targets with their distances; what
  the nearest rules of a layer say (`LayerDecides`) is what the most specific rules of the ranking say, layer by layer
  (`RankedIs`, `FieldIsDecided`), for every set of departments, managers and roles. Distances are numbers because the
  climb of a role is (`ChainsAreNumbered`); the climb may even run in a circle. `ServicesInv` adds, until two changes of
  the defaults overlap, that what the one in progress will write is consistent. `ServicesAssumption` types the people and
  the bodies of requests; null is no department and no role.

**UpdatesProofs.** `ReleasesServed`. For the cache: it holds the latest release, or some request will still empty it
(`CacheInv`). For the files: the file of an upload is known to nobody else until its row is made, and a file found unused
is used only by rows that borrowed it since (`FilesInv`). Of `OtaUpdates`, `ActiveUpdatesServed` and `PhonesSettle` from
`OtaInv`: a cleanup that is deleting files has an active update among them only when it was made active since; the number
a publication has read is free unless a caller chose it or two overlapped; and a phone for which nothing has changed runs what it would be sent
(`SettledOn`), which is what makes `PhoneSettles` inductive. `OtaAssumption`: the phones with an id are phones.
`ClosedSessionsPass` (`OnecSync`, under `CatalogFeed`'s specification): after the k-th step of a promotion every row the
session brings for the entities up to there exists (`Brought`), since each step keeps the rows there are (`Effect`), blocks only what
is not `CanApply`, and `RECONCILE_ORDER` puts every table after the ones it names (`InOrder`). Groups need that a set of
them without a circle is resolved whole (`GroupsAre`). The invariant of the specification is only that what is staged are items
(`SyncTypes`): the rest is about one promotion, whatever the catalogue held. `CatalogueAssumption` says what 1C sends: a
batch has items of one entity, a guid is of one table, an item names rows of the tables its own may refer to, and only
agreements bring price types; it is also finite.
`CaughtUpClientsAreRight` (`CatalogFeed`): `FeedInv` types the rows, says that a product's row is what some item says
(`ProductRows`), so that equal versions are equal rows, and that the changes stand in the order of their revisions, between
`minAvailableRevision` and the current one (`CatalogOK`). The heart is `Follows`: until a call slipped between a pruning
and the revision it moves (`slipped`), or clearing the nomenclature removed products unannounced, the client knows, of every product its cursor has passed, what the catalogue holds, or a change
after its revision tells of it, or its revision is behind what is kept, so that its next call sends it back to the start. A
promotion keeps that because whatever moves a product is announced after it in the same transaction (`Moved`, `Told`, followed through
the entities of `RECONCILE_ORDER`), and because a replacement of the products starts an epoch no client has. Between the two reads of a
call the catalogue may move on: the page is then newer than the revision it is filed under, never older.
`FeedAssumption`: the product order names every product once and a page is not empty.

**Only model-checked.** Liveness under fairness is outside the prover's reach: `QueueDrains`, `InvoicesSettle`,
`ReminderComes`, `CachesCatchUp`. Not proved: `PromoteIsExact` of `OnecSync`, which needs
the whole content of the nine tables to be followed through a promotion, and `ScrollShowsAll`, which is about the
numbers of documents in pages that are counted together over several requests.

## 6. What the properties mean

- `SentMeansSaved`: status SENT_TO_1C, a 1C number, a sent time or a posting are never shown for an order
  1C has not got, through lost answers, late saves, acknowledgements of old pulls, retries and crashes.
- `PushExclusive`: two runs push one order at once only when neither lock parts them. The run lock parts two runs that both
  have it and have not outlived its TTL, and two runs of one process without Redis; the order lock parts two pushes that
  both have it. So one failing command or one TTL is made good by the other lock, and it takes two. A process with Redis
  and one without, or two without, are not kept apart by the code.
- `PullSkipsPushedOrders`: an order about to be handed out has not been in a push under a good lock since before the locks
  were looked up, whatever edits, failures and ends of runs come before the answer. The code lets two more cases through: a push
  that begins after the lookup, while the run is being recorded, and a lookup that fails.
- `ClientVersionNeverRolledBack`: whichever order retried and delayed PUTs arrive in, the stored client revision does not
  decrease. `CreateNeverCollides`: the second of two first PUTs never reaches the unique index.
- `QueueDrains`: every candidate leaves the queue.
- `DocumentSentOnce`: a crash costs at most the one document whose acceptance it kept from being recorded; otherwise the row of a dead
  call is taken over without a second document. Only a lease that ends before its call ends the promise.
- `SentMeansAccepted`, `InvoicesSettle`: see the comments in `InvoiceDelivery`. A manager who cannot be
  reached is tried for ever, which `InvoicesSettle` states as its only alternative.
- `OneLivePerFamily`, `UsedHasSuccessor`, `LogoutWins`, `RivalsAreNotDenied`, `SessionOfItsUser`: concurrent rotations,
  failures in the transaction, logouts between its looks, rivals within the grace period, a device that changes hands.
- `SignedInByScanner`: rebinding, late writes by id and contacts of other accounts never sign a browser in as a user
  whose messenger did not open this browser's code. That a session ends is not claimed: it is expired by the next poll of
  its browser, and nothing on the server does it when the browser is gone.
- `PhoneVerifiedByContact`, `MaxAccountsKeepTheirUser`: as
  their names say, across all the handlers that link accounts, for an account that has a user and one that gets its first.
- `ClosedSessionIsNotBlocked`: the order of promotion respects every reference between entities: a session that brings
  all it names, its groups without a circle of parents, blocks nothing. `PromoteIsExact`: after
  COMPLETED the catalogue holds what was staged, and after a replacement nothing else. `CaughtUpClientIsRight`: no change
  falls between pages, promotes, epochs and pruned history.
- `EmailIsProved`, `GuessesAreLimited`: codes are not bound to addresses, mails fail, codes replace each other, and still
  an active address was proved and the limits are met exactly.
- `ProfilesAgree`, `RolesAreSound`, `AccessIsDecided`: rows written by several statements agree wherever they stop.
- `UnreadMessageHasReminder`, `ReminderComes`: jobs cancelled and scheduled without a lock do not lose the reminder, and
  neither does a failure elsewhere. A failure of the work on the reminder itself does: the code does not try it again.
- `ReleasesAreServed`, `ActiveUpdatesAreServed`, `PhoneSettles`, `CachesCatchUp`, `AnswersAreRecent`: caches and files
  against changes; the exceptions the code leaves open are named in the properties (`overtaken`, `borrowed`,
  `revived`, `chosen`).
- `TermsStayTogether`, `QueuedOrdersArePriced`, `ScrollShowsAll`, `AuditMatchesEntries`, `TrackIsSound`: see their comments.

## 7. Where the code and its own words disagree

With a run that shows the behaviour:

- `delete_in_flight`: a queued order is deleted after 1C saved the push and before the worker recorded it. The message
  of `deleteDraftClientOrder` limits deletion to orders "not yet created in 1C"; the document stays behind.
- `update_race`: two updates with one revision both pass `assertRevision`; the second waits at the rows of the references
  they share, then replaces the lines of the first under the revision the first was given: a lost update, which the message
  of `assertRevision` excludes.
- `snapshot_error`: a snapshot with an unknown product fails after `deleteMany`; the error is caught inside the transaction,
  which commits the deletion.
- `invoice_retry`: a failed report to 1C clears the lease of a call that has taken the row meanwhile, a third call takes
  it and the document goes out twice; a comment says a retry "never duplicates the document itself".

Also met while modelling, in the model but without a run:

- a SAVE `PUT` decides from the row it found under a lock that `submitClientOrder` does not take, and may write a
  submitted order back to a draft; `clientOrders.service.ts:5477` calls SAVE to SUBMIT "a monotonic intent escalation";
- a call of `processInvoice` that is working when the queue cancels its invoice writes AVAILABLE, SENT or ERROR over
  CANCELLED; `clientOrderInvoiceWorker.ts:135` calls the cancellation terminal;
- an acknowledgement accepts the status CANCELLED, while `docs/1c-import-guide.md:304` allows SENT_TO_1C only;
- overlapping uploads and starts leave a user with two active routes, where a comment in `saveTrackingPointsHandler` speaks
  of "one continuous active route" (`overtaken` in `Tracking`);
- a cleanup that overlaps `PUT isActive=true` deletes the files of an active OTA update (`revived` in `OtaUpdates`), which
  the route's message excludes; without a device id the rollout hash falls back to the id of the running update
  (`ota.ts:313`), while `docs/ota-update-server.md` calls it a hash of device and update;
- with an agreement chosen, special prices of the counterparty, of a price type and for everybody are not looked at
  (`marketplace.service.ts:559`), while `docs/1c-sync-implementation-prompt.md` lists them as next in turn;
- two overlapping changes of parents can close a circle of roles, APPROVE overlapping REJECT leaves a blocked employee
  with the role, two PATCHes of a service can store enabled without visible: each check looks at the row it read;
- an expired completion of a session that does not replace can end COMPLETED with rows RESOLVED that were not applied,
  and a batch that arrives during a completion is marked RESOLVED unapplied (`disturbed` in `OnecSync`); clearing the
  nomenclature deletes products without a change in the feed (`unannounced`);
- with filters the server applies itself, a scan without a match ends the order list though 1C has more;
- the value kept in memory for an open circuit is deleted by the read that precedes the look at the circuit, so only
  forced refreshes find it; memory filled from Redis prolongs the life of a value to two times to live;
- password changes and resets do not revoke refresh tokens; a reset code survives a change of address;
- a query that read older rows may fill the cache of the latest release after it was emptied, for half a minute;
- the deletion of a department fails at its last statement after profiles and roles were cleared.

## 8. What is not modelled

Per component with its reason in `PROJECT.json`. Pure input and output (files, home, notifications, bots' transport,
mail, logging, server start); reports and searches over stored rows (analytics of appeals and tracking, exports,
counterparty search, administrators' lists); payload fields and their formatting; 1C itself, which appears as an
environment. Edits of appeal messages, watchers, scan counting of QR codes, presence and the response cache have
no module.

What no property covers of a hazard is said in its note in `PROJECT.json`. These are races the code does not prevent, which
the properties name as exceptions: a lease that passes in use (`clientOrderInvoiceWorker.ts:611`), a push that begins after
the lookup of the locks (`onec.controllers.ts:737`), changes that overlap although each was checked against the row it read
(`services.ts:789`, `users.ts:270` and `:3283`, `auth.ts:2614`, `appeals.ts:3273`, `tracking.ts:255`), files and caches
overtaken by a change (`updates.ts:225` and `:271`, `ota.ts:501`), a failed job (`scheduledJobsService.ts:96`), and the limit of
a scan (`clientOrders.service.ts:3513`).

Also known, and not in the list: an edit that goes through while a push is in flight is marked as sent
(`clientOrdersExportWorker.ts:451`), orders in backoff can hide one that is due (`:587`), the same for invoices
(`clientOrderInvoiceWorker.ts:822`), a restored draft keeps `submitRequestedAt` (`clientOrders.service.ts:6437`), an answer
lost after a rotation (`auth.ts:2423`), two polls that both sign in (`auth.ts:679`), the owner to unlink read before the
transaction (`phoneVerificationService.ts:400`). The code states no expectation of these.

## 9. Running

    tlc -workers 2 -config MCExchange.cfg MCClientOrderExport
    tlapm ClientOrderSafetyProofs.tla

The pairs of module and config are under "runs" in `PROJECT.json`; each run ends within five minutes on two workers.
