# Formal model of ai-expense-tracker

TLA+ specifications of the parts of ai-expense-tracker where several processes,
a message queue, a payment provider and a database meet, the TLC configurations
that check them on small instances, and TLAPS proofs that hold for every
instance. Paths below are relative to the repository; `backend/app` is left out
in front of `api/`, `services/`, `worker/`, `core/`, `auth/` and `models/`.

    tlc -config ReceiptDelivery.cfg MCReceiptPipeline      # check one instance
    tlapm ReceiptPipelineProofs.tla                        # check the proofs

## 1. The system

A Flutter app photographs receipts. A FastAPI process keeps users, receipts,
transactions, categories, plans and subscriptions in PostgreSQL, images in
MinIO, and hands receipts over RabbitMQ to a worker, which lets a vision model
read them and books a transaction. RevenueCat tells the API about purchases.
`infra/k8s/base` runs one replica of each; during a rollout two run side by
side. Handlers are coroutines with blocking database sessions: in one process
two requests interleave only where a handler awaits (the broker, the RevenueCat
API, Redis); two processes interleave at every database statement.

| component | state | operations | interacts with | hard behaviour | what makes it correct |
|---|---|---|---|---|---|
| receipt routes (`api/routers/receipts.py`) | `receipts` row, object in MinIO | create, confirm, delete, get | client PUT, queue, quota | commit and publish are two steps; the publish may fail or be ambiguous; delete runs beside the worker | nothing uploaded is lost; rows and object go together |
| worker (`worker/receipt_processor.py`) | status, attempts, extraction, transaction, items | claim, download, extract, book, complete, fail | queue, MinIO, vision model | redelivery, staleness, retries, two commits, crash | one booking per receipt; COMPLETED means booked and is final; attempts are bounded |
| RabbitMQ (external) | ready and unacked messages | deliver, ack, reject, redeliver | API, worker | duplicates after a lost channel | - |
| scan quota (`services/billing/usage.py`, confirm) | `uploaded_at` of receipts | count, charge, refund | subscriptions, receipt deletion | count then charge; two row locks; rolling window | never more than the limit in a window; no deadlock |
| billing (`services/billing/*`, `api/routers/billing.py`) | webhook events, subscriptions, entitlements | webhook, sync, manual action, read access | RevenueCat, quota, client | repeated and failed deliveries, answers applied out of order, time passing between write and read | no change forgotten; access follows the store; both endpoints agree |
| auth and user cache (`auth/deps.py`, `cache/user_cache.py`) | `users`, Redis entries | authenticate, create user, cache | every route, account deletion | first requests race; the cache outlives the row | who loses the race to create a user goes on with the winner's; nobody acts for a deleted one |
| account deletion (`services/account_deletion.py`) | everything of a user | delete images, rows, Firebase user, cache | worker, auth, uploads | partial failure, jobs and uploads meanwhile, a token that outlives the account | nothing refers to a user that is gone; a deletion gets through |
| feature requests (`services/feature_requests.py`) | requests, votes | propose, vote, moderate | account deletion | reads before, commit after those of others | public exactly when approved; only shown requests collect votes |
| categories (`api/routers/categories.py`, `services/taxonomy.py`) | category tree, hidden categories | create, bring back, move, delete, hide, restore | import, limits of the free plan, worker | long legal sequences | a tree within one account; limits; the worker files under what the user is shown |
| transactions and items (`api/routers/transactions_crud.py`) | transactions, items | create, edit, delete | worker, import, translations | an edit that reads before the worker commits and writes after; names that change under their translation | a refused save gets through when tried again; translation of the name shown |
| import and export (`api/routers/data.py`) | - | export, import | categories, transactions | writes past the routes' checks; rewriting of ids | what was exported comes back; nothing of others changes |
| planning (`api/routers/planning.py`, client `planning_logic.dart`) | budgets, reminders | pay, skip, delete | devices with old lists | month and leap-year edges, twice implemented | the server accepts what a device shows |
| exchange rates (`services/fx_rates.py`) | rates by day | look up, store | two providers | providers fail, lag, have no page, or give no date | a rate of the day it is said to be of |
| analytics (`services/transactions/read_models.py`, `api/routers/transactions_analytics.py`) | none | trends, breakdowns | transactions, categories, rates | both ends of a range; items filed twice or nowhere | spending counts once; views agree |
| client | polling, optimistic premium, notifications | upload, poll, purchase, sync | all of the above | time limits against late results | shows what the server holds |

Extraction, the storing of translations, infrastructure and screens keep no
state that interleaves. `PROJECT.json` lists every component with its status,
and every hazard found in the code at its line.

## 2. Modules

| module | models |
|---|---|
| `ReceiptPipeline` | receipt routes, queue and worker |
| `ReceiptLedger`, `ReceiptPipelineRefinement` | what the pipeline promises of a receipt's booking, and the mapping of the one onto the other |
| `BillingSync` | RevenueCat webhooks, syncs, manual overrides, entitlements |
| `ScanQuota` | confirm, statement by statement, with row locks and the rolling window |
| `Accounts` | a person's user, its cache, and the deletion of the account |
| `FeatureRequests` | the board: proposing, voting, moderating, leaving |
| `Categories` | the category tree, what is hidden, limits, export and import of categories |
| `Transactions` | transactions and items by hand, by the worker and by import; which translation is shown |
| `BillReminders` | a recurring bill on the server and on devices |
| `FxRates` | the rate of a pair of currencies on a day |
| `Trends` | the rows of a range, of the range before, and of each bucket |
| `Breakdown` | the items a filter lets through, and the views that count them |
| `MCReceiptPipeline`, `MCBillingSync`, `MCScanQuota` | one module each for TLC (symmetry; constants are in the `.cfg`) |
| `MCCommunity` | `Accounts` and `FeatureRequests` for TLC |
| `MCUserData` | `Categories` to `Breakdown` for TLC |
| `*Proofs` | the theorems of the module they extend: `CommunityProofs` of `Accounts` and of `MCCommunity`, `UserDataProofs` of `Categories`, `FxRates`, `Trends`, `BillReminders` and `MCUserData` |

Every model definition carries in `PROJECT.json` the source lines it stands for.
Definitions under "Slips" or called "A slip" are mistakes that the code does not
make: the specification does not use them, each property is tried against one.

The parts of `MCCommunity` and of `MCUserData` share no variable, in the models
as in the code's handlers, so no behaviour of one is affected by another: a
variable `part`, chosen at the start, says which one runs, and the others stay in
a first state. Each of the two modules extends one component (`Accounts`,
`Categories`) and takes the others as instances, whose type invariants are
checked with one of their properties. Where a component has a module of proofs,
the instance is of that one, so that its theorems can be cited for the whole
(`Transaction!EditsTheorem`).

### ReceiptPipeline

State: `status`, `attempt`, `metered` (`uploaded_at` set) and `stale` are columns
of `receipts`; `extraction`, `tx` and `items` the rows that reference it;
`object` the image; `ready` and `unacked` the queue; `worker` and `handler` the
positions of jobs and requests; `found` what a delete request read. `orphaned`
and `ambiguous` are history variables that name which fault a receipt met.

A step is one commit, one call to MinIO or one exchange with the broker.

* `ConfirmUpload` goes from the row lock to the commit in one step: receipt and
  user are locked and nothing is awaited. `ScanQuota` splits it and shows that
  the locks suffice. The deletion of an object between the HEAD request and the
  commit commutes with the commit.
* `PublishAccepted`, `PublishFails` and `PublishUnconfirmed` are the outcomes of
  one `publish`: the third raises although the broker has the message.
  `RevertReceipt` writes CREATED whatever the status has become, as the code does.
* `DeleteObject`, `DeleteFindsRows`, `DeleteCommits`: the three moments of
  `delete_receipt` between which a worker may run. An UPDATE of a row already
  gone, and a second booking of one receipt, raise; in the model as in
  PostgreSQL (`uq` and foreign key constraints).
* `Claim` is atomic: the commit of PROCESSING conflicts with every insert that
  references the row. `NothingToDo` and `ReconciledStatus` are the redelivery
  guard, with its branches for rows found and for staleness.
* `SaveTransaction` and `Complete` are two commits. `ProcessingRaises` may
  happen at every call of the `try` block, `HandleFailure` is its `except`.
* `WorkerDies`, `HandlerDies` and `ConnectionLost` are faults, counted by
  `spent`. `WorkerDies` also stands for database errors outside the `try`.
  `BecomeStale` may happen at any moment after PROCESSING: the clock is not
  modelled, only its verdict.

### BillingSync

`store` is RevenueCat's record of the user's product (expiry, billing issue,
cancelled), `changes` counts its changes, `sent` the events emitted, `outbox`
those not yet answered with a 2xx, `tests` those of type TEST. `known` says that
the user has a local row. `eventStatus` and `processed` are
`billing_webhook_events.status` and `processed_at`; `subscription` and
`entitlement` the rows per provider; `handler` and `payload` what a request is
doing and the subscriber record it fetched. `seen` (history) is the change that
the RevenueCat row shows, `newest` the newest one ever applied; `overtaken` and
`ignored` (history) record that an older answer was applied after a newer one, and
that an event found no local user.

`Receive`, `SettleAtOnce`, `Begin`, `Fetch`, `SyncFails`, `Apply`,
`MarkProcessed` and `MarkFailed` are the commits and awaits of
`process_revenuecat_webhook` and `sync_revenuecat_subscription`; `StartSync` is
the route the app calls; `ManualAction` the administrator's. `Apply` and
`ManualAction` are atomic: there is no await between their reads and their
commit. Two API processes that interleave inside one of them are not modelled.
`Grants` and `Effective` decide what the subscription endpoint shows,
`Entitled` what the entitlements endpoint shows. One product with an expiry;
statuses, grace and terminal rows as in `services/billing/subscriptions.py`;
the clocks of RevenueCat and backend agree. The expiry of a failed terminal
entitlement, which nothing reads, is abstracted to 0.

### ScanQuota

`uploadedAt` and `status` are the receipt's columns, `receiptLock` and `userLock`
say which request holds a row, `handler` is the position of each confirm. Its
statements are `LockReceipt`, `Verify` or `RejectUpload`, `LockUser`,
`CountScans`, then `Refuse`, `BrokerMissing` or `Charge`, then `PublishAccepted`,
or `PublishRaises` and `Revert`. `DeleteObject` and `DeleteRow` are the two halves
of a deletion. `Charge` advances the clock: timestamps of two commits are distinct
instants, and the count takes those before now. `charged` (history) holds the
receipts charged on the free plan and not given back, `scans` (history) the
instants of those whose message the broker took. Premium may come and go at any
moment: `BillingSync` says when it really does. The ambiguous publish is left to
`ReceiptPipeline`. Receipts exist in the initial state: `create_receipt` touches
nothing the quota reads.

### Accounts

One person, with one Firebase user (`identity`). `users` are the ids in the
table, `spent` those ever given out, `cache` the entry under the person's key;
`issued`, `owner`, `booked` stand for all rows with a `user_id` (receipts) and
those that refer to them (transactions); `objects` are the images, `jobs` what
the worker has claimed. `handler` holds where a request is, the user it found
(`seen`), and what a deletion has read. `late` (history) are the images put after
a deletion had listed them.

`Begin`, `CheckCached`, `DropStale`, `LookUp`, `CreateUser`, `ReadBack`,
`CacheUser` are the awaits and commits of `get_current_user`: the unique
constraint decides who creates the user, `ReadBack` is the read after the commit
or, for the loser, the read of the winner's row, and every call to Redis may fail
unnoticed (`MayFail`). A request keeps the users that were gone when it began
(`dead`, history), so that `SignInGetsThrough` can tell a loser turned away by a
deletion from one turned away by the race.
`DeleteImages`, `ReadIds`, `DeleteRows`, `DeleteFirebaseUser`, `InvalidateCache`
are those of `delete_me`. `PutImage`, `ClaimReceipt`, `BookReceipt` go on beside
them. A token stays valid after the Firebase user is deleted, except for DELETE
requests, which ask Firebase: `identity` guards `DeleteImages` only.

### FeatureRequests

`board` holds a row per request, `votes` pairs, `members` the users that exist,
`call` what each handler has read and means to write, `shown` (history) what has
ever been public. `ReadForModeration`/`Moderate` and `ReadForVote`/`Vote` are a
handler's first read and its commit. An ORM object writes the columns that
differ from what was read (`Written`); check, unique and foreign key constraints
refuse a commit. `BeginLeaving`/`Leave` are the part of `delete_account_for_user`
that clears the board.

### Categories

`cats` maps the ids of users' categories to rows, `hidden` is
`user_hidden_categories`, `file` what an export wrote last and an import may
read at any later time, in any account; `imported` (history) marks who did. The
routes are `Create` (with the row that is brought back), `Update`, `Delete`,
`Hide`, `Restore`, `DeleteAccount`; `Export` and `Import` those of `data.py`,
with the ids that are rewritten when another user holds them. A request is one
step: its handler awaits nothing after its first read.

`Listed` is what `list_categories` answers, with a built-in category that gives
way to one of the user's with its code in its place; `ItemCategories` and
`ReceiptCategories` are what the worker may resolve a code to, which prefers the
user's own wherever they are. `FiledAsListed` relates the two: they are two queries, in
two processes, over what is hidden one by one or with those below.

### Transactions

`tx`, `items`: rows by id; an item has its line number, its name, the name for
which a language was given (`lang`), the name the worker read (`raw`) and whether
there is a translatable name (`base`). Names are taken up to case and the length of
their spaces, as `read_models.py` compares them; `Empty` is the description without
a character, `Blanks` holds it and those of spaces only, `NewItem` and `Imported` are
what the routes write for an empty one (`Named`). `job` are transactions whose items
the worker has yet to commit. `refused` and `read` are history.

The worker is another process, so an edit is two steps: `ReadForUpdate` reads the
items and their highest line number into `edit`, `CommitUpdate` writes, in the
ORM's order, inserts before deletes; `BookItems` may commit between the two, and the
unique constraint then refuses the save (`refused`). `AbandonUpdate` is an edit that
dies. The other requests run in the process of the edit, and not in the middle of
it (`Free`). An import that the worker commits in the middle of is refused
with 422 when they use one line number, and else equals one before or after that
commit, so `Import` is one step.
`UserEdited` and `TranslationSource` are `_item_description_user_edited_values` and
`_preferred_item_translation_source_values`.

### BillReminders

`bill` is the row on the server, `loaded` the row as each device last loaded it.
`ExpectedDueDate` and `OnSchedule` are the server's arithmetic on dates,
`DueForList` and `Shown` the client's, on instants of a local clock whose days
have 23 or 25 hours when clocks change (`Start`, `DateOf`). `MarkPaid` and `Skip`
send what a device shows; `Load`, `Delete` and `Tomorrow` may happen at any time.

### FxRates, Trends, Breakdown

`FxRates`: `Exact`, `Fetch` and `Fallback` are the outcomes of one `lookup_rate`;
the sets `FromFrankfurter` and `FromCurrencyApi` hold every answer the two
providers may give for a day. An answer whose date is missing or cannot be read is
taken for the day asked for, as in the code (`Readings`); `dated` remembers which.
`Honest` says how far such a rate can be off: one of the first provider is of its
last business day before, unmarked, and one of the second, when it is of another
day, is the latest and marked. `Trends` and `Breakdown` compute one answer from
any rows: an item stands for its amount, for every amount is converted and added
by itself, so sums are right exactly if the sets of rows are. `Trends` has the
bounds of a range, the range before (`PreviousEnd`, `Window`) and the buckets by
day, week and month (`Ranges`, `BucketEnd`). `Breakdown` has any forest of
categories, the walks up and down as far as they are visible (`TopLevel`,
`DirectChild`, `Descendants`), the filter (`Filtered`, `Scope`) and the views
(`Summary`, `DrillDown`, `BySubcategory`, `Listed`). In a tree of three levels,
which `update_category` permits, the breakdown rolls an item of the third level up
into its parent and the drill-down into the category below the top, so their rows
differ; `DrillDownAgrees` says what each row holds, and that the whole trees are
equal but for what is hidden.

## 3. Runs

| run | instance | shows |
|---|---|---|
| `receipt_delivery` | 1 receipt, 2 workers, 2 requests, 2 retries, 2 faults, fair (444,037 states) | nothing pending is lost except through the named faults (`Custody`) and it is settled in the end (`UploadsSettle`); COMPLETED is booked and final; rows come together; every booking is a scan; attempts are bounded; no redelivery repeats running work; the pipeline implements `ReceiptLedger` |
| `billing_sync` | 2 events, 2 requests, 1 fault, 1 override, 2 instants (2,175,967) | a change not shown is still announced; once shown, access follows the store as time passes; the two endpoints that report access agree |
| `billing_delivery` | 2 events, 2 requests, 1 fault, fair (129,147) | every event is answered with a 2xx |
| `scan_quota` | 2 receipts, 2 requests, limit 1, window 2, 4 instants, fair (43,456) | the count stays within the limit in every window; a receipt handed over keeps its image; requests do not wait on one another's locks for ever |
| `community` | accounts: 2 ids, 1 receipt, 2 requests, 1 fault, fair; board: 1 request, 2 members, 1 admin, 2 handlers (206,570) | who loses the race to create the user goes on with the winner's row, no row without its user, nobody acts for a deleted user, only late images are left, a deletion gets through; public exactly when approved, outsiders vote on what was shown, nothing refers to who left |
| `user_data` | the constants of `UserData.cfg` (724,684) | the tree, the limits, and the worker's categories in the user's list; saves refused at most once; translations; import after export; due dates; rates; trends; views that agree |
| `receipt_restart` (violated) | 1 fault | one crash strands a receipt |
| `receipt_items` (violated) | no fault | a failed second commit completes a receipt without items |
| `billing_current` (violated) | no fault | answers applied out of order leave an old subscription |
| `scan_refund` (violated) | 2 receipts, limit 1 | deleting a receipt gives its scan back |
| `data_export` (violated) | 1 transaction | one transaction without a date makes the export fail |
| `bill_handled` (violated) | a daily bill that begins tomorrow | its first date, paid ahead, is shown again |

The violated runs state what a docstring, a comment, a test or a message to the
user says; `PROJECT.json` quotes each line under `findings`.

Bounds. Receipts of the pipeline share nothing but workers and requests, so one
receipt with two of each meets every interleaving of one receipt's actors; two
retries distinguish a first, a repeated and a last attempt; two faults allow a
fault during the recovery from another. Two events are the least in which one
answer overtakes another; two requests are the most that can contend in pairs
for one row; with a period of one instant a purchase is bought and runs out. With
a limit of 1 and a window of 2 in 4 instants a scan fills the window, leaves it,
and the next one fills it again. Two ids let a person come back after a deletion.

In `user_data` two users hold two categories each other could be confused with
below a built-in category `T` and the built-in one `S` below it, whose codes the
users' own may have. What one hides is of no account to the other, nor to an
export or an import, so only one of the two hides categories (`Hiders`), and only
while the file is empty (`HidingBound`): by an export of an account without
categories that comes after an import too. A transaction is recent, or it is old
where old ones are not exported and without a date where they are (`DatesBound`);
of two items one has a name without a language and a translation (`NamesBound`),
for a translation follows the name of its own item. Two items of one transaction
are edited, replaced and booked while line numbers go to 2; the worker reads one
item of a receipt, so a receipt with one number twice is met in the proofs only,
which take any `MaxLines`. Both defaults are the name `n2`, which a user may enter too, and
the only blank name is the empty one; the proofs take any of them. `ThreeYears` is
a calendar of three years of two months, of which one second month is a day
shorter, as February is, and a week of three days is no divisor of a month: days
are clamped, and clamped differently in another year. The clocks of that calendar
do not change: with a change within the calendar `ShownIsAccepted` does not hold,
for the client's `DateTime.add` counts hours, and a weekly date after the change
can fall on the day before; `BillTheorem` says exactly that (`EvenWeeks`). The
year after the last day looked at is in the calendar (`HorizonAssumption`), for a
device may show it. `Trends` has two months of two days of two ticks, so every
bound meets the edge of a day, a week and a month. `Breakdown` has three
categories in every tree they can make up to their names (`Trees`): none above
another, one or two below `Main`, or a chain of three. The days on which the two
providers have no rate of their own (`Business`, `Forgotten`) differ.

The theorems below need none of these bounds. `MaxTime`, `MaxFaults`,
`MaxOverrides` and `MaxLineNo` bound only the environment. `CHECK_DEADLOCK FALSE`
in all runs: when every receipt is settled, an answer given, or the environment
has used up its bounds, the system rightly stops.

Fairness. `ReceiptPipeline`: weak fairness of each worker that has a message and
each request past its commit; the event loop and the consumer's thread
keep them going. None for clients or faults. `BillingSync`: weak fairness of requests,
strong fairness of a delivery, for RevenueCat sends an unanswered event again
(a few times over hours; the model takes it that one attempt meets a live API).
`ScanQuota`: strong fairness of each request's steps, since PostgreSQL grants a
row lock to those who wait in order, and a transaction that dies releases its
locks. `Accounts`: weak fairness of a request's steps and of the worker's commit;
strong fairness of `DeleteImages` says that the person asks again whenever a
request could delete, for what is shown is that no attempt makes a later one
impossible.

## 4. Theorems

All theorems hold for every value of the constants under the named assumptions
of each module. Where a module declares them with ASSUME they are used as they
are; the theorems on the modules of `MCCommunity` and `MCUserData` name theirs
(`ASSUME Assumptions PROVE Spec => []...`), and the two MC modules assume the
same for their instances, so that TLC evaluates them.

`ReceiptPipelineProofs`. `InductiveInvariant` proves `IInv`, the conjunction of

* `TypeOK` and `Books`: extraction and transaction come together, COMPLETED is
  booked, what is booked has its receipt;
* `LostChannel`: a worker whose message the broker has taken back is at work on
  an orphaned receipt;
* `Handoff`: a request between its commit and the end of its publish is the only
  one for its receipt, and unless a publish was ambiguous no message, worker or
  transaction knows of a receipt that is CREATED or still being handed over;
* `Metering`: a receipt past CREATED has its `uploaded_at`, unless ambiguous;
* `OneMessage`: outside the named faults a receipt has at most one message,
  waiting or with one worker. `CompletedIsStable` and
  `RedeliveryDoesNotRepeatWork` speak of a second delivery, and only this says
  when there is one;
* `Custody` itself.

From it follow `CustodyTheorem`, `BooksTheorem`, `RowsTheorem`,
`MeteringTheorem`, `CompletedTheorem`, `RedeliveryTheorem` and the refinement
`LedgerTheorem`. There is one lemma per part (`*Kept`), with a step for each
action that can disturb it.

In the same module `AttemptsTheorem` needs a count that the state does not
show: `Budget` adds to the attempts made what may still be attempted, that is
messages waiting, workers that may claim or requeue (`Live`), and the message
still to be sent (`Open`), of which the attempts before the last allowed one are
free. A claim uses up the message of its worker once the limit is reached, and
only a fault adds a message without using one. For any finite set of workers; a
deleted receipt's message may go round, but is not claimed (`Within`).

`BillingSyncProofs`. `AccessTheorem` rests on a relation between each
subscription row and its entitlement (`AccessInv`): the status written at the
answer's time and the expiry kept in both rows decide the same at every later
instant. `SyncTheorem` needs two further facts: an event not yet sent is in no
request, and the newest change has its event in the outbox until a request has
applied an answer at least as new. `PremiumTheorem` adds that the row, when it
shows the last change, is what the normalisation writes for the store's record.

`ScanQuotaProofs`. `QuotaTheorem`: a request found `within` the limit holds the
user's lock, so until it charges or lets go no other scan is charged and the
window that ends now still has room for one (`Reserved`, on top of `Locks`); a
later window holds no more, by finite cardinalities. `ObjectTheorem`: who holds the
receipt's lock is the only one who can change status or remove the image.

`CommunityProofs`. The inductive invariant of `Accounts` adds to the four
properties that an id given out is never given out again (`DeadStayDead`, so that
a user a request found after a deletion is another one), that what is put or
booked was created (`Created`), and that between listing and commit of a deletion
the user's images still there came late (`ListedAreLate`). `SignInTheorem` needs
that a request between its attempt to create the user and its read of the row met
a user created after those it knows to be dead (`Undecided`), so that the row it
reads is missing only if that one was deleted in the meantime; every other place
where a request can end before it has its user is a death
(`TurnedAwayAtReadBack`). `BothPublicState`, `BothOutsiders` and `BothMembers`
carry the theorems on the board over to the composition, of which every behaviour
is one of the board.

`FeatureRequestsProofs`. Two facts tie what a call has read to the board it
commits to: what is approved has been shown (`ApprovedIsShown`), and neither a
moderation nor a vote changes whose a request is (`CreatorsStand`), so the check
of a vote stays good while others commit. `PublicStateTheorem` rests on the
constraint, `MembersTheorem` on the foreign keys.

`TransactionsProofs`, for any finite set of items (`ItemsAssumption`) and any
names with their defaults and blanks (`NamesAssumption`). A save inserts before it
deletes, so the lines of the old items count: the new ones begin after the largest
line that was read, which exists because the items are finitely many. `EditFits`
is what stays true of an edit's reads until its commit: either no item has a later
line, or the worker has just committed the items of a receipt's transaction, for
the first and last time. So `EditsTheorem` needs that no two items of a
transaction share a line, in the table (`ItemsFit`) and in every file an export
may have written (`FileFits`), and that a transaction the worker has yet to give
its items is of a receipt, which cannot be deleted meanwhile (`JobsHaveReceipts`).
`TranslationTheorem` is a part of `ItemsFit`: a name with a language is the item's
name, or one of the defaults in place of an empty one, and the worker's name is
marked as translatable only while it is the one read. `ImportTheorem` follows from
`FileFits` without looking at what came before.

`BreakdownProofs`, for any finite set of categories in trees of any depth. The
walks up (`Climb`) and down (`Descendants`) are recursive functions, which no
prover unfolds by itself. `ClimbSteps` and `DescentSteps` name the function that
the recursion computes, show that it satisfies the recursive equation, hence that
what the definition CHOOSEs does, and by `CountingUp` that the two agree.
`CountingUp` is induction over numbers with a set in place of an operator, proved
from the library's fact that the numbers are well-founded. That a walk of as many
steps as there are categories arrives (`ClimbEnds`, `DescendantsClosed`) is by
counting: a set that grows at each step would have more elements than there are.
`Descendants` is the least closed set (`DescendantsLeast`), and of the categories
below a top one exactly those whose way up ends there (`DescendantsInverse`,
`ClimbIsAbove`). `SummaryAgrees`, `RowAgrees`, `TreeAgrees` and `FilterAgrees`
then compare the views set by set.

`UserDataProofs` holds the theorems on `Categories`, `FxRates`, `Trends` and
`BillReminders`, and on the whole of `MCUserData`.

* Acyclicity is stated without paths: no set of categories that is not empty has
  all its parents in itself (`Rooted`). A move keeps it because the new parent has
  no parent (`StoreRooted`), although the moved category may have children; an
  import keeps it because a file written by an export is closed (`FileRooted`) and
  a row of the file never points to one outside.
* `LimitsTheorem`, for a finite set of ids (`IdsAssumption`, which also keeps
  `None` apart from the users), compares the sets that are counted before and
  after each route: at most the one row a route stores joins them (`StoreCounts`),
  and only where the route has just counted, with one to spare; a deletion and an
  import of somebody else add none (`CountedGrows`).
* `FiledTheorem` rests on the hidden sets alone: a top category is hidden exactly
  when the one the worker files receipts by is (`Together`), through any hiding
  and restoring; the rest compares the two queries.
* `ImportTheorem`: the ids an import gives to its rows are none that another user
  holds; of a file just exported every row finds itself.
* `RatesTheorem`: what is stored under each day is honest about it, in the sense
  of `Honest` (`KeptUnderItsDay`), and so is every answer of a provider
  (`FetchedIsHonest`); that a latest day exists (`LatestRateIsThere`) is drawn
  from the well-foundedness of finite sets.
* Calendars, for any sequence of lengths of months. The first day of each month is
  a recursive function; `StartsOfMonths`, `StartsGrow` and `DaysHaveMonths` give
  it its equations by `CountingUp` and put every day into one month.
* `TrendTheorem`: the ranges of a trend are another recursive function, which
  walks from a day to the end of its bucket. For any ends that lie between the day
  and the last one, by day, week or month, the walk exists (`WalkExists`) and its
  pairs are a `Partition` of the days (`WalkParts`); `BucketEnds` shows that the
  ends of this code do so. The range before is compared instant by instant.
* `BillTheorem`: what a device has loaded, however long ago, has the anchor and
  the recurrence of the bill (`SameSchedule`), for no route changes them. So it is
  enough that for any bill the date of the instant shown is one of the schedule
  (`ShownScheduled`): a month's date is of that month (`MonthlyFits`), a year's of
  that year (`YearlyFits`), the day after is today or tomorrow whichever way the
  clocks go, and whole weeks are whole weeks when the clocks do not change.
* `PartsTheorem`: a behaviour of the composition is one of categories, of
  transactions and of rates, and of the bill, the trend or the breakdown where
  that is the part that moves. `AllEdits`, `AllTranslations`, `AllImports`,
  `AllRates`, `AllBreakdowns`, `AllTrends` and `AllBills` follow with the theorems
  on each part, and state what the run `user_data` checks; `AllBills` of a bill
  that is not weekly or whose clocks do not change, as in that run.

TLC has checked the inductive invariants of these modules on the instances of the
runs before they were proved.

Model-checked only: `UploadsSettle`, `EventsAreAcknowledged`, `ConfirmsFinish`
and `DeletionGetsThrough`: liveness under fairness is outside TLAPS's reach. Every
safety property of a passing run is a theorem.

## 5. Limits of the models, and what is left

What the models show, and no line of the repository contradicts:

* A category that has children can be moved below another one: three levels.
  The comment at `categories.py:136` speaks of the parent only. The rows of the
  breakdown and of the drill-down then differ (`DrillDownAgrees` compares whole
  trees). Two processes that move two categories at once could close a cycle;
  requests are atomic here.
* An edit whose reads the worker's commit makes stale fails with an error that
  `update_transaction` does not catch (`transactions_crud.py:441`, `486`); trying again
  gets through (`EditsAreStored`).
* A name that an empty description got by default keeps the language sent with the
  empty one, and a blank description leaves the worker's translation in place
  (`TranslationFitsName` names both).
* An answer of a provider without a date that can be read is taken for the day
  asked for: unmarked, although it may be of the last business day before
  (`Honest` names it).
* An import is not held to the limits of the free plan (`WithinFreeLimits`
  exempts it), loses `raw_name` and `translatable_name`,
  and brings an empty description back as "Imported item".
* An image put with an old upload URL after the deletion listed the receipts
  stays in the store, and a token still valid creates an empty account again.
* An event that arrives before its user's first request is ignored for good;
  `SyncOwed` excludes it by name.
* Rows dated later than today are in a trend's total and in none of its buckets
  when the request names no end (`TrendCountsOnce` says so).
* A filter that names only invisible categories is no filter; visible categories
  below a hidden one are in no drill-down.
* A weekly bill whose first date is in summer time shows, once the clocks have gone
  back, the day before its date, and the server refuses it as paid. No run shows
  it: `ShownIsAccepted` is stated for clocks that do not change in those weeks.
* A fallback rate keeps its mark under the day it is of, where it is exact.

Not modelled:

* Extraction, normalisation and the storing of translations: calls of a language
  model and text. `ReceiptPipeline` sees whether they return or raise.
* Budgets, labels, merchants, amounts, notes, discounts, pages and sorting:
  columns and lists that one statement writes or reads as given.
* Two API processes inside one category request, one manual override, one edit
  of a transaction, or one insert of a rate. One handler awaits nothing there;
  only the overlap of a rollout could interleave them. The worker, which always is
  another process, is in the models with its commits.
* The worker's commit between an export's read of the transactions and that of
  their items: a file is one instant of the database here.
* Rate limits, metrics, logs, configuration, start-up: they bound how often a
  route is called, not in which order.
* The client's polling, optimistic premium and notifications: state of the
  device only. The client is the environment of the server's models, doing
  anything in any order.

Next, in order of importance:

1. An atomic quota (count and charge in one step) as the abstract specification
   that `ScanQuota` implements, and its composition with `BillingSync` in place
   of `PremiumChanges`.
2. Two processes in the category routes, with the reads and the commit apart.
3. The client's polling with a time limit over `ReceiptLedger`, and the
   notifications of `bill_reminder_notification_service.dart`.
