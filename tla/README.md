# Stock management: specification, model checking and proofs

TLA+ modules of the Django backend under `src/stockmanagement` (Django REST
framework, Celery, PostgreSQL at its default isolation level READ COMMITTED,
no `ATOMIC_REQUESTS`). Source paths below are relative to `src/stockmanagement`.

Contents: [inventory of the system](#1-the-system),
[modules and their correspondence to the code](#2-the-modules),
[what the runs check](#3-model-checking), [what is proved](#4-proofs),
[disagreements found](#5-where-code-and-documentation-disagree),
[what is not modelled](#6-what-is-not-modelled), [plan](#7-plan).

## 1. The system

A request goes through a viewset (`presentation/viewsets`), a serializer that
checks its fields, a use case (`application/use_cases`), domain services and
entities (`domain`), and repositories (`infrastructure/persistence`) that read
and write rows. Celery tasks (`tasks`) run the same use cases on a timetable.
Several workers do this at once, each with its own database connection; the
database is the only state they share. What protects an operation is decided
one by one: `transaction.atomic` on a method, `select_for_update` in a
repository method called `get_by_id_for_update`, a unique constraint, or nothing.
A repository's `update` writes *every* column from the entity it is given.

| Component | State | Operations | Interacts with | What is hard |
|---|---|---|---|---|
| Product stock | product rows, stock movements | create, update, delete, record a movement, daily expiry scan | invoices take and return units; notifications read the rows | concurrent sales; whole-row writes of stale copies; deadlocks between invoices; rollback of half a sale |
| Invoices and payments | invoice, line and payment rows | create, update, pay, apply a credit payment, archive, cancel, delete | stock; credits; reports and dashboards read | one payment reaches two rows kept by different operations; retried payments; states reached by long sequences |
| Customer credits | credit rows | create, pay, cancelled with the invoice, overdue check | invoices | overdue check and cancellation read without a lock |
| Invoice numbering | the number of each invoice | next number when an invoice is created | invoices | maximum plus one, read without a lock, under a unique constraint |
| Notifications | notification rows | expiry and low-stock jobs, read, delete | products, members | "was there one recently?" and the insert are two steps |
| Reports | report rows and files | generate now, generate in a task, download, delete | invoices, products, storage, broker | task sent inside a transaction; retries; late tasks |
| Salaries, expenses | salary, expense and audit rows | create, promote, date by hand; create, update, delete an expense | members; dashboard reads expenses | a change is several writes without a transaction; a log written from copies |
| Business and members | business, membership and user rows | create, edit, delete a business; add, update, remove a member | user rows, shared with sign-in | checks on rows that may change before the write |
| Customers | customer rows | create, update, delete at the desk; found or made by an invoice | invoices | e-mail and telephone number are kept distinct by a look-up alone |
| Categories | category, subcategory and product rows (names and places) | create, rename, move, delete with the cascade | stock | a product is placed by checks made before the write |
| One-time codes, password reset, sign-in | codes, attempts, user rows | sign up, sign in with a code or Google, reset, profile | e-mail, SMS; members | nothing runs in a transaction; whole-row writes of copies |
| Token blacklist | registry, blacklist, refresh rows, sessions | issue, rotate, authenticate, log out, clean up | every request | three stores, written one after the other |
| Rate limiting | a counter per address in the cache | count a request | sign-in endpoints | read, add, write back; restarted by writes that may be overtaken |
| Dashboard | none of its own | six answers, each from many queries | invoices and their lines, expenses, products | rows change between two queries; some figures come from invoices, some from lines that go with their product; each query repeats the filters of the others |
| Orders, presentation, external services | plain rows, or none | validation, formatting, e-mail, SMS, storage | all | orders have no use case; the rest is input and output |

What makes each of the modelled components correct:

- **Stock.** The quantity of a product is what it was opened with plus its
  movements, whoever sells, cancels or receives units at the same time; it is
  never negative; several lines of an invoice move together or not at all; a
  product marked as expired is past its date; every request ends.
- **Invoices.** An invoice owes its total less what was paid; a payment retried
  with its key is charged once; a completed invoice is not reopened by an
  operation; units are returned to stock only by the cancellation that cancels.
- **Credits.** Paid and remaining amounts add up to what was lent; the status
  tells the amounts; what a customer has paid is not forgotten.
- **Reports.** Whoever polls a report sees it generating and then completed or
  failed, never generating again, and never again after its deletion; a URL it
  shows names a file; a report that is generating is being worked on, and is
  settled in the end.

- **Sign-in.** A code signs in, or sets a password, once; a user has one code of a
  kind that works; a code that no longer works never works again; a user row holds
  in each field what the operations about that field have made of it.
- **Tokens.** A blacklisted token is refused whenever the registry answers, also after
  the clean-up; a refresh token has one successor; the stores tell the same.
- **Rate limiting.** No request is admitted beyond the limit, but for counts that
  stale writes have taken back.
- **Members.** A user belongs to one business; who was removed stays removed.
- **Salaries, expenses.** An employee has one salary at a time and is not left
  without; the audit log of an expense is its history.
- **Catalogue.** A product is in a category that exists, in a subcategory of it, and
  has a name of its own there.
- **Dashboard.** Figures of one answer that describe the same sales agree, whether they
  are read from invoices or from lines; a period and the one before it share no sale.
- **Customers, numbers.** No two customers with one address; numbers of invoices are
  consecutive.
- **Notifications.** The owner hears of a thing once a day, and whenever he does, so do
  the managers; nobody hears of what was rolled back.

The list of hazards, each at its source line and with the properties that cover
it, is in `PROJECT.json`.

## 2. The modules

| Module | Contents |
|---|---|
| `StockCounter` | abstract specification: quantities and books that move together in one step |
| `Stock` | product rows, row locks, transactions and stale writes; implements `StockCounter` |
| `MCStock` | constants of `Stock` for TLC |
| `StockProofs` | theorems about `Stock` |
| `Receivables` | abstract specification: sales, the accounts of what was lent for them, and the money that comes in |
| `Sales` | invoices, payments, credits, and the two jobs that write stale copies; implements `Receivables` |
| `MCSales` | constants of `Sales` for TLC |
| `SalesProofs` | theorems about `Sales` |
| `ReportLife` | abstract specification: the life of a report as a client sees it |
| `Reports` | report rows, their files, the task between request and worker, deletion; implements `ReportLife` |
| `MCReports` | the module TLC runs `Reports` from |
| `ReportsProofs` | theorems about `Reports` |
| `Accounts` | the user rows, and what writing one back does; `SignIn` and `Members` extend it |
| `SignIn` | one-time codes, sign-in, password reset, profile |
| `Tokens` | JWTs, their registry, refresh rows, sessions |
| `RateLimit` | the counter of an address |
| `MCAccess` | `SignIn`, `Tokens` and `RateLimit` for TLC |
| `SignInProofs` | theorems about `SignIn` |
| `AccessProofs` | theorems about `Tokens` and `RateLimit`, and about `MCAccess` |
| `Members` | businesses and their members |
| `Finance` | salaries, expenses and the audit log |
| `Catalogue` | categories, subcategories, names and places of products |
| `Dashboard` | the owner's dashboard beside the writes it reports on |
| `MCOffice` | `Members`, `Finance`, `Catalogue` and `Dashboard` for TLC |
| `DashboardProofs` | theorems about `Dashboard` |
| `OfficeProofs` | theorems about `Members`, `Finance` and `Catalogue`, and about `MCOffice` |
| `Billing` | customers, and the customer and number of an invoice |
| `Notifications` | notifications about products and credits |
| `MCTrade` | `Billing` and `Notifications` for TLC |
| `TradeProofs` | theorems about `Billing` and `Notifications`, and about `MCTrade` |

### Stock

A worker is a Django request or a Celery task. Its request is a sequence of
steps between which other workers run:

| Action | Code |
|---|---|
| `StartMove` | a movement (`RecordStockMovementUseCase`), or all the lines of an invoice being created (exits) or cancelled (entries), in the order of the lines |
| `LockNext` | `get_by_id_for_update` for the next line, and the comparison of the stock with the quantity asked; a missing product or too little stock rolls back |
| `Commit` | the new quantities from the copies read under the lock, the movements, `COMMIT`; a quantity above the column's range fails the whole transaction |
| `DeadlockVictim` | PostgreSQL aborts a transaction of a circle of waiting ones |
| `EditRead`, `EditWrite` | `UpdateProductUseCase`: `get_by_id` without a lock, then the repository's whole-row `update` |
| `ScanRead`, `ScanWrite` | `check_expired_products`: reads all products of the business, writes those whose flag changes one by one, without a transaction |
| `CreateProduct`, `DeleteProduct` | the use cases of the same name; the movements go with the product |
| `Crash`, `NextDay` | the worker dies and its transaction is rolled back; the date changes |

`row` and `ledger` are the committed product rows and the sums of the committed
movements; `lock` is the row lock; `req[w]` is what a worker is doing and the
copies it holds. `opening` and `clobbered` are history variables: what part of
the quantity no movement accounts for, and whether a stale copy has changed the
quantity. Nothing reads them but the properties.

The save of a row that has been deleted is modelled with both outcomes of
`update()`: `get()` raises, or, if the deletion falls between `get()` and
`save()`, Django's `save` inserts the row again (`WriteGone`).

A movement request that is created by an invoice is only its stock part here:
the invoice's own row is the business of `Sales`. The two meet in the
transaction of `CreateInvoice` and `CancelInvoice`, which are not composed (see
the plan).

### Sales

Every operation on an invoice runs in one transaction that locks the invoice row
first (`get_by_id_for_update`) and every payment on a credit locks the credit
row, so `CreateInvoice`, `UpdateInvoice`, `ArchiveInvoice`, `DeleteInvoice`,
`PayInvoice`, `ApplyCreditPayment`, `CreateCredit` and `PayCredit` are one step
each. Two operations are several steps, and other requests run between them:

- a cancellation (`CancelRead`, `CancelWrite`) holds the invoice lock, reads the
  newest credit of the invoice with a plain query, and writes that copy back as
  `CANCELLED`;
- the overdue check (`OverdueRead`, `OverdueWrite`) runs outside any transaction:
  it reads all credits of a business and writes those that become `OVERDUE` back
  one by one.

A whole-row write of a stale copy (`WriteBack`) can lose whatever was committed
since the read. `JobFails` is a crash, or a cancellation whose stock cannot be
returned; it rolls back the transaction, and leaves what the overdue check has
already written. `ProductDeleted` is the cascade from a product to the lines of
an invoice, whose total stays as it is.

Amounts are whole numbers (the code has two decimals; only sums, differences and
comparisons are used). Guards of early returns are conjuncts of the actions: a
request that raises changes nothing and is no step. Permissions, logs,
descriptions, the payment method and the fields `reason` and `is_credit_settled`
are left out: none of the modelled operations branches on them.

History variables: `returned` (how often units went back), `charged` (how often
each key was taken into an invoice), `got` (all that was paid on a credit) and
`clobbered`.

`Receivables` is what this amounts to for a customer, without requests, locks,
payment rows, jobs and copies: a sale and its accounts receive money in one step
(`Pay`), never more than is missing of the one or of the loan of the others; a sale
paid in full is completed and keeps its terms until it is cancelled; an account that
shows something else as paid than what came in was reset by a cancellation or by the
overdue check (`Cancel`, `Mark`); the loan never changes. `BooksSpec` says that
`Sales` implements it, with the books read off the rows (`SaleBook`,
`AccountBook`). Money can also leave an account in `Pay`, because the code does so
for an invoice that holds more than its total.

### Reports

A report is created by a request in one transaction, which sends a Celery task
before it commits; the task runs without a transaction, each of its queries may
fail, and the failures go to three nested handlers. Each query is therefore an
action, and `task[w].pc` is the place in the code:

| Action | Code |
|---|---|
| `Begin`, `Dispatch`, `GenerateNow`, `Abort`, `Commit` | `GenerateAndSaveReportUseCase.execute`: insert the row and the payload, then `delay`; or, when that raises, make the file at once; rollback or commit |
| `TaskStart` | a worker takes a message; `generate_report_task` reads the row and returns when there is none or it is not generating |
| `TaskLoad`, `TaskOpen`, `TaskUpload`, `TaskSave` | `generate_and_save_report_content` and `_generate_and_upload_file`: two reads, rendering and upload, the update to COMPLETED |
| `TaskUndo` | the use case's handler writes back its copy as FAILED |
| `TaskCheck` | the task reads the row once more |
| `TaskError`, `TaskMark` | the task's handler reads a fresh copy and writes it back as FAILED; `Retry` sends the message again or gives up |
| `Kill`, `Repeat` | the hard time limit or a restart kills a worker; the broker delivers a message twice |
| `DeleteRead`, `DeleteFile`, `DeleteRow`, `DeleteFails` | `DeleteReportUseCase`, not in a transaction: read the row, delete the file, delete the row; it may fail in between |
| `BusinessDeleted` | the cascade from `DeleteBusinessUseCase` |

`maker[r].draft` is what the request is going to commit, `inbox[r][a]` counts the
messages for attempt `a`. Celery's default applies (no `acks_late`): a message is
gone from the broker when a worker has taken it. The upload may fail before or
after S3 has stored the file; in both cases the code swallows the exception and
completes the report without a URL (`Upload`). The two uploads of a report have
the same key, so there is one file per report. Soft time limits raise an exception
in the task and are among the failing calls. History variables: `lost` (why
nobody is left to finish a report) and `erased` (a deletion has removed the file).

### Sign-in, tokens, rate limiting

`Accounts` has the one way in which the code writes a user row: `WriteBack` puts a
whole copy, read before, over the row. What an operation is *about* is told apart
from what it writes: `Confirmed`, `Granted`, `MadeOwner` and `Disabled` say what a
verification, Google's callback, a promotion and the administrator are to change,
and a profile or a last login change none of the fields kept here. `intended` is the
row with only those changes made to it, and a request remembers, beside its copy,
the intended row of that moment (`base`). `clobbered` names the fields on which the
two intended rows differ when the copy is written: those were set by another
operation in between. `RowAsIntended` compares every other field of the row with the
intended one. It fails for an operation that writes back a field of the copy it read
first after having changed it itself (the variant of `ConfirmUser`), or that
changes a field it is not about. All three are history.

`SignIn` has a step for every query, since only signing up is a transaction, and a
request may die between any two (`Abandon`):

| Action | Code |
|---|---|
| `SignUp` | `SignupUseCase`: the user and a code, in one transaction |
| `CloseOthers`, `InsertCode` | `request_otp_view`, `login_view`, `forgot_password_view`: `invalidate_all_pending` or `invalidate_user_tokens`, then the insert |
| `VerifyRead`, `VerifyClose`, `LoadUser`, `ConfirmUser`, `StartSession`, `LastLogin` | `VerifyOTPUseCase`: `get_by_code` and `is_valid`, the code saved as verified, the user read, confirmed, signed in, and his row written for `last_login` |
| `GoogleRead`, `GoogleWrite` | `GoogleAuthUseCase` once Google has answered |
| `ResetRead`, `ResetFail`, `ResetPassword`, `ResetMark`, `ResetSweep` | `ResetPasswordUseCase`: the code read; an expired one counts the attempt on its copy; the password, the mark on the code, and the user's other codes |
| `ProfileRead`, `ProfileWrite` | `UpdateProfileUseCase` |
| `OwnerRead`, `OwnerWrite` | `CreateBusinessUseCase`, which makes its user an owner |
| `AdminRead`, `AdminWrite` | the admin site's form of a user, which writes every field as it was shown, but for what the administrator changed |
| `Expire` | ten minutes |

`uses` counts what a code has brought; `spare` counts readings of a code as usable
while an earlier reader had not closed it, and requests that died between the
password and the mark; `crossed` counts codes created after another request had
created one in between. A row stands for one value of a code.

`Tokens`: `SessionStart`, `Issue`, `Store` are the end of a sign-in
(`start_session`, `generate_tokens`, `create_refresh_token`), the last two also of
a rotation; `RotateRead`, `RotateBar`, `RotateRevoke` are `RefreshTokenUseCase`;
`LogoutStart`, `LogoutRows`, `LogoutEnd`, `LogoutRevoke` are `logout_view` and
`LogoutUseCase`; `Authenticate` is `JWTAuthenticationWithBlacklist`, which records
a token the registry does not know; `Cleanup` is the daily task, `Drop` a request
that dies. `barred`, `raced` and `dropped` are history.

The authentication fails open: when the look-up in the registry or the blacklist
raises anything but "no such row", the exception is logged and the token accepted
(`jwt_blacklist_authentication.py:90`). `Accepts(t, answered)` has both outcomes,
and `BarredStaysOut` claims the refusal only where the look-up was `answered`. A
logout whose attempt to blacklist its own token fails goes on without it
(`LogoutStart`), and the access tokens of a user are blacklisted only with a refresh
token of his that could be parsed (`LogoutRows`).

`RateLimit`: `Arrive`, `Add`, `AddFails`, `LookAgain`, `Restart` and `Count` are the
calls to the cache of `RateLimitService` in their order; `Evict` is the cache, or
`reset_rate_limit`. All endpoints share the counter of an address. `served` counts
the requests since the counter began, `forgotten` what stale writes put back.

### Members, finance, catalogue, dashboard

`Members`: each use case looks (`CreateRead`, `AddRead`, `AddLook`, `RemoveRead`,
`UpdateRead`, `EditRead`) and writes (`CreateWrite`, `AddWrite`, ...). Adding a
member and creating a business are transactions at READ COMMITTED without locks, so
that what they have looked at may be old when they write; `late` marks a row
written by a request whose target's ties had changed. `DeleteBusiness` takes the
members with it, an edit that overlaps its deletion inserts the business again
(`EditWrite`), `UserRead` and `UserWrite` stand for every operation of `SignIn` on
a user row, `Suspend` and `Join` for the admin site and for signing up. The checks
are operators: `CanManageMembers`, `MayAppoint`, `Appointable`, `MayUpdate`.

`Finance`: opening a salary is `OpenRead`, `OpenClose` and `OpenStore`, a promotion
the same after `PromoteRead`; `SalaryEditRead` and `SalaryEditWrite` set amounts and
dates. An expense is read, written and logged (`ExpenseRead`, `ExpenseWrite`,
`LogExpense`), and its log goes with it (`DeleteExpense`); an update that was to be
written may insert the expense again. `surplus` counts the
salaries opened by overtaken requests, beside a waiting one or dated by hand;
`promised` says that nothing but those can leave the employee without one; `torn`
says that requests on an expense overlapped, or one died before its entry.

`Catalogue`: a request plans (`PlanGood`, `PlaceEdit`, `RenameCategory`, ...) and
then writes (`CreateGood`, `SaveGood`, `SaveCategory`, ...) what the unique
constraints and foreign keys admit at that moment; these are the operators
`CategoryNameFree`, `SubcategoryNameFree`, `GoodNameFree` and `References`.
`DeleteCategory` and `DeleteSubcategory` are the cascades. A row deleted between the
`get` and the `save` of an update is inserted again (`SaveCategory`,
`SaveSubcategory`, `SaveGood`), under the same constraints. The update of a product
may name a subcategory, name none, or take its subcategory away (`Target`).

`Dashboard`: a figure is the *set of rows* it adds up, so that two figures agree
when their sets do. Revenue, the days and a cashier's sales are sets of invoices;
the best sellers, costs, quantities and the statistics of a product, a category or a
subcategory are sets of *lines*. A line exists as long as its invoice and its product
(`Lines`): `Discard` deletes a product and its lines with it and leaves the invoices,
`Move` takes a product to another category, and a query reads the place a product has
by then (`About`). A list of the best is cut to `Limit` groups, those whose lines are
worth most (`Cut`).

`Ask` takes up one of the six endpoints with a period, `Plan` lists the queries of each
in the order of the use case, and `Reads` makes the next one; `Sell`, `Change`,
`Spend`, `Discard`, `Move` and `TimePasses` are the rest of the world. `Fails` is the
query at which the statistics of a day stop, or at which a product is no longer there.
`touched` collects the rows that were written since the request read its clock, but
for those dated after the end of its period. `FiguresAgree` holds two queries to the
same rows among those that were not touched (`Settled`, `SettledLines`); sums since
midnight also need that no midnight has passed (`SameDay`). It does not excuse an
answer because something was written meanwhile, only the rows that were.

### Customers, numbers, notifications

`Billing`: the desk looks up and inserts (`CreateLook`, `CreateInsert`), or reads,
looks, reads again and saves the whole row (`CustomerRead`, `CustomerLook`,
`CustomerFind`, `CustomerSave`). A till finds or makes the customer (`Resolve`,
`ResolveContact`, `ResolveNew`), reads the highest number (`Number`), inserts
(`Insert`, which waits while another transaction has the number) and ends
(`Commit`, `Rollback`). Rows of an open transaction are `held` and nobody else sees
them. `late`, `overtaken` and `removed` are history.

`Notifications`: a run checks for a recent row of the owner (`Check`), writes his
(`TellOwner`), reads the managers (`ListManagers`) and writes theirs
(`TellManager`), either on its own or inside the transaction of an invoice
(`CommitRun`, `RollbackRun`); it may break off (`Breaks`). `SendMail` is the task
queued with each row, which looks the row up. `ReadNote`, `WriteStatus`,
`CountUnread` and `MarkAll` are the readers' endpoints. A row remembers which rows
its run saw (`saw`), the first row of its run (`head`) and whom the run is to tell
(`due`): history.

In all of these modules the endpoints are operators with the names of their
methods (`add_member`, `verify_otp_view`, `get_summary`, ...), and `Next` is made of
them.

## 3. Model checking

| Run | Constants | Shows |
|---|---|---|
| `stock_safety` | 2 products, 2 workers with 3 requests each, every order of the lines, days 0..1, quantities up to 2, three edits (another field, the quantity, the expiry date) | `LedgerExact`, `FlagHonest`, the inductive invariant with the types, refinement of `StockCounter` |
| `stock_progress` | 2 products, 2 workers, 2 requests each | `EveryRequestEnds` under `FairSpec` |
| `stock_lost_update` | one product, two workers, field edits only | violation of `NoLostStockUpdate` |
| `sales_safety` | one invoice, two credits, two workers for jobs, five requests, three bills, amounts 1 and 3, eight updates, days 0..1 | amounts, statuses, stale writes, `NoDoubleCancel`, the inductive invariant with the types, refinement of `Receivables` (`BooksSpec`) |
| `sales_keys` | two invoices, two keys, six requests of amount 1 | `ChargedOnce` |
| `sales_archived` | two invoices, three requests | violation of `ArchivedReadOnly` |
| `sales_lost_payment` | two invoices, two credits, three requests | violation of `NoLostCreditPayment` |
| `reports_safety` | one report, two workers, one retry, two failing calls, one kill, one repeated message, one deletion | `UrlHasFile`, `InGoodHands`, `RetriesOutlastErrors`, the inductive invariant, refinement of `ReportLife`, and `EveryReportSettles` under `FairSpec` |
| `reports_early_task` | the same, without faults | violation of `BeingGenerated` |
| `access_safety` | *sign-in*: one user, two codes, two requests at a time, five in all, two attempts; *tokens*: three pairs, two devices, two requests at a time, three in all, lifetimes 1 (access), 2 (refresh) and 3 (row), clean-up after 1, clock to 3; *rate limit*: two callers, a strict and a lenient endpoint, four hits, clock to 3 | `OneUse`, `OneCodePending`, `ClosedForGood`, `RowAsIntended`; `BarredStaysOut`, `RotationLinear`, `StoresAgree`; `WithinLimit` |
| `office_safety` | *members*: three users, two businesses, two requests at a time, five in all; *finance*: three salaries of one employee, one expense, two contents, two requests at a time, three in all, days of length 2; *catalogue*: two categories, a subcategory, two products, two names, two requests at a time, six in all; *dashboard*: two invoices, one expense, two products that start in one place and may move to another, sold together by a member and one of them by the owner, lists of one group, a second of 1, days of length 2, weeks of 4, clock to 2, two writes | `OneBusinessEach`; `OneOpenSalary`, `AuditChain`; `ScopeSound`; `PeriodsApart`, `FiguresAgree` |
| `trade_safety` | *billing*: two customers, an e-mail, a telephone number, three invoices, one desk, two tills, four requests; *notifications*: an owner and a manager, two items, two runs at a time, three in all, a check that looks at one row and back to the same hour, two hours, four rows | `CustomersDistinct`, `NumbersExact`; `NotTwiceADay`, `TeamTold` |

**Why the bounds suffice.** Two products and two workers are the least with which
two invoices wait for each other, and a stale write needs one reader and one
writer. Quantities up to 2 contain an empty shelf, a full column and one between;
a bill of 2 with amounts up to 3 can be paid in parts, exactly, or above its
total. Two days separate "due" from "late" and "good" from "expired"; an expiry
on the last day is one that is never reached. Two credits of an invoice are the
least for which "its credit" is ambiguous. Reports share only the workers, so one
report is enough for everything but their number; two workers can hold its message
at the same time, and one retry with two failing calls is the least with which
retries run out. The last three runs each follow several modules that share no row
they decide by: a behaviour chooses one (`part`) and the others keep still, so that
nothing is lost but the product of their states. Two requests at a time are the
least with which one overtakes another; three pairs
allow a rotation of a rotated token, a clock to 3 lets every token expire and be
cleaned up; three salaries are one more than a change needs; six edits fill a
category, move a product and delete its subcategory; a check that looks at one row
is the smallest in which a newer row hides an older one; the dashboard's days of two
seconds and a clock that reaches the second day have room for a sale at the last and
the first moment of neighbouring periods, two writes for a sale and what becomes of it
(or of its product), or for two sales, and a list of one group is cut as soon as two
products are sold. What the bounds cut off is covered, where a module
has theorems, by them: they hold for every number of products, workers, invoices,
credits, keys, requests, codes, tokens, tills, runs and rows. `Requests` and `MaxRequests` only cap the
length of behaviours; because of them a behaviour ends when its requests are used
up, which is why deadlock is not an error in these runs. That no *request* is
stuck is what `EveryRequestEnds` says.

**Fairness.** `FairSpec` assumes weak fairness of `Step(w)` for each worker: a
worker thread that can go on with the request it has taken up does so, and
PostgreSQL ends a deadlock after `deadlock_timeout`. It assumes nothing about new
requests, about time, or about crashes. Weak fairness is enough although a lock
may be taken by others again and again, because each of them ends too and the
number of requests is bounded; without the bound, PostgreSQL's queue of
waiters for a row would be needed.

`FairSpec` of `Reports` assumes that a worker goes on with the task it has, and
that a message of a report which stays in the broker is taken by a worker in the
end (the `celery worker` process polls its queue). Nothing is assumed about
commits, deletions or retries beyond what the handlers do; an early task, a killed
worker, a retry the broker refuses (Celery then rejects the message) and used-up
retries are the exceptions that `EveryReportSettles` names.

**Mutants.** Each property has a plausible bug it rejects, written beside the
definition it replaces (`(* Variant: ... *)`): a missing `FOR UPDATE`, a stock
check left out, an expiry flag not recomputed, the sign of an exit, locks kept
after a rollback, a remaining amount that does not follow a payment, a payment
row without its key, a code that is not closed, a clean-up that deletes too early, a
refresh row left to expire, a limit checked before the request is counted, a
verification that saves the copy it read before it confirmed the user, a list of the
best that counts archived invoices, a previous period that touches the current one,
and so on.

## 4. Proofs

The modules named `...Proofs` are checked by TLAPS. The only assumptions are those
named `...Constants` in the modules (`StockConstants`, `SignInConstants`, ...): the
distinguished values are not members of the sets they stand outside of, the bounds
are natural numbers, the quantities and amounts that requests carry have the ranges
the serializers accept, the refresh row of a token outlives the token and the token
outlives its access token, the periods of the dashboard are whole days (and longer
than a second), and the sets whose members are counted (codes, requests, token pairs, handlers,
salary rows) are finite. TLC
evaluates them in every run.

The modules TLC runs that combine several parts (`MCAccess`, `MCOffice`, `MCTrade`)
have theorems of their own: `AccessParts`, `OfficeParts` and `TradeParts` say that a
behaviour of the combination is one of each part, so that the theorems about the
parts hold of what the runs explore; `AccessTypeCorrect`, `OfficeTypeCorrect` and
`TradeTypeCorrect` are the type invariants of the combinations.

`StockProofs`
- `StockInvariant`: `Spec => []StockInv`. `LedgerExact` is not inductive: `Commit`
  writes a copy read earlier, so one needs that a copy under the lock is still the
  committed row (`LockedCopyFresh`), that at commit every line's row is locked
  (`LinesCovered`), that writers without a lock only hold rows that existed when
  they read them (`WritersHaveWork`), and that a deleted product has no movements
  left (`GoneIsEmpty`). `FlagHonest` needs `CopiesHonest`: a flag in a copy will be
  written back later, when more time has passed, never less.
- `StockTypeCorrect`, `StockLedgerExact`, `StockFlagHonest` follow.
- `StockImplementsCounter`: every step of `Stock` is a step of `StockCounter` or a
  stutter, with the committed rows as quantities. Commits map to `Move`, writes
  without a lock to `Overwrite`, deletions to `Drop`.

`SalesProofs`
- `SalesInvariant`: `Spec => []SalesInv`. The strengthenings are `CopiesTrue` (the
  copies jobs hold were right once: writing one back may be *stale* but never
  makes paid and remaining amounts disagree), `CancelHolds` (a cancellation in
  progress is the only one of its invoice, which stays locked and not cancelled,
  and its credit still exists), `KeysHeld` and `NothingGotEarly`.
- `SalesTypeCorrect`, `SalesCreditBalances`, `SalesCreditStatusHonest`,
  `SalesDebtHonest`, `SalesNothingLost`, `SalesChargedOnce` follow; the action
  properties `SalesCompletedStay` and `SalesNoDoubleCancel` use the invariant at
  the start of each step.
- `SalesLoansStay`: no step changes what was lent on a credit or reopens a deleted one.
  A job writes the loan with all other columns, so one needs that its copies still
  have the loan of their row (`LoansAgree`), and that in turn that loans do not change:
  `LoansInvariant` proves both together.
- `SalesImplementBooks`: every step of `Sales` is a step of `Receivables` or leaves the
  books alone. Both kinds of payment map to `Pay`: what is received by invoice and
  credits is the same amount (`PaidOnSale`, `PaidOnAccounts`), within the loan because
  paid and remaining amounts balance. The writes of jobs map to `Cancel` and `Mark`,
  where `LoansAgree` and the balance of the copy keep the account within its loan
  (`ResetRefines`), and `CancelHolds` says that the sale is not cancelled yet and
  that the account is its own.

`ReportsProofs`
- `ReportsInvariant`: `Spec => []ReportsInv`. `UrlHasFile` needs `NamesStored`: a URL
  in a copy or a draft, which will be written back later, names a file already.
  `InGoodHands` is disturbed by a task that ends: it may do so because a row it has
  seen once is gone for good (`SeenBefore`, `MadeOnce`), because it leaves an
  outcome, or because it hands the message on. `RetriesOutlastErrors` needs
  `ErrorsPaid`: attempt `a` at a report that is still awaited has been paid for
  with `a` failing calls, and one more once its handler runs. Three lemmas carry
  most steps: a task that goes on (`TaskGoes`), a task that ends (`TaskEnds`), and
  a deletion (`Outside`), all from what a row and a file may do in any step
  (`RowStep`, `FileStep`).
- `ReportsUrlHasFile`, `ReportsInGoodHands`, `ReportsRetriesOutlastErrors` follow.
- `ReportsImplementLife`: commits map to `Appear`, the updates of a task to `Settle`
  or a stutter, deletions to `Delete` or a stutter.

`AccessProofs`
- `LimitHolds`: `LimitSpec => []WithinLimit`, from `CounterHonest` (the counter and
  what was forgotten cover the requests served), which every write of the cache
  entry keeps: one that puts the count back adds the difference to `forgotten`.
- `TokensInvariant`. What a request holds fits the rows it was read from: the pair it
  has issued has no row yet, a parent it has revoked stays revoked. Steps are
  grouped by what they may do to the registry (blacklisting, recording, cleaning
  up) and to the rows (store, revoke).
- `BarredTokensStayOut`: a barred token is blacklisted or has expired, because the
  clean-up deletes only what expired before it. The theorem is about look-ups that are
  answered; one that raises accepts any token that has not expired.
- `RotationsAreLinear` counts, with the rows that follow a row, the requests that are
  still going to write one (`Carriers`): together at most one,
  and one more for each reading that `raced` counts. This is where the finiteness
  of pairs and handlers is used.
- `TokenStoresAgree`.

`TradeProofs`, about `Billing`
- `BillingInvariant`. Numbers of committed invoices have a maximum although their
  number is not bounded (a number is at most the position of its row), so that the
  next one leaves no gap but those of deleted invoices: below the number of a row,
  or of a till that is about to insert one, every number has been used. A look-up stays true of a request
  as long as nobody overtakes it, which gives the customers.
- `InvoiceNumbersExact`, `CustomersAreDistinct`.

`SignInProofs`
- `SignInInvariant`. A step makes at most one new code and otherwise only makes codes
  unusable, hence `CodesStayClosed`. A code's uses and the requests that are still
  going to use it are at most one and `spare`, and with room for one more while the
  code can be used and nobody has read it, hence `CodesAreUsedOnce`. While a request
  that is about to insert a code has not been overtaken, its user has no pending
  code beyond `crossed`, hence `CodesReplaceEachOther`.
- `RowsAreAsIntended` is about all that write user rows. Its invariant says of every
  request that is going to write a row that its copy agrees with the intended row of
  the moment it was read or last written by that request, but on fields that were
  clobbered by then (`AccountsFit`). A request that writes twice keeps this only because
  it goes on with the copy it has written.

`TradeProofs`, about `Notifications`
- `AlwaysFits`: `NotesSpec => []NotesInv`. What a run saw at its check stays
  overlooked as the clock moves on and others add rows; the rows of a run share
  their state with the owner's row they belong to; a manager who is due is on the
  list of the run or has been told.
- `OwnersAreToldOnceADay`, `TeamsAreTold`.

`OfficeProofs`
- `ProductsArePlaced`, from `CatalogueInv`. A product about to be written names a
  subcategory of its category (`Planned`), and a subcategory never leaves the
  category it was made in; rows deleted meanwhile are caught by the foreign key and
  names by what the statement sees when it runs.
- `OneSalaryAtATime`, from `FinanceInv`. The bound on today's salaries is not
  inductive, because a day that passes makes salaries active that were dated ahead: it is
  kept for every day to come. A request about to insert a salary has room for one
  more on those days, unless it was overtaken. Counting uses that salary rows are
  finitely many.
- `LogsTellTheHistory`, from `FinanceInv`. Of an expense no two requests shared, the last
  entry says what the request at work on it has read, so that the entry it adds
  begins where that one ends.
- `OneBusinessForAUser`, from `MembersInv`. A request about to tie a user to a business
  knows him to be free, for whoever ties him first marks it as overtaken; an owner
  keeps his role unless a stale copy of his row took it from him (`clobbered`).

`DashboardProofs`
- `TrendPeriodsShareNoSale`: an answer never compares two periods that count the same
  sale. The figures of an answer come from queries made at different times, so the
  rows behind them may have changed; but a row keeps its date, a row that is written
  is dated now, and the bounds of the two periods are kept a second apart by `Previous`.
- `QueriesAgree`. `DashboardInv` follows an answer along its plan, query by query: how many
  queries are answered and which figures that gives (`OnPlan`), that what was sold is
  dated in its period (`ApartFits`), and of each figure that on the rows not touched it
  is what its query would give *now* (`FiguresFit`; a list of the best is part of it,
  and all of it while its groups are few). A step of another request is `Steady`: it
  touches whatever it writes that is dated up to the end of the period, and any product
  it deletes or moves, so the untouched rows and lines are the same before and after
  (`StandsKept`). A query that has just been made satisfies its claim at once
  (`FigureStands`). Sums since midnight stand on the day of the request, since a span
  consists of whole days and begins anew only at a midnight. Two figures of an answer
  then agree because both are compared with the present rows, although the queries
  were made at different times (`AgreeImplied`); where one of them was asked for
  earlier, the plans, written out query by query, say that it is known.

Only model-checked: `EveryRequestEnds` and `EveryReportSettles`, because liveness under
fairness is beyond the prover, and the four violations. No theorem depends on what a
recursive definition computes: the worth of a group of lines and the amounts of a rank
decide which groups are named, and the theorems hold whichever those are.

## 5. Where code and documentation disagree

- `NoLostStockUpdate`. The repository says of `get_by_id_for_update` that it
  "prevents race conditions" (`inventory_repositories.py:179`). It does so among
  movements (that is `LedgerExact`), but `UpdateProductUseCase` and the expiry scan
  read without it and write the quantity with all other columns: renaming a
  product while it is being sold can bring the sold units back.
- `NoLostCreditPayment`. The same comment for credits (`credit_repositories.py:35`);
  the cancellation of an invoice and the overdue check read credits without the
  lock, and a payment made in between is lost from the credit.
- `ArchivedReadOnly`. "Archived invoices remain read-only" (`sales_viewset.py:409`);
  no operation that writes an invoice looks at the flag.
- `BeingGenerated`. "The report is being generated in the background"
  (`report_viewset.py:198`); a task that a worker takes before the request has
  committed finds no row and returns, without a retry. The report then stays
  generating, and no operation of the code starts it again.

Met on the way, visible in the model, not stated as properties because no
document says otherwise:

- a payment on an invoice that holds more than its total is applied as a
  *negative* amount (`Applied`), to the invoice and to its credits;
- updating the tax of an invoice subtracts line discounts a second time, because
  the lines' subtotal already has them and `total_discount` holds their sum
  (`UpdateInvoice`);
- paying a cancelled invoice completes it;
- a cancelled invoice can be updated to CREDIT and cancelled again, which returns
  its units a second time (`NoDoubleCancel` says only that each return starts from
  an invoice that is not cancelled);
- `PayCredit` does not change the invoice; afterwards a payment of the invoice that
  exceeds what the credit still owes is refused;
- an overdue check that has read a credit before its invoice was cancelled makes
  the cancelled credit `OVERDUE` again;
- a retry of a report task that managed to write FAILED does nothing, since a task
  skips what is not generating: only a task whose handler could not write profits
  from its retries;
- a report whose rendering or upload failed is COMPLETED without a file, and its
  download answers that the file "may still be generating" (`report_use_cases.py:924`);
- a task that uploads after the deletion has removed the file, a deletion of the
  business, and a failing deletion in S3 leave files behind that no row names; a
  task that saves after `DeleteFile` and before a failure of the deletion, or a
  failing deletion by itself, leaves a URL without a file (`erased`).

Sign-in, tokens and the rate limiter:

- a look-up in the token registry that raises lets a blacklisted token in (`Accepts`);
- the attempts of a sign-in code are never counted, because it is looked up by its
  digits and a wrong guess finds no row;
- two verifications of one code that overlap both sign in (`spare`); a crash between
  the new password and the mark leaves the reset code usable;
- the rotation's look at the blacklist is swallowed by its handler: the `revoked` flag
  of the row decides (`RotateRead`); the row lives thirty days, the token it
  stands for seven;
- "all access tokens" of a user are those that have been used at least once, since an
  access token is recorded at its first use (`KnownAccess`);
- the counter of an address is shared by endpoints of different limits, so that
  requests to a lenient one count against a strict one.

Members and finance:

- `validate_user_business_access` is skipped at sign-in, because the views inject no
  business repositories; the login answer lists businesses only for roles that
  `add_member` does not give (it makes customers);
- a manager can be deactivated by an update that names no role, for which the owner is
  not needed; an inactive member cannot be updated, so that the reactivating branch
  of the update is never reached, nor can one be added again;
- a user who has deleted his only business keeps the role `OWNER` and cannot become a
  member of another;
- a salary dated ahead ends the current one a day before it begins: for that day there
  is none; a salary made beside one that waits ends in two that are current;
- the entry that tells of a deleted expense is refused by its foreign key after the
  deletion has been committed: the request fails, and the existing log is gone with
  the row.

Invoices, customers, notifications:

- a database error caught inside the atomic block of an invoice leaves the
  transaction unusable, so that the invoice fails at its next query;
- a creation looks a barcode up in all businesses, an update in its own only, and no
  constraint follows;
- an empty string for the e-mail or the telephone number of a customer empties the field
  and skips the look-up (`CustomerRead`);
- deleting a customer deletes his credits, and leaves his invoices in status `CREDIT`;
  a customer deleted between `get` and `save` is inserted again (`CustomerSave`);
- `mark_all` marks broadcasts that the count of unread ones leaves out, and marking an
  archived notification as read takes it out of the archive;
- an e-mail queued inside an invoice's transaction may run before the commit; it finds
  no row and is not tried again (`SendMail`);
- the check for a recent notification looks at the newest hundred of the owner that are of
  its type (`Limit`): beyond those an older one is overlooked.

Dashboard:

- the daily statistics read keys that `calculate_product_margins` does not return
  (`dashboard_use_cases.py:463`): with a completed sale in the period the request
  fails (`Fails`);
- "this week", "this month" and "this year" are limited to the period asked for
  (`RevenueSince`);
- the previous period ends a second before the current one: a sale within that second
  is in neither (`Previous`);
- after a product has been deleted, the best sellers, costs and quantities no longer
  contain what the revenue still does (`Lines`), and after it has been moved, its past
  sales count in its new category (`About`);
- the number of sales of a period counts its days, and cancelled invoices count in the
  total and the cost of a day (`OnDays`, `Cost`);
- a cashier without a sale in the period has a lifetime of nought, and so has an owner
  who sells, because he has no row among the members (`Joined`).

## 6. What is not modelled

- The refund of an invoice: it builds a payment of amount 0, which the payment
  entity refuses, so that the transaction always rolls back.
- `DeleteInvoiceLineUseCase`: no endpoint calls it.
- Orders and deliveries: models and repositories that no use case calls.
- Payroll rows: the dashboard reads them and nothing writes them.
- Barcodes and prices. The lines of an invoice one by one are left out of `Sales` and
  `Billing`, where only their total matters; `Stock` has them as what an invoice takes,
  and `Dashboard` as the rows that figures are read from.
- The dashboard's counts of products, customers, members and credits, its latest sales, the
  customers a cashier served, the quantity of his lifetime, the percentage a trend
  makes of two amounts, and a category deleted while its statistics are read;
  listings; the layout of responses and reports; receipts.
- The window between reading a user and setting his password in `update_password`, which
  saves the whole row as well: it gets the row, hashes the password and saves within
  one call, here one step. The other repositories' `update` gets and saves within one
  call too; it is one step, except where a deletion in between inserts the row again,
  which is modelled.
- Preferences of recipients and the choice between e-mail and SMS; what e-mail, SMS,
  Google and S3 do. A queued e-mail, Google's answer and the report's file are
  inputs of the modules that use them.
- Sessions beyond their number; devices' names; profile fields one by one.

## 7. Plan

1. *Done*: `StockCounter`, `Stock`, `Sales`, their runs and proofs.
2. *Done*: `ReportLife`, `Reports`, their runs and proofs.
3. *Done*: `Accounts`, `SignIn`, `Tokens`, `RateLimit`; `Billing`, `Notifications`;
   their runs, and the proofs of all their safety properties.
4. *Done*: `Members`, `Finance`, `Catalogue`, `Dashboard`, their run, and the proofs of
   their properties.
5. *Done*: `Receivables`, an abstract account of sales and credits that `Sales`
   implements, with its proof; the theorems about the combinations TLC runs.
6. `SalesStock`: `Sales`, `Stock` and `Billing` composed on the transaction they share.
7. Pure calculations (invoice totals, stock report) against reference definitions.
