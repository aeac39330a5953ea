# Verification of the laundry application

TLA+ models of the Go backend in `src/`, the TLC configurations that check them
on small instances, and TLAPS proofs of the main results. File and line
references below are to the repository; `PROJECT.json` maps every definition to
the lines it models.

## 1. The system

A laundry chain's API server (gin handlers, PostgreSQL through sqlc, one
process, background jobs in goroutines). A customer orders a pickup, a driver
brings the laundry to the outlet, an admin counts and prices it, workers take
it through washing, ironing and packing, the customer pays through Midtrans, a
driver brings it back and the customer (or a job, after 48 hours) completes it.

| Component | State | Operations | Hard behaviour | What makes it correct |
|---|---|---|---|---|
| orders (`internal/order/handler_order.go`, `handler_pipeline.go`) | `orders`, `order_status_histories` | CreateOrder, ProcessOrder, CompleteOrder | races decided by `UPDATE ... WHERE status = $expected` | one line of statuses, a history that tells it |
| driver dispatch (`handler_driver.go`) | `driver_tasks` | ClaimTask, CompleteTask | checks before the transaction; the order's update is not guarded | task and order agree; one driver per task |
| stations and bypass (`handler_worker.go`, `handler_bypass.go`) | order status, `bypass_requests` | SubmitItems, CompleteStation, CreateBypassRequest, ReviewBypassRequest | payment read without a lock; attempts counted before an upload | no lost payment; approval and transition together; forced approvals earned |
| payments (`internal/payment`) | `payments` | CreateTransaction, SyncPaymentStatus, HandleWebhook | notifications late, repeated, reordered; rows written by id from an earlier read | nothing delivered unpaid; a settlement moves its order |
| gateway (Midtrans, external) | transactions | status changes, notifications | unreliable delivery | (environment) |
| auto-complete job (`internal/cron`) | its list of candidates | hourly run, admin's run | overlapping runs, failures, restarts | every received order completes |
| other jobs (`internal/cron`) | tokens, `attendances` | cleanup-tokens, absentee-sweep | run beside the requests | never a live row |
| complaints (`handler_complaint*.go`) | `complaints` | create, change status, list | transition checked before the transaction | notice, status and resolver agree |
| attendance and shifts (`internal/attendance`, `internal/shift`) | `attendances`, `work_shifts`, `employee_shifts` | check-in, check-out, sweep, assignment | shifts past midnight, sweep against check-in | one row per day; right window |
| accounts and sessions (`internal/customer`, `internal/employee`, `internal/auth`, `internal/middleware`) | accounts, refresh, verification and reset tokens, `token_version` | register, login, refresh, logout, verify, reset, OAuth | steps without a transaction; requests between each other's reads and writes | every account can be signed in to and has shown to hold its address; a reset ends the access before it |
| addresses (`customer/handler_address.go`) | `customer_addresses` | create, update, set primary, delete | delete and promote are separate | one primary address |
| notifications, events (`internal/notification`, `internal/sse`) | notification rows, subscribers | notify one or an outlet's staff, read; subscribe, broadcast | inside a transaction or after it, errors ignored; full buffers, leaving subscribers | all of the staff told or nobody; no send on a closed channel; nobody blocks |
| rate limits (`internal/ratelimit`) | token buckets | reserve, refund, clean up | overlapping requests, refunds at an earlier time | the budget of failed attempts |
| catalogue and counts (`internal/laundryitem`, `internal/clothingtype`, `order/handler_pipeline.go`, `handler_worker.go`) | `laundry_items`, `clothing_types`, `order_items`, `order_item_breakdowns` | administration; record, price and count an order's items | prices read row by row, the catalogue changes between record and count | the total is what the rows cost; a count is judged by them |
| outlets (`internal/outlet`, `order/handler_order.go`) | `outlets` | administration; choose one for an order | read before the insert | the nearest one that covers the address |
| pages and worklists (`order/handler_order.go`, `handler_driver.go`, `handler_worker.go`) | none | show an order, list what is to do | several statements, two tables | parts that fit each other; one list per order |
| reports, geocoding, storage, email | none | reads, HTTP clients | none | |

Components meet in the database. Order handlers, payment handlers and the job
share `orders`, `driver_tasks` and `payments`; a packing completion and a
webhook each decide by what the other wrote. Notifications are rows of the
same transactions, live events leave beside them, and nothing reads either back
into a decision.

## 2. The modules

| Module | Models | Correspondence |
|---|---|---|
| `OrderTables` | the tables and the SQL statements (`internal/db/queries`, which `internal/db/generated` runs) | one variable per column that a decision depends on; one operator per statement, whose `WHERE` is its guard |
| `OrderIntake` | CreateOrder, ProcessOrder, CompleteOrder | one action per transaction |
| `DriverDispatch` | ClaimTask, CompleteTask | `claims` holds the claims that passed the checks |
| `StationWork` | stations and bypass requests | `packings` holds the transactions that have read the payment, `filings` the requests between their first read and the `INSERT` |
| `PaymentGateway` | Midtrans | external; the states the code tells apart and a set of notifications |
| `Payments` | the payment handlers | `payCalls` holds each request in flight with what it read |
| `CompletionCron` | the auto-complete job | `sweep` holds the candidates each run has read |
| `Worklists` | the lists drivers, stations and admins work from | state functions over the tables, one per query; `Answers` has what the one-row query of the active task may show each driver |
| `OrderSystem` | all of the above, crashes, fairness, properties | a crash empties what is in flight and keeps the tables |
| `OrderLifecycle` | what the pipeline promises (abstract) | refined through `stage <- orderStatus`, `settled <- Settled(o)` |
| `Shifts` | work shifts, assignments and the two lookups of a day's assignment | one variable per table; `deleting` holds soft deletions past their count |
| `Attendance` | check-in, check-out, shift eligibility | `visits` holds the requests past their checks, with the instant they took |
| `AbsenteeSweep` | the end-of-day sweep of the timer and of the super admin | `sweep` holds a run's list, what is left of it, the write it has decided on and whose write has failed |
| `Workday` | the three above, the clock, restarts, properties | |
| `AttendanceLedger` | what a day's attendance promises (abstract) | refined through `page <- attendance` |
| `Complaints` | filing a complaint, changing its status | `filings` and `reviews` hold requests past their checks, `writing` the transaction that holds the row's lock, `begins` the clock of `now()` |
| `Addresses` | a customer's addresses | `request` holds where each request is between its statements |
| `EventBroadcaster` | the subscribers of server-sent events | Go channels as bounded sequences, the `RWMutex` as its writer, its readers and who waits |
| `Accounts` | customers' registration, verification, change of address, Google sign-in | `caller` holds where each request is between its statements and what it read; `proven` and `signedIn` record, for the properties, who has shown to hold an address and who signed in as whom |
| `Sessions` | the sessions of one account, a customer's or an employee's, and the clean-up of tokens | `device` likewise, `changing` the transaction that holds the account's row; `access` records the access tokens issued, with version and role |
| `Catalogue` | laundry items and clothing types | a row's state (`none`, `live`, `deleted`, `erased`) and what requests read of it |
| `ItemCounts` | ProcessOrder's items and price, the station's comparison | `filer` holds where each ProcessOrder is and what it has read; the comparison is a state function of what the worker submits |
| `Outlets` | outlets, the choice of the nearest one, CreateOrder's and the estimate's | `buyer` holds each CreateOrder with the address and the list it read |
| `OrderDetails` | the page of one order | the order moves as `OrderLifecycle` lets it, `recorded` is what ProcessOrder wrote of its weight and breakdown; `page` holds the parts read so far |
| `StaffNotices` | notifications of an outlet's staff, and the admin's changes of that staff | `telling` holds each call with its transaction's rows, `clerk` the updates past their checks, `announced` records the live events |
| `RateLimit` | the login limiter for one client | `attempt` holds each request with its reservation and pinned time; `bucket` is the token bucket, in ticks |
| `NullValue` | | the constant the modules of this table from `Shifts` on share that need it |
| `MCOrderSystem`, `MCCompletion`, `MCWorkday`, `MCServices`, `MCPeople` | instances for TLC | section 3 |
| `OrderTypeProofs`, `OrderTaskProofs`, `OrderPaymentProofs`, `OrderLifecycleProofs`, `WorkdayProofs`, `PeopleProofs`, `MakingProofs`, `ServiceProofs` | proofs | section 5 |

### Granularity

PostgreSQL runs each transaction at READ COMMITTED. A guarded `UPDATE` waits for
the row's lock, re-evaluates its `WHERE` and holds the lock until the commit, so
a transaction made of guarded updates takes effect at its commit: one action. What
a handler reads before its transaction, or inside one with a plain `SELECT` that
decides something, is a separate earlier step whose result is kept in a variable:

- `ClaimTaskCheck` (handler_driver.go:146-176), then `ClaimTask`. The two reads
  before the transaction are one step; only their being old matters.
- `FileBypassRequest` (the order's status, handler_bypass.go:98), `PendingBypassChecked`
  (:112), `AttemptsCounted` (:123), then `CreateBypassRequest` (:204).
- `PackingReadsPayment` (handler_worker.go:414-426), then `PackingCommit`. A
  webhook that updates no order row because packing has not committed yet is the
  behaviour read, webhook, commit. The read is modelled while the order is at a
  station: before washing there is no payment to find (as at the start of
  washing), after packing the transaction can only lose.
- every phase of a payment request (`create`, `query`, `recheck`, `apply`).
- `CheckInCheck` and `CheckOutCheck` (the schedule, the row and the clock, read
  together), then the one `INSERT` or `UPDATE`. A request is answered before the
  clock has moved twice (`Tick`), which a slot of an hour or more allows.
- the sweep's list, each employee's read and each employee's write. A list that cannot be
  read ends the run, a row that cannot be read counts as none, a write that fails is passed
  over (`SweepWriteFails`).
- `UpdateComplaintCheck`, the begin of the transaction, the `UPDATE` that takes the lock,
  the commit. The lock is a variable because the `UPDATE` of a complaint has no guard on
  the status: the reviews queue, and each writes what its own, older, check allowed. The
  begin is a step because `now()`, and so the notification's `created_at`, is its time.
- every statement of the address handlers. `UnsetPrimaryAddresses` sees the rows of
  its snapshot and locks those that are primary; it passes over a row that its lock's
  holder has made ordinary. So a swap that waited for another one meets a primary row
  it never saw, and the unique index `one_primary_per_customer` ends it. The model
  keeps the snapshot (`seen`) and decides at the commit.
- every statement of the account and session handlers. A change of the password is a
  transaction that has the account's row from its first statement to its commit; it
  revokes the refresh tokens it sees (`seen`), and a login in flight, whose `INSERT`
  does not wait for the row, may add one meanwhile. UpdateEmployee reads the row, writes
  it, revokes and increments in four statements, each of which may be its last.
- every statement of ProcessOrder before its transaction. The transaction inserts rows
  first and then makes the guarded update, on which alone it depends: one action.
  Items and clothing types change at any time; a foreign key keeps an item that an
  order lists from being erased, and a unique index refuses a type counted twice.
- the address, the list of outlets, the insert of `CreateOrder`; each part of a page.
- each insert and event of `NotifyOutletEmployees`. Inside the payment's transaction
  the rows appear at the commit and the events at once. An error in that transaction
  makes PostgreSQL roll it back at the commit, although the caller ignored it.
- the two halves of a limiter's middleware, and within the first the look-up of the
  bucket and the reservation. The bucket's own methods are atomic (its mutex).
- each goroutine of the broadcaster between `Lock` and `Unlock`. Go's `RWMutex`
  admits no new reader while a writer waits; `waiting` holds the writers.

A unique violation of `CreateDriverTask` is swallowed by the code
(handler_worker.go:438, payment/handler_helpers.go:117); PostgreSQL would refuse
the rest of that transaction. In the model the statement is not enabled then, and
`TaskOrderAgreement` (proved) says the case never arises.

Left out of the order modules: prices and items (only whether the total is positive,
which `CreateTransaction` tests; `ItemCounts` has the rest), photos, invoice numbers,
timestamps (`autoConfirm` is null, in the future or passed), several outlets (see
`Outlets`), notification rows and events (see `StaffNotices`), whether a driver is on
shift (any driver may be). A worker's item count that does not match answers
`requires_bypass` and changes nothing, so it is no action; when it matches is the
subject of `StationJudgesCount`. The signature and the amount of a notification are
checked by the webhook and pass for every notification the gateway sends. The
schema's `refunded` payment status is never written.

`ItemCounts` measures quantities and prices in halves, so that a quantity that is no
whole number is there and the truncation of `expectedItems` matters; rounding of
`NUMERIC(…, 2)` columns is left out. `Outlets` puts the earth on a line: the choice
depends on distances only. `RateLimit` measures a bucket in ticks, `Unit` of them to
a token. It follows `golang.org/x/time/rate` where the middleware can tell: `advance`
sets the bucket's clock to the time it is called with, even an earlier one, so the
refund at a pinned time makes the bucket earn the time since then again. `lag` counts
those ticks; `BudgetKept` says that nothing else is ever given away.

Left out of the others: the geofence, the outlet and the lateness label of a
check-in (a request they refuse is not made), the `is_active` flag of a work shift
(neither lookup reads it), complaint photos and texts, outlet scope, the
fields of an address, cookies, hashes and e-mails of the accounts (who has a token has
received it), the expiry of an access token, event payloads and the stream's heartbeat. A shift's times
are slots of the day; a shift whose end is before its start ends on the next day.

Operators whose comment begins with "Mutant" are not part of the specification.
Each is a plausible mistake in the definition that follows it (a dropped guard, a
forgotten task, a wrong scope); with the definition replaced by it, the property
listed beside it in `PROJECT.json` fails, which shows that the property looks at
the code.

## 3. The runs

Bounds. Orders: `MaxClaims`, `MaxPackings`, `MaxFilings`, `MaxPayCalls` limit the
requests of a kind between their read and their write, `MaxNotices` the notifications
outstanding, `MaxCrashes` the crashes; the statuses themselves bound the rest.
Workday: `SlotsPerDay` and `LastDay` the instants, `MaxEdits` the changes of the
schedule, `MaxVisits` the check-ins and check-outs in flight, `MaxRestarts`. Accounts
and sessions: `Callers` and `Devices` the requests in flight, `ChangeTokens`,
`RefreshTokens`, `ResetTokens` those ever made, `MaxChanges` the increments of the version. Services:
`MaxRequests` in flight and `MaxReviews` made, `MaxAddresses` ever created,
`MaxFailures`, `Buffer` (8 in the code), `MaxEvents`, `MaxLines` per ProcessOrder, one
bound of changes each for catalogue, outlets and staff (`MaxCatalogueEdits`,
`MaxOutletEdits`, `MaxStaffEdits`: two, so that a row may be created and changed,
deleted and erased, or changed between two reads), `MaxAttempts`, `Buckets` and
`LastTick` of the limiter. Two requests in flight are what
a race between two needs, and the writes of a third are guarded by the same row.
Deadlock is not checked: when every order is completed, the last day is over, or
nobody asks for anything, the system stops.

| Run | Instance | Shows |
|---|---|---|
| `pipeline` | 2 orders and 2 drivers with 2 claims in flight; or 1 order with 2 bypass requests filed at once; or 1 order and a crash | tasks agree with orders, an order in the staff's hands is on one worklist or hidden behind another task of its driver, histories are paths, a task keeps its driver; an approval moved its order and is the only one of its stay; a forced approval follows a rejection |
| `payment` | 1 order, 2 transactions, 2 calls, 2 notifications | types, nothing delivered unpaid, the refinement of `OrderLifecycle` |
| `completion` | 3 orders on their way, 2 runs of the job, 2 crashes | every received order is completed |
| `webhook` | 1 order, 2 transactions, repeated notifications | a settled order does not wait for its payment forever |
| `people` | 2 customers, 2 addresses, 2 requests, a change of address; 1 account with 2 requests, 2 refresh tokens and a reset token, 2 roles, 2 increments; 3 login attempts, 2 at a time, in 2 buckets of 2 tokens; 2 colleagues in any roles, 2 changes of them, 1 telling; 2 outlets at 3 places with 2 radii; 1 item and 1 clothing type at 2 prices, 2 ProcessOrders of up to 2 lines; a page read while its order goes all the way | every account can be signed in to, a verified one has shown to hold its address, a Google account is one customer; an increment ends the access tokens before it, a token that is let in names the role of now unless the role waits for its increment, an inactive account never was active; failed attempts stay within the budget; a confirmed payment is told to the whole list or to nobody; an order's outlet is the nearest of those it read, its total is what its rows cost, a station's count is judged by what was recorded, no part of a page lags behind another |
| `services` | 1 employee, 2 shifts (a morning's or a night's in force), 2 days of 2 slots, 3 changes of the schedule, 2 visits, the timer and an admin's sweep, failing statements, a restart; 1 complaint with 3 reviews by 2 admins, 2 requests in flight; 3 addresses, 2 requests, a failure; 2 streams, 2 channels, 2 broadcasters, buffers of 1, 2 events | a day's attendance is one verdict (`AttendanceLedger`), the sweep passes nobody over but whose row it failed to write, sweep and check-in see one schedule; a notification tells a complaint's status and is the newest but for those that waited with it, status and resolver agree; a primary address is lost by its deletion only; no send on a closed channel, every broadcast returns, every leaver goes and is removed everywhere |

The second transaction in `payment` and `webhook` is the retry that replaces the
first one's link; one order is enough there because a payment row belongs to one
order and no statement reads another's. `pipeline` needs the second order for a
driver's two tasks; its behaviours (`OneOrTheOther`) have competing orders and drivers,
or bypass requests (none between its reads while a payment request is in flight), or a
crash, one of the three: no statement of one reads what another writes but the order's own
status, a filing that is cut short is `FilingEnds`, and the proofs know no such limit. `completion`
starts with all orders on their way (the state the other runs reach, with its history
and payment), so that three fit. The working days of `services` start with a schedule in force, a shift that
ends in the first slot of its day, so that a check-out may be tried twice after it, or of
the next day; a behaviour either changes the schedule or runs the days; `WorkdayProofs` covers changes at any time.
One employee is enough there, rows being per employee, and one account for the sessions,
whose statements name one. Customers, addresses and roles are symmetric. `services` and `people` move one component
while the others are at their initial state: they share no variable, so every
behaviour of each is explored and the products, which say nothing, are not. Streams and
broadcasters of `services` are interchangeable, but symmetry sets are not for liveness;
`InOrder` lets the same one begin instead. Most type
invariants of `people` are joined in `PeopleTypeOK`.

Runs that end in a violation, each a statement of the repository that the code does
not keep (`PROJECT.json`, `findings`):

| Run | The repository says | The run shows |
|---|---|---|
| `stuck_payment` | "order should never be stuck at waiting_payment" (payment/handler_payment_test.go:120) | packing reads an unpaid payment, the webhook commits `paid` and finds the order at packing, packing commits `waiting_payment`. Only another notification helps, and none may come |
| `unconfirmed` | README.md:31, payment confirmation is guarded by `WHERE status = $expected` | a paid row goes back to `pending`: `UpdatePaymentStatus` and the upsert write by id |
| `two_tasks` | "a driver may not hold more than one in_progress task at a time" (order/handler_helpers.go:33) | two claims pass the check before either commits |
| `all_rejected` | "The last allowed attempt for a station is always force-approved" (handler_bypass.go:421) | two requests counted together are both attempt 1; both are rejected and a third is refused |
| `overnight` | a shift whose end is before its start "spans midnight" (shift/handler_helpers.go:64), a rule "every caller (check-in, check-out, AssertShiftEligibility, the end-of-day sweep) shares" | after midnight the callers look for the new date's window and attendance row: whoever checked in for the night's shift is refused while it still runs |
| `no_primary` | "If the customer has no addresses yet, this one becomes primary automatically" (customer/handler_address.go:39) | a create sees the last address, that address is deleted and finds no successor, then the insert into no addresses is not primary |

Seen while modelling, and not given a run of their own:

- the approval of a bypass skips "the pending-bypass check" (handler_bypass.go:470), but
  an ordinary completion has none either: it passes a pending request by, which stays
  pending;
- where an approval comes between a filing's read of the order and its count, the count
  includes the approved request, and the filing becomes a last attempt that no rejection
  precedes. It can be filed and never approved: the approval moved the order off the
  station, and the guarded update of its review finds it gone (`ForcedApprovalIsEarned`);
- the sweep drops the errors of its statements (attendance/handler_admin.go:207-213,
  :217): an employee whose row could not be written is on no later list, unless an admin
  runs the sweep for that day again;
- a driver with two tasks in progress (`two_tasks`) is shown one of them, and the order
  of the other is on nobody's list until the first is done (`OneWorklistOrHidden`);
- a complaint's notifications are listed by `created_at` (notifications.sql:9), which is
  the time their transactions began. Of two reviews that wait for each other the one that
  began first may commit last: the newest notification then tells a status the complaint
  no longer has (`NewestNoticeIsStatus` says when);
- an UpdateEmployee that fails between the write of the role (employee/handler_admin.go:349)
  and the increment (:369) leaves access tokens of the old role alive, and a retry finds
  `existing.Role == updated.Role` (:364) and skips both; so does an update that read the
  row before another one changed the role (`roleChanged` in `Sessions`);
- the webhook answers 404 `payment_not_found` to a settlement of a transaction that a
  later CreateTransaction has replaced (payment/handler_payment.go:265-268), and the money
  is in no row; the same goes for a transaction opened just before a failure;
- a soft-deleted shift keeps the assignments made between the count and the deletion, or
  afterwards;
- the sweep's query does not read `work_shifts`, so it lists an employee whose shift
  is soft-deleted (two steps apart from the count of its assignments), and marks the
  employee absent, who could not check in;
- `runDailyAt` resets its timer to 24 hours after the job returns, so each day's sweep
  starts later by the time the one before took, and after enough days past midnight,
  for the wrong date;
- a check-in that commits after the sweep read the row stays without a check-out;
- a refresh token is read and revoked in two statements, so one token may be used by
  two requests at once and each gets a new pair (`Refresh`);
- a review that was checked before another one ended the complaint writes over it
  (complaints.sql updates by id): an ended complaint is worked on again;
- the live event of a notification is sent inside the transaction
  (notification/helpers.go:47), and so also when it is rolled back;
- `createOrderWithUniqueInvoice` draws another invoice number after a collision, but
  inside the transaction the collision has aborted: the second insert is refused with
  another error, and the request fails after all (order/handler_helpers.go:106-123);
- a refused attempt that was not the last to reserve gets less back than it took
  (`Refuse`): attempts that overlap while the bucket is empty leave it in debt, and a
  client that keeps trying waits longer than its rate says;
- `expectedItems` asks the catalogue of now whether an item is counted by the piece,
  so an admin's change of its unit takes it out of the stations' count;
- `taskDistanceKM` looks the outlet up among those not deleted (handler_driver.go:27):
  an available task of a soft-deleted outlet makes the whole listing fail;
- an employee may lose the outlet in one request while another makes them
  outlet_admin (`UpdateEmployeeOutlet`, `UpdateEmployeeRole`).

## 4. Fairness

Customers, drivers, workers and admins may stop at any time: no fairness. For the
job (`CronFairness`): the clock passes the deadline, the ticker fires, and a run
handles the candidates it has read; an order's transaction does not fail in every
run (strong fairness: it may fail in any run). For payments (`WebhookFairness`): a
request that was accepted runs to its end, and the gateway keeps repeating the
settlement of the transaction an order names (strong fairness, since other requests
may keep the bound on calls busy). That repetition is what the comment at
payment/handler_helpers.go:98-104 relies on; without it `stuck_payment` shows what
happens. For events (`EventFairness`): a goroutine that can run does run. A client
need neither read nor leave, and nobody needs to broadcast. The workday's properties
are safety properties: the timer may be late and a run may never end.

## 5. The proofs

For every set of orders, drivers, transactions, employees, shifts, admins, streams,
channels, every map of outlets, price list and bucket, and every bound; the assumptions
are the named `ASSUME`s of the modules (NULL is no id, the bounds are natural numbers, at
least one bypass attempt, finitely many bypass rows, outlets and login attempts, positive
radii, prices and quantities, a bucket that is full again before it counts as stale, the
ticker is a sweeper, streams are not broadcasters; `MCWorkday` wants a work shift).

| Module | Proves |
|---|---|
| `OrderTypeProofs`, `OrderTaskProofs`, `OrderPaymentProofs`, `OrderLifecycleProofs` | the order pipeline, each module using the one before |
| `WorkdayProofs` | schedule, attendance, sweep |
| `PeopleProofs` | accounts, sessions, notices of the staff |
| `MakingProofs` | outlets, item counts, the order's page, login attempts, and the composition `MCPeople` |
| `ServiceProofs` | complaints, addresses, live events, and the composition `MCServices` |

Every invariant, action property and refinement that a passing run checks has its theorem here.

- `TypeCorrect`. `TypeOK` alone is not inductive: a synchronisation stores the
  transaction number of the row it read, which is a number only because every
  payment row has one (`PaymentRows`). `TypeInv` adds that.
- `TaskOrderAgreementHolds`. Inductive with `TypeInv`. Each writer of
  `orders` or `driver_tasks` moves both; the claim's unguarded update is safe since
  an available task fixes the order's status.
- `TaskKeepsDriverHolds`, from `TypeInv` and the agreement.
- `NoUnpaidDeliveryHolds`. The property speaks of the order; what must be
  carried along is every place a settlement is known or remembered: the row's link
  names a transaction of its own order, a settlement notice is of a settled
  transaction, a paid row, a request in flight that will write `paid`, and a packing
  transaction that saw `paid` all belong to an order that was settled (`MoneyInv`).
- `HistoryIsPathHolds`, from what a step may do to orders (`OrdersStep`): one
  order moves along the line and appends exactly that move.
- `PipelineImplementsLifecycle`: initial states map to initial states and each
  step to a step of `OrderLifecycle` or a stutter, by `OrdersStep` and `MoneyInv`.
- `WorkdayTypeCorrect`, `SweptHaveRowsHolds`, `SweepSeesScheduleHolds`,
  `WorkdayImplementsLedger`. The ledger's step `Come` wants a time on the row's own
  date and its `Leave` a row that has a check-in, and both are written from what an
  earlier check saw. So a request in flight must carry them (`VisitsInv`): its instant
  lies on its date, and whoever asked to leave had come. A row once checked in is never
  taken back, which is why the checks stay true although they are old. The sweep's
  property and the agreement of the two lookups need only the types.
- `ComplaintTypeCorrect`, `NewestNoticeIsStatusHolds`, `ResolverMatchesStatusHolds`. A
  stale review can write anything its old check allowed but `open`, and that is the fact
  to carry (`ReviewsMoveOn`); the lock makes status, resolver and notice change together,
  and no notice or transaction began later than now (`BegunByNow`), so the one that commits
  last leaves a notice that only transactions begun before its end can outrank.
- `EventTypeCorrect`, `NoSendOnClosedHolds`. While somebody sends nobody has the lock for
  writing and the receivers left are still registered (`ReadersFreeze`); whoever is
  registered has not closed (`RegisteredIsOpen`), because a stream closes what it has
  removed itself from. A stream that leaves has on its list every channel it is still
  registered for (`LeaversAreListed`), so none is left when it is gone.

- `OneWorklistOrHiddenHolds`, from the types and the agreement of tasks and orders, for
  every answer the one-row query may give.
- `BypassSettlesStationHolds`. Two facts are carried. An order is never again at a
  station it has left (`LeftBehind`), so a second approval of the same stay would need
  an order at a station that its history says it left; and a packing transaction that
  started from a review settles the request of its own order (`PackingsOwn`).
- `ForcedApprovalIsEarnedHolds`, where a station allows more than one attempt (with one,
  the first request is the last). What a filing or a request has counted is either a
  rejection, which stays one, or an approval, and then the order has left the station for
  good (`EarnedOrLate`); an approval needs it there.
- `OneCustomerPerGoogleHolds`, `EveryAccountReachableHolds`, `VerifiedOwnsEmailHolds`.
  Whoever a request or a token names has a row (`NamesRows`), rows are entered whole and
  never leave (`RowsWhole`). A token may be older than its customer's address; it is
  harmless because the change of address was itself proven (`OwnersInv`).
- `ChangeEndsAccessHolds`, `SessionsKnowRoleHolds`, `InactiveNeverActivatedHolds`.
  `token_version` counts the increments, and no version that a request has read or a token
  carries is ahead of it (`RowInv`, `RequestInv`). While no written role waits for its increment,
  whoever has the present version, a token or a request about to issue one, has the present
  role (`RolesInv`); before the activation nobody holds a session or the means to get one
  (`NoSessionYet`).
- `AddressTypeCorrect`. The types hold together with the rule that a primary address exists
  and is the only one (`AddressInv`). The address that inherits the flag is one of those
  left because of some addresses one is the last (`MostRecentIsOne`).
- `PrimaryLostByDeletionOnlyHolds` needs only the types: each action that clears the
  flag either sets another in the same transaction or deletes the address.
- `TotalMatchesItemsHolds`. A ProcessOrder in flight may hold rows and prices that the
  catalogue no longer has, but its items and its total come from the same rows, and only
  the one that moves the order on writes them. What the rows cost stays opaque: that
  the same rows cost the same is all that is used.
- `DetailIsCoherentHolds`. The order's own parts tell one story (`StoryInv`), in which
  weight and breakdown come together or not at all, and which only grows, and what a page has shown so far is part of it (`PagesInv`); so a part read
  later cannot lack what an earlier one makes necessary.
- `OutletIsToldHolds`. What a call has done is kept as two sets, who is off its list and
  what rows it has (`CallInv`): inside a transaction the first is the second, and the rows
  enter the table together at the commit. That a hard deletion waits for the rows of open
  transactions is what keeps them in step.

- `StaffTypeCorrect`, `DetailTypeCorrect`, `CountTypeCorrect`, `OutletTypeCorrect`,
  `LimitTypeCorrect`: the types, with what each of them rests on. The bucket's tokens never
  exceed what it holds although a refund may be credited at an instant before the last one;
  a request's items stay rows that exist because a foreign key keeps them.
- `StationJudgesCountHolds`. What an order counts has not been erased, since a foreign key
  holds it, and an item that is listed once is expected as its one row says
  (`ExpectedIsTheRow`), whichever row the loop over the rows takes last. That the loop over
  prices adds up to a number is `AmountType`.
- `ServedByNearestHolds`. `nearestOutlet` is the code's loop: it keeps the best outlet so
  far. After every round the best is an outlet of those passed, within its radius, and
  none of those passed is nearer (`NearestFound`), in whatever order the rows came.
- Both loops need an induction, and the library's induction theorems take an operator as a
  parameter. `Least`, `Reach` and `Rounds` get it from a theorem the provers can cite, that
  strict inclusion of finite sets is well-founded: a non-empty set of numbers has a least
  one, so a set with 0 that holds the successor of each of its members is `Nat`. `LoopRuns`
  says that a recursive function is what its equations say.
- `BudgetKeptHolds`: up to any instant no more attempts have failed, or still may, than a full
  bucket and the time since allow, `lag` included. The property counts attempts, the bucket tokens, and an eviction replaces a bucket. So `BudgetInv` keeps books for
  each bucket: from its birth on (`born`, `seen`), what the failed attempts took, what is
  still owed back to the refused and the successful and what the bucket is worth now together
  are at most what it held at first and has earned since. Each of reserve, refund and failure
  balances (`ReserveBooked`, `CancelBooked`, `FailBooked`). A bucket is evicted when it has been
  idle for long enough to be full, so the new one's first tokens were earned in the gap, and
  the books of consecutive buckets add up to the bound (`BudgetInvKept`).
- Compositions. TLC runs several components side by side in one specification, and the
  theorems above are about each on its own. `PeopleAreTheirParts` and
  `ServicesAreTheirParts` say that a behaviour of `MCPeople` or `MCServices` is one of each
  of its components, and `ScheduledSafe` that `MCWorkday`, whose schedule is set at the start,
  is covered by the workday's invariant; so `PeopleSafe` and `ServicesSafe` are about the very
  specifications the runs check.

Only model-checked: the four liveness properties (`ReceivedOrderCompletes`,
`SettlementAdvancesOrder`, `BroadcastReturns`, `LeaversGo`), since liveness under fairness
is beyond the prover.

## 6. Plan

1. (done) the order pipeline, its payments, its job, and their proofs.
2. (done) schedule, attendance and sweep, with the ledger's refinement; complaints;
   addresses; live events; the proofs above.
3. (done) accounts and sessions; catalogue and item counts; outlets and their choice;
   the order's page and the worklists; staff notifications; rate limits.
4. (done) proofs of the bypass invariants, accounts, sessions, addresses, item counts,
   the order's page and the notices.
5. (done) proofs of the rest of the safety properties: outlets, the stations' count, the
   budget of failed attempts, the remaining types, the compositions.
6. Left: what would repair the promises of the findings. With at most one claim per driver
   in flight `OneActiveTaskPerDriver` should hold, with one filing per order and station
   `AllowedAttemptsNeverAllRejected`, with one request and no failure `NeverWithoutPrimary`,
   with shifts that end on their day `OnShiftMayWork`; each is a theorem about the same
   model under one more assumption, and would show that the race is the only reason.

Not modelled: reports, histories and the paged listings (read-only queries from which
nothing is decided); the customer's name, phone and avatar (writes of one row);
geocoding, storage and e-mail (HTTP clients); region lists; configuration, routing and
helpers; generated interfaces, seeds and test fixtures.
